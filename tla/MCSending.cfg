CONSTANTS
  home = home
  api = api
  other = other
  Origin = {home, api, other}
  Loopback = {home}
  Method = {"GET", "POST", "HEAD"}
  Draft <- MCDraft
  Recordings = {TRUE}
  Policy <- MCPolicy
  max_redirects = 2
  MaxCalls = 1
  MaxSteps = 1
  MaxEdits = 1
  Broken = Broken
SPECIFICATION SendingSpec
CHECK_DEADLOCK FALSE
INVARIANT AgentsReachOnlyAllowedHosts
INVARIANT CredentialsStayAtTheirOrigin
INVARIANT BodiesKeepTheirMethod
INVARIANT HistoryShowsWhatWasTried
PROPERTY CallsAreAnswered
