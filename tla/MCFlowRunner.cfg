CONSTANTS
  a = a
  b = b
  c = c
  d = d
  x = x
  y = y
  env = env
  NoNode = NoNode
  NoName = NoName
  Unset = Unset
  Seeded = Seeded
  NodeId <- MCNodeId
  Name <- MCName
  Runs <- MCRuns
  Environment = {env}
  Recordings = {TRUE}
SPECIFICATION Spec
CHECK_DEADLOCK FALSE
INVARIANT TypeOK
INVARIANT StepsFollowWhatFeedsThem
INVARIANT NothingRunsBehindAFailure
INVARIANT SkipsNameTheirCause
INVARIANT RanExactlyWhatItReached
INVARIANT ScopeIsWhatPassed
INVARIANT HistoryIsWhatWasSent
INVARIANT RefusedExactlyIfUnrunnable
INVARIANT OrderIsTheDocuments
INVARIANT CleanFlowsLackOnlyWhatDidNotPass
INVARIANT WarnedStepsNeverPass
PROPERTY KeepsThePromise
