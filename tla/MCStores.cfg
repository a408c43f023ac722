CONSTANTS
  p = p
  q = q
  s = s
  t = t
  c = c
  d = d
  a = a
  b = b
  here = here
  there = there
  Process = {p, q}
  Secret = {s, t}
  Value = {1}
  Collection = {c, d}
  Id = {1, 2}
  Title = {a}
  Body = {b}
  Spot = {here, there}
  Laid = here
  None = None
  Garbled = Garbled
  Starts <- MCStarts
  MaxCalls = 3
  MaxMeddles = 1
SPECIFICATION StoresSpec
CHECK_DEADLOCK FALSE
SYMMETRY Symmetry
INVARIANT SecretsAreWhatWasSet
PROPERTY SavedWorkIsKept
