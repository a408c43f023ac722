CONSTANTS
  a = a
  b = b
  c = c
  d = d
  x = x
  y = y
  NoNode = NoNode
  NoName = NoName
  Unset = Unset
  Seeded = Seeded
  NodeId <- MCNodeId
  Name <- MCName
  Runs <- MCRuns
  Environment = {}
  Recordings = {TRUE, FALSE}
  MaxRuns = 3
SPECIFICATION SessionSpec
CHECK_DEADLOCK FALSE
INVARIANT CanvasExplainsTheGate
INVARIANT RerunsFindTheirVariables
PROPERTY RunsSettle
