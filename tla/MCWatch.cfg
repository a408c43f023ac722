CONSTANTS
  b1 = b1
  b2 = b2
  f = f
  g = g
  Body = {b1, b2}
  FlowName = {f, g}
  NoName = NoName
  Broken = Broken
  Gone = Gone
  Unwritten = Unwritten
  MaxForeign = 1
  MaxCommands = 2
  Faults = {TRUE, FALSE}
SPECIFICATION WatchFairSpec
CHECK_DEADLOCK FALSE
INVARIANT DropsOnlyItsOwnContent
INVARIANT RenamesKeepTheFlow
PROPERTY ComesToKnowEveryFile
