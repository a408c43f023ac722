CONSTANTS
  f = f
  g = g
  b1 = b1
  b2 = b2
  FlowName = {f, g}
  Body = {b1, b2}
  NoName = NoName
  Gone = Gone
  Slot = {1, 2}
  MaxEdits = 1
  MaxForeign = 1
  MaxCalls = 2
SPECIFICATION SharedSpec
CHECK_DEADLOCK FALSE
PROPERTY EditsAreNotReloadedOver
