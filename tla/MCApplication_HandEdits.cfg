CONSTANTS
  app = app
  here = here
  there = there
  Root = {here}
  Kind = {"project", "standalone"}
  Env = {1, 2}
  local = 2
  Target = {app}
  Allow = {0, 1}
  MaxEdits = 1
  MaxFaults = 1
  None = None
  Broken = Broken
SPECIFICATION ApplicationSpec
CHECK_DEADLOCK FALSE
PROPERTY HandEditsAreKept
