CONSTANTS
  app = app
  here = here
  there = there
  Root = {here, there}
  Kind = {"project", "standalone"}
  Env = {1, 2}
  local = 2
  Target = {app}
  Allow = {0}
  MaxEdits = 2
  MaxFaults = 1
  None = None
  Broken = Broken
SPECIFICATION ApplicationSpec
CHECK_DEADLOCK FALSE
INVARIANT ChoicesAreOnDisk
INVARIANT WatchesWhatIsOpen
INVARIANT ScansAreOfTheOpenProject
PROPERTY EnrichEndsUnlessHeld
