SPECIFICATION Spec
CONSTANTS
  Task = {"registrywatcher", "registrywatcher-ui"}
  Repo = {"registrywatcher", "registrywatcher-ui"}
  TaskOf <- OwnJob
  UiTask = "registrywatcher-ui"
  UiRepo = "registrywatcher-ui"
  Tag = {"v1", "v2"}
  Call = {"c1"}
  Restarts = {"unset"}
  MaxFaults = 0
INVARIANT OwnImage
CHECK_DEADLOCK FALSE
