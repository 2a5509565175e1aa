SPECIFICATION FairSpec
CONSTANTS
  Task = {"api-task", "web-task"}
  Repo = {"api", "web", "gone"}
  TaskOf <- SharedJob
  UiTask = "registrywatcher-ui"
  UiRepo = "registrywatcher-ui"
  Tag = {"v1", "v2"}
  Call = {"c1"}
  Restarts = {"unset", "foo", "bar"}
  MaxFaults = 0
PROPERTY MonitorEnds
CHECK_DEADLOCK FALSE
