SPECIFICATION Spec
CONSTANTS
  Task = {"api-task", "web-task"}
  Repo = {"api", "web", "gone"}
  TaskOf <- SharedJob
  UiTask = "registrywatcher-ui"
  UiRepo = "registrywatcher-ui"
  Tag = {"v1", "v2"}
  Call = {"c1", "c2"}
  Restarts = {"unset", "foo", "bar"}
  MaxFaults = 1
INVARIANTS OwnImage ReportedOnce
PROPERTY UndisturbedUpdate
CHECK_DEADLOCK FALSE
