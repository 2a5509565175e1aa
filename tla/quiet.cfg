SPECIFICATION QSpec
CONSTANTS
  Tag = {"v0", "v1", "v2", "test", "abc"}
  Release = {"v0", "v1", "v2"}
  Sha = {"abc"}
  Major <- MCMajor
  Minor <- MCMinor
  Patch <- MCPatch
  SortKey <- MCSortKey
  Digest = {"d1", "d2"}
  NoTag = ""
  NoDigest = ""
  Absent = "absent"
  Worker = "worker"
  Handlers = {"h1", "h2"}
  Requests <- QuietRequests
  InitialHubs <- OneRelease
  Pushes <- AnyPush
  Removable = {}
  EmptyDigestIsError = TRUE
  MaxChanges = 2
  MaxFaults = 1
  MaxCrashes = 1
  MaxPending = 1
INVARIANTS OwedIsVisible OneLaunchPerChange
PROPERTY KeepsPromise
CHECK_DEADLOCK FALSE
