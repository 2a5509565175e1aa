SPECIFICATION HSpec
CONSTANTS
  Tag = {"v1", "v2", "test"}
  Release = {"v1", "v2"}
  Sha = {}
  Major <- MCMajor
  Minor <- MCMinor
  Patch <- MCPatch
  SortKey <- MCSortKey
  Digest = {"d1", "d2"}
  NoTag = ""
  NoDigest = ""
  Absent = "absent"
  Worker = "worker"
  Handlers = {"h1"}
  Requests <- AnyRequest
  InitialHubs <- OneRelease
  Pushes <- ReleaseOrBranch
  Removable = {"test"}
  EmptyDigestIsError = TRUE
  MaxChanges = 1
  MaxFaults = 1
  MaxCrashes = 1
  MaxPending = 2
INVARIANTS TypeOK PublishedOnly AcceptedPinWasStored NoAutoDeployWhileOff UndisturbedView
CHECK_DEADLOCK FALSE
