SPECIFICATION FreeSpec
CONSTANTS
  Tag = {"v1", "v2", "test"}
  Release = {"v1", "v2"}
  Sha = {}
  Major <- MCMajor
  Minor <- MCMinor
  Patch <- MCPatch
  SortKey <- MCSortKey
  Digest = {"d1", "d2"}
  NoTag = ""
  NoDigest = ""
  Absent = "absent"
  Worker = "worker"
  Handlers = {"h1"}
  Requests <- Unpin
  InitialHubs <- OnlyABranch
  Pushes <- NewRelease
  Removable = {}
  EmptyDigestIsError = TRUE
  MaxChanges = 0
  MaxFaults = 0
  MaxCrashes = 0
  MaxPending = 1
INVARIANT EveryImageHasATag
CHECK_DEADLOCK FALSE
