SPECIFICATION FairSpec
CONSTANTS
  Tag <- MCTag
  Release <- MCRelease
  Sha = {}
  Major <- MCMajor
  Minor <- MCMinor
  Patch <- MCPatch
  SortKey <- MCSortKey
  NoTag = ""
  Word = {"Bearer", "bearer", "Basic", "Realm", "realm", "service", "scope", "https", "auth", "token", "hub", "repository", "app", "pull", "push", "registry", "catalog", "*", "Registry", "basic"}
  Space = {" "}
  ToLower <- MCToLower
  Sites <- MCSites
  Scope <- MCScope
  MaxChanges = 2
  MaxFaults = 1
INVARIANTS TypeOK ListedIsHeld NoDuplicates LatestIsRecent TokenAskedOfService FailsWithExcuse
PROPERTY ListingEnds
CHECK_DEADLOCK FALSE
