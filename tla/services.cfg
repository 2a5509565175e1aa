SPECIFICATION FairSpec
CONSTANTS
  Worker = {"a"}
  Request = {"r"}
  MaxToken = 6
  Length <- OneLonger
  MaxExpiries = 1
  MaxFaults = 1
  Repos <- TwoRepos
  CreateSchema = TRUE
  InitialRows <- OneIsNew
INVARIANTS TypeOK RowPerWorker StartFailsWithExcuse CrashOnlyWithoutToken RefusedOnlyIfDisturbed
PROPERTIES RowsSurviveStarts HubAnswersAgain
CHECK_DEADLOCK FALSE
