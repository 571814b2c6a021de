SPECIFICATION Spec
CONSTANTS
  MaxJobs = 1
  QueueCap = 1
  Units = 2
  FlushEvery = 2
  JobKinds = {"user_archive", "system_archive"}
  ArchiveMenus <- MenusMixed
  MaxCrashes = 1
  MaxFaults = 1
INVARIANT RecordsAreTrue
INVARIANT FollowUpsDone
PROPERTY SucceededPartStays
CHECK_DEADLOCK FALSE
