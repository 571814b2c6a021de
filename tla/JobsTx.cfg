SPECIFICATION FairSpec
CONSTANTS
  MaxJobs = 2
  QueueCap = 1
  Units = 1
  FlushEvery = 1
  JobKinds = {"append", "replace"}
  ArchiveMenus = {}
  MaxCrashes = 1
  MaxFaults = 1
INVARIANT RecordsAreTrue
INVARIANT QueueIsSound
INVARIANT StoredOncePerLife
PROPERTY TerminalIsFinal
PROPERTY AcceptedJobsFinish
CHECK_DEADLOCK FALSE
