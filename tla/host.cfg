SPECIFICATION FairSpec
CONSTANTS
  Params = {"SEQ_LEN", "CACHE_LEN"}
  Values <- MCValues
  JUNK = JUNK
  Hosts = {"sticky", "idle", "irq"}
  Gaps = {0, 1}
  RunTimes = {1, 2, 3, 4, 5, 6, 7, 8}
INVARIANTS JobAsConfigured RestsBetweenJobs
PROPERTIES DoneReported
