SPECIFICATION FairSpec
CONSTANTS
  BUS_EL = 4
  ROW_EL = 8
  ROWS = 2
  RD_LATENCY = 2
  HbmWaits = {0, 1, 3}
  TopJobs <- MCTopJobs
  BenchJobs <- MCBenchJobs
INVARIANTS ReadsCoherent NoLostAccess RowsGolden WeightsOrdered CosimMatches
PROPERTIES UnitFinishes
