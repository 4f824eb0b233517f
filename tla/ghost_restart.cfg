SPECIFICATION Spec
CONSTANTS
  BUS_EL = 16
  ROW_EL = 32
  ROWS = 2
  RD_LATENCY = 1
  HbmWaits = {0}
  TopJobs <- MCDecodeJobs
  BenchJobs <- NoJobs
INVARIANTS RestsAfterRun
