SPECIFICATION MCFairSpec
CONSTANTS
  ROW_MAX = 4
  COL_MAX = 4
  LEN_MAX = 8
  RD_LATENCY = 3
  HBM_WORDS = 11
  Requests <- MCRequests
  N_ENG = 3
  TILE = 2
  ROWS = 4
  WORDS = 4
  NUM_CHUNKS = 2
  Walk <- MCWalk
  AdapterCells <- MCAdapterCells
  PF_ROW_MAX = 3
  PF_LEN_MAX = 4
  PF_HBM_WORDS = 13
  PrefetchRequests <- MCPrefetchRequests
  NONE = NONE
INVARIANTS FifoExact LastIsLast FlushSeesSums NoneOvertaken BeatsAgree
PROPERTIES AxiStable CopiesRectangle WritesOnce FillsRectangle
