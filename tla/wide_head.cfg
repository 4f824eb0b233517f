SPECIFICATION Spec
CONSTANTS
  N_ENG = 1
  TILE = 2
  BUS_EL = 1
  PREFETCH_DIM = 4
  PF_ROWS = 4
  PF_COL_WORDS = 4
  URAM_ROWS = 4
  URAM_COL_WORDS = 6
  BURST_MAX = 8
  MatmulCommands <- MCScores
  NONE = NONE
INVARIANTS ProductAnswered
