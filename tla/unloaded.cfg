SPECIFICATION AccSpec
CONSTANTS
  WE = 2
  HEAD_WORDS = 2
  NUM_HEADS = 2
  F_STRIDE = 8
  MAX_SEQ_LEN = 4
  NUM_ENC_LAYERS = 2
  ARCH = 0
  SINGLE_MATMUL = FALSE
  CFG_COL_SEQ = 2
  CFG_COL_MOD = 3
  CFG_COL_FFN = 4
  weight_base = 1000
  act_base = 0
  kv_base = 96
  TILE = 4
  URAM_ROWS = 4
  URAM_COL_WORDS = 8
  Preload = FALSE
  Jobs <- MCPrefill
  Latency <- MCLatency
  NONE = NONE
INVARIANTS OutputCorrect
