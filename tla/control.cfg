SPECIFICATION FairSpec
CONSTANTS
  WE = 2
  HEAD_WORDS = 1
  NUM_HEADS = 2
  F_STRIDE = 4
  MAX_SEQ_LEN = 4
  NUM_ENC_LAYERS = 2
  ARCH = 0
  SINGLE_MATMUL = FALSE
  CFG_COL_SEQ = 2
  CFG_COL_MOD = 2
  CFG_COL_FFN = 3
  weight_base = 0
  act_base = 1000
  kv_base = 2000
  Jobs <- MCJobs
  Latency <- MCLatency
  NONE = NONE
INVARIANTS TypeOK OneOutstanding AtMostOneExecutor IdleIsClean
PROPERTIES StableCommands 
