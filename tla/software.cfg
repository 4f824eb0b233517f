SPECIFICATION MCSpec
CONSTANTS
  BATCH = 1
  SEQ_LEN = 3
  EMBED_DIM = 4
  INPUT_DIM = 2
  FFN_DIM = 3
  NUM_HEADS = 2
  PER_HEAD = 2
  NUM_ENC_LAYERS = 1
  NUM_DEN_LAYERS = 1
  TileSizes <- MCTileSizes
  Inputs <- MCInputs
  Seeds <- MCSeeds
  Rand <- MCRand
  SCALE_SHIFT = 1
  NUM_LAYERS = 2
  prefetch_dim = 3
  SEED = 1
  Vocabulary <- MCVocabulary
  MaxPrompt = 2
  MaxTokens = 4
  N_FFN = 6
  MAX_SEQ_LEN = 4
  WE = 2
  VOCAB = 3
  MAX_POS = 4
  Models <- MCModels
  Tensor <- MCTensor
  Prompts <- MCPrompts
  BankCounts = {1, 3, 4, 8}
INVARIANTS HeadsFollowWeights DecodeMatchesPrefill OperandsFound WithinHalfScale EmbeddingsPlaced BanksRoundTrip
CHECK_DEADLOCK FALSE
