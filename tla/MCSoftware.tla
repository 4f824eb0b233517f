------------------------------ MODULE MCSoftware ------------------------------
(* The programs around the FPGA, each in runs of its own: the two golden forward *)
(* passes, Transformer on three tokens, one encoder and one denoiser layer, and  *)
(* Gpt2 on prompts of one or two tokens and decodes up to four; and WeightLayout *)
(* on two layers.  All have two heads.                                           *)
EXTENDS Golden, Sequences

CONSTANTS BATCH, SEQ_LEN, EMBED_DIM, INPUT_DIM, FFN_DIM, NUM_HEADS, PER_HEAD, NUM_ENC_LAYERS,
          NUM_DEN_LAYERS, TileSizes, Inputs, Seeds, Rand(_, _, _, _),
          SCALE_SHIFT, NUM_LAYERS, prefetch_dim, SEED, Vocabulary, MaxPrompt, MaxTokens,
          N_FFN, MAX_SEQ_LEN, WE, VOCAB, MAX_POS, Models, Tensor(_, _, _, _), Prompts,
          BankCounts

VARIABLES input, order, tile_size, seed, skip_frontend_proj, stage, layer, head, inter
VARIABLES embeds, gpt_stage, layer_idx, gpt_inter, kv_caches
VARIABLES model, phase, packed_idx, call, wgt_buf, weight_map, read_idx, got, embedded, banks

Pass == INSTANCE Transformer
  WITH MODEL_DIM <- EMBED_DIM, F_DIM <- FFN_DIM, HEAD_DIM <- PER_HEAD
Gpt == INSTANCE Gpt2
  WITH MODEL_DIM <- EMBED_DIM, F_DIM <- FFN_DIM, HEAD_DIM <- PER_HEAD,
       stage <- gpt_stage, inter <- gpt_inter
Layout == INSTANCE WeightLayout WITH N_EMBD <- EMBED_DIM, layer_idx <- packed_idx
ASSUME Pass!ConfigAssumption /\ Gpt!GptAssumption /\ Layout!LayoutAssumption

passVars == <<input, order, tile_size, seed, skip_frontend_proj, stage, layer, head, inter>>
gptVars == <<embeds, gpt_stage, layer_idx, gpt_inter, kv_caches>>
layoutVars == <<model, phase, packed_idx, call, wgt_buf, weight_map, read_idx, got, embedded,
                banks>>

-----------------------------------------------------------------------------
(* The golden passes.                                                      *)

\* A small generator in place of random.Random.
MCRand(s, name, i, j) ==
  LET key == CASE name[2] = "W_proj" -> 3 [] name[2] = "W_q" -> 5 [] name[2] = "W_k" -> 11
               [] name[2] = "W_v" -> 17 [] name[2] = "W_o" -> 23 [] name[2] = "W_ffn1" -> 29
               [] name[2] = "W_ffn2" -> 37 [] name[2] = "gamma1" -> 41
               [] name[2] = "beta1" -> 43 [] name[2] = "gamma2" -> 47 [] OTHER -> 53
      n == s + 7 * key + 13 * i + 31 * j + (IF name[1] = 1 THEN 19 ELSE 0)
  IN ((n * n * 89 + 57 * n) % 256) - 128

Mat(rows) == [t \in range(Len(rows)) |-> [i \in range(Len(rows[1])) |-> rows[t + 1][i + 1]]]

\* Two inputs of two columns, to be projected, and two of four, used as they are.
MCInputs == {Mat(<<<<127, -128>>, <<3, -4>>, <<5, 0>>>>),
             Mat(<<<<127, -128>>, <<127, 127>>, <<-128, -128>>>>),
             Mat(<<<<127, 127, -128, 5>>, <<0, 90, 17, -60>>, <<-1, 1, 100, -100>>>>),
             Mat(<<<<127, 127, -128, 5>>, <<-128, 9, 64, -33>>, <<0, 0, 1, 0>>>>)}

MCTileSizes == {<<1, 2>>, <<4, 3>>}
MCSeeds == {1, 2}

\* Rows of one sign and of both, small and at the ends of INT8.
MCVocabulary == {[i \in 0 .. 3 |-> r[i + 1]] :
                   r \in {<<1, 2, 3, -4>>, <<127, -128, 90, 0>>, <<-60, 17, 127, 127>>}}

-----------------------------------------------------------------------------
(* The layout: elements of both signs, ties, and a zero tensor.            *)

Code(name) ==
  CASE name = "c_attn" -> 3 [] name = "attn.c_proj" -> 5 [] name = "c_fc" -> 7
    [] name = "mlp.c_proj" -> 11 [] name = "ln1_g" -> 13 [] name = "ln1_b" -> 17
    [] name = "ln2_g" -> 19 [] name = "ln2_b" -> 23 [] name = "wte" -> 29
    [] name = "wpe" -> 31 [] OTHER -> 37

MCTensor(m, name, i, j) ==
  LET n == m + 7 * Code(name[2]) + 13 * i + 31 * j + 101 * name[1]
  IN IF m = 0 /\ name[2] = "ln1_b" THEN 0 ELSE ((n * n * 89 + 57 * n) % 509) - 254

MCModels == 0 .. 3
MCPrompts == {[ids |-> <<2, 0, 2>>, start_pos |-> 0], [ids |-> <<1>>, start_pos |-> 3]}

-----------------------------------------------------------------------------
(* One of the three runs; the others have nothing to do.                   *)

MCInit == \/ Pass!Init /\ Gpt!NoRun /\ Layout!NoRun
          \/ Pass!NoRun /\ Gpt!Init /\ Layout!NoRun
          \/ Pass!NoRun /\ Gpt!NoRun /\ Layout!Init

MCNext == \/ Pass!Next /\ UNCHANGED <<gptVars, layoutVars>>
          \/ Gpt!Next /\ UNCHANGED <<passVars, layoutVars>>
          \/ Layout!Next /\ UNCHANGED <<passVars, gptVars>>

MCSpec == MCInit /\ [][MCNext]_<<passVars, gptVars, layoutVars>>

\* The size of a tile and the place of a head in the weights change no token's row.
HeadsFollowWeights == Pass!HeadsFollowWeights

\* A decode on the key and value caches computes the rows the whole text gives as
\* one prompt (test_multi_layer.py's two golden layer functions).
DecodeMatchesPrefill == Gpt!DecodeMatchesPrefill

\* The controller reads every operand where the exporter packed it.
OperandsFound == Layout!OperandsFound

\* No weight is off by more than half a quantisation step.
WithinHalfScale == Layout!WithinHalfScale

\* The first step reads the embeddings that the host computed for the prompt.
EmbeddingsPlaced == Layout!EmbeddingsPlaced

\* bram_layout.py reads back what it wrote.
BanksRoundTrip == Layout!BanksRoundTrip
=============================================================================
