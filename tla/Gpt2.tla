---------------------------------- MODULE Gpt2 ----------------------------------
(***************************************************************************)
(* verify/test_multi_layer.py: the golden model of the program the         *)
(* accelerator runs.  A prompt goes through every layer, then one token at *)
(* a time on the keys and values kept from the tokens before it.  One      *)
(* action is one call of a layer function.                                 *)
(***************************************************************************)
EXTENDS Golden

CONSTANTS
  MODEL_DIM, F_DIM, NUM_HEADS, HEAD_DIM, SCALE_SHIFT, NUM_LAYERS,
  prefetch_dim,     \* elements of K summed before a saturation
  SEED, Rand(_, _, _, _),
  Vocabulary,       \* the rows of INT8 that tokens are embedded as
  MaxPrompt, MaxTokens

\* What the sizes satisfy; the module that instantiates this one assumes it.
GptAssumption ==
  /\ {MODEL_DIM, F_DIM, NUM_HEADS, HEAD_DIM, NUM_LAYERS, prefetch_dim, MaxPrompt, MaxTokens}
        \subseteq Nat \ {0}
  /\ MODEL_DIM = NUM_HEADS * HEAD_DIM /\ SCALE_SHIFT \in Nat

VARIABLES
  embeds,           \* the embeddings of all the tokens so far
  stage, layer_idx, \* where the calls are
  inter,            \* intermediates of the layer, per run
  kv_caches         \* per layer, the rows of K and V

gptVars == <<embeds, stage, layer_idx, inter, kv_caches>>

\* The golden run, and beside it one that is given all the tokens as a prompt.
Runs == {"cached", "whole"}

W(l, name, rows, cols) == Matrix(rows, cols, LAMBDA i, j : Rand(SEED, <<l, name>>, i, j))

-----------------------------------------------------------------------------
(* tiled_matmul_int16_numpy: each chunk of K is summed in 32 bits and      *)
(* saturated, and the chunks are added with saturation.  The tiles of the  *)
(* result are left out: no element depends on the tile it is in.           *)

tiled_matmul_int16(mat_a, mat_b) ==
  LET K == Cols(mat_a)
      last == (K - 1) \div prefetch_dim
      size(kc) == IF kc = last THEN K - kc * prefetch_dim ELSE prefetch_dim
      term(i, j, k) == int16(mat_a[i][k]) * int16(mat_b[k][j])
      partial(i, j, kc) ==
        saturate_int16(Sum32([k \in range(size(kc)) |-> term(i, j, kc * prefetch_dim + k)],
                             size(kc)))
      element(i, j) ==
        LET acc[kc \in 0 .. last] ==
              IF kc = 0 THEN partial(i, j, 0)
              ELSE saturating_add(acc[kc - 1], partial(i, j, kc))
        IN acc[last]
  IN Matrix(Rows(mat_a), Cols(mat_b), element)

-----------------------------------------------------------------------------
(* A layer.                                                                *)

LayerNorm(mat, gamma, beta) ==
  [t \in DOMAIN mat |-> layernorm_golden(mat[t], gamma[0], beta[0], MODEL_DIM)]

columns(mat, h) == Matrix(Rows(mat), HEAD_DIM, LAMBDA t, d : mat[t][h * HEAD_DIM + d])

\* Mutant of row_idx: the new token is masked as if it were the first.
row_idx_Local(cache_len, t) == t
\* Row t of a call sees the cached tokens and those of the call up to itself.
row_idx(cache_len, t) == cache_len + t

\* K_cache + K_new
Extended(rows, new) ==
  [t \in range(Rows(rows) + Rows(new)) |->
     IF t < Rows(rows) THEN rows[t] ELSE new[t - Rows(rows)]]

NoCache == [K |-> <<>>, V |-> <<>>]
Cache(r) == IF r = "cached" THEN kv_caches[layer_idx] ELSE NoCache

Heads == range(NUM_HEADS)
Weight(name) == W(layer_idx, name, MODEL_DIM, MODEL_DIM)
Vec(name) == W(layer_idx, name, 1, MODEL_DIM)

Fresh(rows) ==
  [x |-> rows, ln1 |-> <<>>, Q |-> <<>>, K |-> <<>>, V |-> <<>>, scores |-> <<>>,
   probs |-> <<>>, attn |-> <<>>, residual1 |-> <<>>, ln2 |-> <<>>, ffn_act |-> <<>>]

At(name) == stage = name /\ UNCHANGED <<embeds, layer_idx, kv_caches>>
\* A stage of both runs: the intermediate name becomes Value(intermediates).
Becomes(name, Value(_)) ==
  inter' = [r \in Runs |-> [inter[r] EXCEPT ![name] = Value(inter[r])]]

LN1 == /\ At("ln1") /\ stage' = "qkv"
       /\ Becomes("ln1", LAMBDA i : LayerNorm(i.x, Vec("gamma1"), Vec("beta1")))

\* K and V are those of the cached tokens and, after them, of the new ones.
QKV ==
  /\ At("qkv") /\ stage' = "scores"
  /\ inter' = [r \in Runs |->
       LET proj(name) == tiled_matmul_int16(inter[r].ln1, Weight(name))
       IN [inter[r] EXCEPT !.Q = proj("W_q"),
                           !.K = Extended(Cache(r).K, proj("W_k")),
                           !.V = Extended(Cache(r).V, proj("W_v"))]]

Scores ==
  /\ At("scores") /\ stage' = "probs"
  /\ Becomes("scores", LAMBDA i : [h \in Heads |->
       tiled_matmul_int16(columns(i.Q, h), transpose(columns(i.K, h)))])

Probs ==
  /\ At("probs") /\ stage' = "attn"
  /\ inter' = [r \in Runs |-> [inter[r] EXCEPT !.probs =
       [h \in Heads |-> [t \in DOMAIN inter[r].scores[h] |->
          softmax_golden(inter[r].scores[h][t], SCALE_SHIFT,
                         row_idx(Rows(Cache(r).K), t))]]]]

AttentionOutput ==
  /\ At("attn") /\ stage' = "res1"
  /\ Becomes("attn", LAMBDA i :
       LET attn == [h \in Heads |-> tiled_matmul_int16(i.probs[h], columns(i.V, h))]
       IN Matrix(Rows(i.x), MODEL_DIM,
                 LAMBDA t, d : attn[d \div HEAD_DIM][t][d % HEAD_DIM]))

Residual1 ==
  /\ At("res1") /\ stage' = "ln2"
  /\ Becomes("residual1", LAMBDA i : AddRows(i.x, tiled_matmul_int16(i.attn, Weight("W_o"))))

LN2 == /\ At("ln2") /\ stage' = "ffn1"
       /\ Becomes("ln2", LAMBDA i : LayerNorm(i.residual1, Vec("gamma2"), Vec("beta2")))

FFN1 ==
  /\ At("ffn1") /\ stage' = "res2"
  /\ Becomes("ffn_act", LAMBDA i :
       LET ffn1 == tiled_matmul_int16(i.ln2, W(layer_idx, "W_ffn1", MODEL_DIM, F_DIM))
       IN Matrix(Rows(ffn1), F_DIM, LAMBDA t, f : relu_golden(ffn1[t][f])))

\* The call returns, and its rows are the next layer's.
Residual2 ==
  /\ stage = "res2" /\ UNCHANGED embeds
  /\ inter' = [r \in Runs |->
       LET ffn2 == tiled_matmul_int16(inter[r].ffn_act,
                                      W(layer_idx, "W_ffn2", F_DIM, MODEL_DIM))
       IN Fresh(AddRows(inter[r].residual1, ffn2))]
  /\ kv_caches' = [kv_caches EXCEPT
                     ![layer_idx] = [K |-> inter["cached"].K, V |-> inter["cached"].V]]
  /\ layer_idx' = layer_idx + 1
  /\ stage' = IF layer_idx = NUM_LAYERS - 1 THEN "done" ELSE "ln1"

-----------------------------------------------------------------------------
Start(tokens) == /\ embeds = tokens /\ layer_idx = 0
                 /\ inter = [r \in Runs |-> Fresh(tokens)]
                 /\ kv_caches = [l \in range(NUM_LAYERS) |-> NoCache]

Init == stage = "ln1" /\ \E n \in 1 .. MaxPrompt, p \in [range(MaxPrompt) -> Vocabulary] :
                            Start([t \in range(n) |-> p[t]])

\* No prompt, and nothing to do.
NoRun == stage = "done" /\ Start(<<>>)

DecodeToken ==
  /\ stage = "done" /\ Rows(embeds) \in 1 .. MaxTokens - 1
  /\ \E e \in Vocabulary :
       LET row == [t \in {0} |-> e]
       IN /\ embeds' = Extended(embeds, row)
          /\ inter' = [cached |-> Fresh(row), whole |-> Fresh(embeds')]
  /\ stage' = "ln1" /\ layer_idx' = 0 /\ UNCHANGED kv_caches

Next == \/ LN1 \/ QKV \/ Scores \/ Probs \/ AttentionOutput \/ Residual1
        \/ LN2 \/ FFN1 \/ Residual2 \/ DecodeToken

Spec == Init /\ [][Next]_gptVars

-----------------------------------------------------------------------------
(* Properties.                                                             *)

\* A token decoded on the caches of the tokens before it has, at every stage of
\* every layer, the row it has when all of them are one prompt: the masked columns
\* of a prompt weigh nothing, through chunks and saturations, and what was cached
\* for a token does not depend on the tokens that came after it.
DecodeMatchesPrefill ==
  LET cached == inter["cached"]
      whole == inter["whole"]
      first == Rows(embeds) - Rows(cached.x)
      same(a, b) == \A t \in DOMAIN a : a[t] = b[first + t]
  IN /\ \A n \in {"x", "ln1", "Q", "attn", "residual1", "ln2", "ffn_act"} :
          same(cached[n], whole[n])
     /\ cached.K = whole.K /\ cached.V = whole.V
     /\ \A n \in {"scores", "probs"} : \A h \in DOMAIN cached[n] :
          same(cached[n][h], whole[n][h])
=============================================================================
