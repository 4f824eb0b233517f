------------------------------ MODULE Transformer ------------------------------
(***************************************************************************)
(* verify/golden/transformer.py: the forward pass of the golden model, one *)
(* action per stage of a layer.  Encoder and denoiser layers run the same  *)
(* stages.                                                                 *)
(*                                                                         *)
(* The pass is run twice, in step, on one input.  Copy 2 has another tile  *)
(* size, and may have its heads in another order, in the weights.          *)
(***************************************************************************)
EXTENDS Golden, Sequences, TLC

CONSTANTS
  BATCH, SEQ_LEN, MODEL_DIM, INPUT_DIM, F_DIM, NUM_HEADS, HEAD_DIM,
  NUM_ENC_LAYERS, NUM_DEN_LAYERS,
  TileSizes,        \* the TILE_SIZEs of the two copies, as a pair
  Inputs,           \* input matrices of INT8, of INPUT_DIM or MODEL_DIM columns
  Seeds,
  Rand(_, _, _, _)  \* the INT8 drawn for a seed, a matrix, a row and a column

BT == BATCH * SEQ_LEN
Layers == NUM_ENC_LAYERS + NUM_DEN_LAYERS
Copies == {1, 2}

ConfigAssumption ==
  /\ {BATCH, SEQ_LEN, MODEL_DIM, INPUT_DIM, F_DIM, NUM_HEADS, HEAD_DIM} \subseteq Nat \ {0}
  /\ {NUM_ENC_LAYERS, NUM_DEN_LAYERS} \subseteq Nat
  /\ MODEL_DIM = NUM_HEADS * HEAD_DIM
  /\ \A pair \in TileSizes : {pair[1], pair[2]} \subseteq Nat \ {0}

VARIABLES
  input, order, tile_size, seed, skip_frontend_proj,    \* the arguments
  stage, layer, head,                                   \* where the pass is
  inter                                                 \* intermediates, per copy

arguments == <<input, order, tile_size, seed, skip_frontend_proj>>
vars == <<arguments, stage, layer, head, inter>>

-----------------------------------------------------------------------------
(* Weights: generate_random_weights draws each element from -128 .. 127.   *)

Weight(name, rows, cols) == Matrix(rows, cols, LAMBDA i, j : Rand(seed, name, i, j))
W(key, name, rows, cols) == Weight(<<key, name>>, rows, cols)
Frontend == -1                  \* the key of the one matrix outside the layers
Vec(key, name) == Weight(<<key, name>>, 1, MODEL_DIM)[0]

\* Copy 2 is given head order[h] as its head h: the columns that make Q, K and V and
\* the rows that take attn_concat move with it.
Lane(c, d) == IF c = 1 THEN d ELSE order[d \div HEAD_DIM] * HEAD_DIM + (d % HEAD_DIM)
HeadsWeight(c, w) ==
  LET drawn == W(layer, w, MODEL_DIM, MODEL_DIM)
  IN Matrix(MODEL_DIM, MODEL_DIM, LAMBDA i, j :
       IF w = "W_o" THEN drawn[Lane(c, i)][j] ELSE drawn[i][Lane(c, j)])

-----------------------------------------------------------------------------
(* Matrix helpers                                                          *)

MapMatrix(mat, Op(_)) == Matrix(Rows(mat), Cols(mat), LAMBDA i, j : Op(mat[i][j]))

int16_to_int8_matrix(mat) == MapMatrix(mat, int8)

\* Mutant of head_slice: the heads overlap.
head_slice_Overlap(mat, h) ==
  Matrix(BT, HEAD_DIM, LAMBDA t, d : int8(mat[t][h * (HEAD_DIM - 1) + d]))
head_slice(mat, h) ==
  Matrix(BT, HEAD_DIM, LAMBDA t, d : int8(mat[t][h * HEAD_DIM + d]))

\* Tile (ti, tj) of the result is the product of the slices with the full K width.
tiled_matmul(mat_a, mat_b, tile_size_) ==
  LET M == Rows(mat_a)
      N == Cols(mat_b)
      K == Cols(mat_a)
      cut(size, t) == IF size - t < tile_size_ THEN size - t ELSE tile_size_
      starts(size) == {t \in range(size) : t % tile_size_ = 0}
      tile == [t \in starts(M) \X starts(N) |->
        matmul_golden(
          Matrix(cut(M, t[1]), K, LAMBDA r, k : int8(mat_a[t[1] + r][k])),
          Matrix(K, cut(N, t[2]), LAMBDA k, c : int8(mat_b[k][t[2] + c])))]
  IN Matrix(M, N, LAMBDA i, j :
       tile[i - (i % tile_size_), j - (j % tile_size_)][i % tile_size_][j % tile_size_])

\* layernorm_golden on each row, its unsigned results read as INT8.
LayerNormRows(mat, gamma, beta) ==
  [t \in range(BT) |->
     LET normed == layernorm_golden(mat[t], gamma, beta, MODEL_DIM)
     IN [i \in range(MODEL_DIM) |-> int8(normed[i])]]

-----------------------------------------------------------------------------
Unset == [r \in {} |-> 0]
NoIntermediates ==
  [x |-> Unset, residual_pre_attn |-> Unset, Q |-> Unset, K |-> Unset, V |-> Unset,
   attn_scores |-> Unset, attn_probs |-> Unset, attn_concat |-> Unset,
   attn_proj |-> Unset, residual1 |-> Unset, ln1 |-> Unset, ffn1 |-> Unset,
   ffn_act |-> Unset, ffn2 |-> Unset, residual2 |-> Unset, ln2 |-> Unset]

Init ==
  /\ skip_frontend_proj \in BOOLEAN /\ seed \in Seeds
  /\ input \in {mat \in Inputs :
                 Cols(mat) = IF skip_frontend_proj THEN MODEL_DIM ELSE INPUT_DIM}
  /\ order \in Permutations(range(NUM_HEADS))
  /\ tile_size \in TileSizes
  /\ stage = "frontend" /\ layer = 0 /\ head = 0
  /\ inter = [c \in Copies |-> NoIntermediates]

\* No input, and nothing to do.
NoRun ==
  /\ input = <<>> /\ order = <<>> /\ tile_size = <<1, 1>> /\ seed = 0
  /\ skip_frontend_proj = FALSE /\ stage = "output" /\ layer = Layers /\ head = 0
  /\ inter = [c \in Copies |-> NoIntermediates]

\* A stage of both copies: the intermediate name becomes Value(copy).
Set(name, Value(_)) == inter' = [c \in Copies |-> [inter[c] EXCEPT ![name] = Value(c)]]
MatMul(c, a, b) == tiled_matmul(a, b, tile_size[c])

At(name) == stage = name /\ UNCHANGED arguments
Then(name) == stage' = name /\ UNCHANGED <<layer, head>>

FrontendProjection ==
  /\ At("frontend") /\ Then(IF Layers = 0 THEN "output" ELSE "qkv")
  /\ Set("x", LAMBDA c :
       IF skip_frontend_proj THEN MapMatrix(input, int16)
       ELSE MatMul(c, input, W(Frontend, "W_proj", INPUT_DIM, MODEL_DIM)))

QKVProjections ==
  /\ At("qkv") /\ stage' = "head" /\ head' = 0 /\ UNCHANGED layer
  /\ inter' = [c \in Copies |->
       LET x_int8 == int16_to_int8_matrix(inter[c].x)
           proj(w) == MatMul(c, x_int8, HeadsWeight(c, w))
       IN [inter[c] EXCEPT
             !.residual_pre_attn = inter[c].x,
             !.Q = proj("W_q"), !.K = proj("W_k"), !.V = proj("W_v"),
             !.attn_concat = Matrix(BT, MODEL_DIM, LAMBDA t, d : 0)]]

\* row_idx is left out: no row is masked.
Probs(scores) == [t \in range(BT) |-> softmax_golden(scores[t], 0, NoRow)]

\* One head: scores, softmax per row, the head's columns of attn_concat.
AttentionHead ==
  /\ At("head") /\ UNCHANGED layer
  /\ inter' = [c \in Copies |->
       LET q_head == head_slice(inter[c].Q, head)
           k_T == transpose(head_slice(inter[c].K, head))
           scores == MatMul(c, q_head, k_T)
           probs == Probs(scores)
           attn_out == MatMul(c, int16_to_int8_matrix(probs), head_slice(inter[c].V, head))
           first == head * HEAD_DIM
       IN [inter[c] EXCEPT
             !.attn_scores = scores, !.attn_probs = probs,
             !.attn_concat = Matrix(BT, MODEL_DIM, LAMBDA t, d :
                IF d \in first .. first + HEAD_DIM - 1
                  THEN attn_out[t][d - first] ELSE inter[c].attn_concat[t][d])]]
  /\ IF head = NUM_HEADS - 1 THEN stage' = "proj" /\ UNCHANGED head
     ELSE stage' = stage /\ head' = head + 1

OutputProjection ==
  /\ At("proj") /\ Then("res1")
  /\ Set("attn_proj", LAMBDA c :
       MatMul(c, int16_to_int8_matrix(inter[c].attn_concat),
              HeadsWeight(c, "W_o")))

AttentionResidual ==
  /\ At("res1") /\ Then("ln1")
  /\ Set("residual1", LAMBDA c :
       AddRows(inter[c].residual_pre_attn, inter[c].attn_proj))

LayerNorm1 ==
  /\ At("ln1") /\ Then("ffn1")
  /\ Set("ln1", LAMBDA c :
       LayerNormRows(inter[c].residual1, Vec(layer, "gamma1"), Vec(layer, "beta1")))

FFN1 ==
  /\ At("ffn1") /\ Then("relu")
  /\ Set("ffn1", LAMBDA c : MatMul(c, inter[c].ln1, W(layer, "W_ffn1", MODEL_DIM, F_DIM)))

Activation ==
  /\ At("relu") /\ Then("ffn2")
  /\ Set("ffn_act", LAMBDA c : MapMatrix(inter[c].ffn1, relu_golden))

FFN2 ==
  /\ At("ffn2") /\ Then("res2")
  /\ Set("ffn2", LAMBDA c :
       MatMul(c, int16_to_int8_matrix(inter[c].ffn_act),
              W(layer, "W_ffn2", F_DIM, MODEL_DIM)))

FeedForwardResidual ==
  /\ At("res2") /\ Then("ln2")
  /\ Set("residual2", LAMBDA c : AddRows(MapMatrix(inter[c].ln1, int16), inter[c].ffn2))

\* The last stage of a layer also makes its output the next layer's input.
LayerNorm2 ==
  /\ At("ln2")
  /\ inter' = [c \in Copies |->
       LET normed == LayerNormRows(inter[c].residual2, Vec(layer, "gamma2"),
                                   Vec(layer, "beta2"))
       IN [inter[c] EXCEPT !.ln2 = normed, !.x = MapMatrix(normed, int16)]]
  /\ layer' = layer + 1 /\ UNCHANGED head
  /\ stage' = IF layer = Layers - 1 THEN "output" ELSE "qkv"

Next == \/ FrontendProjection \/ QKVProjections \/ AttentionHead \/ OutputProjection
        \/ AttentionResidual \/ LayerNorm1 \/ FFN1 \/ Activation \/ FFN2
        \/ FeedForwardResidual \/ LayerNorm2

Spec == Init /\ [][Next]_vars

-----------------------------------------------------------------------------
(* Properties.                                                             *)

Names == DOMAIN NoIntermediates

\* Token t has the same row in both copies, the columns of a head where the head went.
SameRow(n, t) ==
  \A d \in DOMAIN inter[2][n][t] :
    inter[2][n][t][d] = inter[1][n][t][
      IF n \in {"Q", "K", "V", "attn_concat"} THEN Lane(2, d) ELSE d]

\* The stages to compare: the scores are of one head, and attn_concat is being filled
\* while there are heads to do.
PerToken == Names \ ({"attn_scores", "attn_probs"}
                     \cup IF stage = "head" THEN {"attn_concat"} ELSE {})

\* Neither the size of a tile nor the place of a head in the matrices changes a
\* result: with another tile size and with its heads in another order the pass gives
\* every token the row it had at every stage.
HeadsFollowWeights == \A n \in PerToken : \A t \in DOMAIN inter[2][n] : SameRow(n, t)
=============================================================================
