------------------------------ MODULE Accelerator ------------------------------
(***************************************************************************)
(* The whole accelerator, rtl/top_level.v: the control loop of ControlLoop *)
(* with the memories its executors read and write, and the host that loads *)
(* the embeddings.                                                         *)
(*                                                                         *)
(* A bus word is the symbolic value it is meant to be: "word col of the    *)
(* kind computed at layer for the token at position pos, after the tokens  *)
(* ctx".  An executor that is given the words it needs produces the next   *)
(* kind; given anything else it produces BAD.  An executor's effect on the *)
(* memories happens at the edge that ends its work.                        *)
(*                                                                         *)
(* Two history variables say what may be expected of the memories.  intact *)
(* holds until a start meets its unit's own done: the unit then works      *)
(* beside the next executor (ControlLoop's restarted), and the memories    *)
(* are followed no further.  sound says that the sequence in the memories  *)
(* was given by jobs that the step table computes for.                     *)
(***************************************************************************)
EXTENDS ControlLoop, Sequences, FiniteSets

CONSTANTS
  TILE,             \* TILE_SIZE of the matmul engines
  URAM_ROWS, URAM_COL_WORDS,
  Preload           \* TRUE: the host also writes the embeddings to the URAM

NUM_LAYERS == NUM_ENC_LAYERS
KEY_WORDS == (MAX_SEQ_LEN + WE - 1) \div WE

ASSUME AcceleratorAssumption ==
  /\ {TILE, URAM_ROWS, URAM_COL_WORDS} \subseteq Nat \ {0}
  /\ TILE % WE = 0 /\ Preload \in BOOLEAN
  /\ ARCH = 0

VARIABLES
  hbm,              \* the activation and KV cache regions
  uram,
  wb,               \* the adapter's dirty write buffer, or NONE
  dma_word,         \* act_dma's cached word and its tag, or NONE
  tokens,           \* the tokens of the sequence, each a bit its host flips
  intact,           \* no start has met a done
  sound             \* the jobs since the last prompt of a tile, which is one of
                    \* them, are Supported

memory == <<hbm, uram, wb, dma_word, tokens>>
history == <<intact, sound>>
accVars == <<vars, memory, history>>

V(kind, layer, pos, col, ctx) ==
  [kind |-> kind, layer |-> layer, pos |-> pos, col |-> col, ctx |-> ctx]
BAD == V("bad", 0, 0, 0, <<>>)
BLANK == V("blank", 0, 0, 0, <<>>)     \* a memory before it is written

\* A word computed from w: of another kind, in the same layer for the same token.
Computed(w, kind, col) == V(kind, w.layer, w.pos, col, w.ctx)

Prefix(s, n) == SubSeq(s, 1, n)

HbmWords == (act_base .. act_base + 6 * ACT_SLAB - 1)
              \cup (kv_base .. kv_base + NUM_LAYERS * KV_LAYER_SIZE - 1)
UramWords == (0 .. URAM_ROWS - 1) \X (0 .. URAM_COL_WORDS - 1)

\* Outside its two regions the HBM holds the weights, known by their address.
Hbm(a) == IF a \in HbmWords THEN hbm[a] ELSE V("weight", 0, 0, a, <<>>)

\* n words that are consecutive columns of one row of a matrix of that kind.
IsRow(w, n, kind) ==
  w[0].kind = kind /\ \A i \in 0 .. n - 1 : w[i] = [w[0] EXCEPT !.col = @ + i]

-----------------------------------------------------------------------------
(* The matmul unit.  It computes a product exactly for operands of the     *)
(* shapes for which TilingEngine implements MatmulContract.                *)

Exact(c) == /\ c.k % TILE = 0 /\ c.n % WE = 0
            /\ c.op = "OP_MATMUL_T" => c.k = TILE /\ c.n = TILE

\* The weight matrices: what each multiplies, and into what.
Weights ==
  { [off |-> LAYER_WQ_OFFSET, k |-> MODEL_DIM, n |-> MODEL_DIM, from |-> "ln1", to |-> "q"],
    [off |-> LAYER_WK_OFFSET, k |-> MODEL_DIM, n |-> MODEL_DIM, from |-> "ln1", to |-> "k"],
    [off |-> LAYER_WV_OFFSET, k |-> MODEL_DIM, n |-> MODEL_DIM, from |-> "ln1", to |-> "v"],
    [off |-> LAYER_WO_OFFSET, k |-> MODEL_DIM, n |-> MODEL_DIM, from |-> "att", to |-> "proj"],
    [off |-> LAYER_FFN1_OFFSET, k |-> MODEL_DIM, n |-> F_DIM, from |-> "ln2", to |-> "ffn1"],
    [off |-> LAYER_FFN2_OFFSET, k |-> F_DIM, n |-> MODEL_DIM, from |-> "relu", to |-> "ffn2"] }

ARow(c, i) == [j \in 0 .. c.k \div WE - 1 |-> Hbm(c.a_base + i * c.a_stride + j)]
BWord(c, t, j) == Hbm(c.b_base + t * c.b_stride + j)

\* Word col of row i of a product with a weight matrix.
Projected(c, i, col) ==
  LET a == ARow(c, i)
      used == {w \in Weights :
                 /\ c.b_base = weight_base + a[0].layer * LAYER_SIZE + w.off
                 /\ c.k = w.k /\ c.n = w.n /\ c.b_stride = w.n \div WE
                 /\ IsRow(a, w.k \div WE, w.from) /\ a[0].col = 0}
  IN IF used = {} THEN BAD
     ELSE Computed(a[0], (CHOOSE w \in used : TRUE).to, col)

\* The key or value word of the sequence's token t that goes with a's head.
KvWord(kind, a, t, col) == V(kind, a.layer, t, col, Prefix(a.ctx, t + 1))

\* Scores of row i against the keys of word col; keys after the row's own
\* position are masked by the softmax.
Score(c, i, col) ==
  LET a == ARow(c, i)
      head == a[0].col \div HEAD_WORDS
  IN IF /\ IsRow(a, HEAD_WORDS, "q") /\ a[0].col % HEAD_WORDS = 0
        /\ \A t \in col * WE .. col * WE + WE - 1 : t <= a[0].pos =>
             \A j \in 0 .. HEAD_WORDS - 1 :
               BWord(c, t, j) = KvWord("k", a[0], t, a[0].col + j)
       THEN Computed(a[0], "score", head * KEY_WORDS + col)
       ELSE BAD

\* Word col of the head's output for row i: probabilities times values.
Attended(c, i, col) ==
  LET a == ARow(c, i)
      out == (a[0].col \div KEY_WORDS) * HEAD_WORDS + col
  IN IF /\ IsRow(a, c.k \div WE, "prob") /\ a[0].col % KEY_WORDS = 0
        /\ a[0].pos < c.k
        /\ \A t \in 0 .. a[0].pos : BWord(c, t, col) = KvWord("v", a[0], t, out)
       THEN Computed(a[0], "att", out)
       ELSE BAD

Product(c, i, col) == CASE c.op = "OP_MATMUL" -> Projected(c, i, col)
                        [] c.op = "OP_MATMUL_T" -> Score(c, i, col)
                        [] OTHER -> Attended(c, i, col)

RoundUp(n, unit) == ((n + unit - 1) \div unit) * unit

\* Whole tiles are written: rows and columns beyond the product's are garbage.
MatmulEffect ==
  LET c == mm_cmd
      col(x) == x[2] - c.out_col_offset
  IN /\ uram' = [x \in UramWords |->
           IF x[1] < RoundUp(c.m, TILE)
                /\ col(x) \in 0 .. RoundUp(c.n, TILE) \div WE - 1
             THEN IF Exact(c) /\ x[1] < c.m /\ col(x) < c.n \div WE
                    THEN Product(c, x[1], col(x)) ELSE BAD
             ELSE uram[x]]
     /\ UNCHANGED <<hbm, wb, dma_word>>

FlushEffect ==
  LET target(r, j) == uf_cmd.base + r * uf_cmd.stride + j
      cells == (0 .. uf_cmd.rows) \X (0 .. uf_cmd.cols)
  IN /\ hbm' = [a \in HbmWords |->
           IF \E x \in cells : target(x[1], x[2]) = a
             THEN LET x == CHOOSE x \in cells : target(x[1], x[2]) = a
                      y == <<x[1], uf_cmd.start_col + x[2]>>
                  IN IF y \in UramWords THEN uram[y] ELSE BAD
             ELSE hbm[a]]
     /\ UNCHANGED <<uram, wb, dma_word>>

-----------------------------------------------------------------------------
(* The scalar units.  Their element addresses are offset by nm_addr_offset *)
(* (layernorm and softmax only) and cut into URAM row and column by the    *)
(* adapter.                                                                *)

Offset(u) == IF u \in {"ln", "sm"} THEN nm.addr_offset ELSE 0

WordOf(e) == <<e \div 2^nm.col_bits, (e % 2^nm.col_bits) \div WE>>

\* The adapter serves its dirty word; everything else comes from the URAM.
Uram(x) == IF wb # NONE /\ wb.at = x THEN wb.word
           ELSE IF x \in UramWords THEN uram[x] ELSE BAD

UnitWords == nm.dim \div WE
In(u) == [i \in 0 .. UnitWords - 1 |-> Uram(WordOf(Offset(u) + i * WE))]

\* act_dma: the tag of the cached word is its offset from the base.
DmaRead(i) == IF i = 0 /\ dma_word # NONE /\ dma_word.tag = 0
                THEN dma_word.word ELSE Hbm(nm.rd_base + i)

\* A whole row of x or of the first residual, with the layer's gamma and beta.
Normalized(i) ==
  LET w == In("ln")
      params(off) == \A j \in 0 .. UnitWords - 1 :
        DmaRead(j) = V("weight", 0, 0,
                       weight_base + w[0].layer * LAYER_SIZE + off + j, <<>>)
      is(kind, off) == /\ UnitWords = MODEL_STRIDE /\ w[0].col = 0
                       /\ IsRow(w, MODEL_STRIDE, kind) /\ params(off)
  IN CASE is("x", LAYER_LN1_OFFSET) -> [w[i] EXCEPT !.kind = "ln1"]
       [] is("mid", LAYER_LN2_OFFSET) -> [w[i] EXCEPT !.kind = "ln2"]
       [] OTHER -> BAD

\* The causal mask is right when row_idx is the row's position.
Softmaxed(i) ==
  LET w == In("sm")
  IN IF /\ w[0].col % KEY_WORDS = 0 /\ IsRow(w, UnitWords, "score")
        /\ nm.row_idx = w[0].pos /\ w[0].pos < nm.dim
       THEN [w[i] EXCEPT !.kind = "prob"] ELSE BAD

Rectified(i) == LET w == In("act")[i]
                IN IF w.kind = "ffn1" THEN [w EXCEPT !.kind = "relu"] ELSE BAD

\* Sublayer output plus what entered the sublayer.
Added(i) ==
  LET w == In("res")[i]
  IN CASE w.kind = "proj" /\ DmaRead(i) = [w EXCEPT !.kind = "x"] ->
            [w EXCEPT !.kind = "mid"]
       [] w.kind = "ffn2" /\ DmaRead(i) = [w EXCEPT !.kind = "mid"] ->
            [Computed(w, "x", w.col) EXCEPT !.layer = @ + 1]
       [] OTHER -> BAD

Output(u, i) == CASE u = "ln" -> Normalized(i)
                  [] u = "sm" -> Softmaxed(i)
                  [] u = "act" -> Rectified(i)
                  [] OTHER -> Added(i)

\* A unit that starts or ends inside a word leaves the rest of it zeroed.
Aligned(u) == Offset(u) % WE = 0 /\ nm.dim % WE = 0

\* The last word written stays in the write buffer until the adapter's flush.
UnitEffect(u) ==
  LET out == [x \in {WordOf(Offset(u) + e) : e \in 0 .. nm.dim - 1} |->
                IF Aligned(u)
                  THEN Output(u, CHOOSE i \in 0 .. UnitWords - 1 :
                                   WordOf(Offset(u) + i * WE) = x)
                  ELSE BAD]
      last == WordOf(Offset(u) + nm.dim - 1)
  IN /\ uram' = [x \in UramWords |->
                   IF x \in DOMAIN out \ {last} THEN out[x] ELSE Uram(x)]
     /\ wb' = [at |-> last, word |-> out[last]]
     /\ dma_word' = IF u \in {"ln", "res"}
                      THEN [tag |-> UnitWords - 1, word |-> DmaRead(UnitWords - 1)]
                      ELSE dma_word
     /\ UNCHANGED hbm

\* Mutant of AdapterFlush: answered without writing the dirty word.
AdapterFlush_Forgets == UNCHANGED <<hbm, uram, wb, dma_word>>
AdapterFlush == /\ uram' = [x \in UramWords |-> Uram(x)] /\ wb' = NONE
                /\ UNCHANGED <<hbm, dma_word>>

-----------------------------------------------------------------------------
(* The host.                                                               *)

\* A prefill is a new prompt; a decode replaces or appends the token at
\* position cache_len of a sequence whose earlier tokens were processed.
LegalJob(j) == j.decode => j.cache_len <= Len(tokens)

Flip(p) == IF p <= Len(tokens) THEN 1 - tokens[p] ELSE 0

\* The position of row r of a job.
RowPos(j, r) == IF j.decode THEN j.cache_len + r ELSE r

\* The embeddings go to ACT_EMBED, and to the URAM the first LN reads.
Load(j) ==
  /\ LegalJob(j)
  /\ tokens' = IF j.decode
                 THEN Append(Prefix(tokens, j.cache_len), Flip(j.cache_len + 1))
                 ELSE [p \in 1 .. j.batch * j.seq |-> Flip(p)]
  /\ LET x(r, c) == V("x", 0, RowPos(j, r), c, Prefix(tokens', RowPos(j, r) + 1))
         rows == j.batch * j.seq
     IN /\ hbm' = [a \in HbmWords |->
              IF a - act_base \in 0 .. rows * MODEL_STRIDE - 1
                THEN x((a - act_base) \div MODEL_STRIDE,
                       (a - act_base) % MODEL_STRIDE)
                ELSE hbm[a]]
        /\ uram' = [y \in UramWords |->
              IF Preload /\ y[1] < rows /\ y[2] < MODEL_STRIDE
                THEN x(y[1], y[2]) ELSE uram[y]]
  /\ UNCHANGED <<wb, dma_word>>

\* The jobs the step table computes for: the prompt of a tile, and the decode of its
\* last token.  Their products over the sequence are Exact, and the softmax's rows end
\* where the adapter cuts them.
Supported(j) ==
  /\ j.batch = 1
  /\ IF j.decode THEN j.seq = 1 /\ j.cache_len = TILE - 1 ELSE j.seq = TILE

History ==
  /\ intact' = (intact /\ restarted' = {})
  /\ sound' = IF start' = NONE THEN sound
              ELSE Supported(start') /\ (start'.decode => sound)

\* One executor works at a time while the memories are followed
\* (ControlLoop!AtMostOneExecutor).
Effect(d) == /\ CASE d = "mm" -> MatmulEffect
                  [] d = "uf" -> FlushEffect
                  [] d = "ad" -> AdapterFlush
                  [] OTHER -> UnitEffect(d)
             /\ UNCHANGED tokens

\* Memories that are followed no further.
Forget == /\ hbm' = [a \in HbmWords |-> BLANK] /\ uram' = [x \in UramWords |-> BLANK]
          /\ wb' = NONE /\ dma_word' = NONE /\ tokens' = <<>>

Memory == IF ~intact' THEN Forget
          ELSE IF start' # NONE THEN Load(start')
          ELSE IF rsp' # {} THEN Effect(CHOOSE d \in rsp' : TRUE)
          ELSE UNCHANGED memory

AccInit == /\ Init
           /\ hbm = [a \in HbmWords |-> BLANK] /\ uram = [x \in UramWords |-> BLANK]
           /\ wb = NONE /\ dma_word = NONE /\ tokens = <<>>
           /\ intact = TRUE /\ sound = TRUE

AccNext == Next /\ History /\ Memory

AccSpec == AccInit /\ [][AccNext]_accVars

-----------------------------------------------------------------------------
(* Properties.  They are about any jobs and latencies: of the memories     *)
(* while they are intact, and of values while the sequence is sound.       *)

Row(kind, layer, p, c) == V(kind, layer, p, c, Prefix(tokens, p + 1))
Rows == 0 .. req.batch * req.seq - 1
Cols == 0 .. MODEL_STRIDE - 1

\* When done is raised every row of ACT_EMBED holds the last layer's output for
\* its token, computed from the current tokens alone: the fifteen steps read
\* each buffer after it was flushed and before it is reused (ACT_Q holds the
\* queries, the heads' outputs and the feed-forward rows in turn).
OutputCorrect ==
  intact /\ sound /\ pulse = "done" =>
    \A r \in Rows, c \in Cols :
      hbm[act_base + ACT_EMBED_OFFSET + r * MODEL_STRIDE + c]
        = Row("x", NUM_LAYERS, RowPos(req, r), c)

\* The matrices that a dump of the HBM after a job still holds: the probabilities
\* only if feed-forward rows end before ACT_ATTN.
DumpedStages ==
  LET last == NUM_LAYERS - 1
      stage(kind, at, stride, col) ==
        [kind |-> kind, at |-> at, stride |-> stride, col |-> col]
      cache == kv_base + last * KV_LAYER_SIZE + RowPos(req, 0) * MODEL_STRIDE
      probs == stage("prob", act_base + ACT_ATTN_OFFSET, KEY_WORDS,
                     (NUM_HEADS - 1) * KEY_WORDS)
  IN { stage("k", cache, MODEL_STRIDE, 0),
       stage("v", cache + KV_V_OFFSET, MODEL_STRIDE, 0),
       stage("ln2", act_base + ACT_TEMP_OFF, MODEL_STRIDE, 0),
       stage("relu", act_base + ACT_FFN_OFFSET, F_STRIDE, 0) }
     \cup (IF F_STRIDE <= 3 * MODEL_STRIDE THEN {probs} ELSE {})

compare_stage(s) ==
  \A r \in Rows, c \in 0 .. s.stride - 1 :
    hbm[s.at + r * s.stride + c] = Row(s.kind, NUM_LAYERS - 1, RowPos(req, r), s.col + c)

\* What the diagnosis of a failing job relies on: when the job ends, the keys,
\* the values, the last head's probabilities, the second norm and the rectified
\* rows of its last layer are still where their step put them, later steps having
\* reused the other regions, and the URAM holds the same result as the HBM.
StagesLeft ==
  intact /\ sound /\ pulse = "done" =>
    /\ \A s \in DumpedStages : compare_stage(s)
    /\ \A r \in Rows, c \in Cols :
         uram[r, c] = hbm[act_base + ACT_EMBED_OFFSET + r * MODEL_STRIDE + c]

KeyAt(l, p, c) == hbm[kv_base + l * KV_LAYER_SIZE + p * MODEL_STRIDE + c]
ValueAt(l, p, c) ==
  hbm[kv_base + l * KV_LAYER_SIZE + KV_V_OFFSET + p * MODEL_STRIDE + c]

\* When a job ends, and during one for the layers already left behind, the KV
\* cache holds the key and value of every token of the sequence: what a decode
\* relies on is what the earlier jobs left.
CacheComplete ==
  intact /\ sound => \A l \in 0 .. NUM_LAYERS - 1 :
    (busy /\ state # "S_IDLE" /\ l < layer_cnt) \/ pulse = "done" =>
      \A p \in 0 .. Len(tokens) - 1, c \in Cols :
        /\ KeyAt(l, p, c) = Row("k", l, p, c)
        /\ ValueAt(l, p, c) = Row("v", l, p, c)

\* While the sequence is sound, no word computed from the wrong operands, or of a
\* tile's garbage margin, reaches the HBM; that of other jobs may be there before.
Unspoiled == \A a \in HbmWords : hbm'[a].kind = "bad" => hbm'[a] = hbm[a]
NothingSpoiled == [][intact' /\ sound => Unspoiled]_accVars

\* A decode leaves the cache of the earlier positions alone, in every layer.
CachePreserved ==
  [][intact' /\ busy /\ req.decode /\ start' = NONE =>
       \A l \in 0 .. NUM_LAYERS - 1, p \in 0 .. req.cache_len - 1, c \in Cols :
         KeyAt(l, p, c)' = KeyAt(l, p, c) /\ ValueAt(l, p, c)' = ValueAt(l, p, c)]_accVars

\* The HBM is read back by the matmul unit without a check of the adapter: no
\* word is still in its write buffer when a matmul or a flush of the URAM runs.
AdapterClean == intact /\ (Engaged("mm") \/ Engaged("uf")) => wb = NONE
=============================================================================
