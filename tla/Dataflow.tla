------------------------------- MODULE Dataflow -------------------------------
(***************************************************************************)
(* What Accelerator's memories hold at each place of a job in the step     *)
(* table, for the sizes the table computes for: the inductive invariant    *)
(* behind its value properties, whose proofs are in Accelerator_proofs.    *)
(***************************************************************************)
EXTENDS Accelerator

-----------------------------------------------------------------------------
(* The instances the theorems are about.                                   *)

\* One sequence, and tokens for at most the rows of the URAM: what the host sends.
JobsFit == \A j \in Jobs : j.batch = 1 /\ j.seq \in 1 .. TILE

\* Those of them that the table computes for.
TileJobs == {j \in Jobs : Supported(j)}

\* Heads and a cache of one tile (Exact again); row lengths the adapter cuts at the
\* bits the controller configures; products that fit the 16-bit registers, rows that
\* fit the flush's counters; a URAM of one tile of rows; feed-forward rows that end
\* before ACT_TEMP.
SizesFit ==
  /\ HEAD_DIM = TILE /\ MAX_SEQ_LEN = TILE /\ F_DIM % TILE = 0
  /\ 2^CFG_COL_SEQ = TILE /\ 2^CFG_COL_MOD = MODEL_DIM /\ 2^CFG_COL_FFN = F_DIM
  /\ MODEL_STRIDE \in 2 .. 256 /\ F_STRIDE <= 256 /\ TILE <= 1024
  /\ TILE * MODEL_DIM < 65536 /\ TILE * F_DIM < 65536
  /\ URAM_ROWS >= TILE
  /\ URAM_COL_WORDS >= MODEL_STRIDE /\ URAM_COL_WORDS >= F_STRIDE
  /\ F_STRIDE <= 4 * MODEL_STRIDE

\* The host's three regions do not overlap.
RegionsApart ==
  LET act == act_base .. act_base + 6 * ACT_SLAB - 1
      kv == kv_base .. kv_base + NUM_LAYERS * KV_LAYER_SIZE - 1
      weights == weight_base .. weight_base + NUM_LAYERS * LAYER_SIZE - 1
  IN act \cap kv = {} /\ act \cap weights = {} /\ kv \cap weights = {}

\* The absent word is not a word.
NoneApart == \A x, w : /\ [at |-> x, word |-> w] # NONE
                       /\ [tag |-> x, word |-> w] # NONE

\* The instances of the theorems: the table run as a whole, on embeddings that the
\* host also writes to the URAM (it is a recorded defect that it does not).
Fits == /\ Preload /\ ~SINGLE_MATMUL
        /\ JobsFit /\ SizesFit /\ RegionsApart

-----------------------------------------------------------------------------
(* Where a job is.                                                         *)

\* The job in the table and its layer, from the edge that starts it to the one after
\* it reports done.
job == IF start # NONE THEN start ELSE req
lay == IF start # NONE THEN 0 ELSE layer_cnt
Running == start # NONE \/ state # "S_IDLE" \/ pulse = "done"

\* The rows of a job's matrices.
RowsOf(j) == IF j.decode THEN 1 ELSE TILE

\* A place: the step of the table, the parts of it that are done, and in the attention
\* step the head, in the units' steps the rows that are done.
At(step, part, head, row) ==
  [step |-> step, part |-> part, head |-> head, row |-> row]
Has(d) == IF d \in rsp THEN 1 ELSE 0
RowsDone(u) == IF nm_flush_phase THEN RowsOf(req) ELSE nm_row_cnt + Has(u)
UnitDone(u) == IF nm_flush_phase THEN 1 ELSE Has(u)

Position ==
  IF start # NONE THEN At(0, 0, 0, 0)
  ELSE CASE state = "S_DECODE" -> At(step_idx, 0, 0, 0)
         [] state = "S_LN_RUN" -> At(step_idx, 0, 0, RowsDone("ln"))
         [] state = "S_ACT_RUN" -> At(step_idx + UnitDone("act"), 0, 0, 0)
         [] state = "S_RES_RUN" -> At(step_idx + UnitDone("res"), 0, 0, 0)
         [] state = "S_MM_RUN" -> At(step_idx + Has("mm"), 0, 0, 0)
         [] state = "S_UF_RUN" -> At(step_idx + Has("uf"), 0, 0, 0)
         [] state = "S_QKV_MM" -> At(step_idx, 2 * qkv_phase + Has("mm"), 0, 0)
         [] state = "S_QKV_FL" -> At(step_idx, 2 * qkv_phase + 1 + Has("uf"), 0, 0)
         [] state = "S_ATT_SCORE" -> At(step_idx, Has("mm"), head_cnt, 0)
         [] state = "S_ATT_SM" -> At(step_idx, 1, head_cnt, RowsDone("sm"))
         [] state = "S_ATT_SM_FL" -> At(step_idx, 2 + Has("uf"), head_cnt, 0)
         [] state = "S_ATT_OUT" -> At(step_idx, 3 + Has("mm"), head_cnt, 0)
         [] state = "S_ATT_OUT_FL" -> At(step_idx, 4 + Has("uf"), head_cnt, 0)
         [] OTHER -> At(step_idx + 1, 0, 0, 0)

-----------------------------------------------------------------------------
(* What the memories hold there.                                           *)

\* What column c of row r should be, of that kind in layer l.
Val(j, kind, l, r, c) == V(kind, l, RowPos(j, r), c, Prefix(tokens, RowPos(j, r) + 1))

ActAt(k, r, c) == act_base + k * ACT_SLAB + r * MODEL_STRIDE + c
ProbAt(r, c) == act_base + 4 * ACT_SLAB + r * KEY_WORDS + c
FfnAt(r, c) == act_base + ACT_SLAB + r * F_STRIDE + c

\* ACT_EMBED: the residual stream.
EmbedHolds(j, l, s) ==
  \A r \in 0 .. RowsOf(j) - 1, c \in Cols :
    hbm[ActAt(0, r, c)] = IF s.step <= 6 THEN Val(j, "x", l, r, c)
                          ELSE IF s.step <= 14 THEN Val(j, "mid", l, r, c)
                          ELSE Val(j, "x", l + 1, r, c)

\* ACT_TEMP: the rows of the last norm.
TempHolds(j, l, s) ==
  s.step >= 2 =>
    \A r \in 0 .. RowsOf(j) - 1, c \in Cols :
      hbm[ActAt(5, r, c)] = Val(j, IF s.step <= 8 THEN "ln1" ELSE "ln2", l, r, c)

\* The heads whose output has replaced their queries.
HeadsDone(s) == IF s.step = 3 THEN (IF s.part = 5 THEN s.head + 1 ELSE s.head)
                ELSE IF s.step = 4 THEN NUM_HEADS ELSE 0
QueriesThere(s) == (s.step = 2 /\ s.part >= 2) \/ s.step \in {3, 4}

QueriesHold(j, l, s) ==
  QueriesThere(s) =>
    \A r \in 0 .. RowsOf(j) - 1, c \in Cols :
      hbm[ActAt(1, r, c)]
        = Val(j, IF c < HeadsDone(s) * HEAD_WORDS THEN "att" ELSE "q", l, r, c)

\* ACT_ATTN: the probabilities of the last head, until the feed-forward rows reach it.
ProbsThere(s) == \/ s.step = 3 /\ s.part >= 3
                 \/ s.step \in 4 .. 11
                 \/ s.step >= 12 /\ F_STRIDE <= 3 * MODEL_STRIDE
ProbHead(s) == IF s.step = 3 THEN s.head ELSE NUM_HEADS - 1

ProbsHold(j, l, s) ==
  ProbsThere(s) =>
    \A r \in 0 .. RowsOf(j) - 1, c \in 0 .. KEY_WORDS - 1 :
      hbm[ProbAt(r, c)] = Val(j, "prob", l, r, ProbHead(s) * KEY_WORDS + c)

\* ACT_FFN: the rectified rows, over the queries, keys and values.
FfnHolds(j, l, s) ==
  s.step >= 12 =>
    \A r \in 0 .. RowsOf(j) - 1, c \in 0 .. F_STRIDE - 1 :
      hbm[FfnAt(r, c)] = Val(j, "relu", l, r, c)

\* Word c of position p in the keys (part 0) or values (part 1) of layer l.
CacheWord(l, part, p, c) ==
  kv_base + l * KV_LAYER_SIZE + part * ACT_SLAB + p * MODEL_STRIDE + c

CacheRow(m, part, p) ==
  \A c \in Cols : hbm[CacheWord(m, part, p, c)]
                    = V(IF part = 0 THEN "k" ELSE "v", m, p, c, Prefix(tokens, p + 1))

\* The keys and values of the earlier tokens, of the layers left behind, and of this
\* one once they are flushed.
PastFlush(s, part) == s.step > 2 \/ (s.step = 2 /\ s.part >= 4 + 2 * part)
Cached(j, l, s, m, part, p) ==
  (j.decode /\ p < TILE - 1) \/ m < l \/ (m = l /\ PastFlush(s, part))

CacheHolds(j, l, s) ==
  \A m \in 0 .. NUM_LAYERS - 1, part \in {0, 1}, p \in 0 .. TILE - 1 :
    Cached(j, l, s, m, part, p) => CacheRow(m, part, p)

HbmHolds(j, l, s) ==
  /\ EmbedHolds(j, l, s) /\ TempHolds(j, l, s) /\ QueriesHold(j, l, s)
  /\ ProbsHold(j, l, s) /\ FfnHolds(j, l, s) /\ CacheHolds(j, l, s)

\* Rows from .. to-1 of the URAM hold n words of that kind.
Holding(j, kind, l, from, to, col0, n) ==
  \A r \in from .. to - 1, c \in col0 .. col0 + n - 1 :
    Uram(<<r, c>>) = Val(j, kind, l, r, c)

\* The scores and probabilities of a head are in the first words of a row.
HeadRows(j, kind, l, from, to, head) ==
  \A r \in from .. to - 1, c \in 0 .. KEY_WORDS - 1 :
    Uram(<<r, c>>) = Val(j, kind, l, r, head * KEY_WORDS + c)

Whole(j, kind, l, from, to) == Holding(j, kind, l, from, to, 0, MODEL_STRIDE)

UramHolds(j, l, s) ==
  LET R == RowsOf(j) IN
  /\ s.step = 0 => /\ Whole(j, "ln1", l, 0, s.row)
                   /\ Whole(j, "x", l, s.row, R)
  /\ s.step = 1 => Whole(j, "ln1", l, 0, R)
  /\ s.step = 2 /\ s.part = 1 => Whole(j, "q", l, 0, R)
  /\ s.step = 2 /\ s.part = 3 => Whole(j, "k", l, 0, R)
  /\ s.step = 2 /\ s.part = 5 => Whole(j, "v", l, 0, R)
  /\ s.step = 3 /\ s.part = 1 =>
       /\ HeadRows(j, "prob", l, 0, s.row, s.head)
       /\ HeadRows(j, "score", l, s.row, R, s.head)
  /\ s.step = 3 /\ s.part = 2 => HeadRows(j, "prob", l, 0, R, s.head)
  /\ s.step = 3 /\ s.part = 4 =>
       Holding(j, "att", l, 0, R, s.head * HEAD_WORDS, HEAD_WORDS)
  /\ s.step = 5 => Whole(j, "proj", l, 0, R)
  /\ s.step = 6 => Whole(j, "mid", l, 0, R)
  /\ s.step = 7 => /\ Whole(j, "ln2", l, 0, s.row)
                   /\ Whole(j, "mid", l, s.row, R)
  /\ s.step = 8 => Whole(j, "ln2", l, 0, R)
  /\ s.step = 10 => Holding(j, "ffn1", l, 0, R, 0, F_STRIDE)
  /\ s.step = 11 => Holding(j, "relu", l, 0, R, 0, F_STRIDE)
  /\ s.step = 13 => Whole(j, "ffn2", l, 0, R)
  /\ s.step >= 14 => Whole(j, "x", l + 1, 0, R)

\* What the memories hold at place s of layer l of job j.
Facts(j, l, s) == HbmHolds(j, l, s) /\ UramHolds(j, l, s)

\* Between jobs the cache holds the whole sequence.
AllCached == \A m \in 0 .. NUM_LAYERS - 1, part \in {0, 1}, p \in 0 .. Len(tokens) - 1 :
               CacheRow(m, part, p)

\* A sound sequence is a tile of tokens once a job has run.
TokensInv == /\ Len(tokens) \in {0, TILE}
             /\ Running => Len(tokens) = TILE

\* The word act_dma caches is never one it would serve.
DmaInv == dma_word # NONE => dma_word.tag # 0

\* What the memories hold of a sound sequence.
SoundInv == /\ TokensInv
            /\ Running => job \in TileJobs
            /\ IF Running THEN Facts(job, lay, Position) ELSE AllCached

\* The inductive invariant of the memories.
DataInv == /\ tokens \in Seq(Int) /\ DmaInv
           /\ intact /\ sound => SoundInv

-----------------------------------------------------------------------------
(* Control.                                                                *)

\* The states of a block of the table.
BlockStates ==
  [LN |-> {"S_LN_RUN"}, QKV |-> {"S_QKV_MM", "S_QKV_FL"},
   ATTN |-> {"S_ATT_SCORE", "S_ATT_SM", "S_ATT_SM_FL", "S_ATT_OUT", "S_ATT_OUT_FL"},
   MATMUL |-> {"S_MM_RUN"}, ACT |-> {"S_ACT_RUN"}, RES |-> {"S_RES_RUN"},
   FLUSH |-> {"S_UF_RUN"}, END |-> {}]

\* The block and its configuration are those of the step the index points to.
ProgInv ==
  /\ state \notin {"S_IDLE", "S_DECODE"} =>
       /\ step_bt = PROGRAM[step_idx + 1].bt /\ step_cfg = PROGRAM[step_idx + 1].cfg
       /\ state \in BlockStates[step_bt] \cup {"S_NEXT_STEP", "S_DONE"}
  /\ state = "S_DONE" \/ pulse = "done" => step_idx = 15 /\ layer_cnt = NUM_LAYERS - 1
  /\ pulse = "done" => state = "S_IDLE" /\ start = NONE
  /\ start # NONE => state = "S_IDLE"

\* The command under way is that of the state.
CmdInv ==
  waiting_mm => mm_cmd = CASE state = "S_QKV_MM" -> QkvCommand
                           [] state = "S_ATT_SCORE" -> ScoreCommand
                           [] state = "S_ATT_OUT" -> OutCommand
                           [] OTHER -> RunCommand

\* A unit works on a row of the job.
RowsInv == InUnit("ln") \/ InUnit("sm") => nm_row_cnt < bt
===============================================================================
