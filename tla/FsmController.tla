---------------------------- MODULE FsmController ----------------------------
(***************************************************************************)
(* The step-table controller, rtl/fsm_controller.v.                        *)
(*                                                                         *)
(* One action is one clock edge spent in one branch of the case statement. *)
(* The one-shot outputs (mm_cmd_valid, uram_flush_start, nm_adapter_flush, *)
(* the four unit starts and done) are cleared by default at every edge and *)
(* at most one of them is set by any branch, so the single variable pulse  *)
(* holds the one that is high.                                             *)
(***************************************************************************)
EXTENDS Integers

CONSTANTS
  WE,               \* elements per bus word (BUS_ELEMS)
  HEAD_WORDS,       \* bus words per attention head
  NUM_HEADS,
  F_STRIDE,         \* bus words per feed-forward row (F_DIM / WE)
  MAX_SEQ_LEN,
  NUM_ENC_LAYERS,
  ARCH,             \* 0 = pre-norm step table, 1 = post-norm step table
  SINGLE_MATMUL,    \* debug build: stop after the first projection
  CFG_COL_SEQ, CFG_COL_MOD, CFG_COL_FFN,  \* $clog2 of the three row lengths
  weight_base, act_base, kv_base,         \* HBM word addresses from the host
  Jobs,             \* the jobs a host may launch
  NONE

MODEL_STRIDE == NUM_HEADS * HEAD_WORDS
MODEL_DIM == MODEL_STRIDE * WE
HEAD_DIM == HEAD_WORDS * WE
F_DIM == F_STRIDE * WE

\* b = $clog2(n)
IsClog2(b, n) == n <= 2^b /\ (b = 0 \/ 2^(b - 1) < n)

ASSUME DimAssumption ==
  /\ {WE, HEAD_WORDS, NUM_HEADS, F_STRIDE, MAX_SEQ_LEN, NUM_ENC_LAYERS}
        \subseteq Nat \ {0}
  /\ ARCH \in {0, 1} /\ SINGLE_MATMUL \in BOOLEAN
  /\ {weight_base, act_base, kv_base, CFG_COL_SEQ, CFG_COL_MOD, CFG_COL_FFN}
        \subseteq Nat

ASSUME ClogAssumption ==
  /\ IsClog2(CFG_COL_SEQ, MAX_SEQ_LEN)
  /\ IsClog2(CFG_COL_MOD, MODEL_DIM)
  /\ IsClog2(CFG_COL_FFN, F_DIM)

\* A job is what the host registers hold when start is raised.
Job == [batch : Nat, seq : Nat, decode : BOOLEAN, cache_len : Nat]

ASSUME JobAssumption == Jobs \subseteq Job /\ NONE \notin Jobs

-----------------------------------------------------------------------------
(* HBM layout, in bus words.                                               *)

LAYER_WQ_OFFSET == 0
LAYER_WK_OFFSET == MODEL_DIM * MODEL_STRIDE
LAYER_WV_OFFSET == 2 * MODEL_DIM * MODEL_STRIDE
LAYER_WO_OFFSET == 3 * MODEL_DIM * MODEL_STRIDE
LAYER_FFN1_OFFSET == 4 * MODEL_DIM * MODEL_STRIDE
LAYER_FFN2_OFFSET == LAYER_FFN1_OFFSET + MODEL_DIM * F_STRIDE
LAYER_LN1_OFFSET == LAYER_FFN2_OFFSET + F_DIM * MODEL_STRIDE
LAYER_LN2_OFFSET == LAYER_LN1_OFFSET + 2 * MODEL_STRIDE
LAYER_SIZE == LAYER_LN2_OFFSET + 2 * MODEL_STRIDE

ACT_SLAB == MAX_SEQ_LEN * MODEL_STRIDE
ACT_EMBED_OFFSET == 0
ACT_Q_OFFSET == ACT_SLAB
ACT_ATTN_OFFSET == 4 * ACT_SLAB
\* Mutant of ACT_TEMP_OFF: the region of the probabilities.
ACT_TEMP_OFF_Shared == 4 * ACT_SLAB
ACT_TEMP_OFF == 5 * ACT_SLAB
ACT_FFN_OFFSET == ACT_Q_OFFSET

KV_V_OFFSET == ACT_SLAB
KV_LAYER_SIZE == 2 * ACT_SLAB

-----------------------------------------------------------------------------
(* The step tables.                                                        *)

Step(bt, cfg) == [bt |-> bt, cfg |-> cfg]

PROG_PRENORM ==
  << Step("LN", 0), Step("FLUSH", 1), Step("QKV", 1), Step("ATTN", 0),
     Step("MATMUL", 0), Step("RES", 0), Step("FLUSH", 0), Step("LN", 1),
     Step("FLUSH", 1), Step("MATMUL", 2), Step("ACT", 0), Step("FLUSH", 2),
     Step("MATMUL", 3), Step("RES", 0), Step("FLUSH", 0), Step("END", 0) >>

PROG_POSTNORM ==
  << Step("QKV", 0), Step("ATTN", 0), Step("MATMUL", 0), Step("RES", 0),
     Step("LN", 0), Step("FLUSH", 0), Step("MATMUL", 1), Step("ACT", 0),
     Step("FLUSH", 2), Step("MATMUL", 3), Step("RES", 0), Step("FLUSH", 0),
     Step("END", 0), Step("END", 0), Step("END", 0), Step("END", 0) >>

PROGRAM == IF ARCH = 0 THEN PROG_PRENORM ELSE PROG_POSTNORM

-----------------------------------------------------------------------------
VARIABLES
  start,            \* input: the job the host is starting, or NONE
  rsp,              \* input: the executors whose done pulse is high
  state, busy,
  pulse,            \* the one-shot output that is high, or "none"
  req,              \* batch_r, seq_r, decode_r, cache_len_r
  layer_cnt, step_idx, step_bt, step_cfg,
  qkv_phase, head_cnt, nm_row_cnt,
  nm_flush_phase, waiting_mm, flush_sent,
  nm,               \* registers towards the scalar units, adapter and act_dma
  mm_cmd,           \* command registers towards the tiling engine
  flush_r,          \* flush parameters saved when the matmul was issued
  uf_cmd            \* command registers towards uram_flush

program == <<req, layer_cnt, step_idx, step_bt, step_cfg>>
loops == <<qkv_phase, head_cnt, nm_row_cnt>>
flags == <<nm_flush_phase, waiting_mm, flush_sent>>
payload == <<nm, mm_cmd, flush_r, uf_cmd>>
fsmVars == <<state, busy, pulse, program, loops, flags, payload>>

Units == {"ln", "sm", "act", "res"}
MmStates == {"S_QKV_MM", "S_ATT_SCORE", "S_ATT_OUT", "S_MM_RUN"}
FlushStates == {"S_QKV_FL", "S_ATT_SM_FL", "S_ATT_OUT_FL", "S_UF_RUN"}
UnitStates == {"S_LN_RUN", "S_ATT_SM", "S_ACT_RUN", "S_RES_RUN"}
States == MmStates \cup FlushStates \cup UnitStates
            \cup {"S_IDLE", "S_DECODE", "S_NEXT_STEP", "S_DONE"}

UnitOf(s) == CASE s = "S_LN_RUN" -> "ln"
               [] s = "S_ATT_SM" -> "sm"
               [] s = "S_ACT_RUN" -> "act"
               [] OTHER -> "res"
StartOf(u) == CASE u = "ln" -> "ln_start"
                [] u = "sm" -> "sm_start"
                [] u = "act" -> "act_start"
                [] OTHER -> "res_start"
Pulses == {"none", "mm_cmd_valid", "uram_flush_start", "nm_adapter_flush",
           "ln_start", "sm_start", "act_start", "res_start", "done"}

-----------------------------------------------------------------------------
(* Values the registers are loaded with.                                   *)

Wrap(x) == x % 65536                       \* a DIM_W = 16 bit register
Low10(x) == x % 1024                       \* row counts of a flush
Low8(x) == x % 256                         \* column words
Words(n) == (n + WE - 1) \div WE           \* seq_words, cache_total_words

bt == Wrap(req.batch * req.seq)
cache_total == Wrap(req.cache_len + 1)
\* Rows of a head's score matrix, and its width (the keys attended to).
att_rows == IF req.decode THEN 1 ELSE req.seq
att_keys == IF req.decode THEN cache_total ELSE req.seq

layer_wgt_base == weight_base + layer_cnt * LAYER_SIZE

\* Mutant of layer_kv_base: every layer keeps its keys and values in one place.
layer_kv_base_First == kv_base
layer_kv_base == kv_base + layer_cnt * KV_LAYER_SIZE

\* Mutant of kv_row: a decode writes its key and value at position 0.
kv_row_Prefill == 0
kv_row == IF req.decode THEN req.cache_len * MODEL_STRIDE ELSE 0

Matmul(op, m, k, n, a, a_stride, b, b_stride, off) ==
  [op |-> op, m |-> m, k |-> k, n |-> n, a_base |-> a, a_stride |-> a_stride,
   b_base |-> b, b_stride |-> b_stride, out_col_offset |-> Low8(off)]

\* rows and cols are "count - 1"
Flush(base, stride, rows, cols, col0) ==
  [base |-> base, stride |-> stride, rows |-> Low10(rows),
   cols |-> Low8(cols), start_col |-> Low8(col0)]

QkvCommand ==
  Matmul("OP_MATMUL", bt, MODEL_DIM, MODEL_DIM,
         act_base + (IF step_cfg = 0 THEN ACT_EMBED_OFFSET ELSE ACT_TEMP_OFF),
         MODEL_STRIDE,
         layer_wgt_base + (CASE qkv_phase = 0 -> LAYER_WQ_OFFSET
                             [] qkv_phase = 1 -> LAYER_WK_OFFSET
                             [] OTHER -> LAYER_WV_OFFSET),
         MODEL_STRIDE, 0)

QkvFlush ==
  Flush(CASE qkv_phase = 0 -> act_base + ACT_Q_OFFSET
          [] qkv_phase = 1 -> layer_kv_base + kv_row
          [] OTHER -> layer_kv_base + KV_V_OFFSET + kv_row,
        MODEL_STRIDE, bt - 1, MODEL_STRIDE - 1, 0)

ScoreCommand ==
  Matmul("OP_MATMUL_T", att_rows, HEAD_DIM, att_keys,
         act_base + ACT_Q_OFFSET + head_cnt * HEAD_WORDS, MODEL_STRIDE,
         layer_kv_base + head_cnt * HEAD_WORDS, MODEL_STRIDE, 0)

ScoreFlush ==
  Flush(act_base + ACT_ATTN_OFFSET, Words(att_keys),
        att_rows - 1, Words(att_keys) - 1, 0)

OutCommand ==
  Matmul("OP_MATMUL_AA", att_rows, att_keys, HEAD_DIM,
         act_base + ACT_ATTN_OFFSET, Words(att_keys),
         layer_kv_base + KV_V_OFFSET + head_cnt * HEAD_WORDS, MODEL_STRIDE,
         head_cnt * HEAD_WORDS)

OutFlush ==
  Flush(act_base + ACT_Q_OFFSET + head_cnt * HEAD_WORDS, MODEL_STRIDE,
        att_rows - 1, HEAD_WORDS - 1, head_cnt * HEAD_WORDS)

\* config 0 = PROJ, 1 = FFN1 from EMBED, 2 = FFN1 from TEMP, 3 = FFN2
RunCommand ==
  CASE step_cfg = 0 ->
         Matmul("OP_MATMUL", bt, MODEL_DIM, MODEL_DIM,
                act_base + ACT_Q_OFFSET, MODEL_STRIDE,
                layer_wgt_base + LAYER_WO_OFFSET, MODEL_STRIDE, 0)
    [] step_cfg \in {1, 2} ->
         Matmul("OP_MATMUL", bt, MODEL_DIM, F_DIM,
                act_base + (IF step_cfg = 1 THEN ACT_EMBED_OFFSET
                                            ELSE ACT_TEMP_OFF), MODEL_STRIDE,
                layer_wgt_base + LAYER_FFN1_OFFSET, F_STRIDE, 0)
    [] OTHER ->
         Matmul("OP_MATMUL", bt, F_DIM, MODEL_DIM,
                act_base + ACT_FFN_OFFSET, F_STRIDE,
                layer_wgt_base + LAYER_FFN2_OFFSET, MODEL_STRIDE, 0)

\* config 0 = to ACT_EMBED, 1 = to ACT_TEMP, 2 = to ACT_FFN (f-wide)
StepFlush ==
  CASE step_cfg = 0 -> Flush(act_base + ACT_EMBED_OFFSET, MODEL_STRIDE,
                             bt - 1, MODEL_STRIDE - 1, 0)
    [] step_cfg = 1 -> Flush(act_base + ACT_TEMP_OFF, MODEL_STRIDE,
                             bt - 1, MODEL_STRIDE - 1, 0)
    [] OTHER -> Flush(act_base + ACT_FFN_OFFSET, F_STRIDE,
                      bt - 1, F_STRIDE - 1, 0)

\* Mutant of RowOffset: the offset grows each time the start is raised.
RowOffset_Incremental(dim) == Wrap(nm.addr_offset + dim)
RowOffset(dim) == Wrap(nm_row_cnt * dim)

\* Mutant of CausalRow: a decode masks its scores as if it were a prefill.
CausalRow_Prefill == nm_row_cnt
CausalRow == IF req.decode THEN req.cache_len ELSE nm_row_cnt

\* What a unit's branch loads before it raises the start.
UnitSetup(u) ==
  CASE u = "ln" ->
         [nm EXCEPT !.col_bits = CFG_COL_MOD,
                    !.addr_offset = RowOffset(MODEL_DIM),
                    !.rd_base = layer_wgt_base +
                      (IF step_cfg = 0 THEN LAYER_LN1_OFFSET
                                       ELSE LAYER_LN2_OFFSET),
                    !.dim = MODEL_DIM]
    [] u = "sm" ->
         [nm EXCEPT !.col_bits = CFG_COL_SEQ,
                    !.addr_offset = RowOffset(att_keys),
                    !.dim = att_keys, !.row_idx = CausalRow]
    [] u = "act" -> [nm EXCEPT !.col_bits = CFG_COL_FFN,
                               !.dim = Wrap(bt * F_DIM)]
    [] OTHER -> [nm EXCEPT !.col_bits = CFG_COL_MOD,
                           !.rd_base = act_base + ACT_EMBED_OFFSET,
                           !.dim = Wrap(bt * MODEL_DIM)]

-----------------------------------------------------------------------------
NoMatmul == Matmul("none", 0, 0, 0, 0, 0, 0, 0, 0)
NoFlush == [base |-> 0, stride |-> 0, rows |-> 0, cols |-> 0, start_col |-> 0]

\* The reset block; batch_r and seq_r are not reset, and S_IDLE loads them.
FsmInit ==
  /\ state = "S_IDLE" /\ busy = FALSE /\ pulse = "none"
  /\ req = [batch |-> 0, seq |-> 0, decode |-> FALSE, cache_len |-> 0]
  /\ layer_cnt = 0 /\ step_idx = 0 /\ step_bt = "none" /\ step_cfg = 0
  /\ qkv_phase = 0 /\ head_cnt = 0 /\ nm_row_cnt = 0
  /\ nm_flush_phase = FALSE /\ waiting_mm = FALSE /\ flush_sent = FALSE
  /\ nm = [col_bits |-> 10, addr_offset |-> 0, rd_base |-> 0, dim |-> 0,
           row_idx |-> 0]
  /\ mm_cmd = NoMatmul /\ flush_r = NoFlush /\ uf_cmd = NoFlush

\* An edge that only clears the one-shot output.
Hold == /\ pulse' = "none"
        /\ UNCHANGED <<state, busy, program, loops, flags, payload>>

IdleWait == /\ state = "S_IDLE" /\ start = NONE
            /\ busy' = FALSE /\ pulse' = "none"
            /\ UNCHANGED <<state, program, loops, flags, payload>>

IdleStart ==
  /\ state = "S_IDLE" /\ start # NONE
  /\ state' = "S_DECODE" /\ busy' = TRUE /\ pulse' = "none"
  /\ req' = start
  /\ layer_cnt' = 0 /\ step_idx' = 0
  /\ qkv_phase' = 0 /\ head_cnt' = 0 /\ nm_row_cnt' = 0
  /\ nm' = [nm EXCEPT !.addr_offset = 0]
  /\ UNCHANGED <<step_bt, step_cfg, flags, mm_cmd, flush_r, uf_cmd>>

\* The executor state of each block type (BT_END has none).
ExecutorOf ==
  [LN |-> "S_LN_RUN", QKV |-> "S_QKV_MM", ATTN |-> "S_ATT_SCORE",
   MATMUL |-> "S_MM_RUN", ACT |-> "S_ACT_RUN", RES |-> "S_RES_RUN",
   FLUSH |-> "S_UF_RUN", END |-> "S_NEXT_STEP"]

Decode ==
  /\ state = "S_DECODE"
  /\ LET entry == PROGRAM[step_idx + 1] IN
       /\ step_bt' = entry.bt /\ step_cfg' = entry.cfg
       /\ state' = ExecutorOf[entry.bt]
       /\ qkv_phase' = IF entry.bt = "QKV" THEN 0 ELSE qkv_phase
       /\ head_cnt' = IF entry.bt = "ATTN" THEN 0 ELSE head_cnt
  /\ pulse' = "none"
  /\ UNCHANGED <<busy, req, layer_cnt, step_idx, nm_row_cnt, flags, payload>>

-----------------------------------------------------------------------------
(* S_LN_RUN, S_ATT_SM, S_ACT_RUN, S_RES_RUN: run the unit on each row (LN,  *)
(* softmax) or once (the other two), then flush the adapter.  The start is  *)
(* raised whenever neither it nor the unit's done is high, so it toggles    *)
(* for as long as the unit works.                                           *)

InUnit(u) == state \in UnitStates /\ UnitOf(state) = u /\ ~nm_flush_phase

UnitFire(u) ==
  /\ InUnit(u) /\ pulse # StartOf(u) /\ u \notin rsp
  /\ pulse' = StartOf(u) /\ nm' = UnitSetup(u)
  /\ UNCHANGED <<state, busy, program, loops, flags, mm_cmd, flush_r, uf_cmd>>

UnitWait(u) == InUnit(u) /\ pulse = StartOf(u) /\ u \notin rsp /\ Hold

UnitRowDone(u) ==
  /\ InUnit(u) /\ u \in rsp /\ u \in {"ln", "sm"} /\ nm_row_cnt # bt - 1
  /\ nm_row_cnt' = Wrap(nm_row_cnt + 1) /\ pulse' = "none"
  /\ UNCHANGED <<state, busy, program, qkv_phase, head_cnt, flags, payload>>

\* Mutant of UnitLastDone: the row counter is not reset after the last row.
UnitLastDone_NoReset(u) ==
  /\ InUnit(u) /\ u \in rsp /\ (u \in {"ln", "sm"} => nm_row_cnt = bt - 1)
  /\ nm_flush_phase' = TRUE /\ pulse' = "none"
  /\ UNCHANGED <<state, busy, program, loops, waiting_mm, flush_sent, payload>>

UnitLastDone(u) ==
  /\ InUnit(u) /\ u \in rsp /\ (u \in {"ln", "sm"} => nm_row_cnt = bt - 1)
  /\ nm_flush_phase' = TRUE /\ pulse' = "none"
  /\ IF u \in {"ln", "sm"}
       THEN nm_row_cnt' = 0 /\ nm' = [nm EXCEPT !.addr_offset = 0]
       ELSE UNCHANGED <<nm_row_cnt, nm>>
  /\ UNCHANGED <<state, busy, program, qkv_phase, head_cnt, waiting_mm,
                 flush_sent, mm_cmd, flush_r, uf_cmd>>

InNmFlush == state \in UnitStates /\ nm_flush_phase

NmFlushFire ==
  /\ InNmFlush /\ pulse # "nm_adapter_flush" /\ "ad" \notin rsp
  /\ pulse' = "nm_adapter_flush"
  /\ UNCHANGED <<state, busy, program, loops, flags, payload>>

NmFlushWait ==
  InNmFlush /\ pulse = "nm_adapter_flush" /\ "ad" \notin rsp /\ Hold

NmFlushDone ==
  /\ InNmFlush /\ "ad" \in rsp
  /\ nm_flush_phase' = FALSE /\ pulse' = "none"
  /\ state' = IF state = "S_ATT_SM" THEN "S_ATT_SM_FL" ELSE "S_NEXT_STEP"
  /\ UNCHANGED <<busy, program, loops, waiting_mm, flush_sent, payload>>

-----------------------------------------------------------------------------
(* S_QKV_MM, S_ATT_SCORE, S_ATT_OUT, S_MM_RUN: one command to the tiling    *)
(* engine.  mm_ready is mm_cmd_ready.                                       *)

MmIssue(mm_ready) ==
  /\ state \in MmStates
  /\ mm_ready /\ pulse # "mm_cmd_valid" /\ ~waiting_mm
  /\ pulse' = "mm_cmd_valid" /\ waiting_mm' = TRUE
  /\ mm_cmd' = CASE state = "S_QKV_MM" -> QkvCommand
                 [] state = "S_ATT_SCORE" -> ScoreCommand
                 [] state = "S_ATT_OUT" -> OutCommand
                 [] OTHER -> RunCommand
  /\ flush_r' = CASE state = "S_QKV_MM" -> QkvFlush
                  [] state = "S_ATT_SCORE" -> ScoreFlush
                  [] state = "S_ATT_OUT" -> OutFlush
                  [] OTHER -> flush_r
  /\ UNCHANGED <<state, busy, program, loops, nm_flush_phase, flush_sent, nm,
                 uf_cmd>>

MmWait(mm_ready) ==
  /\ state \in MmStates
  /\ waiting_mm => "mm" \notin rsp
  /\ ~mm_ready \/ pulse = "mm_cmd_valid" \/ waiting_mm
  /\ Hold

\* Mutant of MmAnswered: the command is taken to be done once it was issued.
MmAnswered_Early == pulse # "mm_cmd_valid" /\ waiting_mm
MmAnswered == "mm" \in rsp /\ waiting_mm

MmDone ==
  /\ state \in MmStates /\ MmAnswered
  /\ waiting_mm' = FALSE /\ pulse' = "none"
  /\ state' = CASE state = "S_QKV_MM" -> "S_QKV_FL"
                [] state = "S_ATT_SCORE" -> "S_ATT_SM"
                [] state = "S_ATT_OUT" -> "S_ATT_OUT_FL"
                [] OTHER -> "S_NEXT_STEP"
  /\ UNCHANGED <<busy, program, loops, nm_flush_phase, flush_sent, payload>>

-----------------------------------------------------------------------------
(* S_QKV_FL, S_ATT_SM_FL, S_ATT_OUT_FL, S_UF_RUN: one run of uram_flush.    *)

\* Mutant of FlushFire: guarded by its own pulse and not by flush_sent, the
\* start is raised again and again while the flush runs.
FlushFire_Toggling ==
  /\ state \in FlushStates /\ pulse # "uram_flush_start" /\ "uf" \notin rsp
  /\ pulse' = "uram_flush_start" /\ flush_sent' = TRUE
  /\ uf_cmd' = IF state = "S_UF_RUN" THEN StepFlush ELSE flush_r
  /\ UNCHANGED <<state, busy, program, loops, nm_flush_phase, waiting_mm, nm,
                 mm_cmd, flush_r>>

FlushFire ==
  /\ state \in FlushStates /\ ~flush_sent /\ "uf" \notin rsp
  /\ pulse' = "uram_flush_start" /\ flush_sent' = TRUE
  /\ uf_cmd' = IF state = "S_UF_RUN" THEN StepFlush ELSE flush_r
  /\ UNCHANGED <<state, busy, program, loops, nm_flush_phase, waiting_mm, nm,
                 mm_cmd, flush_r>>

FlushWait == state \in FlushStates /\ flush_sent /\ "uf" \notin rsp /\ Hold

FlushDone ==
  /\ state \in FlushStates /\ "uf" \in rsp
  /\ flush_sent' = FALSE /\ pulse' = "none"
  /\ UNCHANGED <<busy, program, nm_row_cnt, nm_flush_phase, waiting_mm, payload>>

\* Where each of the four goes next.
QkvFlushDone ==
  /\ state = "S_QKV_FL" /\ FlushDone /\ UNCHANGED head_cnt
  /\ IF SINGLE_MATMUL THEN state' = "S_DONE" /\ UNCHANGED qkv_phase
     ELSE IF qkv_phase < 2 THEN state' = "S_QKV_MM" /\ qkv_phase' = qkv_phase + 1
     ELSE state' = "S_NEXT_STEP" /\ qkv_phase' = 0

ScoreFlushDone == /\ state = "S_ATT_SM_FL" /\ FlushDone
                  /\ state' = "S_ATT_OUT" /\ UNCHANGED <<qkv_phase, head_cnt>>

\* Mutant of LastHead: one head too many.
LastHead_OffByOne == head_cnt = NUM_HEADS
LastHead == head_cnt = NUM_HEADS - 1

HeadFlushDone ==
  /\ state = "S_ATT_OUT_FL" /\ FlushDone /\ UNCHANGED qkv_phase
  /\ IF LastHead
       THEN state' = "S_NEXT_STEP" /\ head_cnt' = 0
       ELSE state' = "S_ATT_SCORE" /\ head_cnt' = head_cnt + 1

StepFlushDone == /\ state = "S_UF_RUN" /\ FlushDone
                 /\ state' = "S_NEXT_STEP" /\ UNCHANGED <<qkv_phase, head_cnt>>

-----------------------------------------------------------------------------

NextStep ==
  /\ state = "S_NEXT_STEP" /\ step_bt # "END"
  /\ step_idx' = (step_idx + 1) % 16 /\ state' = "S_DECODE" /\ pulse' = "none"
  /\ UNCHANGED <<busy, req, layer_cnt, step_bt, step_cfg, loops, flags, payload>>

\* Mutant of LastLayer: the last layer is left out.
LastLayer_Short == layer_cnt + 1 >= NUM_ENC_LAYERS - 1
LastLayer == layer_cnt >= NUM_ENC_LAYERS - 1

NextLayer ==
  /\ state = "S_NEXT_STEP" /\ step_bt = "END" /\ pulse' = "none"
  /\ IF LastLayer
       THEN state' = "S_DONE" /\ UNCHANGED <<layer_cnt, step_idx>>
       ELSE layer_cnt' = layer_cnt + 1 /\ step_idx' = 0 /\ state' = "S_DECODE"
  /\ UNCHANGED <<busy, req, step_bt, step_cfg, loops, flags, payload>>

Done == /\ state = "S_DONE"
        /\ pulse' = "done" /\ busy' = FALSE /\ state' = "S_IDLE"
        /\ UNCHANGED <<program, loops, flags, payload>>

-----------------------------------------------------------------------------
Dims == 0 .. 65535
Commands == [op : {"none", "OP_MATMUL", "OP_MATMUL_T", "OP_MATMUL_AA"},
             m : Int, k : Int, n : Int, a_base : Int, a_stride : Int,
             b_base : Int, b_stride : Int, out_col_offset : 0 .. 255]
Flushes == [base : Int, stride : Int, rows : 0 .. 1023, cols : 0 .. 255,
            start_col : 0 .. 255]

\* Every register holds a value of its width.
FsmTypeOK ==
  /\ state \in States /\ busy \in BOOLEAN /\ pulse \in Pulses
  /\ req \in Job
  /\ layer_cnt \in 0 .. NUM_ENC_LAYERS - 1 /\ step_idx \in 0 .. 15
  /\ step_bt \in DOMAIN ExecutorOf \cup {"none"} /\ step_cfg \in 0 .. 3
  /\ qkv_phase \in 0 .. 2 /\ head_cnt \in 0 .. NUM_HEADS - 1
  /\ nm_row_cnt \in Dims
  /\ {nm_flush_phase, waiting_mm, flush_sent} \subseteq BOOLEAN
  /\ nm \in [col_bits : Nat, addr_offset : Dims, rd_base : Int, dim : Int,
             row_idx : Int]
  /\ mm_cmd \in Commands /\ flush_r \in Flushes /\ uf_cmd \in Flushes
=============================================================================
