-------------------------- MODULE ControlLoop_proofs --------------------------
(***************************************************************************)
(* Theorems about ControlLoop, for every value of its constants.           *)
(***************************************************************************)
EXTENDS ControlLoop, TLAPS

-----------------------------------------------------------------------------
(* Type correctness.                                                       *)

\* A remainder is less than what was divided by.
LEMMA Remainder ==
  ASSUME NEW x \in Int, NEW m \in Nat, NEW n, n = m + 1 PROVE x % n \in 0 .. m
OBVIOUS

\* A 16-bit register holds a 16-bit value.
LEMMA WrapType == ASSUME NEW x \in Int PROVE Wrap(x) \in Dims
<1> DEFINE m == 65535  n == 65536
<1>1. m \in Nat /\ n = m + 1
  BY SMT
<1>2. Dims = 0 .. m /\ Wrap(x) = x % n
  BY SMT DEF Dims, Wrap
<1> HIDE DEF m, n
<1> QED
  BY <1>1, <1>2, Remainder

LEMMA DimsType == Dims \subseteq Nat /\ Dims \subseteq Int /\ 0 \in Dims
  BY SMT DEF Dims

\* So do the 10- and 8-bit ones.
LEMMA LowType ==
  ASSUME NEW x \in Int PROVE Low10(x) \in 0 .. 1023 /\ Low8(x) \in 0 .. 255
  BY DEF Low10, Low8

\* The constants and the values derived from them are integers.
LEMMA ConstantTypes ==
  /\ WE \in Nat /\ HEAD_WORDS \in Nat /\ NUM_HEADS \in Nat /\ NUM_HEADS > 0
  /\ NUM_ENC_LAYERS \in Nat /\ NUM_ENC_LAYERS > 0
  /\ weight_base \in Int /\ act_base \in Int /\ kv_base \in Int
  /\ CFG_COL_SEQ \in Nat /\ CFG_COL_MOD \in Nat /\ CFG_COL_FFN \in Nat
  /\ MODEL_STRIDE \in Int /\ MODEL_DIM \in Int /\ HEAD_DIM \in Int
  /\ F_DIM \in Int /\ F_STRIDE \in Int
  BY DimAssumption DEF MODEL_STRIDE, MODEL_DIM, HEAD_DIM, F_DIM

LEMMA LayoutTypes ==
  /\ LAYER_WQ_OFFSET \in Int /\ LAYER_WK_OFFSET \in Int
  /\ LAYER_WV_OFFSET \in Int /\ LAYER_WO_OFFSET \in Int
  /\ LAYER_FFN1_OFFSET \in Int /\ LAYER_FFN2_OFFSET \in Int
  /\ LAYER_LN1_OFFSET \in Int /\ LAYER_LN2_OFFSET \in Int /\ LAYER_SIZE \in Int
  /\ ACT_EMBED_OFFSET \in Int /\ ACT_Q_OFFSET \in Int /\ ACT_ATTN_OFFSET \in Int
  /\ ACT_TEMP_OFF \in Int /\ ACT_FFN_OFFSET \in Int
  /\ KV_V_OFFSET \in Int /\ KV_LAYER_SIZE \in Int
<1>1. MODEL_STRIDE \in Int /\ MODEL_DIM \in Int /\ F_STRIDE \in Int /\ F_DIM \in Int
      /\ MAX_SEQ_LEN \in Int
  BY ConstantTypes, DimAssumption
<1>2. /\ MODEL_DIM * MODEL_STRIDE \in Int /\ MODEL_DIM * F_STRIDE \in Int
      /\ F_DIM * MODEL_STRIDE \in Int /\ MAX_SEQ_LEN * MODEL_STRIDE \in Int
  BY <1>1
<1>3. QED
  BY <1>1, <1>2 DEF LAYER_WQ_OFFSET, LAYER_WK_OFFSET, LAYER_WV_OFFSET,
     LAYER_WO_OFFSET, LAYER_FFN1_OFFSET, LAYER_FFN2_OFFSET, LAYER_LN1_OFFSET,
     LAYER_LN2_OFFSET, LAYER_SIZE, ACT_EMBED_OFFSET, ACT_Q_OFFSET,
     ACT_ATTN_OFFSET, ACT_TEMP_OFF, ACT_FFN_OFFSET, KV_V_OFFSET,
     KV_LAYER_SIZE, ACT_SLAB

\* Every entry of the step table names a block type and a configuration.
LEMMA ProgramType ==
  ASSUME NEW i \in 1 .. 16
  PROVE  /\ PROGRAM[i].bt \in DOMAIN ExecutorOf
         /\ PROGRAM[i].cfg \in 0 .. 3
         /\ ExecutorOf[PROGRAM[i].bt] \in States
  BY DEF PROGRAM, PROG_PRENORM, PROG_POSTNORM, Step, ExecutorOf, States,
         MmStates, FlushStates, UnitStates

\* The products and quotients the registers are loaded with are integers.
LEMMA DerivedTypes ==
  ASSUME FsmTypeOK
  PROVE  /\ bt \in Int /\ cache_total \in Int
         /\ att_rows \in Int /\ att_keys \in Int /\ Words(att_keys) \in Int
         /\ layer_wgt_base \in Int /\ layer_kv_base \in Int /\ kv_row \in Int
         /\ head_cnt \in Int /\ head_cnt * HEAD_WORDS \in Int
<1>1. /\ req.batch \in Int /\ req.seq \in Int /\ req.cache_len \in Int
      /\ layer_cnt \in Int /\ head_cnt \in Int
  BY DEF FsmTypeOK, Job
<1>2. /\ req.batch * req.seq \in Int /\ layer_cnt * LAYER_SIZE \in Int
      /\ layer_cnt * KV_LAYER_SIZE \in Int
      /\ req.cache_len * MODEL_STRIDE \in Int
      /\ head_cnt * HEAD_WORDS \in Int
  BY <1>1, ConstantTypes, LayoutTypes
<1>3. bt \in Int /\ cache_total \in Int
  <2>1. Wrap(req.batch * req.seq) \in Dims /\ Wrap(req.cache_len + 1) \in Dims
    BY <1>1, <1>2, WrapType
  <2>3. bt \in Int
    BY <2>1, DimsType DEF bt
  <2>4. cache_total \in Int
    BY <2>1, DimsType DEF cache_total
  <2>5. QED
    BY <2>3, <2>4
<1>4. att_rows \in Int /\ att_keys \in Int
  BY <1>1, <1>3 DEF att_rows, att_keys
<1>5. Words(att_keys) \in Int
  BY <1>4, DimAssumption DEF Words
<1>6. layer_wgt_base \in Int /\ layer_kv_base \in Int /\ kv_row \in Int
  BY <1>1, <1>2, ConstantTypes DEF layer_wgt_base, layer_kv_base, kv_row
<1>7. QED
  BY <1>1, <1>2, <1>3, <1>4, <1>5, <1>6

\* A command built from integers is well formed, whatever the integers are.
LEMMA MatmulType ==
  ASSUME NEW op \in {"OP_MATMUL", "OP_MATMUL_T", "OP_MATMUL_AA"},
         NEW m \in Int, NEW k \in Int, NEW n \in Int, NEW a \in Int,
         NEW a_stride \in Int, NEW b \in Int, NEW b_stride \in Int, NEW off \in Int
  PROVE  Matmul(op, m, k, n, a, a_stride, b, b_stride, off) \in Commands
  BY LowType DEF Matmul, Commands

LEMMA FlushType ==
  ASSUME NEW base \in Int, NEW stride \in Int, NEW rows \in Int, NEW cols \in Int,
         NEW col0 \in Int
  PROVE  Flush(base, stride, rows, cols, col0) \in Flushes
<1>1. Low10(rows) \in 0 .. 1023
  BY SMTT(40), LowType
<1>2. Low8(cols) \in 0 .. 255
  BY LowType
<1>3. Low8(col0) \in 0 .. 255
  BY LowType
<1>4. QED
  BY <1>1, <1>2, <1>3 DEF Flush, Flushes

\* Every address and size the commands are built from is an integer.
LEMMA OperandTypes ==
  ASSUME FsmTypeOK
  PROVE  /\ act_base + ACT_EMBED_OFFSET \in Int /\ act_base + ACT_TEMP_OFF \in Int
         /\ act_base + ACT_Q_OFFSET \in Int /\ act_base + ACT_ATTN_OFFSET \in Int
         /\ act_base + ACT_FFN_OFFSET \in Int
         /\ act_base + ACT_Q_OFFSET + head_cnt * HEAD_WORDS \in Int
         /\ layer_kv_base + head_cnt * HEAD_WORDS \in Int
         /\ layer_kv_base + KV_V_OFFSET + head_cnt * HEAD_WORDS \in Int
         /\ layer_kv_base + kv_row \in Int
         /\ layer_kv_base + KV_V_OFFSET + kv_row \in Int
         /\ layer_wgt_base + LAYER_WQ_OFFSET \in Int
         /\ layer_wgt_base + LAYER_WK_OFFSET \in Int
         /\ layer_wgt_base + LAYER_WV_OFFSET \in Int
         /\ layer_wgt_base + LAYER_WO_OFFSET \in Int
         /\ layer_wgt_base + LAYER_FFN1_OFFSET \in Int
         /\ layer_wgt_base + LAYER_FFN2_OFFSET \in Int
         /\ bt - 1 \in Int /\ att_rows - 1 \in Int /\ Words(att_keys) - 1 \in Int
         /\ MODEL_STRIDE - 1 \in Int /\ F_STRIDE - 1 \in Int /\ HEAD_WORDS - 1 \in Int
<1>1. \A x, y \in Int : x + y \in Int /\ x - 1 \in Int
  OBVIOUS
<1>2. HEAD_WORDS \in Int
  BY ConstantTypes
<1>3. QED
  BY <1>1, <1>2, ConstantTypes, LayoutTypes, DerivedTypes

\* Every command the controller can load is well formed.
LEMMA CommandTypes ==
  ASSUME FsmTypeOK
  PROVE  /\ QkvCommand \in Commands /\ ScoreCommand \in Commands
         /\ OutCommand \in Commands /\ RunCommand \in Commands
         /\ QkvFlush \in Flushes /\ ScoreFlush \in Flushes
         /\ OutFlush \in Flushes /\ StepFlush \in Flushes
<1>0. /\ MODEL_STRIDE \in Int /\ MODEL_DIM \in Int /\ HEAD_DIM \in Int
      /\ F_DIM \in Int /\ F_STRIDE \in Int /\ 0 \in Int
  BY ConstantTypes
<1>0a. /\ bt \in Int /\ att_rows \in Int /\ att_keys \in Int
       /\ Words(att_keys) \in Int /\ head_cnt * HEAD_WORDS \in Int
  BY DerivedTypes
<1>1. QkvCommand \in Commands
  <2> DEFINE a == act_base + (IF step_cfg = 0 THEN ACT_EMBED_OFFSET ELSE ACT_TEMP_OFF)
             b == layer_wgt_base + (CASE qkv_phase = 0 -> LAYER_WQ_OFFSET
                                      [] qkv_phase = 1 -> LAYER_WK_OFFSET
                                      [] OTHER -> LAYER_WV_OFFSET)
  <2>1. a \in Int
    BY OperandTypes
  <2>2. b \in Int
    BY OperandTypes
  <2> HIDE DEF a, b
  <2>3. Matmul("OP_MATMUL", bt, MODEL_DIM, MODEL_DIM, a, MODEL_STRIDE,
               b, MODEL_STRIDE, 0) \in Commands
    BY <1>0, <1>0a, <2>1, <2>2, MatmulType
  <2>4. QED
    BY <2>3 DEF QkvCommand, a, b
<1>2. ScoreCommand \in Commands
  BY <1>0, <1>0a, OperandTypes, MatmulType DEF ScoreCommand
<1>3. OutCommand \in Commands
  BY <1>0, <1>0a, OperandTypes, MatmulType DEF OutCommand
<1>4. RunCommand \in Commands
  <2>1. CASE step_cfg = 0
    BY <1>0, <1>0a, <2>1, OperandTypes, MatmulType DEF RunCommand
  <2>2. CASE step_cfg \in {1, 2}
    <3> DEFINE a == act_base + (IF step_cfg = 1 THEN ACT_EMBED_OFFSET
                                                ELSE ACT_TEMP_OFF)
    <3>1. a \in Int
      BY OperandTypes
    <3> HIDE DEF a
    <3>2. Matmul("OP_MATMUL", bt, MODEL_DIM, F_DIM, a, MODEL_STRIDE,
                 layer_wgt_base + LAYER_FFN1_OFFSET, F_STRIDE, 0) \in Commands
      BY <1>0, <1>0a, <3>1, OperandTypes, MatmulType
    <3>3. QED
      BY <2>2, <3>2 DEF RunCommand, a
  <2>3. CASE step_cfg \notin {0, 1, 2}
    BY <1>0, <1>0a, <2>3, OperandTypes, MatmulType DEF RunCommand
  <2>4. QED
    BY <2>1, <2>2, <2>3
<1>5. QkvFlush \in Flushes
  <2> DEFINE b == CASE qkv_phase = 0 -> act_base + ACT_Q_OFFSET
                    [] qkv_phase = 1 -> layer_kv_base + kv_row
                    [] OTHER -> layer_kv_base + KV_V_OFFSET + kv_row
  <2>1. b \in Int
    BY OperandTypes
  <2> HIDE DEF b
  <2>2. Flush(b, MODEL_STRIDE, bt - 1, MODEL_STRIDE - 1, 0) \in Flushes
    BY <1>0, <2>1, OperandTypes, FlushType
  <2>3. QED
    BY <2>2 DEF QkvFlush, b
<1>6. ScoreFlush \in Flushes
  BY <1>0, <1>0a, OperandTypes, FlushType DEF ScoreFlush
<1>7. OutFlush \in Flushes
  BY <1>0, <1>0a, OperandTypes, FlushType DEF OutFlush
<1>8. StepFlush \in Flushes
  BY <1>0, OperandTypes, FlushType DEF StepFlush
<1>9. QED
  BY <1>1, <1>2, <1>3, <1>4, <1>5, <1>6, <1>7, <1>8

\* What a unit's branch loads into the registers of the scalar path.
LEMMA SetupType ==
  ASSUME FsmTypeOK, NEW u \in Units
  PROVE  UnitSetup(u) \in [col_bits : Nat, addr_offset : Dims, rd_base : Int,
                           dim : Int, row_idx : Int]
<1> USE ConstantTypes, LayoutTypes, DerivedTypes
<1>1. nm \in [col_bits : Nat, addr_offset : Dims, rd_base : Int, dim : Int,
              row_idx : Int]
  BY DEF FsmTypeOK
<1>2. nm_row_cnt \in Int /\ req.cache_len \in Int
  BY DimsType DEF FsmTypeOK, Job
<1>3. nm_row_cnt * MODEL_DIM \in Int /\ nm_row_cnt * att_keys \in Int
      /\ bt * F_DIM \in Int /\ bt * MODEL_DIM \in Int
  BY <1>2
<1>4. RowOffset(MODEL_DIM) \in Dims /\ RowOffset(att_keys) \in Dims
      /\ Wrap(bt * F_DIM) \in Dims /\ Wrap(bt * MODEL_DIM) \in Dims
  BY <1>3, WrapType DEF RowOffset
<1>5. CASE u = "ln"
  <2>1. layer_wgt_base + (IF step_cfg = 0 THEN LAYER_LN1_OFFSET
                                          ELSE LAYER_LN2_OFFSET) \in Int
    OBVIOUS
  <2>2. QED
    BY <1>1, <1>4, <1>5, <2>1 DEF UnitSetup
<1>6. CASE u = "sm"
  <2>1. CausalRow \in Int
    BY <1>2 DEF CausalRow
  <2>2. QED
    BY <1>1, <1>4, <1>6, <2>1 DEF UnitSetup
<1>7. CASE u = "act"
  BY <1>1, <1>4, <1>7, DimsType DEF UnitSetup
<1>8. CASE u = "res"
  <2>1. act_base + ACT_EMBED_OFFSET \in Int
    OBVIOUS
  <2>1a. Wrap(bt * MODEL_DIM) \in Int
    BY <1>4, DimsType
  <2>2. UnitSetup(u) = [nm EXCEPT !.col_bits = CFG_COL_MOD,
                                  !.rd_base = act_base + ACT_EMBED_OFFSET,
                                  !.dim = Wrap(bt * MODEL_DIM)]
    BY <1>8 DEF UnitSetup
  <2>3. QED
    BY <1>1, <2>1, <2>1a, <2>2
<1>9. QED
  BY <1>5, <1>6, <1>7, <1>8 DEF Units

\* One edge of the executors and the host port keeps their types.
LEMMA EdgeType ==
  ASSUME TypeOK, Edge
  PROVE  /\ start' \in Jobs \cup {NONE} /\ rsp' \subseteq Devices
         /\ left' \in [Devices -> Nat] /\ restarted' \subseteq Units
<1>1. start' \in Jobs \cup {NONE}
  BY DEF Edge, Host
<1>2. PICK n \in UNION {Latency[d] : d \in Devices} :
        /\ left' = [d \in Devices |-> IF left[d] > 0 THEN left[d] - 1
                                     ELSE IF Accepts(d) THEN n ELSE 0]
        /\ rsp' \subseteq {d \in Devices : left[d] = 1 \/ (Accepts(d) /\ n = 0)}
        /\ restarted' \subseteq Units
  BY DEF Edge, Executors
<1>3. n \in Nat
  BY LatencyAssumption
<1>4. left' \in [Devices -> Nat]
  BY <1>2, <1>3 DEF TypeOK
<1>5. QED
  BY <1>1, <1>2, <1>4

\* Every action of the controller keeps its registers within their types.
LEMMA FsmTypeStep ==
  ASSUME TypeOK, [Next]_vars
  PROVE  FsmTypeOK'
<1> USE DEF TypeOK, FsmTypeOK, program, loops, flags, payload
<1>1. CASE IdleWait
  BY <1>1 DEF IdleWait, Pulses
<1>2. CASE IdleStart
  <2>1. req' \in Job
    BY <1>2, JobAssumption DEF IdleStart
  <2>2. layer_cnt' \in 0 .. NUM_ENC_LAYERS - 1 /\ head_cnt' \in 0 .. NUM_HEADS - 1
    BY <1>2, ConstantTypes DEF IdleStart
  <2>3. nm' \in [col_bits : Nat, addr_offset : Dims, rd_base : Int, dim : Int,
                row_idx : Int] /\ nm_row_cnt' \in Dims
    BY <1>2, DimsType DEF IdleStart
  <2>4. QED
    BY <1>2, <2>1, <2>2, <2>3 DEF IdleStart, States, Pulses
<1>3. CASE Decode
  BY <1>3, ProgramType, DimAssumption DEF Decode, Pulses
<1>4. CASE \E u \in Units : UnitFire(u)
  BY <1>4, SetupType DEF UnitFire, StartOf, Pulses
<1>5. CASE \E u \in Units : UnitWait(u)
  BY <1>5 DEF UnitWait, Hold, Pulses
<1>6. CASE \E u \in Units : UnitRowDone(u)
  <2>1. nm_row_cnt' \in Dims
    <3>1. nm_row_cnt + 1 \in Int
      BY DimsType
    <3>2. QED
      BY <1>6, <3>1, WrapType DEF UnitRowDone
  <2>2. QED
    BY <1>6, <2>1 DEF UnitRowDone, Pulses
<1>7. CASE \E u \in Units : UnitLastDone(u)
  <2>1. nm' \in [col_bits : Nat, addr_offset : Dims, rd_base : Int, dim : Int,
                row_idx : Int] /\ nm_row_cnt' \in Dims
    BY <1>7, DimsType DEF UnitLastDone
  <2>2. QED
    BY <1>7, <2>1 DEF UnitLastDone, Pulses
<1>8. CASE NmFlushFire
  BY <1>8 DEF NmFlushFire, Pulses
<1>9. CASE NmFlushWait
  BY <1>9 DEF NmFlushWait, Hold, Pulses
<1>10. CASE NmFlushDone
  BY <1>10 DEF NmFlushDone, Pulses, States, FlushStates
<1>11. CASE MmIssue(mm_cmd_ready)
  BY <1>11, CommandTypes DEF MmIssue, Pulses
<1>12. CASE MmWait(mm_cmd_ready)
  BY <1>12 DEF MmWait, Hold, Pulses
<1>13. CASE MmDone
  BY <1>13 DEF MmDone, Pulses, States, FlushStates, UnitStates
<1>14. CASE FlushFire
  BY <1>14, CommandTypes DEF FlushFire, Pulses
<1>15. CASE FlushWait
  BY <1>15 DEF FlushWait, Hold, Pulses
<1>16. CASE QkvFlushDone
  <2>1. qkv_phase' \in 0 .. 2 /\ state' \in States
    BY <1>16 DEF QkvFlushDone, States, MmStates
  <2>2. QED
    BY <1>16, <2>1 DEF QkvFlushDone, FlushDone, Pulses
<1>17. CASE ScoreFlushDone
  BY <1>17 DEF ScoreFlushDone, FlushDone, Pulses, States, MmStates
<1>18. CASE HeadFlushDone
  <2>1. head_cnt' \in 0 .. NUM_HEADS - 1
    BY <1>18, ConstantTypes DEF HeadFlushDone, LastHead
  <2>2. state' \in States
    BY <1>18 DEF HeadFlushDone, States, MmStates
  <2>3. QED
    BY <1>18, <2>1, <2>2 DEF HeadFlushDone, FlushDone, Pulses
<1>19. CASE StepFlushDone
  BY <1>19 DEF StepFlushDone, FlushDone, Pulses, States
<1>20. CASE NextStep
  BY <1>20 DEF NextStep, Pulses, States
<1>21. CASE NextLayer
  BY <1>21, DimAssumption DEF NextLayer, LastLayer, Pulses, States
<1>22. CASE Done
  BY <1>22 DEF Done, Pulses, States
<1>23. CASE UNCHANGED vars
  BY <1>23 DEF vars, fsmVars
<1>24. QED
  BY <1>1, <1>2, <1>3, <1>4, <1>5, <1>6, <1>7, <1>8, <1>9, <1>10, <1>11, <1>12, <1>13, <1>14, <1>15, <1>16, <1>17, <1>18, <1>19, <1>20, <1>21, <1>22, <1>23 DEF Next

\* The registers and wires always hold values of their types.
THEOREM TypeCorrect == Spec => []TypeOK
<1>1. Init => TypeOK
  <2> SUFFICES ASSUME Init PROVE TypeOK
    OBVIOUS
  <2>1. mm_cmd \in Commands /\ flush_r \in Flushes /\ uf_cmd \in Flushes
    BY LowType DEF Init, FsmInit, NoMatmul, NoFlush, Matmul, Commands, Flushes
  <2>2. nm \in [col_bits : Nat, addr_offset : Dims, rd_base : Int, dim : Int,
               row_idx : Int] /\ nm_row_cnt \in Dims
    BY DimsType DEF Init, FsmInit
  <2>3. layer_cnt \in 0 .. NUM_ENC_LAYERS - 1 /\ head_cnt \in 0 .. NUM_HEADS - 1
    BY ConstantTypes DEF Init, FsmInit
  <2>4. FsmTypeOK
    <3>1. req \in Job /\ step_idx \in 0 .. 15 /\ step_cfg \in 0 .. 3
          /\ qkv_phase \in 0 .. 2
      BY DEF Init, FsmInit, Job
    <3>2. state \in States /\ busy \in BOOLEAN /\ pulse \in Pulses
          /\ {nm_flush_phase, waiting_mm, flush_sent} \subseteq BOOLEAN
      BY DEF Init, FsmInit, States, Pulses
    <3>3. QED
      BY <2>1, <2>2, <2>3, <3>1, <3>2 DEF Init, FsmInit, FsmTypeOK
  <2>5. QED
    BY <2>4 DEF Init, TypeOK
<1>2. TypeOK /\ [Next]_vars => TypeOK'
  <2> SUFFICES ASSUME TypeOK, [Next]_vars PROVE TypeOK'
    OBVIOUS
  <2>1. FsmTypeOK'
    BY FsmTypeStep
  <2>2. CASE Next
    <3>1. Edge
      BY <2>2 DEF Next
    <3>2. QED
      BY <2>1, <3>1, EdgeType DEF TypeOK
  <2>3. CASE UNCHANGED vars
    BY <2>1, <2>3 DEF vars, TypeOK
  <2>4. QED
    BY <2>2, <2>3
<1>3. QED
  BY <1>1, <1>2, PTL DEF Spec

-----------------------------------------------------------------------------
(* The handshakes with the tiling engine and uram_flush.                   *)

\* What one edge does to one executor.
LEMMA EdgeEffect ==
  ASSUME TypeOK, Edge, NEW d \in Devices
  PROVE  /\ left[d] > 0 => left'[d] = left[d] - 1
         /\ left[d] = 0 /\ pulse # StartPulse(d) => left'[d] = 0
         /\ left[d] = 0 /\ pulse = StartPulse(d) => left'[d] \in Latency[d]
         /\ d \in rsp' => left'[d] = 0 /\ (left[d] = 1 \/ Accepts(d))
         /\ (left[d] = 1 \/ Accepts(d)) /\ left'[d] = 0 /\ d # "ad" => d \in rsp'
<1>1. PICK n \in UNION {Latency[e] : e \in Devices} :
        /\ \A e \in Devices : Accepts(e) => n \in Latency[e]
        /\ left' = [e \in Devices |-> IF left[e] > 0 THEN left[e] - 1
                                     ELSE IF Accepts(e) THEN n ELSE 0]
        /\ LET finished == {e \in Devices : left[e] = 1 \/ (Accepts(e) /\ n = 0)}
           IN rsp' \in {finished, finished \ Dropped}
  BY DEF Edge, Executors
<1>2. left'[d] = IF left[d] > 0 THEN left[d] - 1
                 ELSE IF Accepts(d) THEN n ELSE 0
  BY <1>1
<1>3. left[d] \in Nat
  BY DEF TypeOK
<1>4. d \in rsp' => left[d] = 1 \/ (Accepts(d) /\ n = 0)
  BY <1>1
<1>5. (left[d] = 1 \/ (Accepts(d) /\ n = 0)) /\ d # "ad" => d \in rsp'
  BY <1>1 DEF Dropped
<1>6. Accepts(d) <=> left[d] = 0 /\ pulse = StartPulse(d)
  BY DEF Accepts
<1>7. Accepts(d) => n \in Latency[d]
  BY <1>1
<1>8. QED
  BY <1>2, <1>3, <1>4, <1>5, <1>6, <1>7

\* The flag of one executor d is set by an issue, kept while d is engaged and
\* cleared when d reports.
LEMMA HandshakeKept ==
  ASSUME TypeOK, Edge, NEW d \in {"mm", "uf"}, OneStage(d),
         pulse' # StartPulse(d)
  PROVE  /\ OneStage(d)'
         /\ Engaged(d)' <=> (Engaged(d) /\ d \notin rsp)
<1>1. d \in Devices /\ d # "ad" /\ left[d] \in Nat /\ left'[d] \in Nat
  BY EdgeType DEF Devices, TypeOK
<1>2. /\ left[d] > 0 => left'[d] = left[d] - 1
      /\ left[d] = 0 /\ pulse # StartPulse(d) => left'[d] = 0
      /\ d \in rsp' => left'[d] = 0 /\ (left[d] = 1 \/ Accepts(d))
      /\ (left[d] = 1 \/ Accepts(d)) /\ left'[d] = 0 => d \in rsp'
  BY <1>1, EdgeEffect
<1>3. Accepts(d) <=> left[d] = 0 /\ pulse = StartPulse(d)
  BY DEF Accepts
<1>4. (StartPulse(d))' = StartPulse(d)
  BY DEF StartPulse, StartOf
<1>5. QED
  BY <1>1, <1>2, <1>3, <1>4 DEF OneStage, Engaged

LEMMA HandshakeIssued ==
  ASSUME TypeOK, Edge, NEW d \in {"mm", "uf"}, ~Engaged(d),
         pulse' = StartPulse(d)
  PROVE  OneStage(d)' /\ Engaged(d)'
<1>1. d \in Devices /\ left[d] \in Nat
  BY DEF Devices, TypeOK
<1>2. left'[d] = 0 /\ d \notin rsp'
  BY <1>1, EdgeEffect DEF Engaged, Accepts
<1>3. (StartPulse(d))' = StartPulse(d)
  BY DEF StartPulse, StartOf
<1>4. QED
  BY <1>2, <1>3 DEF OneStage, Engaged

\* The mm half of HandshakeInv.
MmInv == /\ waiting_mm <=> Engaged("mm")
         /\ OneStage("mm")
         /\ waiting_mm => state \in MmStates
\* The uf half.
UfInv == /\ flush_sent <=> Engaged("uf")
         /\ OneStage("uf")
         /\ flush_sent => state \in FlushStates

\* Outside the four matmul states nothing is asked of the tiling engine and
\* the flag keeps its value; likewise for uram_flush.
LEMMA QuietStep ==
  ASSUME TypeOK, Next
  PROVE  /\ state \notin MmStates =>
              waiting_mm' = waiting_mm /\ pulse' # "mm_cmd_valid"
         /\ state \notin FlushStates =>
              flush_sent' = flush_sent /\ pulse' # "uram_flush_start"
<1> USE DEF program, loops, flags, payload
<1>1. CASE IdleWait
  BY <1>1 DEF IdleWait
<1>2. CASE IdleStart
  BY <1>2 DEF IdleStart
<1>3. CASE Decode
  BY <1>3 DEF Decode
<1>4. CASE \E u \in Units : UnitFire(u)
  BY <1>4 DEF UnitFire, StartOf
<1>5. CASE \E u \in Units : UnitWait(u)
  BY <1>5 DEF UnitWait, Hold
<1>6. CASE \E u \in Units : UnitRowDone(u)
  BY <1>6 DEF UnitRowDone
<1>7. CASE \E u \in Units : UnitLastDone(u)
  BY <1>7 DEF UnitLastDone
<1>8. CASE NmFlushFire
  BY <1>8 DEF NmFlushFire
<1>9. CASE NmFlushWait
  BY <1>9 DEF NmFlushWait, Hold
<1>10. CASE NmFlushDone
  BY <1>10 DEF NmFlushDone
<1>11. CASE MmIssue(mm_cmd_ready)
  BY <1>11 DEF MmIssue, MmStates, FlushStates
<1>12. CASE MmWait(mm_cmd_ready)
  BY <1>12 DEF MmWait, Hold
<1>13. CASE MmDone
  BY <1>13 DEF MmDone, MmStates, FlushStates
<1>14. CASE FlushFire
  BY <1>14 DEF FlushFire, FlushStates, MmStates
<1>15. CASE FlushWait
  BY <1>15 DEF FlushWait, Hold
<1>16. CASE QkvFlushDone
  BY <1>16 DEF QkvFlushDone, FlushDone
<1>17. CASE ScoreFlushDone
  BY <1>17 DEF ScoreFlushDone, FlushDone
<1>18. CASE HeadFlushDone
  BY <1>18 DEF HeadFlushDone, FlushDone
<1>19. CASE StepFlushDone
  BY <1>19 DEF StepFlushDone, FlushDone
<1>20. CASE NextStep
  BY <1>20 DEF NextStep
<1>21. CASE NextLayer
  BY <1>21 DEF NextLayer
<1>22. CASE Done
  BY <1>22 DEF Done
<1>23. QED
  BY <1>1, <1>2, <1>3, <1>4, <1>5, <1>6, <1>7, <1>8, <1>9, <1>10, <1>11, <1>12, <1>13, <1>14, <1>15, <1>16, <1>17, <1>18, <1>19, <1>20, <1>21, <1>22 DEF Next

\* A step taken in a matmul state issues, waits or finishes.
LEMMA MmStep ==
  ASSUME TypeOK, Next, state \in MmStates
  PROVE  MmIssue(mm_cmd_ready) \/ MmWait(mm_cmd_ready) \/ MmDone
<1>1. /\ ~IdleWait /\ ~IdleStart /\ ~Decode /\ ~NextStep /\ ~NextLayer /\ ~Done
      /\ ~FlushFire /\ ~FlushWait /\ ~QkvFlushDone /\ ~ScoreFlushDone
      /\ ~HeadFlushDone /\ ~StepFlushDone
  BY DEF MmStates, FlushStates, IdleWait, IdleStart, Decode, NextStep, NextLayer,
     Done, FlushFire, FlushWait, QkvFlushDone, ScoreFlushDone, HeadFlushDone,
     StepFlushDone
<1>2. /\ \A u \in Units : ~UnitFire(u) /\ ~UnitWait(u) /\ ~UnitRowDone(u)
                          /\ ~UnitLastDone(u)
      /\ ~NmFlushFire /\ ~NmFlushWait /\ ~NmFlushDone
  BY DEF MmStates, UnitStates, UnitFire, UnitWait, UnitRowDone, UnitLastDone,
     InUnit, InNmFlush, NmFlushFire, NmFlushWait, NmFlushDone
<1>3. QED
  BY <1>1, <1>2 DEF Next

LEMMA FlushStep ==
  ASSUME TypeOK, Next, state \in FlushStates
  PROVE  FlushFire \/ FlushWait \/ QkvFlushDone \/ ScoreFlushDone
           \/ HeadFlushDone \/ StepFlushDone
<1>1. /\ ~IdleWait /\ ~IdleStart /\ ~Decode /\ ~NextStep /\ ~NextLayer /\ ~Done
      /\ ~MmIssue(mm_cmd_ready) /\ ~MmWait(mm_cmd_ready) /\ ~MmDone
  BY DEF MmStates, FlushStates, IdleWait, IdleStart, Decode, NextStep, NextLayer,
     Done, MmIssue, MmWait, MmDone
<1>2. /\ \A u \in Units : ~UnitFire(u) /\ ~UnitWait(u) /\ ~UnitRowDone(u)
                          /\ ~UnitLastDone(u)
      /\ ~NmFlushFire /\ ~NmFlushWait /\ ~NmFlushDone
  BY DEF FlushStates, UnitStates, UnitFire, UnitWait, UnitRowDone, UnitLastDone,
     InUnit, InNmFlush, NmFlushFire, NmFlushWait, NmFlushDone
<1>3. QED
  BY <1>1, <1>2 DEF Next

LEMMA MmKept ==
  ASSUME TypeOK, MmInv, Next
  PROVE  MmInv'
<1> USE DEF program, loops, flags, payload
<1>1. Edge /\ StartPulse("mm") = "mm_cmd_valid"
  BY DEF Next, StartPulse
<1>2. CASE state \notin MmStates
  <2>1. ~waiting_mm' /\ pulse' # "mm_cmd_valid"
    BY <1>2, QuietStep DEF MmInv
  <2>2. OneStage("mm")' /\ ~Engaged("mm")'
    BY <1>1, <1>2, <2>1, HandshakeKept DEF MmInv
  <2>3. QED
    BY <2>1, <2>2 DEF MmInv
<1>3. CASE MmIssue(mm_cmd_ready)
  <2>1. OneStage("mm")' /\ Engaged("mm")'
    BY <1>1, <1>3, HandshakeIssued DEF MmInv, MmIssue
  <2>2. QED
    BY <1>3, <2>1 DEF MmInv, MmIssue
<1>4. CASE MmWait(mm_cmd_ready)
  <2>1. OneStage("mm")' /\ (Engaged("mm")' <=> (Engaged("mm") /\ "mm" \notin rsp))
    BY <1>1, <1>4, HandshakeKept DEF MmInv, MmWait, Hold
  <2>2. QED
    BY <1>4, <2>1 DEF MmInv, MmWait, Hold
<1>5. CASE MmDone
  <2>1. OneStage("mm")' /\ ~Engaged("mm")'
    BY <1>1, <1>5, HandshakeKept DEF MmInv, MmDone, MmAnswered
  <2>2. QED
    BY <1>5, <2>1 DEF MmInv, MmDone, MmAnswered
<1>6. QED
  BY <1>2, <1>3, <1>4, <1>5, MmStep

LEMMA UfKept ==
  ASSUME TypeOK, UfInv, Next
  PROVE  UfInv'
<1> USE DEF program, loops, flags, payload
<1>1. Edge /\ StartPulse("uf") = "uram_flush_start"
  BY DEF Next, StartPulse
<1>2. CASE state \notin FlushStates
  <2>1. ~flush_sent' /\ pulse' # "uram_flush_start"
    BY <1>2, QuietStep DEF UfInv
  <2>2. OneStage("uf")' /\ ~Engaged("uf")'
    BY <1>1, <1>2, <2>1, HandshakeKept DEF UfInv
  <2>3. QED
    BY <2>1, <2>2 DEF UfInv
<1>3. CASE FlushFire
  <2>1. OneStage("uf")' /\ Engaged("uf")'
    BY <1>1, <1>3, HandshakeIssued DEF UfInv, FlushFire
  <2>2. QED
    BY <1>3, <2>1 DEF UfInv, FlushFire
<1>4. CASE FlushWait
  <2>1. OneStage("uf")' /\ (Engaged("uf")' <=> (Engaged("uf") /\ "uf" \notin rsp))
    BY <1>1, <1>4, HandshakeKept DEF UfInv, FlushWait, Hold
  <2>2. QED
    BY <1>4, <2>1 DEF UfInv, FlushWait, Hold
<1>5. CASE FlushDone
  <2>1. OneStage("uf")' /\ ~Engaged("uf")'
    BY <1>1, <1>5, HandshakeKept DEF UfInv, FlushDone
  <2>2. QED
    BY <1>5, <2>1 DEF UfInv, FlushDone
<1>6. QED
  BY <1>2, <1>3, <1>4, <1>5, FlushStep DEF QkvFlushDone, ScoreFlushDone,
     HeadFlushDone, StepFlushDone

\* For every latency of the executors the controller has at most one request
\* under way at the tiling engine and at uram_flush, and its flags say so.
THEOREM HandshakesMatch == Spec => []OneOutstanding
<1>1. Init => MmInv /\ UfInv
  BY DEF Init, FsmInit, MmInv, UfInv, Engaged, OneStage, StartPulse, Devices
<1>2. TypeOK /\ MmInv /\ UfInv /\ [Next]_vars => (MmInv /\ UfInv)'
  <2> SUFFICES ASSUME TypeOK, MmInv, UfInv, [Next]_vars
               PROVE  (MmInv /\ UfInv)'
    OBVIOUS
  <2>1. CASE Next
    BY <2>1, MmKept, UfKept
  <2>2. CASE UNCHANGED vars
    BY <2>2 DEF vars, fsmVars, flags, MmInv, UfInv, Engaged, OneStage, StartPulse,
       StartOf
  <2>3. QED
    BY <2>1, <2>2
<1>3. MmInv /\ UfInv => OneOutstanding
  BY DEF MmInv, UfInv, OneOutstanding
<1>4. QED
  BY <1>1, <1>2, <1>3, TypeCorrect, PTL DEF Spec

-----------------------------------------------------------------------------
(* Executors exclude each other but for units started twice.               *)

\* A unit is engaged only in its own branch, unless its start met its done.
UnitInv(u) ==
  /\ Engaged(u) /\ u \notin restarted => InUnit(u)
  /\ u \in rsp => left[u] = 0

\* The adapter is engaged only in the flush phase of a unit's branch.
AdapterInv ==
  /\ left["ad"] = 0
  /\ Engaged("ad") => InNmFlush
  /\ "ad" \in rsp => pulse # "nm_adapter_flush"
  /\ nm_flush_phase => state \in UnitStates

ExclusionInv == /\ MmInv /\ UfInv /\ AdapterInv
                /\ \A u \in Units : UnitInv(u)

LEMMA ExclusionImplied ==
  ASSUME TypeOK, ExclusionInv
  PROVE  AtMostOneExecutor
<1>1. /\ Engaged("mm") => state \in MmStates
      /\ Engaged("uf") => state \in FlushStates
      /\ Engaged("ad") => state \in UnitStates /\ nm_flush_phase
  BY DEF ExclusionInv, MmInv, UfInv, AdapterInv, InNmFlush
<1>2. \A u \in Units : Engaged(u) /\ u \notin restarted =>
        state \in UnitStates /\ ~nm_flush_phase /\ UnitOf(state) = u
  BY DEF ExclusionInv, UnitInv, InUnit
<1>3. /\ MmStates \cap FlushStates = {} /\ MmStates \cap UnitStates = {}
      /\ FlushStates \cap UnitStates = {}
  BY DEF MmStates, FlushStates, UnitStates
<1>4. SUFFICES ASSUME NEW d \in Devices \ restarted, NEW e \in Devices \ restarted,
                      Engaged(d), Engaged(e)
               PROVE  d = e
  BY DEF AtMostOneExecutor
<1>5. QED
  BY <1>1, <1>2, <1>3, <1>4 DEF Devices

\* A start that is not raised in this step.
LEMMA UnitPulse ==
  ASSUME TypeOK, Next, NEW u \in Units
  PROVE  /\ pulse' = StartOf(u) => UnitFire(u)
         /\ InUnit(u) => \/ UnitFire(u) \/ UnitWait(u)
                          \/ UnitRowDone(u) \/ UnitLastDone(u)
<1> USE DEF program, loops, flags, payload
<1>1. pulse' = StartOf(u) => UnitFire(u)
  BY DEF Next, IdleWait, IdleStart, Decode, UnitFire, UnitWait, UnitRowDone,
     UnitLastDone, NmFlushFire, NmFlushWait, NmFlushDone, MmIssue, MmWait, MmDone,
     FlushFire, FlushWait, QkvFlushDone, ScoreFlushDone, HeadFlushDone,
     StepFlushDone, FlushDone, NextStep, NextLayer, Done, Hold, StartOf, Units
<1>2. InUnit(u) => \/ UnitFire(u) \/ UnitWait(u)
                   \/ UnitRowDone(u) \/ UnitLastDone(u)
  <2> SUFFICES ASSUME InUnit(u)
               PROVE  \/ UnitFire(u) \/ UnitWait(u)
                      \/ UnitRowDone(u) \/ UnitLastDone(u)
    OBVIOUS
  <2>1. state \in UnitStates /\ state \notin MmStates /\ state \notin FlushStates
    BY DEF InUnit, UnitStates, MmStates, FlushStates
  <2>2. /\ ~IdleWait /\ ~IdleStart /\ ~Decode /\ ~NextStep /\ ~NextLayer /\ ~Done
        /\ ~MmIssue(mm_cmd_ready) /\ ~MmWait(mm_cmd_ready) /\ ~MmDone
    BY <2>1 DEF UnitStates, IdleWait, IdleStart, Decode, NextStep, NextLayer,
       Done, MmIssue, MmWait, MmDone
  <2>3. /\ ~FlushFire /\ ~FlushWait /\ ~QkvFlushDone /\ ~ScoreFlushDone
        /\ ~HeadFlushDone /\ ~StepFlushDone
    BY <2>1 DEF FlushFire, FlushWait, QkvFlushDone, ScoreFlushDone,
       HeadFlushDone, StepFlushDone, FlushDone
  <2>4. ~NmFlushFire /\ ~NmFlushWait /\ ~NmFlushDone
    BY DEF InUnit, InNmFlush, NmFlushFire, NmFlushWait, NmFlushDone
  <2>5. \E v \in Units : UnitFire(v) \/ UnitWait(v) \/ UnitRowDone(v)
                            \/ UnitLastDone(v)
    BY <2>2, <2>3, <2>4 DEF Next
  <2>6. QED
    BY <2>5 DEF UnitFire, UnitWait, UnitRowDone, UnitLastDone, InUnit
<1>3. QED
  BY <1>1, <1>2

\* Which units an edge starts a second time, and which it lets go.
LEMMA Restarts ==
  ASSUME Edge, NEW u \in Units
  PROVE  u \in restarted' <=> \/ Accepts(u) /\ u \in rsp
                              \/ u \in restarted /\ u \notin rsp
<1>1. restarted' = {v \in Units : \/ Accepts(v) /\ v \in rsp
                                  \/ v \in restarted /\ v \notin rsp}
  BY DEF Edge, Executors
<1>2. QED
  BY Zenon, <1>1

LEMMA UnitKept ==
  ASSUME TypeOK, Next, NEW u \in Units, UnitInv(u)
  PROVE  UnitInv(u)'
<1> USE DEF program, loops, flags, payload
<1>1. /\ Edge /\ u \in Devices /\ u # "ad"
      /\ StartPulse(u) = StartOf(u) /\ StartPulse(u)' = StartOf(u)
  BY DEF Next, StartPulse, StartOf, Devices, Units
<1>2. left[u] \in Nat /\ left'[u] \in Nat
  BY <1>1, EdgeType DEF TypeOK
<1>3. /\ left[u] = 0 /\ pulse # StartOf(u) => left'[u] = 0
      /\ u \in rsp' => left'[u] = 0 /\ (left[u] = 1 \/ Accepts(u))
  BY <1>1, EdgeEffect
<1>4. Accepts(u) <=> left[u] = 0 /\ pulse = StartOf(u)
  BY <1>1 DEF Accepts
<1>5. SUFFICES ASSUME Engaged(u)', u \notin restarted'  PROVE InUnit(u)'
  BY <1>3 DEF UnitInv
<1>6. CASE u \in rsp
  <2>1. left[u] = 0 /\ pulse # StartOf(u)
    <3>1. left[u] = 0
      BY <1>6 DEF UnitInv
    <3>2. ~Accepts(u)
      BY Zenon, <1>1, <1>5, <1>6, Restarts
    <3>3. QED
      BY <1>4, <3>1, <3>2
  <2>2. left'[u] = 0 /\ u \notin rsp'
    BY <1>3, <1>4, <2>1
  <2>3. pulse' = StartOf(u)
    BY <1>1, <1>5, <2>2 DEF Engaged
  <2>4. QED
    BY <1>6, <2>3, UnitPulse DEF UnitFire
<1>7. CASE u \notin rsp
  <2>1. u \notin restarted
    BY <1>1, <1>5, <1>7, Restarts
  <2>2. CASE pulse' = StartOf(u)
    BY <2>2, UnitPulse DEF UnitFire, InUnit, UnitOf
  <2>3. CASE pulse' # StartOf(u)
    <3>1. left'[u] > 0 \/ u \in rsp'
      BY <1>1, <1>2, <1>5, <2>3 DEF Engaged
    <3>2. Engaged(u)
      BY <1>1, <1>2, <1>3, <1>4, <3>1 DEF Engaged
    <3>3. InUnit(u)
      BY <2>1, <3>2 DEF UnitInv
    <3>4. UnitFire(u) \/ UnitWait(u)
      BY <1>7, <3>3, UnitPulse DEF UnitRowDone, UnitLastDone
    <3>5. QED
      BY <3>4 DEF UnitFire, UnitWait, Hold, InUnit, UnitOf
  <2>4. QED
    BY <2>2, <2>3
<1>8. QED
  BY <1>6, <1>7

LEMMA AdapterKept ==
  ASSUME TypeOK, Next, AdapterInv
  PROVE  AdapterInv'
<1> USE DEF program, loops, flags, payload
<1>1. Edge /\ "ad" \in Devices /\ StartPulse("ad") = "nm_adapter_flush"
  BY DEF Next, StartPulse, Devices
<1>2. left'["ad"] = 0
  BY <1>1, EdgeEffect, LatencyAssumption DEF AdapterInv
<1>3. "ad" \in rsp' => pulse = "nm_adapter_flush"
  BY <1>1, EdgeEffect DEF AdapterInv, Accepts
<1>4. CASE InNmFlush
  <2>1. NmFlushFire \/ NmFlushWait \/ NmFlushDone
    <3>1. /\ ~IdleWait /\ ~IdleStart /\ ~Decode /\ ~NextStep /\ ~NextLayer /\ ~Done
          /\ ~MmIssue(mm_cmd_ready) /\ ~MmWait(mm_cmd_ready) /\ ~MmDone
      BY <1>4 DEF InNmFlush, UnitStates, MmStates, IdleWait, IdleStart, Decode,
         NextStep, NextLayer, Done, MmIssue, MmWait, MmDone
    <3>2. /\ ~FlushFire /\ ~FlushWait /\ ~QkvFlushDone /\ ~ScoreFlushDone
          /\ ~HeadFlushDone /\ ~StepFlushDone
      BY <1>4 DEF InNmFlush, UnitStates, FlushStates, FlushFire, FlushWait,
         QkvFlushDone, ScoreFlushDone, HeadFlushDone, StepFlushDone, FlushDone
    <3>3. \A u \in Units : ~UnitFire(u) /\ ~UnitWait(u) /\ ~UnitRowDone(u)
                             /\ ~UnitLastDone(u)
      BY <1>4 DEF InNmFlush, InUnit, UnitFire, UnitWait, UnitRowDone, UnitLastDone
    <3>4. QED
      BY <3>1, <3>2, <3>3 DEF Next
  <2>2. CASE NmFlushFire
    BY <1>1, <1>2, <1>3, <1>4, <2>2 DEF NmFlushFire, AdapterInv, Engaged, InNmFlush,
       StartPulse
  <2>3. CASE NmFlushWait
    BY <1>1, <1>2, <1>3, <1>4, <2>3 DEF NmFlushWait, Hold, AdapterInv, Engaged,
       InNmFlush, StartPulse
  <2>4. CASE NmFlushDone
    BY <1>1, <1>2, <1>3, <1>4, <2>4 DEF NmFlushDone, AdapterInv, Engaged, InNmFlush,
       StartPulse
  <2>5. QED
    BY <2>1, <2>2, <2>3, <2>4
<1>5. CASE ~InNmFlush
  <2>1. ~nm_flush_phase /\ pulse # "nm_adapter_flush"
    BY <1>1, <1>5 DEF AdapterInv, Engaged, InNmFlush
  <2>2. pulse' # "nm_adapter_flush"
    BY <1>5 DEF Next, IdleWait, IdleStart, Decode, UnitFire, UnitWait, UnitRowDone,
     UnitLastDone, NmFlushFire, NmFlushWait, NmFlushDone, MmIssue, MmWait, MmDone,
     FlushFire, FlushWait, QkvFlushDone, ScoreFlushDone, HeadFlushDone,
     StepFlushDone, FlushDone, NextStep, NextLayer, Done, Hold, StartOf, InNmFlush
  <2>3. nm_flush_phase' => state' \in UnitStates
    BY <2>1 DEF Next, IdleWait, IdleStart, Decode, UnitFire, UnitWait, UnitRowDone,
     UnitLastDone, NmFlushFire, NmFlushWait, NmFlushDone, MmIssue, MmWait, MmDone,
     FlushFire, FlushWait, QkvFlushDone, ScoreFlushDone, HeadFlushDone,
     StepFlushDone, FlushDone, NextStep, NextLayer, Done, Hold, InUnit
  <2>4. QED
    BY <1>1, <1>2, <1>3, <2>1, <2>2, <2>3 DEF AdapterInv, Engaged, StartPulse
<1>6. QED
  BY <1>4, <1>5

\* ExclusionInv is inductive.
LEMMA ExclusionAlways == Spec => []ExclusionInv
<1>1. Init => ExclusionInv
  BY DEF Init, FsmInit, ExclusionInv, MmInv, UfInv, AdapterInv, UnitInv, Engaged,
     OneStage, StartPulse, StartOf, Devices, Units
<1>2. TypeOK /\ ExclusionInv /\ [Next]_vars => ExclusionInv'
  <2> SUFFICES ASSUME TypeOK, ExclusionInv, [Next]_vars
               PROVE  ExclusionInv'
    OBVIOUS
  <2>1. CASE Next
    <3>1. MmInv' /\ UfInv' /\ AdapterInv'
      BY <2>1, MmKept, UfKept, AdapterKept DEF ExclusionInv
    <3>2. ASSUME NEW u \in Units PROVE UnitInv(u)'
      BY <2>1, UnitKept DEF ExclusionInv
    <3>3. QED
      BY <3>1, <3>2 DEF ExclusionInv
  <2>2. CASE UNCHANGED vars
    BY <2>2 DEF vars, fsmVars, flags, ExclusionInv, MmInv, UfInv, AdapterInv,
       UnitInv, Engaged, OneStage, StartPulse, StartOf, InUnit, InNmFlush, UnitOf
  <2>3. QED
    BY <2>1, <2>2
<1>3. QED
  BY <1>1, <1>2, TypeCorrect, PTL DEF Spec

\* Two executors never work at once, whatever their latencies are, unless one of them
\* is a unit whose start met its own done.
THEOREM ExecutorsExclude == Spec => []AtMostOneExecutor
<1>1. TypeOK /\ ExclusionInv => AtMostOneExecutor
  BY ExclusionImplied
<1>2. QED
  BY <1>1, ExclusionAlways, TypeCorrect, PTL

-----------------------------------------------------------------------------
(* No start meets a done when every unit needs an even wait.               *)

EvenUnits == \A u \in Units : \A n \in Latency[u] : n % 2 = 0

\* The parity of what a unit has left says whether its start is high: the edge on
\* which it finishes is one on which the toggling start is low.
ParityInv(u) ==
  /\ left[u] > 0 => (left[u] % 2 = 0 <=> pulse # StartOf(u))
  /\ u \in rsp => pulse # StartOf(u)

LEMMA ParityKept ==
  ASSUME EvenUnits, TypeOK, restarted = {}, Next, NEW u \in Units, UnitInv(u), ParityInv(u)
  PROVE  ParityInv(u)'
<1> USE DEF program, loops, flags, payload
<1>1. /\ Edge /\ u \in Devices /\ u # "ad"
      /\ StartPulse(u) = StartOf(u) /\ StartOf(u)' = StartOf(u)
  BY DEF Next, StartPulse, StartOf, Devices, Units
<1>2. left[u] \in Nat /\ left'[u] \in Nat
  BY <1>1, EdgeType DEF TypeOK
<1>3. /\ left[u] > 0 => left'[u] = left[u] - 1
      /\ left[u] = 0 /\ pulse # StartOf(u) => left'[u] = 0
      /\ left[u] = 0 /\ pulse = StartOf(u) => left'[u] \in Latency[u]
      /\ u \in rsp' => left'[u] = 0 /\ (left[u] = 1 \/ Accepts(u))
  BY <1>1, EdgeEffect
<1>4. Accepts(u) <=> left[u] = 0 /\ pulse = StartOf(u)
  BY <1>1 DEF Accepts
<1>5. left[u] = 0 /\ pulse = StartOf(u) => left'[u] % 2 = 0
  BY <1>3 DEF EvenUnits
<1>6. CASE ~InUnit(u)
  <2>1. ~Engaged(u)
    BY <1>6 DEF UnitInv
  <2>2. left'[u] = 0 /\ u \notin rsp'
    BY <1>1, <1>3, <1>4, <1>2, <2>1 DEF Engaged
  <2>3. QED
    BY <1>1, <2>2 DEF ParityInv
<1>7. CASE UnitFire(u)
  <2>1. pulse # StartOf(u) /\ u \notin rsp /\ pulse' = StartOf(u)
    BY <1>7 DEF UnitFire
  <2>2. left[u] > 0 => left[u] % 2 = 0
    BY <2>1 DEF ParityInv
  <2>3. left'[u] > 0 => left'[u] % 2 = 1
    BY <1>2, <1>3, <2>1, <2>2
  <2>4. u \notin rsp'
    BY <1>2, <1>3, <1>4, <2>1, <2>2
  <2>5. QED
    BY <1>1, <2>1, <2>3, <2>4 DEF ParityInv
<1>8. CASE UnitWait(u)
  <2>1. pulse = StartOf(u) /\ u \notin rsp /\ pulse' = "none"
    BY <1>8 DEF UnitWait, Hold
  <2>2. pulse' # StartOf(u)
    BY <2>1 DEF StartOf
  <2>3. left[u] > 0 => left[u] % 2 # 0
    BY <2>1 DEF ParityInv
  <2>4. left'[u] % 2 = 0
    BY <1>2, <1>3, <1>5, <2>1, <2>3
  <2>5. QED
    BY <1>1, <1>3, <2>1, <2>2, <2>4 DEF ParityInv
<1>9. CASE UnitRowDone(u) \/ UnitLastDone(u)
  <2>1. u \in rsp
    BY <1>9 DEF UnitRowDone, UnitLastDone
  <2>2. left[u] = 0 /\ pulse # StartOf(u)
    BY <2>1 DEF UnitInv, ParityInv
  <2>3. left'[u] = 0 /\ u \notin rsp'
    BY <1>2, <1>3, <1>4, <2>2
  <2>4. QED
    BY <1>1, <2>3 DEF ParityInv
<1>10. QED
  BY <1>6, <1>7, <1>8, <1>9, UnitPulse

\* If every scalar unit answers an even number of cycles after its start, no start
\* ever meets a done: the exceptions of the theorems here are empty, and only a unit
\* of an odd wait (fsm_controller.v:389) makes one.
THEOREM NeverRestarts ==
  ASSUME EvenUnits  PROVE Spec => [](restarted = {})
<1> DEFINE Quiet == restarted = {} /\ \A u \in Units : ParityInv(u)
<1>1. Init => Quiet
  BY DEF Init, FsmInit, ParityInv, StartOf, Devices, Units
<1>2. TypeOK /\ ExclusionInv /\ Quiet /\ [Next]_vars => Quiet'
  <2> SUFFICES ASSUME TypeOK, ExclusionInv, Quiet, [Next]_vars  PROVE Quiet'
    OBVIOUS
  <2>1. CASE Next
    <3>1. \A u \in Units : ParityInv(u)'
      BY <2>1, ParityKept DEF ExclusionInv
    <3>2. Edge
      BY <2>1 DEF Next
    <3>3. restarted' \subseteq Units
      BY <3>2, EdgeType
    <3>4. ASSUME NEW u \in Units  PROVE u \notin restarted'
      <4>1. StartPulse(u) = StartOf(u)
        BY DEF StartPulse, StartOf, Units
      <4>2. ~(Accepts(u) /\ u \in rsp)
        BY <4>1 DEF ParityInv, Accepts
      <4>3. QED
        BY <3>2, <4>2, Restarts
    <3>5. QED
      BY <3>1, <3>3, <3>4
  <2>2. CASE UNCHANGED vars
    BY <2>2 DEF vars, fsmVars, ParityInv, StartOf
  <2>3. QED
    BY <2>1, <2>2
<1>3. QED
  BY <1>1, <1>2, ExclusionAlways, TypeCorrect, PTL DEF Spec

-----------------------------------------------------------------------------
(* A job leaves nothing behind.                                            *)

\* Rows are counted only while a unit that goes over them is in its branch.
RowInv == nm_row_cnt # 0 => InUnit("ln") \/ InUnit("sm")

LEMMA RowKept ==
  ASSUME RowInv, Next
  PROVE  RowInv'
<1> USE DEF program, loops, flags, payload
<1>1. CASE \E u \in Units : UnitFire(u) \/ UnitWait(u)
  BY <1>1 DEF RowInv, UnitFire, UnitWait, Hold, InUnit, UnitOf
<1>2. CASE \E u \in Units : UnitRowDone(u)
  BY <1>2 DEF RowInv, UnitRowDone, InUnit, UnitOf
<1>3. CASE \E u \in Units : UnitLastDone(u)
  <2> PICK u \in Units : UnitLastDone(u)
    BY <1>3
  <2>1. CASE u \in {"ln", "sm"}
    BY <2>1 DEF RowInv, UnitLastDone
  <2>2. CASE u \notin {"ln", "sm"}
    <3>1. ~InUnit("ln") /\ ~InUnit("sm")
      BY <2>2 DEF UnitLastDone, InUnit
    <3>2. QED
      BY <2>2, <3>1 DEF RowInv, UnitLastDone
  <2>3. QED
    BY <2>1, <2>2
<1>4. CASE NmFlushFire \/ NmFlushWait \/ NmFlushDone
  BY <1>4 DEF RowInv, NmFlushFire, NmFlushWait, NmFlushDone, Hold, InNmFlush, InUnit
<1>5. CASE IdleWait \/ IdleStart \/ Decode \/ NextStep \/ NextLayer \/ Done
  BY <1>5 DEF RowInv, IdleWait, IdleStart, Decode, NextStep, NextLayer, Done, InUnit,
     UnitStates
<1>6. CASE MmIssue(mm_cmd_ready) \/ MmWait(mm_cmd_ready) \/ MmDone
  BY <1>6 DEF RowInv, MmIssue, MmWait, MmDone, Hold, InUnit, UnitStates, MmStates
<1>7. CASE \/ FlushFire \/ FlushWait \/ QkvFlushDone \/ ScoreFlushDone
           \/ HeadFlushDone \/ StepFlushDone
  BY <1>7 DEF RowInv, FlushFire, FlushWait, QkvFlushDone, ScoreFlushDone,
     HeadFlushDone, StepFlushDone, FlushDone, Hold, InUnit, UnitStates, FlushStates
<1>8. QED
  BY <1>1, <1>2, <1>3, <1>4, <1>5, <1>6, <1>7 DEF Next

\* A job of any model and any latencies leaves the controller's flags and counters as
\* a reset would, so the next job starts clean, and no executor at work but a unit whose
\* start met its done.
THEOREM JobsLeaveNothing == Spec => []IdleIsClean
<1>1. Init => RowInv
  BY DEF Init, FsmInit, RowInv
<1>2. RowInv /\ [Next]_vars => RowInv'
  BY RowKept DEF vars, fsmVars, loops, flags, RowInv, InUnit, UnitOf
<1>3. ExclusionInv /\ RowInv => IdleIsClean
  <2> SUFFICES ASSUME ExclusionInv, RowInv, state = "S_IDLE"
               PROVE  /\ \A d \in Devices \ restarted : ~Engaged(d)
                      /\ ~nm_flush_phase /\ ~waiting_mm /\ ~flush_sent
                      /\ nm_row_cnt = 0
    BY DEF IdleIsClean
  <2>1. state \notin MmStates /\ state \notin FlushStates /\ state \notin UnitStates
    BY DEF MmStates, FlushStates, UnitStates
  <2>2. ~waiting_mm /\ ~flush_sent /\ ~nm_flush_phase
    BY <2>1 DEF ExclusionInv, MmInv, UfInv, AdapterInv
  <2>3. ~Engaged("mm") /\ ~Engaged("uf") /\ ~Engaged("ad")
    BY <2>1, <2>2 DEF ExclusionInv, MmInv, UfInv, AdapterInv, InNmFlush
  <2>4. \A u \in Units \ restarted : ~Engaged(u)
    BY <2>1 DEF ExclusionInv, UnitInv, InUnit
  <2>5. nm_row_cnt = 0
    BY <2>1 DEF RowInv, InUnit
  <2>6. QED
    BY <2>2, <2>3, <2>4, <2>5 DEF Devices
<1>4. QED
  BY <1>1, <1>2, <1>3, ExclusionAlways, PTL DEF Spec

-----------------------------------------------------------------------------
(* Command registers stay put under a working executor.                    *)

\* A unit whose start is high, or that works on a start of its own branch, has that
\* branch's registers: raising the start again loads what is there.
SetupInv ==
  \A u \in Units :
    pulse = StartOf(u) \/ (left[u] > 0 /\ u \notin restarted) => nm = UnitSetup(u)

\* Loading twice is loading once.
LEMMA SetupTwice ==
  ASSUME TypeOK, NEW u \in Units, UnitFire(u)
  PROVE  UnitSetup(u)' = nm'
<1> DEFINE layout(r) == r \in [col_bits : Nat, addr_offset : Dims, rd_base : Int,
                               dim : Int, row_idx : Int]
<1>1. layout(nm)
  BY DEF TypeOK, FsmTypeOK
<1>2. nm' = UnitSetup(u) /\ UNCHANGED <<state, program, loops>>
  BY DEF UnitFire
<1>3. /\ (RowOffset(MODEL_DIM))' = RowOffset(MODEL_DIM)
      /\ (RowOffset(att_keys))' = RowOffset(att_keys)
      /\ CausalRow' = CausalRow /\ att_keys' = att_keys /\ bt' = bt
      /\ layer_wgt_base' = layer_wgt_base /\ step_cfg' = step_cfg
  BY <1>2 DEF program, loops, RowOffset, CausalRow, att_keys, cache_total, bt,
     layer_wgt_base
<1>4. QED
  BY ZenonT(60), <1>1, <1>2, <1>3 DEF UnitSetup, Units

LEMMA SetupKept ==
  ASSUME TypeOK, ExclusionInv, SetupInv, Next
  PROVE  SetupInv'
<1> USE DEF program, loops, flags, payload
<1> SUFFICES ASSUME NEW u \in Units,
                    (pulse = StartOf(u) \/ (left[u] > 0 /\ u \notin restarted))'
             PROVE  nm' = UnitSetup(u)'
  BY DEF SetupInv
<1>1. /\ Edge /\ u \in Devices /\ u # "ad"
      /\ StartPulse(u) = StartOf(u) /\ StartOf(u)' = StartOf(u)
  BY DEF Next, StartPulse, StartOf, Devices, Units
<1>2. CASE UnitFire(u)
  BY <1>2, SetupTwice
<1>3. CASE ~UnitFire(u)
  <2>1. pulse' # StartOf(u) /\ left'[u] > 0 /\ u \notin restarted'
    BY <1>1, <1>3, UnitPulse
  <2>2. left[u] \in Nat
    BY <1>1 DEF TypeOK
  <2>3. pulse = StartOf(u) \/ left[u] > 0
    BY <1>1, <2>1, <2>2, EdgeEffect
  <2>4. InUnit(u) /\ u \notin rsp /\ nm = UnitSetup(u)
    <3>1. u \notin rsp
      <4>1. ASSUME u \in rsp  PROVE FALSE
        <5>1. left[u] = 0 /\ pulse = StartOf(u)
          BY <2>2, <2>3, <4>1 DEF ExclusionInv, UnitInv
        <5>2. Accepts(u)
          BY <1>1, <5>1 DEF Accepts
        <5>3. QED
          BY Zenon, <1>1, <2>1, <4>1, <5>2, Restarts
      <4>2. QED
        BY <4>1
    <3>2. u \notin restarted
      BY <1>1, <2>1, <3>1, Restarts
    <3>3. QED
      BY <1>1, <2>3, <3>1, <3>2 DEF ExclusionInv, UnitInv, Engaged, SetupInv
  <2>5. UnitWait(u)
    BY <1>3, <2>4, UnitPulse DEF UnitRowDone, UnitLastDone
  <2>6. QED
    BY <2>4, <2>5 DEF UnitWait, Hold, UnitSetup, RowOffset, CausalRow, att_keys,
       cache_total, bt, layer_wgt_base
<1>4. QED
  BY <1>2, <1>3

LEMMA CommandsKept ==
  ASSUME TypeOK, ExclusionInv, SetupInv, Next
  PROVE  /\ (\E u \in Units \ restarted : left[u] > 0) => nm' = nm
         /\ left["mm"] > 0 => mm_cmd' = mm_cmd /\ flush_r' = flush_r
         /\ left["uf"] > 0 => uf_cmd' = uf_cmd
<1> USE DEF payload
<1>1. ASSUME NEW u \in Units, u \notin restarted, left[u] > 0 PROVE nm' = nm
  <2>1. StartPulse(u) = StartOf(u)
    BY DEF StartPulse, StartOf, Units
  <2>2. InUnit(u) /\ u \notin rsp /\ nm = UnitSetup(u)
    BY <1>1, <2>1 DEF ExclusionInv, UnitInv, Engaged, SetupInv
  <2>3. UnitFire(u) \/ UnitWait(u)
    BY <2>2, UnitPulse DEF UnitRowDone, UnitLastDone
  <2>4. QED
    BY <2>2, <2>3 DEF UnitFire, UnitWait, Hold
<1>2. ASSUME left["mm"] > 0 PROVE mm_cmd' = mm_cmd /\ flush_r' = flush_r
  <2>1. waiting_mm /\ state \in MmStates
    BY <1>2 DEF ExclusionInv, MmInv, Engaged
  <2>2. MmWait(mm_cmd_ready) \/ MmDone
    BY <2>1, MmStep DEF MmIssue
  <2>3. QED
    BY <2>2 DEF MmWait, MmDone, Hold
<1>3. ASSUME left["uf"] > 0 PROVE uf_cmd' = uf_cmd
  <2>1. flush_sent /\ state \in FlushStates
    BY <1>3 DEF ExclusionInv, UfInv, Engaged
  <2>2. FlushWait \/ FlushDone
    BY <2>1, FlushStep DEF FlushFire, QkvFlushDone, ScoreFlushDone, HeadFlushDone,
       StepFlushDone
  <2>3. QED
    BY <2>2 DEF FlushWait, FlushDone, Hold
<1>4. QED
  BY <1>1, <1>2, <1>3

\* The registers an executor reads never change while it works, whatever the latencies,
\* though the branch that toggles its start loads them again each time; but for a unit
\* whose start met its done.
THEOREM CommandsStable == Spec => StableCommands
<1>1. Init => SetupInv
  BY DEF Init, FsmInit, SetupInv, StartOf, Devices, Units
<1>2. TypeOK /\ ExclusionInv /\ SetupInv /\ [Next]_vars => SetupInv'
  <2> SUFFICES ASSUME TypeOK, ExclusionInv, SetupInv, [Next]_vars
               PROVE  SetupInv'
    OBVIOUS
  <2>1. CASE Next
    BY <2>1, SetupKept
  <2>2. CASE UNCHANGED vars
    BY <2>2 DEF vars, fsmVars, program, loops, payload, SetupInv, StartOf, UnitSetup,
       RowOffset, CausalRow, att_keys, cache_total, bt, layer_wgt_base
  <2>3. QED
    BY <2>1, <2>2
<1>3. TypeOK /\ ExclusionInv /\ SetupInv /\ [Next]_vars =>
        [/\ (\E u \in Units \ restarted : left[u] > 0) => nm' = nm
         /\ left["mm"] > 0 => mm_cmd' = mm_cmd /\ flush_r' = flush_r
         /\ left["uf"] > 0 => uf_cmd' = uf_cmd]_vars
  BY CommandsKept
<1>4. QED
  BY <1>1, <1>2, <1>3, ExclusionAlways, TypeCorrect, PTL DEF Spec, StableCommands

=============================================================================
