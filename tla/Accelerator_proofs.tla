-------------------------- MODULE Accelerator_proofs --------------------------
(***************************************************************************)
(* Theorems about Accelerator.  The control loop inside it is that of      *)
(* ControlLoop_proofs: what an executor does to the memories does not      *)
(* reach back into the control.  First what holds for every value of the   *)
(* constants; then, for the sizes the step table computes for (Dataflow's  *)
(* Fits), what the memories hold at every place of a job that is Supported:*)
(* what a step finds there is what its operands should be, so what it      *)
(* leaves is what the next one relies on.                                  *)
(***************************************************************************)
EXTENDS Dataflow, ControlLoop_proofs

\* A behaviour of the accelerator is one of its control loop.
LEMMA ControlInside == AccSpec => Spec
<1>1. AccInit => Init
  BY DEF AccInit
<1>2. [AccNext]_accVars => [Next]_vars
  BY DEF AccNext, accVars
<1>3. QED
  BY <1>1, <1>2, PTL DEF AccSpec, Spec

-----------------------------------------------------------------------------
(* Who writes the memories.                                                *)

\* The controller is busy exactly outside S_IDLE, and with a job of the host's.
BusyInv == /\ busy <=> state # "S_IDLE"
           /\ busy => req \in Jobs

\* No edge of the control loop breaks it.
LEMMA BusyKept ==
  ASSUME TypeOK, BusyInv, [Next]_vars
  PROVE  BusyInv'
<1> USE DEF program, BusyInv
<1>0. start \in Jobs \cup {NONE} /\ state \in States
  BY DEF TypeOK, FsmTypeOK
<1>1. CASE IdleWait \/ IdleStart \/ Done
  BY <1>0, <1>1 DEF IdleWait, IdleStart, Done
<1>2. CASE Decode
  <2>1. step_idx + 1 \in 1 .. 16
    BY DEF TypeOK, FsmTypeOK
  <2>2. ExecutorOf[PROGRAM[step_idx + 1].bt] # "S_IDLE"
    BY <2>1, ProgramType DEF ExecutorOf
  <2>3. QED
    BY <1>2, <2>2 DEF Decode
<1>3. CASE \E u \in Units : UnitFire(u) \/ UnitWait(u) \/ UnitRowDone(u) \/ UnitLastDone(u)
  BY <1>3 DEF UnitFire, UnitWait, UnitRowDone, UnitLastDone, Hold
<1>4. CASE NmFlushFire \/ NmFlushWait \/ NmFlushDone
  BY <1>4 DEF NmFlushFire, NmFlushWait, NmFlushDone, InNmFlush, UnitStates, Hold
<1>5. CASE MmIssue(mm_cmd_ready) \/ MmWait(mm_cmd_ready) \/ MmDone
  BY <1>5 DEF MmIssue, MmWait, MmDone, MmStates, Hold
<1>6. CASE \/ FlushFire \/ FlushWait \/ QkvFlushDone \/ ScoreFlushDone
           \/ HeadFlushDone \/ StepFlushDone
  BY <1>6 DEF FlushFire, FlushWait, QkvFlushDone, ScoreFlushDone, HeadFlushDone,
     StepFlushDone, FlushDone, FlushStates, Hold
<1>7. CASE NextStep \/ NextLayer
  BY <1>7 DEF NextStep, NextLayer
<1>8. CASE UNCHANGED vars
  BY <1>8 DEF vars, fsmVars
<1>9. QED
  BY <1>1, <1>2, <1>3, <1>4, <1>5, <1>6, <1>7, <1>8 DEF Next

\* At most one executor ends its work at an edge, and it was engaged before.
LEMMA SoleAnswer ==
  ASSUME TypeOK, ExclusionInv, restarted = {}, Edge, NEW d \in rsp'
  PROVE  d \in Devices /\ Engaged(d) /\ (CHOOSE e \in rsp' : TRUE) = d
<1>1. rsp' \subseteq Devices
  BY EdgeType
<1>2. \A e \in rsp' : Engaged(e)
  <2> TAKE e \in rsp'
  <2>1. left[e] = 1 \/ Accepts(e)
    BY <1>1, EdgeEffect
  <2>2. QED
    BY <2>1 DEF Engaged, Accepts
<1>3. \A e \in rsp' : e = d
  BY <1>1, <1>2, ExclusionImplied DEF AtMostOneExecutor
<1>4. QED
  BY <1>1, <1>2, <1>3

\* A step changes the memories as the load of a new job, or as the end of the work
\* of the one executor that was engaged, or not at all.
LEMMA WhoWrites ==
  ASSUME TypeOK, ExclusionInv, BusyInv, restarted = {}, AccNext, intact'
  PROVE  \/ state = "S_IDLE" /\ \E j \in Jobs : start' = j /\ Load(j)
         \/ start' = NONE /\ UNCHANGED memory /\ rsp' = {}
         \/ start' = NONE /\ \E d \in Devices : rsp' = {d} /\ Engaged(d) /\ Effect(d)
<1>1. Edge /\ Memory
  BY DEF AccNext, Next
<1>2. start' # NONE => ~busy /\ start' \in Jobs
  BY <1>1 DEF Edge, Host
<1>3. CASE start' # NONE
  BY <1>1, <1>2, <1>3 DEF Memory, BusyInv
<1>4. CASE start' = NONE /\ rsp' = {}
  BY <1>1, <1>4 DEF Memory
<1>5. CASE start' = NONE /\ rsp' # {}
  <2> PICK d \in rsp' : TRUE
    BY <1>5
  <2>1. d \in Devices /\ Engaged(d) /\ (CHOOSE e \in rsp' : TRUE) = d
    BY <1>1, SoleAnswer
  <2>2. \A e \in rsp' : (CHOOSE x \in rsp' : TRUE) = e
    BY <1>1, SoleAnswer
  <2>3. rsp' = {d}
    BY <2>1, <2>2
  <2>4. Effect(d)
    BY <1>1, <1>5, <2>1 DEF Memory
  <2>5. QED
    BY <1>5, <2>1, <2>3, <2>4
<1>6. QED
  BY <1>3, <1>4, <1>5

-----------------------------------------------------------------------------
(* The adapter's write buffer.                                             *)

\* A unit's branch is left when the adapter reports its flush.
LEMMA LeaveUnit ==
  ASSUME Next, state \in UnitStates, "ad" \notin rsp
  PROVE  state' = state
<1>1. /\ ~IdleWait /\ ~IdleStart /\ ~Decode /\ ~NextStep /\ ~NextLayer /\ ~Done
      /\ ~MmIssue(mm_cmd_ready) /\ ~MmWait(mm_cmd_ready) /\ ~MmDone
  BY DEF UnitStates, MmStates, IdleWait, IdleStart, Decode, NextStep, NextLayer,
     Done, MmIssue, MmWait, MmDone
<1>2. /\ ~FlushFire /\ ~FlushWait /\ ~QkvFlushDone /\ ~ScoreFlushDone
      /\ ~HeadFlushDone /\ ~StepFlushDone
  BY DEF UnitStates, FlushStates, FlushFire, FlushWait, QkvFlushDone,
     ScoreFlushDone, HeadFlushDone, StepFlushDone, FlushDone
<1>3. ~NmFlushDone
  BY DEF NmFlushDone
<1>4. QED
  BY <1>1, <1>2, <1>3 DEF Next, UnitFire, UnitWait, UnitRowDone, UnitLastDone,
     NmFlushFire, NmFlushWait, Hold

\* The dirty word lives inside a unit's branch, and a flush that is reported has
\* written it.
DirtyInv == /\ wb # NONE => state \in UnitStates
            /\ "ad" \in rsp => wb = NONE

\* An edge at which the adapter's buffer becomes dirty leaves the state a unit's.
LEMMA DirtyKept ==
  ASSUME TypeOK, ExclusionInv, BusyInv, DirtyInv, restarted = {}, AccNext, intact'
  PROVE  DirtyInv'
<1>1. Next /\ Edge
  BY DEF AccNext, Next
<1>2. wb # NONE => state \in UnitStates /\ state' = state
  BY <1>1, LeaveUnit DEF DirtyInv
<1>3. CASE state = "S_IDLE" /\ \E j \in Jobs : Load(j)
  BY <1>3 DEF Load, DirtyInv, UnitStates
<1>4. CASE UNCHANGED memory /\ rsp' = {}
  BY <1>2, <1>4 DEF memory, DirtyInv
<1>5. ASSUME NEW d \in Devices, rsp' = {d}, Engaged(d), Effect(d)
      PROVE  DirtyInv'
  <2>1. CASE d \in {"mm", "uf"}
    <3>1. state \in MmStates \cup FlushStates
      BY <1>5, <2>1 DEF ExclusionInv, MmInv, UfInv
    <3>2. wb = NONE
      BY <3>1 DEF DirtyInv, MmStates, FlushStates, UnitStates
    <3>3. wb' = wb
      BY <1>5, <2>1 DEF Effect, MatmulEffect, FlushEffect
    <3>4. QED
      BY <3>2, <3>3 DEF DirtyInv
  <2>2. CASE d = "ad"
    BY <1>5, <2>2 DEF Effect, AdapterFlush, DirtyInv
  <2>3. CASE d \in Units
    <3>1. InUnit(d)
      BY <1>5, <2>3 DEF ExclusionInv, UnitInv
    <3>2. "ad" \notin rsp
      BY <3>1 DEF ExclusionInv, AdapterInv, Engaged, InUnit, InNmFlush
    <3>3. state' \in UnitStates
      BY <1>1, <3>1, <3>2, LeaveUnit DEF InUnit
    <3>4. "ad" \notin rsp'
      BY <1>5, <2>3 DEF Units
    <3>5. QED
      BY <3>3, <3>4 DEF DirtyInv
  <2>4. QED
    BY <2>1, <2>2, <2>3 DEF Devices
<1>6. QED
  BY <1>3, <1>4, <1>5, WhoWrites

-----------------------------------------------------------------------------
(* What uram_flush is told.                                                *)

\* From the matmul that saves the flush parameters to the flush that uses them, they
\* are those of the phase and head the controller is in, and so is the command.
SavedInv ==
  /\ (state = "S_QKV_MM" /\ waiting_mm) \/ state = "S_QKV_FL" => flush_r = QkvFlush
  /\ (state = "S_ATT_SCORE" /\ waiting_mm) \/ state \in {"S_ATT_SM", "S_ATT_SM_FL"}
        => flush_r = ScoreFlush
  /\ (state = "S_ATT_OUT" /\ waiting_mm) \/ state = "S_ATT_OUT_FL" => flush_r = OutFlush
  /\ flush_sent => uf_cmd = IF state = "S_UF_RUN" THEN StepFlush ELSE flush_r

\* The parameters depend on the job, the layer, the step, the phase and the head.
LEMMA SameFlush ==
  ASSUME UNCHANGED <<req, layer_cnt, step_cfg, qkv_phase, head_cnt>>
  PROVE  /\ QkvFlush' = QkvFlush /\ ScoreFlush' = ScoreFlush
         /\ OutFlush' = OutFlush /\ StepFlush' = StepFlush
  BY DEF QkvFlush, ScoreFlush, OutFlush, StepFlush, Flush, bt, att_rows, att_keys,
     cache_total, layer_kv_base, kv_row, Words, Low8, Low10, Wrap

\* Every edge keeps the saved parameters those of the state.
LEMMA SavedKept ==
  ASSUME TypeOK, MmInv, UfInv, SavedInv, [Next]_vars
  PROVE  SavedInv'
<1> USE DEF program, loops, flags, payload
<1>0. /\ waiting_mm => state \in MmStates
      /\ flush_sent => state \in FlushStates
  BY DEF MmInv, UfInv
<1>1. CASE IdleWait \/ Done
  BY <1>0, <1>1, SameFlush DEF IdleWait, Done, SavedInv, MmStates, FlushStates
<1>2. CASE IdleStart
  BY <1>0, <1>2 DEF IdleStart, SavedInv, MmStates, FlushStates
<1>3. CASE Decode
  <2>1. step_idx + 1 \in 1 .. 16
    BY DEF TypeOK, FsmTypeOK
  <2>2. ExecutorOf[PROGRAM[step_idx + 1].bt]
          \notin {"S_QKV_FL", "S_ATT_SM", "S_ATT_SM_FL", "S_ATT_OUT_FL"}
    BY <2>1, ProgramType DEF ExecutorOf
  <2>3. ~waiting_mm' /\ ~flush_sent'
    BY <1>0, <1>3 DEF Decode, MmStates, FlushStates
  <2>4. QED
    BY <1>3, <2>2, <2>3 DEF Decode, SavedInv
<1>4. CASE \E u \in Units : UnitFire(u) \/ UnitWait(u) \/ UnitRowDone(u) \/ UnitLastDone(u)
  <2>1. UNCHANGED <<state, req, layer_cnt, step_cfg, qkv_phase, head_cnt, waiting_mm,
                    flush_sent, flush_r, uf_cmd>>
    BY <1>4 DEF UnitFire, UnitWait, UnitRowDone, UnitLastDone, Hold
  <2>2. QED
    BY <2>1, SameFlush DEF SavedInv
<1>5. CASE NmFlushFire \/ NmFlushWait
  BY <1>5, SameFlush DEF NmFlushFire, NmFlushWait, Hold, SavedInv
<1>6. CASE NmFlushDone
  <2>1. ~waiting_mm /\ ~flush_sent
    BY <1>0, <1>6 DEF NmFlushDone, InNmFlush, UnitStates, MmStates, FlushStates
  <2>2. QED
    BY <1>6, <2>1, SameFlush DEF NmFlushDone, SavedInv
<1>7. CASE MmIssue(mm_cmd_ready)
  <2>1. ~flush_sent
    BY <1>0, <1>7 DEF MmIssue, MmStates, FlushStates
  <2>2. UNCHANGED <<state, req, layer_cnt, step_cfg, qkv_phase, head_cnt, flush_sent>>
    BY <1>7 DEF MmIssue
  <2>3. /\ state = "S_QKV_MM" => flush_r' = QkvFlush
        /\ state = "S_ATT_SCORE" => flush_r' = ScoreFlush
        /\ state = "S_ATT_OUT" => flush_r' = OutFlush
    BY <1>7 DEF MmIssue
  <2>4. state \in MmStates
    BY <1>7 DEF MmIssue
  <2>5. QED
    BY <2>1, <2>2, <2>3, <2>4, SameFlush DEF SavedInv, MmStates
<1>8. CASE MmWait(mm_cmd_ready)
  BY <1>8, SameFlush DEF MmWait, Hold, SavedInv
<1>9. CASE MmDone
  <2>1. ~flush_sent /\ waiting_mm
    BY <1>0, <1>9 DEF MmDone, MmAnswered, MmStates, FlushStates
  <2>2. /\ \/ state = "S_QKV_MM" /\ state' = "S_QKV_FL"
           \/ state = "S_ATT_SCORE" /\ state' = "S_ATT_SM"
           \/ state = "S_ATT_OUT" /\ state' = "S_ATT_OUT_FL"
           \/ state' = "S_NEXT_STEP"
        /\ UNCHANGED <<req, layer_cnt, step_cfg, qkv_phase, head_cnt, flush_sent, flush_r>>
        /\ ~waiting_mm'
    BY <1>9 DEF MmDone, MmStates
  <2>3. QED
    BY <2>1, <2>2, SameFlush DEF SavedInv
<1>10. CASE FlushFire
  <2>1. ~waiting_mm
    BY <1>0, <1>10 DEF FlushFire, MmStates, FlushStates
  <2>2. QED
    BY <1>10, <2>1, SameFlush DEF FlushFire, SavedInv
<1>11. CASE FlushWait
  BY <1>11, SameFlush DEF FlushWait, Hold, SavedInv
<1>12. CASE QkvFlushDone \/ ScoreFlushDone \/ HeadFlushDone \/ StepFlushDone
  <2>1. ~waiting_mm
    BY <1>0, <1>12 DEF QkvFlushDone, ScoreFlushDone, HeadFlushDone, StepFlushDone,
       FlushDone, MmStates, FlushStates
  <2>2. /\ ~waiting_mm' /\ ~flush_sent'
        /\ state' \in {"S_DONE", "S_QKV_MM", "S_NEXT_STEP", "S_ATT_OUT", "S_ATT_SCORE"}
    BY <1>12, <2>1 DEF QkvFlushDone, ScoreFlushDone, HeadFlushDone, StepFlushDone,
       FlushDone
  <2>3. QED
    BY <2>2 DEF SavedInv
<1>13. CASE NextStep \/ NextLayer
  BY <1>0, <1>13 DEF NextStep, NextLayer, SavedInv, MmStates, FlushStates
<1>14. CASE UNCHANGED vars
  BY <1>14, SameFlush DEF vars, fsmVars, SavedInv
<1>15. QED
  BY <1>1, <1>2, <1>3, <1>4, <1>5, <1>6, <1>7, <1>8, <1>9, <1>10, <1>11, <1>12,
     <1>13, <1>14 DEF Next

\* While no start has met a done, no unit works beside the next executor.
IntactInv == intact => restarted = {} /\ DirtyInv

AccInv == ExclusionInv /\ BusyInv /\ SavedInv /\ IntactInv

\* An edge that leaves the memories intact found them so.
LEMMA StillIntact ==
  ASSUME IntactInv, AccNext, intact'
  PROVE  intact /\ restarted = {} /\ restarted' = {} /\ DirtyInv
  BY DEF IntactInv, AccNext, History

\* The invariants of the control loop hold throughout.
LEMMA AccAlways == AccSpec => [](TypeOK /\ AccInv)
<1>1. AccInit => BusyInv /\ SavedInv /\ IntactInv
  BY DEF AccInit, Init, FsmInit, BusyInv, DirtyInv, SavedInv, IntactInv
<1>2. TypeOK /\ ExclusionInv /\ BusyInv /\ SavedInv /\ IntactInv /\ [AccNext]_accVars
        => (BusyInv /\ SavedInv /\ IntactInv)'
  <2> SUFFICES ASSUME TypeOK, ExclusionInv, BusyInv, SavedInv, IntactInv,
                      [AccNext]_accVars
               PROVE  (BusyInv /\ SavedInv /\ IntactInv)'
    OBVIOUS
  <2>1. [Next]_vars
    BY DEF AccNext, accVars
  <2>2. BusyInv' /\ SavedInv'
    BY <2>1, BusyKept, SavedKept DEF ExclusionInv
  <2>3. CASE AccNext
    <3>1. ASSUME intact'  PROVE restarted' = {} /\ DirtyInv'
      BY <2>3, <3>1, StillIntact, DirtyKept
    <3>2. QED
      BY <2>2, <3>1 DEF IntactInv
  <2>4. CASE UNCHANGED accVars
    BY <2>2, <2>4 DEF accVars, vars, fsmVars, memory, history, DirtyInv, IntactInv
  <2>5. QED
    BY <2>2, <2>3, <2>4
<1>3. AccSpec => []TypeOK
  BY ControlInside, TypeCorrect, PTL
<1>4. AccSpec => []ExclusionInv
  BY ControlInside, ExclusionAlways, PTL
<1>5. QED
  BY <1>1, <1>2, <1>3, <1>4, PTL DEF AccSpec, AccInv

\* Whatever the model, the jobs and the latencies, no word is left in the adapter's
\* write buffer when a matmul or a flush of the URAM reads past it, as long as no
\* start has met a done.
THEOREM NothingDirty == AccSpec => []AdapterClean
<1>1. TypeOK /\ AccInv => AdapterClean
  <2> SUFFICES ASSUME AccInv, intact, Engaged("mm") \/ Engaged("uf")
               PROVE  wb = NONE
    BY DEF AdapterClean
  <2>1. state \in MmStates \cup FlushStates
    BY DEF AccInv, ExclusionInv, MmInv, UfInv
  <2>2. QED
    BY <2>1 DEF AccInv, IntactInv, DirtyInv, MmStates, FlushStates, UnitStates
<1>2. QED
  BY <1>1, AccAlways, PTL

-----------------------------------------------------------------------------
(* The KV cache under a decode.                                            *)

\* A decode is one token, and it fits in the cache; the row length is a 16-bit
\* register; feed-forward rows fit in the activation regions; these and the cache
\* do not overlap.
DecodesFit ==
  /\ \A j \in Jobs : j.decode => j.batch = 1 /\ j.seq = 1 /\ j.cache_len < MAX_SEQ_LEN
  /\ MAX_SEQ_LEN < 65536
  /\ F_STRIDE <= 5 * ACT_SLAB
  /\ \/ act_base + 6 * ACT_SLAB <= kv_base
     \/ kv_base + NUM_LAYERS * KV_LAYER_SIZE <= act_base

\* Products of naturals keep the order.
LEMMA ProductStep ==
  ASSUME NEW x \in Nat, NEW y \in Nat, NEW n \in Nat, x < y
  PROVE  x * n + n <= y * n
<1>1. y = x + 1 + (y - x - 1) /\ y - x - 1 \in Nat
  OBVIOUS
<1>2. y * n = x * n + n + (y - x - 1) * n
  BY <1>1
<1>3. (y - x - 1) * n \in Nat /\ x * n \in Int /\ y * n \in Int
  BY <1>1
<1>4. QED
  BY <1>2, <1>3

\* The sizes of the cache's parts.
LEMMA CacheSizes ==
  /\ MODEL_STRIDE \in Nat \ {0} /\ ACT_SLAB \in Nat \ {0}
  /\ ACT_SLAB = MAX_SEQ_LEN * MODEL_STRIDE /\ KV_LAYER_SIZE = 2 * ACT_SLAB
  /\ MAX_SEQ_LEN \in Nat \ {0} /\ KV_LAYER_SIZE \in Nat
<1>1. \A x, y \in Nat \ {0} : x * y \in Nat \ {0}
  <2> TAKE x \in Nat \ {0}, y \in Nat \ {0}
  <2>1. 0 * y + y <= x * y
    BY ProductStep
  <2>2. QED
    BY <2>1
<1>2. MODEL_STRIDE \in Nat \ {0} /\ MAX_SEQ_LEN \in Nat \ {0}
  BY <1>1, DimAssumption DEF MODEL_STRIDE
<1>3. ACT_SLAB \in Nat \ {0}
  BY <1>1, <1>2 DEF ACT_SLAB
<1>4. QED
  BY <1>2, <1>3 DEF ACT_SLAB, KV_LAYER_SIZE

\* Different positions of the cache are different words, and all lie in it.
LEMMA CachePlaces ==
  ASSUME NEW l \in 0 .. NUM_LAYERS - 1, NEW part \in {0, 1},
         NEW p \in 0 .. MAX_SEQ_LEN - 1, NEW c \in Cols
  PROVE  /\ CacheWord(l, part, p, c) \in kv_base .. kv_base + NUM_LAYERS * KV_LAYER_SIZE - 1
         /\ \A m \in 0 .. NUM_LAYERS - 1, side \in {0, 1}, q \in 0 .. MAX_SEQ_LEN - 1,
               d \in Cols :
              CacheWord(m, side, q, d) = CacheWord(l, part, p, c) => q = p
<1> DEFINE Within(k, s, r, e) == s * ACT_SLAB + r * MODEL_STRIDE + e
<1>0. /\ NUM_LAYERS \in Nat /\ kv_base \in Nat /\ Cols = 0 .. MODEL_STRIDE - 1
  BY DimAssumption DEF NUM_LAYERS, Cols
<1>1. ASSUME NEW k \in 0 .. NUM_LAYERS - 1, NEW s \in {0, 1},
             NEW r \in 0 .. MAX_SEQ_LEN - 1, NEW e \in Cols
      PROVE  /\ r * MODEL_STRIDE \in Nat /\ r * MODEL_STRIDE + e < ACT_SLAB
             /\ k * KV_LAYER_SIZE \in Nat
             /\ k * KV_LAYER_SIZE + KV_LAYER_SIZE <= NUM_LAYERS * KV_LAYER_SIZE
             /\ CacheWord(k, s, r, e) = kv_base + k * KV_LAYER_SIZE
                  + (IF s = 0 THEN 0 ELSE ACT_SLAB) + r * MODEL_STRIDE + e
  <2>1. r * MODEL_STRIDE + MODEL_STRIDE <= ACT_SLAB
    BY <1>0, CacheSizes, ProductStep
  <2>2. k * KV_LAYER_SIZE + KV_LAYER_SIZE <= NUM_LAYERS * KV_LAYER_SIZE
    BY <1>0, CacheSizes, ProductStep
  <2>3. r * MODEL_STRIDE \in Nat /\ k * KV_LAYER_SIZE \in Nat
    BY CacheSizes
  <2>4. s * ACT_SLAB = IF s = 0 THEN 0 ELSE ACT_SLAB
    BY CacheSizes
  <2>5. QED
    BY <1>0, <2>1, <2>2, <2>3, <2>4, CacheSizes DEF CacheWord
<1>2. CacheWord(l, part, p, c) \in kv_base .. kv_base + NUM_LAYERS * KV_LAYER_SIZE - 1
  <2> DEFINE L == l * KV_LAYER_SIZE
             P == p * MODEL_STRIDE
             All == NUM_LAYERS * KV_LAYER_SIZE
             sideL == IF part = 0 THEN 0 ELSE ACT_SLAB
  <2>1. /\ P \in Nat /\ P + c < ACT_SLAB /\ L \in Nat /\ L + KV_LAYER_SIZE <= All
        /\ CacheWord(l, part, p, c) = kv_base + L + sideL + P + c
    BY <1>1
  <2>2. All \in Nat /\ KV_LAYER_SIZE = 2 * ACT_SLAB /\ ACT_SLAB \in Nat
        /\ c \in Int /\ c >= 0
    BY <1>0, CacheSizes
  <2>3. sideL \in Int /\ sideL >= 0 /\ sideL <= ACT_SLAB
    BY <2>2
  <2> HIDE DEF L, P, All, sideL
  <2>4. kv_base + L + sideL + P + c \in kv_base .. kv_base + All - 1
    BY <1>0, <2>1, <2>2, <2>3
  <2>5. QED
    BY <2>1, <2>4 DEF All
<1>3. ASSUME NEW m \in 0 .. NUM_LAYERS - 1, NEW side \in {0, 1},
             NEW q \in 0 .. MAX_SEQ_LEN - 1, NEW d \in Cols,
             CacheWord(m, side, q, d) = CacheWord(l, part, p, c)
      PROVE  q = p
  <2> DEFINE M == m * KV_LAYER_SIZE
             L == l * KV_LAYER_SIZE
             Q == q * MODEL_STRIDE
             P == p * MODEL_STRIDE
             sideM == IF side = 0 THEN 0 ELSE ACT_SLAB
             sideL == IF part = 0 THEN 0 ELSE ACT_SLAB
  <2>1. /\ m < l => M + KV_LAYER_SIZE <= L
        /\ l < m => L + KV_LAYER_SIZE <= M
        /\ q < p => Q + MODEL_STRIDE <= P
        /\ p < q => P + MODEL_STRIDE <= Q
        /\ m = l => M = L
    BY <1>0, CacheSizes, ProductStep
  <2>2. /\ CacheWord(m, side, q, d) = kv_base + M + sideM + Q + d
        /\ CacheWord(l, part, p, c) = kv_base + L + sideL + P + c
        /\ M \in Nat /\ L \in Nat /\ Q \in Nat /\ P \in Nat
        /\ Q + d < ACT_SLAB /\ P + c < ACT_SLAB
    BY <1>1
  <2>3. sideM \in {0, ACT_SLAB} /\ sideL \in {0, ACT_SLAB}
    OBVIOUS
  <2>4. /\ d \in Int /\ c \in Int /\ d >= 0 /\ c >= 0 /\ d < MODEL_STRIDE /\ c < MODEL_STRIDE
        /\ KV_LAYER_SIZE = 2 * ACT_SLAB /\ ACT_SLAB \in Nat /\ MODEL_STRIDE \in Nat
        /\ m \in Int /\ l \in Int /\ q \in Int /\ p \in Int
    BY <1>0, CacheSizes
  <2> HIDE DEF M, L, Q, P, sideM, sideL
  <2>5. M + sideM + Q + d = L + sideL + P + c
    <3>1. kv_base + M + sideM + Q + d = kv_base + L + sideL + P + c
      BY <1>3, <2>2
    <3>2. sideM \in Int /\ sideL \in Int /\ kv_base \in Int
      BY <1>0, <2>3, <2>4
    <3>3. QED
      BY <2>2, <2>4, <3>1, <3>2
  <2>6. m = l
    BY <2>1, <2>2, <2>3, <2>4, <2>5
  <2>7. Q + d = P + c
    BY <2>1, <2>2, <2>3, <2>4, <2>5, <2>6
  <2>8. QED
    BY <2>1, <2>2, <2>4, <2>7
<1>4. QED
  BY <1>2, <1>3

\* The registers of a flush of one row.
LEMMA OneRow ==
  ASSUME NEW base, NEW stride, NEW width \in Nat \ {0}, NEW col0
  PROVE  LET f == Flush(base, stride, 0, width - 1, col0)
         IN f.base = base /\ f.rows = 0 /\ f.cols \in 0 .. width - 1
<1>1. Low8(width - 1) \in 0 .. width - 1
  BY DEF Low8
<1>2. Low10(0) = 0
  BY DEF Low10
<1>3. QED
  BY <1>1, <1>2 DEF Flush

\* What a decode's flush of words base .. base + width - 1 may write: words of the
\* activation regions, or the row of its own position in the cache.
Harmless(a) ==
  \/ a \in act_base .. act_base + 6 * ACT_SLAB - 1
  \/ \E part \in {0, 1}, c \in Cols :
       a = CacheWord(layer_cnt, part, req.cache_len, c)

\* The sizes of a decode.
LEMMA DecodeShape ==
  ASSUME DecodesFit, TypeOK, BusyInv, busy, req.decode
  PROVE  /\ req.cache_len \in 0 .. MAX_SEQ_LEN - 1
         /\ bt = 1 /\ att_rows = 1 /\ att_keys = req.cache_len + 1
         /\ Words(att_keys) \in 1 .. MAX_SEQ_LEN
<1>1. req \in Jobs /\ req \in Job
  BY DEF BusyInv, TypeOK, FsmTypeOK
<1>2. req.batch = 1 /\ req.seq = 1 /\ req.cache_len \in 0 .. MAX_SEQ_LEN - 1
  BY <1>1, CacheSizes DEF DecodesFit, Job
<1>3. bt = 1 /\ att_rows = 1
  BY SMT, <1>2 DEF bt, att_rows, Wrap
<1>4. att_keys = req.cache_len + 1
  BY SMT, <1>2, CacheSizes DEF DecodesFit, att_keys, cache_total, Wrap
<1>5. Words(att_keys) \in 1 .. MAX_SEQ_LEN
  <2> DEFINE n == req.cache_len + 1
  <2>1. n \in 1 .. MAX_SEQ_LEN /\ WE \in Nat \ {0} /\ MAX_SEQ_LEN \in Nat
    BY <1>2, CacheSizes, DimAssumption
  <2> HIDE DEF n
  <2>2. (n + WE - 1) \div WE \in 1 .. n
    <3> DEFINE q == (n + WE - 1) \div WE
               r == (n + WE - 1) % WE
    <3>1. n + WE - 1 = WE * q + r /\ r \in 0 .. WE - 1 /\ q \in Int
      BY <2>1
    <3> HIDE DEF q, r
    <3>2. q >= 1
      <4> SUFFICES ASSUME q <= 0 PROVE FALSE
        BY <3>1
      <4>1. WE * q <= 0
        BY <2>1, <3>1
      <4>2. QED
        BY <2>1, <3>1, <4>1
    <3>3. q <= n
      <4> SUFFICES ASSUME q >= n + 1 PROVE FALSE
        BY <2>1, <3>1
      <4>1. /\ WE * q = WE * n + WE + WE * (q - n - 1)
            /\ WE * n = n + (WE - 1) * n
        BY <2>1, <3>1
      <4>2. WE * (q - n - 1) >= 0 /\ (WE - 1) * n >= 0
        BY <2>1, <3>1
      <4>3. WE * n \in Int /\ WE * (q - n - 1) \in Int /\ (WE - 1) * n \in Int
        BY <2>1, <3>1
      <4>4. QED
        BY <2>1, <3>1, <4>1, <4>2, <4>3
    <3>4. QED
      BY <2>1, <3>1, <3>2, <3>3 DEF q
  <2>3. Words(n) \in 1 .. MAX_SEQ_LEN
    BY <2>1, <2>2 DEF Words
  <2>4. QED
    BY <1>4, <2>3 DEF n
<1>6. QED
  BY <1>2, <1>3, <1>4, <1>5

\* Every flush of a decode writes such words only.
LEMMA DecodeFlush ==
  ASSUME DecodesFit, TypeOK, AccInv, busy, req.decode, flush_sent
  PROVE  uf_cmd.rows = 0 /\ \A j \in 0 .. uf_cmd.cols : Harmless(uf_cmd.base + j)
<1> DEFINE Right(f) == f.rows = 0 /\ \A j \in 0 .. f.cols : Harmless(f.base + j)
<1>0. /\ req.cache_len \in 0 .. MAX_SEQ_LEN - 1
      /\ bt = 1 /\ att_rows = 1 /\ Words(att_keys) \in 1 .. MAX_SEQ_LEN
  BY DecodeShape DEF AccInv
<1>1. /\ act_base \in Nat /\ HEAD_WORDS \in Nat \ {0} /\ F_STRIDE \in Nat \ {0}
      /\ NUM_HEADS \in Nat \ {0} /\ head_cnt \in 0 .. NUM_HEADS - 1
      /\ Cols = 0 .. MODEL_STRIDE - 1
  BY DimAssumption DEF TypeOK, FsmTypeOK, Cols
<1>2. MODEL_STRIDE <= ACT_SLAB /\ MAX_SEQ_LEN <= ACT_SLAB
  <2>1. /\ 0 * MODEL_STRIDE + MODEL_STRIDE <= MAX_SEQ_LEN * MODEL_STRIDE
        /\ 0 * MAX_SEQ_LEN + MAX_SEQ_LEN <= MODEL_STRIDE * MAX_SEQ_LEN
    BY CacheSizes, ProductStep
  <2>2. MODEL_STRIDE * MAX_SEQ_LEN = ACT_SLAB
    BY CacheSizes
  <2>3. QED
    BY <2>1, <2>2, CacheSizes
<1>3. ASSUME NEW off \in Nat, NEW width \in Nat \ {0}, off + width <= 6 * ACT_SLAB,
             NEW stride, NEW col0
      PROVE  Right(Flush(act_base + off, stride, 0, width - 1, col0))
  <2>1. \A j \in 0 .. width - 1 : act_base + off + j \in act_base .. act_base + 6 * ACT_SLAB - 1
    BY <1>1, <1>3, CacheSizes
  <2>2. QED
    BY <2>1, OneRow DEF Harmless
<1>4. ASSUME NEW part \in {0, 1}, NEW stride, NEW col0
      PROVE  Right(Flush(CacheWord(layer_cnt, part, req.cache_len, 0), stride, 0,
                         MODEL_STRIDE - 1, col0))
  <2>1. /\ kv_base \in Int /\ layer_cnt * KV_LAYER_SIZE \in Int /\ part * ACT_SLAB \in Int
        /\ req.cache_len * MODEL_STRIDE \in Int
    BY <1>0, CacheSizes, DimAssumption DEF TypeOK, FsmTypeOK
  <2>2. \A j \in Cols : CacheWord(layer_cnt, part, req.cache_len, 0) + j
                          = CacheWord(layer_cnt, part, req.cache_len, j)
    BY <1>1, <2>1, CacheSizes DEF CacheWord
  <2>3. QED
    BY <1>1, <2>2, OneRow, CacheSizes DEF Harmless
<1> HIDE DEF Right
<1>5. Right(QkvFlush)
  <2>1. CASE qkv_phase = 0
    <3>1. QkvFlush = Flush(act_base + ACT_SLAB, MODEL_STRIDE, 0, MODEL_STRIDE - 1, 0)
      BY <1>0, <2>1 DEF QkvFlush, ACT_Q_OFFSET
    <3>2. QED
      BY <1>2, <1>3, <3>1, CacheSizes
  <2>2. CASE qkv_phase = 1
    <3>1. layer_kv_base + kv_row = CacheWord(layer_cnt, 0, req.cache_len, 0)
      <4>1. /\ kv_base \in Int /\ layer_cnt * KV_LAYER_SIZE \in Int
            /\ req.cache_len * MODEL_STRIDE \in Int /\ 0 * ACT_SLAB = 0
        BY <1>0, CacheSizes, DimAssumption DEF TypeOK, FsmTypeOK
      <4>2. QED
        BY <4>1 DEF CacheWord, layer_kv_base, kv_row
    <3>2. QkvFlush = Flush(CacheWord(layer_cnt, 0, req.cache_len, 0), MODEL_STRIDE,
                           0, MODEL_STRIDE - 1, 0)
      BY <1>0, <2>2, <3>1 DEF QkvFlush
    <3>3. QED
      BY <1>4, <3>2
  <2>3. CASE qkv_phase \notin {0, 1}
    <3>1. layer_kv_base + KV_V_OFFSET + kv_row = CacheWord(layer_cnt, 1, req.cache_len, 0)
      <4>1. /\ kv_base \in Int /\ layer_cnt * KV_LAYER_SIZE \in Int
            /\ req.cache_len * MODEL_STRIDE \in Int /\ 1 * ACT_SLAB = ACT_SLAB
            /\ ACT_SLAB \in Int
        BY <1>0, CacheSizes, DimAssumption DEF TypeOK, FsmTypeOK
      <4>2. QED
        BY <4>1 DEF CacheWord, layer_kv_base, kv_row, KV_V_OFFSET
    <3>2. QkvFlush = Flush(CacheWord(layer_cnt, 1, req.cache_len, 0), MODEL_STRIDE,
                           0, MODEL_STRIDE - 1, 0)
      BY <1>0, <2>3, <3>1 DEF QkvFlush
    <3>3. QED
      BY <1>4, <3>2
  <2>4. QED
    BY <2>1, <2>2, <2>3
<1>6. Right(ScoreFlush)
  <2>1. ScoreFlush = Flush(act_base + 4 * ACT_SLAB, Words(att_keys), 0, Words(att_keys) - 1, 0)
    BY <1>0 DEF ScoreFlush, ACT_ATTN_OFFSET
  <2>2. QED
    BY <1>0, <1>2, <1>3, <2>1, CacheSizes
<1>7. Right(OutFlush)
  <2> DEFINE off == ACT_SLAB + head_cnt * HEAD_WORDS
  <2>1. head_cnt * HEAD_WORDS \in Nat /\ head_cnt * HEAD_WORDS + HEAD_WORDS <= MODEL_STRIDE
    BY <1>1, ProductStep DEF MODEL_STRIDE
  <2>2. off \in Nat /\ off + HEAD_WORDS <= 6 * ACT_SLAB
    BY <1>1, <1>2, <2>1, CacheSizes
  <2>3. act_base + ACT_Q_OFFSET + head_cnt * HEAD_WORDS = act_base + off
    BY <1>1, <2>1, CacheSizes DEF ACT_Q_OFFSET
  <2> HIDE DEF off
  <2>4. OutFlush = Flush(act_base + off, MODEL_STRIDE, 0, HEAD_WORDS - 1,
                         head_cnt * HEAD_WORDS)
    BY <1>0, <2>3 DEF OutFlush
  <2>5. QED
    BY <1>1, <1>3, <2>2, <2>4
<1>8. Right(StepFlush)
  <2>1. CASE step_cfg = 0
    <3>1. StepFlush = Flush(act_base + 0, MODEL_STRIDE, 0, MODEL_STRIDE - 1, 0)
      BY <1>0, <2>1 DEF StepFlush, ACT_EMBED_OFFSET
    <3>2. QED
      BY <1>2, <1>3, <3>1, CacheSizes
  <2>2. CASE step_cfg = 1
    <3>1. StepFlush = Flush(act_base + 5 * ACT_SLAB, MODEL_STRIDE, 0, MODEL_STRIDE - 1, 0)
      BY <1>0, <2>2 DEF StepFlush, ACT_TEMP_OFF
    <3>2. 5 * ACT_SLAB \in Nat /\ 5 * ACT_SLAB + MODEL_STRIDE <= 6 * ACT_SLAB
      BY <1>2, CacheSizes
    <3>3. QED
      BY <1>3, <3>1, <3>2, CacheSizes
  <2>3. CASE step_cfg \notin {0, 1}
    <3>1. StepFlush = Flush(act_base + ACT_SLAB, F_STRIDE, 0, F_STRIDE - 1, 0)
      BY <1>0, <2>3 DEF StepFlush, ACT_FFN_OFFSET, ACT_Q_OFFSET
    <3>2. ACT_SLAB \in Nat /\ ACT_SLAB + F_STRIDE <= 6 * ACT_SLAB
      BY <1>1, CacheSizes DEF DecodesFit
    <3>3. QED
      BY <1>1, <1>3, <3>1, <3>2
  <2>4. QED
    BY <2>1, <2>2, <2>3
<1>9. state \in FlushStates
  BY DEF AccInv, ExclusionInv, UfInv
<1>10. uf_cmd \in {QkvFlush, ScoreFlush, OutFlush, StepFlush}
  BY <1>9 DEF AccInv, SavedInv, FlushStates
<1>11. QED
  BY <1>5, <1>6, <1>7, <1>8, <1>10 DEF Right

\* A decode leaves the keys and values of the earlier positions alone in every layer,
\* whatever the model's size, the layout's base addresses and the latencies, as long as
\* no start has met a done.
THEOREM CacheStays ==
  ASSUME DecodesFit
  PROVE  AccSpec => CachePreserved
<1> DEFINE Same == \A l \in 0 .. NUM_LAYERS - 1, p \in 0 .. req.cache_len - 1, c \in Cols :
                     KeyAt(l, p, c)' = KeyAt(l, p, c) /\ ValueAt(l, p, c)' = ValueAt(l, p, c)
<1>1. ASSUME TypeOK, AccInv, AccNext, intact', busy, req.decode, start' = NONE
      PROVE  Same
  <2>0. req.cache_len \in 0 .. MAX_SEQ_LEN - 1
    BY <1>1, DecodeShape DEF AccInv
  <2>1. ASSUME NEW l \in 0 .. NUM_LAYERS - 1, NEW part \in {0, 1},
               NEW p \in 0 .. req.cache_len - 1, NEW c \in Cols
        PROVE  hbm'[CacheWord(l, part, p, c)] = hbm[CacheWord(l, part, p, c)]
    <3> DEFINE a == CacheWord(l, part, p, c)
    <3>1. p \in 0 .. MAX_SEQ_LEN - 1 /\ p # req.cache_len
      BY <2>0, CacheSizes
    <3>2. a \in kv_base .. kv_base + NUM_LAYERS * KV_LAYER_SIZE - 1
      BY <3>1, CachePlaces
    <3>3. layer_cnt \in 0 .. NUM_LAYERS - 1
      BY <1>1 DEF TypeOK, FsmTypeOK, NUM_LAYERS
    <3>4. ~Harmless(a)
      <4>1. a \notin act_base .. act_base + 6 * ACT_SLAB - 1
        <5>1. /\ act_base \in Int /\ kv_base \in Int /\ ACT_SLAB \in Int
              /\ NUM_LAYERS * KV_LAYER_SIZE \in Int
          BY DimAssumption, CacheSizes DEF NUM_LAYERS
        <5>2. QED
          BY <3>2, <5>1 DEF DecodesFit
      <4>2. \A side \in {0, 1}, d \in Cols : a # CacheWord(layer_cnt, side, req.cache_len, d)
        BY <2>0, <3>1, <3>3, CachePlaces
      <4>3. QED
        BY <4>1, <4>2 DEF Harmless
    <3> HIDE DEF a
    <3>5. CASE UNCHANGED hbm
      BY <3>5 DEF a
    <3>6. CASE FlushEffect /\ Engaged("uf")
      <4>1. flush_sent
        BY <1>1, <3>6 DEF AccInv, ExclusionInv, UfInv
      <4>2. uf_cmd.rows = 0 /\ \A j \in 0 .. uf_cmd.cols : Harmless(uf_cmd.base + j)
        BY <1>1, <4>1, DecodeFlush
      <4>3. uf_cmd.base \in Int /\ uf_cmd.stride \in Int
        BY <1>1 DEF TypeOK, FsmTypeOK, Flushes
      <4>4. \A x \in (0 .. uf_cmd.rows) \X (0 .. uf_cmd.cols) :
              uf_cmd.base + x[1] * uf_cmd.stride + x[2] # a
        <5> TAKE x \in (0 .. uf_cmd.rows) \X (0 .. uf_cmd.cols)
        <5>1. x[1] = 0 /\ x[2] \in 0 .. uf_cmd.cols
          BY <4>2
        <5>2. uf_cmd.base + x[1] * uf_cmd.stride + x[2] = uf_cmd.base + x[2]
          BY <4>3, <5>1
        <5>3. QED
          BY <3>4, <4>2, <5>1, <5>2
      <4>5. a \in HbmWords
        BY <3>2 DEF HbmWords
      <4>6. QED
        BY <3>6, <4>4, <4>5 DEF FlushEffect, a
    <3>7. UNCHANGED hbm \/ (FlushEffect /\ Engaged("uf"))
      <4>1. \/ UNCHANGED memory
            \/ \E d \in Devices : Engaged(d) /\ Effect(d)
        BY <1>1, StillIntact, WhoWrites DEF AccInv, BusyInv
      <4>2. QED
        BY <4>1 DEF memory, Effect, MatmulEffect, AdapterFlush, UnitEffect
    <3>8. QED
      BY <3>5, <3>6, <3>7
  <2>2. ASSUME NEW l \in 0 .. NUM_LAYERS - 1, NEW p \in 0 .. req.cache_len - 1, NEW c \in Cols
        PROVE  /\ CacheWord(l, 0, p, c) = kv_base + l * KV_LAYER_SIZE + p * MODEL_STRIDE + c
               /\ CacheWord(l, 1, p, c)
                    = kv_base + l * KV_LAYER_SIZE + KV_V_OFFSET + p * MODEL_STRIDE + c
    <3>1. /\ kv_base \in Int /\ l * KV_LAYER_SIZE \in Int /\ 0 * ACT_SLAB = 0
          /\ 1 * ACT_SLAB = ACT_SLAB
      BY CacheSizes, DimAssumption DEF NUM_LAYERS
    <3>2. QED
      BY <3>1 DEF CacheWord, KV_V_OFFSET
  <2>3. QED
    BY <2>1, <2>2 DEF KeyAt, ValueAt
<1>2. TypeOK /\ AccInv /\ [AccNext]_accVars
        => [intact' /\ busy /\ req.decode /\ start' = NONE => Same]_accVars
  BY <1>1
<1>3. QED
  BY <1>2, AccAlways, PTL DEF AccSpec, CachePreserved

-----------------------------------------------------------------------------
(* Sizes.                                                                  *)

\* A product by a positive number, divided by it.
LEMMA DivideBack ==
  ASSUME NEW n \in Nat \ {0}, NEW x \in Nat, NEW d \in 0 .. n - 1
  PROVE  (x * n + d) \div n = x /\ (x * n + d) % n = d
<1> DEFINE q == (x * n + d) \div n
           e == (x * n + d) % n
<1>0. x * n \in Nat
  OBVIOUS
<1>1. x * n + d = n * q + e /\ e \in 0 .. n - 1 /\ q \in Int
  BY <1>0
<1> HIDE DEF q, e
<1>2. ~(q < x)
  <2> SUFFICES ASSUME q < x PROVE FALSE
    OBVIOUS
  <2>1. n * x = n * q + n + n * (x - q - 1) /\ n * (x - q - 1) >= 0
    BY <1>1
  <2>2. n * x = x * n /\ n * x \in Int /\ n * q \in Int /\ n * (x - q - 1) \in Int
    BY <1>1
  <2>3. QED
    BY <1>1, <2>1, <2>2
<1>3. ~(q > x)
  <2> SUFFICES ASSUME q > x PROVE FALSE
    OBVIOUS
  <2>1. n * q = n * x + n + n * (q - x - 1) /\ n * (q - x - 1) >= 0
    BY <1>1
  <2>2. n * x = x * n /\ n * x \in Int /\ n * q \in Int /\ n * (q - x - 1) \in Int
    BY <1>1
  <2>3. QED
    BY <1>1, <2>1, <2>2
<1>4. q = x
  BY <1>1, <1>2, <1>3
<1>5. n * q = x * n
  BY <1>4
<1>6. e = d
  BY <1>0, <1>1, <1>5
<1>7. QED
  BY <1>4, <1>6 DEF q, e

\* Rounding up what is a multiple already, or less than one unit.
LEMMA RoundUpTo ==
  ASSUME NEW n \in Nat \ {0}, NEW x \in Nat
  PROVE  RoundUp(x * n, n) = x * n /\ RoundUp(1, n) = n
<1>1. (x * n + (n - 1)) \div n = x
  BY DivideBack
<1>2. (1 * n + 0) \div n = 1
  BY DivideBack
<1>3. x * n + n - 1 = x * n + (n - 1) /\ 1 + n - 1 = 1 * n + 0
  OBVIOUS
<1>4. QED
  BY <1>1, <1>2, <1>3 DEF RoundUp

\* What the sizes come to, in words and in elements.
LEMMA SizeFacts ==
  ASSUME SizesFit
  PROVE  /\ WE \in Nat \ {0} /\ TILE \in Nat \ {0} /\ HEAD_WORDS \in Nat \ {0}
         /\ NUM_HEADS \in Nat \ {0} /\ F_STRIDE \in Nat \ {0}
         /\ NUM_LAYERS \in Nat \ {0} /\ MODEL_STRIDE \in Nat \ {0}
         /\ HEAD_WORDS * WE = TILE /\ KEY_WORDS = HEAD_WORDS
         /\ TILE \div WE = HEAD_WORDS
         /\ MODEL_STRIDE = NUM_HEADS * HEAD_WORDS
         /\ MODEL_DIM = MODEL_STRIDE * WE /\ MODEL_DIM = NUM_HEADS * TILE
         /\ MODEL_DIM \div WE = MODEL_STRIDE /\ MODEL_DIM % WE = 0
         /\ F_DIM = F_STRIDE * WE /\ F_DIM \div WE = F_STRIDE /\ F_DIM % WE = 0
         /\ MODEL_DIM % TILE = 0 /\ F_DIM % TILE = 0 /\ TILE % WE = 0 /\ TILE % TILE = 0
         /\ MODEL_DIM \in Nat \ {0} /\ F_DIM \in Nat \ {0}
<1>1. /\ WE \in Nat \ {0} /\ TILE \in Nat \ {0} /\ HEAD_WORDS \in Nat \ {0}
      /\ NUM_HEADS \in Nat \ {0} /\ F_STRIDE \in Nat \ {0} /\ NUM_LAYERS \in Nat \ {0}
  BY DimAssumption, AcceleratorAssumption DEF NUM_LAYERS
<1>2. MODEL_STRIDE \in Nat \ {0} /\ MODEL_STRIDE = NUM_HEADS * HEAD_WORDS
  BY CacheSizes DEF MODEL_STRIDE
<1>3. HEAD_WORDS * WE = TILE /\ MAX_SEQ_LEN = TILE /\ F_DIM % TILE = 0
  BY SMT DEF SizesFit, HEAD_DIM
<1>4. /\ (HEAD_WORDS * WE + (WE - 1)) \div WE = HEAD_WORDS
      /\ (HEAD_WORDS * WE + 0) \div WE = HEAD_WORDS
      /\ (HEAD_WORDS * WE + 0) % WE = 0
  BY <1>1, DivideBack
<1>5. KEY_WORDS = HEAD_WORDS
  <2>1. TILE + WE - 1 = HEAD_WORDS * WE + (WE - 1)
    BY <1>1, <1>3
  <2>2. QED
    BY <1>3, <1>4, <2>1 DEF KEY_WORDS
<1>6. TILE \div WE = HEAD_WORDS /\ TILE % WE = 0
  BY <1>1, <1>3, <1>4
<1>7. MODEL_DIM = MODEL_STRIDE * WE /\ F_DIM = F_STRIDE * WE
  BY DEF MODEL_DIM, F_DIM
<1>8. /\ (MODEL_STRIDE * WE + 0) \div WE = MODEL_STRIDE
      /\ (MODEL_STRIDE * WE + 0) % WE = 0
      /\ (F_STRIDE * WE + 0) \div WE = F_STRIDE
      /\ (F_STRIDE * WE + 0) % WE = 0
  BY <1>1, <1>2, DivideBack
<1>9. /\ MODEL_DIM \div WE = MODEL_STRIDE /\ MODEL_DIM % WE = 0
      /\ F_DIM \div WE = F_STRIDE /\ F_DIM % WE = 0
  BY <1>1, <1>2, <1>7, <1>8
<1>10. MODEL_DIM = NUM_HEADS * TILE
  <2>1. (NUM_HEADS * HEAD_WORDS) * WE = NUM_HEADS * (HEAD_WORDS * WE)
    BY <1>1
  <2>2. QED
    BY <1>2, <1>3, <1>7, <2>1
<1>11. MODEL_DIM % TILE = 0 /\ TILE % TILE = 0
  <2>1. (NUM_HEADS * TILE + 0) % TILE = 0 /\ (1 * TILE + 0) % TILE = 0
    BY <1>1, DivideBack
  <2>2. QED
    BY <1>1, <1>10, <2>1
<1>12. MODEL_DIM \in Nat \ {0} /\ F_DIM \in Nat \ {0}
  <2>1. 0 * WE + WE <= MODEL_STRIDE * WE /\ 0 * WE + WE <= F_STRIDE * WE
    BY <1>1, <1>2, ProductStep
  <2>2. QED
    BY <1>1, <1>2, <1>7, <2>1
<1>13. QED
  BY <1>1, <1>2, <1>3, <1>5, <1>6, <1>7, <1>9, <1>10, <1>11, <1>12

\* A supported job is a tile of rows or the last row of one.
LEMMA JobShape ==
  ASSUME Fits, NEW j \in TileJobs
  PROVE  /\ RowsOf(j) \in 1 .. TILE /\ j.batch * j.seq = RowsOf(j)
         /\ RowsOf(j) = 1 \/ RowsOf(j) = TILE
         /\ j.decode => RowsOf(j) = 1 /\ j.cache_len = TILE - 1
         /\ ~j.decode => RowsOf(j) = TILE
         /\ j.batch = 1 /\ j.seq = RowsOf(j) /\ j.decode \in BOOLEAN
         /\ \A r \in 0 .. RowsOf(j) - 1 :
              /\ RowPos(j, r) \in 0 .. TILE - 1
              /\ RowPos(j, r) = IF j.decode THEN TILE - 1 ELSE r
<1>1. TILE \in Nat \ {0} /\ j \in Job
  BY SizeFacts, JobAssumption DEF Fits, TileJobs
<1>2. /\ j.batch = 1 /\ j.decode \in BOOLEAN
      /\ IF j.decode THEN j.seq = 1 /\ j.cache_len = TILE - 1 ELSE j.seq = TILE
  BY <1>1 DEF TileJobs, Supported, Job
<1>3. RowsOf(j) = IF j.decode THEN 1 ELSE TILE
  BY DEF RowsOf
<1>4. j.seq = RowsOf(j) /\ j.batch * j.seq = RowsOf(j)
  BY <1>1, <1>2, <1>3
<1>5. QED
  BY <1>1, <1>2, <1>3, <1>4 DEF RowPos

-----------------------------------------------------------------------------
(* The step table.                                                         *)

\* The step table, entry by entry.
LEMMA Table ==
  /\ PROGRAM[1] = Step("LN", 0) /\ PROGRAM[2] = Step("FLUSH", 1)
  /\ PROGRAM[3] = Step("QKV", 1) /\ PROGRAM[4] = Step("ATTN", 0)
  /\ PROGRAM[5] = Step("MATMUL", 0) /\ PROGRAM[6] = Step("RES", 0)
  /\ PROGRAM[7] = Step("FLUSH", 0) /\ PROGRAM[8] = Step("LN", 1)
  /\ PROGRAM[9] = Step("FLUSH", 1) /\ PROGRAM[10] = Step("MATMUL", 2)
  /\ PROGRAM[11] = Step("ACT", 0) /\ PROGRAM[12] = Step("FLUSH", 2)
  /\ PROGRAM[13] = Step("MATMUL", 3) /\ PROGRAM[14] = Step("RES", 0)
  /\ PROGRAM[15] = Step("FLUSH", 0) /\ PROGRAM[16] = Step("END", 0)
<1>1. PROGRAM = PROG_PRENORM
  BY SMTT(40), AcceleratorAssumption DEF PROGRAM
<1>2. QED
  BY <1>1 DEF PROG_PRENORM

\* A block runs at its places in the table.
LEMMA BlockPlaces ==
  ASSUME NEW i \in 0 .. 15, NEW b, b = PROGRAM[i + 1]
  PROVE  /\ b.bt = "LN" => (i = 0 /\ b.cfg = 0) \/ (i = 7 /\ b.cfg = 1)
         /\ b.bt = "QKV" => i = 2 /\ b.cfg = 1
         /\ b.bt = "ATTN" => i = 3
         /\ b.bt = "MATMUL" => \/ i = 4 /\ b.cfg = 0
                               \/ i = 9 /\ b.cfg = 2
                               \/ i = 12 /\ b.cfg = 3
         /\ b.bt = "ACT" => i = 10
         /\ b.bt = "RES" => i \in {5, 13}
         /\ b.bt = "FLUSH" => \/ i \in {1, 8} /\ b.cfg = 1
                              \/ i \in {6, 14} /\ b.cfg = 0
                              \/ i = 11 /\ b.cfg = 2
         /\ b.bt = "END" <=> i = 15
         /\ b.bt \in DOMAIN BlockStates
<1>1. \/ i = 0 \/ i = 1 \/ i = 2 \/ i = 3 \/ i = 4 \/ i = 5 \/ i = 6 \/ i = 7 \/ i = 8
      \/ i = 9 \/ i = 10 \/ i = 11 \/ i = 12 \/ i = 13 \/ i = 14 \/ i = 15
  OBVIOUS
<1> USE Table DEF Step, BlockStates
<1>2. CASE i = 0
  BY <1>2
<1>3. CASE i = 1
  BY <1>3
<1>4. CASE i = 2
  BY <1>4
<1>5. CASE i = 3
  BY <1>5
<1>6. CASE i = 4
  BY <1>6
<1>7. CASE i = 5
  BY <1>7
<1>8. CASE i = 6
  BY <1>8
<1>9. CASE i = 7
  BY <1>9
<1>10. CASE i = 8
  BY <1>10
<1>11. CASE i = 9
  BY <1>11
<1>12. CASE i = 10
  BY <1>12
<1>13. CASE i = 11
  BY <1>13
<1>14. CASE i = 12
  BY <1>14
<1>15. CASE i = 13
  BY <1>15
<1>16. CASE i = 14
  BY <1>16
<1>17. CASE i = 15
  BY <1>17
<1>18. QED
  BY <1>1, <1>2, <1>3, <1>4, <1>5, <1>6, <1>7, <1>8, <1>9, <1>10, <1>11, <1>12,
     <1>13, <1>14, <1>15, <1>16, <1>17

\* Only the idle state waits for a start, and only there can one be raised.
LEMMA StartPlace ==
  ASSUME TypeOK, BusyInv, ProgInv, Next
  PROVE  /\ start' # NONE => state = "S_IDLE" /\ IdleWait /\ start' \in Jobs
         /\ state = "S_IDLE" => IdleWait \/ IdleStart
         /\ start # NONE => state = "S_IDLE" /\ IdleStart /\ start \in Jobs
<1>1. state = "S_IDLE" => IdleWait \/ IdleStart
  BY DEF Next, Decode, UnitFire, UnitWait, UnitRowDone, UnitLastDone, InUnit, UnitStates,
     NmFlushFire, NmFlushWait, NmFlushDone, InNmFlush, MmIssue, MmWait, MmDone, MmStates,
     FlushFire, FlushWait, QkvFlushDone, ScoreFlushDone, HeadFlushDone, StepFlushDone,
     FlushStates, NextStep, NextLayer, Done
<1>2. Edge
  BY DEF Next
<1>3. start' # NONE => start = NONE /\ ~busy /\ start' \in Jobs
  BY <1>2 DEF Edge, Host
<1>4. QED
  BY <1>1, <1>3 DEF BusyInv, ProgInv, TypeOK, IdleWait, IdleStart

\* Every edge keeps the block that of the step the index points to.
LEMMA ProgKept ==
  ASSUME ~SINGLE_MATMUL, TypeOK, BusyInv, ProgInv, Next
  PROVE  ProgInv'
<1> USE DEF program, loops, flags, payload
<1>0. step_idx \in 0 .. 15 /\ PROGRAM[step_idx + 1].bt \in DOMAIN BlockStates
      /\ (PROGRAM[step_idx + 1].bt = "END" <=> step_idx = 15)
  BY BlockPlaces DEF TypeOK, FsmTypeOK
<1>1. start' # NONE => state' = "S_IDLE"
  BY StartPlace DEF IdleWait
<1>2. busy => start' = NONE
  BY StartPlace DEF BusyInv
<1> DEFINE Kept == /\ UNCHANGED <<step_bt, step_cfg, step_idx, layer_cnt>>
                   /\ state \notin {"S_IDLE", "S_DECODE", "S_DONE"}
                   /\ state' \in BlockStates[step_bt] \cup {"S_NEXT_STEP"}
                   /\ pulse' # "done"
<1>3a. step_bt \in DOMAIN BlockStates \/ state \in {"S_IDLE", "S_DECODE"}
  BY <1>0 DEF ProgInv
<1>3. Kept => ProgInv'
  <2> SUFFICES ASSUME Kept PROVE ProgInv'
    OBVIOUS
  <2>1. step_bt \in DOMAIN BlockStates
    BY <1>3a
  <2>2. state' \notin {"S_IDLE", "S_DECODE", "S_DONE"}
    BY <2>1 DEF BlockStates
  <2>3. step_bt = PROGRAM[step_idx + 1].bt /\ step_cfg = PROGRAM[step_idx + 1].cfg
    BY DEF ProgInv
  <2>4. start' = NONE
    BY <1>1, <2>2
  <2>5. QED
    BY <2>2, <2>3, <2>4 DEF ProgInv
<1>4. CASE IdleWait \/ IdleStart
  BY <1>1, <1>4 DEF IdleWait, IdleStart, ProgInv
<1>5. CASE Decode
  <2>1. ExecutorOf[PROGRAM[step_idx + 1].bt]
          \in (BlockStates[PROGRAM[step_idx + 1].bt] \cup {"S_NEXT_STEP"})
    BY <1>0 DEF ExecutorOf, BlockStates
  <2>2. busy /\ start' = NONE
    BY <1>2, <1>5 DEF Decode, BusyInv
  <2>3. ExecutorOf[PROGRAM[step_idx + 1].bt] # "S_DONE"
    BY <1>0 DEF ExecutorOf, BlockStates
  <2>4. QED
    BY <1>5, <2>1, <2>2, <2>3 DEF Decode, ProgInv
<1>6. CASE \E u \in Units : UnitFire(u) \/ UnitWait(u) \/ UnitRowDone(u) \/ UnitLastDone(u)
  <2>1. PICK u \in Units : UnitFire(u) \/ UnitWait(u) \/ UnitRowDone(u) \/ UnitLastDone(u)
    BY <1>6
  <2>2. /\ UNCHANGED <<state, step_bt, step_cfg, step_idx, layer_cnt>>
        /\ state \in UnitStates /\ pulse' # "done"
    BY <2>1 DEF UnitFire, UnitWait, UnitRowDone, UnitLastDone, InUnit, Hold, StartOf, Units
  <2>3. QED
    BY <1>3, <2>2 DEF UnitStates, ProgInv
<1>7. CASE NmFlushFire \/ NmFlushWait \/ NmFlushDone
  <2>1. state \in UnitStates /\ state \in BlockStates[step_bt] \cup {"S_NEXT_STEP", "S_DONE"}
    BY <1>7 DEF NmFlushFire, NmFlushWait, NmFlushDone, InNmFlush, ProgInv, UnitStates
  <2>2. state = "S_ATT_SM" => "S_ATT_SM_FL" \in BlockStates[step_bt]
    BY <1>3a, <2>1 DEF BlockStates
  <2>3. /\ UNCHANGED <<step_bt, step_cfg, step_idx, layer_cnt>> /\ pulse' # "done"
        /\ \/ state' = state \/ state' = "S_NEXT_STEP"
           \/ state = "S_ATT_SM" /\ state' = "S_ATT_SM_FL"
    BY <1>7 DEF NmFlushFire, NmFlushWait, NmFlushDone, Hold
  <2>4. QED
    BY <1>3, <2>1, <2>2, <2>3 DEF UnitStates
<1>8. CASE MmIssue(mm_cmd_ready) \/ MmWait(mm_cmd_ready) \/ MmDone
  <2>1. state \in MmStates /\ state \in BlockStates[step_bt] \cup {"S_NEXT_STEP", "S_DONE"}
    BY <1>8 DEF MmIssue, MmWait, MmDone, ProgInv, MmStates
  <2>2. /\ state = "S_QKV_MM" => "S_QKV_FL" \in BlockStates[step_bt]
        /\ state = "S_ATT_SCORE" => "S_ATT_SM" \in BlockStates[step_bt]
        /\ state = "S_ATT_OUT" => "S_ATT_OUT_FL" \in BlockStates[step_bt]
    BY <1>3a, <2>1 DEF BlockStates
  <2>3. /\ UNCHANGED <<step_bt, step_cfg, step_idx, layer_cnt>> /\ pulse' # "done"
        /\ \/ state' = state \/ state' = "S_NEXT_STEP"
           \/ state = "S_QKV_MM" /\ state' = "S_QKV_FL"
           \/ state = "S_ATT_SCORE" /\ state' = "S_ATT_SM"
           \/ state = "S_ATT_OUT" /\ state' = "S_ATT_OUT_FL"
    BY <1>8, <2>1 DEF MmIssue, MmWait, MmDone, Hold, MmStates
  <2>4. QED
    BY <1>3, <2>1, <2>2, <2>3 DEF MmStates
<1>9. CASE \/ FlushFire \/ FlushWait \/ QkvFlushDone \/ ScoreFlushDone
           \/ HeadFlushDone \/ StepFlushDone
  <2>1. state \in FlushStates /\ state \in BlockStates[step_bt] \cup {"S_NEXT_STEP", "S_DONE"}
    BY <1>9 DEF FlushFire, FlushWait, QkvFlushDone, ScoreFlushDone, HeadFlushDone,
       StepFlushDone, FlushDone, ProgInv, FlushStates
  <2>2. /\ state = "S_QKV_FL" => "S_QKV_MM" \in BlockStates[step_bt]
        /\ state = "S_ATT_SM_FL" => "S_ATT_OUT" \in BlockStates[step_bt]
        /\ state = "S_ATT_OUT_FL" => "S_ATT_SCORE" \in BlockStates[step_bt]
    BY <1>3a, <2>1 DEF BlockStates
  <2>3. /\ UNCHANGED <<step_bt, step_cfg, step_idx, layer_cnt>> /\ pulse' # "done"
        /\ \/ state' = state \/ state' = "S_NEXT_STEP"
           \/ state = "S_QKV_FL" /\ state' = "S_QKV_MM"
           \/ state = "S_ATT_SM_FL" /\ state' = "S_ATT_OUT"
           \/ state = "S_ATT_OUT_FL" /\ state' = "S_ATT_SCORE"
    BY <1>9 DEF FlushFire, FlushWait, QkvFlushDone, ScoreFlushDone, HeadFlushDone,
       StepFlushDone, FlushDone, Hold
  <2>4. QED
    BY <1>3, <2>1, <2>2, <2>3 DEF FlushStates
<1>10. CASE NextStep
  BY <1>1, <1>10 DEF NextStep, ProgInv
<1>11. CASE NextLayer
  <2>1. step_idx = 15
    BY <1>0, <1>11 DEF NextLayer, ProgInv
  <2>2. LastLayer => layer_cnt = NUM_LAYERS - 1
    BY ConstantTypes DEF LastLayer, TypeOK, FsmTypeOK, NUM_LAYERS
  <2>3. QED
    BY <1>1, <1>11, <2>1, <2>2 DEF NextLayer, ProgInv
<1>12. CASE Done
  <2>1. start' = NONE
    BY <1>2, <1>12 DEF Done, BusyInv
  <2>2. QED
    BY <1>12, <2>1 DEF Done, ProgInv
<1>13. QED
  BY <1>4, <1>5, <1>6, <1>7, <1>8, <1>9, <1>10, <1>11, <1>12 DEF Next

\* The commands depend on the job, the layer, the step, the phase and the head.
LEMMA SameCommand ==
  ASSUME UNCHANGED <<req, layer_cnt, step_cfg, qkv_phase, head_cnt>>
  PROVE  /\ QkvCommand' = QkvCommand /\ ScoreCommand' = ScoreCommand
         /\ OutCommand' = OutCommand /\ RunCommand' = RunCommand
  BY DEF QkvCommand, ScoreCommand, OutCommand, RunCommand, Matmul, bt, att_rows, att_keys,
     cache_total, layer_kv_base, layer_wgt_base, Words, Low8, Wrap

\* Every edge keeps the command under way that of the state.
LEMMA CmdKept ==
  ASSUME TypeOK, MmInv, CmdInv, Next
  PROVE  CmdInv'
<1> USE DEF program, loops, flags, payload
<1>1. CASE state \notin MmStates
  BY <1>1, QuietStep DEF MmInv, CmdInv
<1>2. CASE MmIssue(mm_cmd_ready)
  <2>1. UNCHANGED <<state, req, layer_cnt, step_cfg, qkv_phase, head_cnt>>
    BY <1>2 DEF MmIssue
  <2>2. QED
    BY <1>2, <2>1, SameCommand DEF MmIssue, CmdInv
<1>3. CASE MmWait(mm_cmd_ready)
  <2>1. UNCHANGED <<state, req, layer_cnt, step_cfg, qkv_phase, head_cnt, waiting_mm, mm_cmd>>
    BY <1>3 DEF MmWait, Hold
  <2>2. QED
    BY <2>1, SameCommand DEF CmdInv
<1>4. CASE MmDone
  BY <1>4 DEF MmDone, CmdInv
<1>5. QED
  BY <1>1, <1>2, <1>3, <1>4, MmStep

\* The rows of any job of the host's are in the URAM.
LEMMA RowsFit ==
  ASSUME Fits, req \in Jobs
  PROVE  bt \in 1 .. TILE /\ bt \in 1 .. 1024 /\ bt = req.seq
<1>1. req.batch = 1 /\ req.seq \in 1 .. TILE
  BY DEF Fits, JobsFit
<1>2. TILE \in 1 .. 1024
  <2>1. TILE <= 1024
    BY SMT DEF Fits, SizesFit
  <2>2. QED
    BY <2>1, AcceleratorAssumption
<1>3. bt = req.seq
  BY SMT, <1>1, <1>2 DEF bt, Wrap
<1>4. \A n \in 1 .. TILE : n \in 1 .. 1024
  BY SMT, <1>2
<1>5. QED
  BY <1>1, <1>3, <1>4

\* Every edge keeps the row counter below the rows of the job.
LEMMA RowsKept ==
  ASSUME Fits, TypeOK, BusyInv, RowInv, RowsInv, Next
  PROVE  RowsInv'
<1> USE DEF program, loops, flags, payload
<1>0. busy => bt \in 1 .. 1024
  BY RowsFit DEF BusyInv
<1>1. CASE \E u \in Units : UnitRowDone(u)
  <2>1. PICK u \in Units : UnitRowDone(u)
    BY <1>1
  <2>2. InUnit(u) /\ u \in {"ln", "sm"} /\ state # "S_IDLE"
    BY <2>1 DEF UnitRowDone, InUnit, UnitStates
  <2>3. nm_row_cnt < bt /\ nm_row_cnt # bt - 1 /\ nm_row_cnt \in Nat /\ bt \in 1 .. 1024
    <3>1. InUnit("ln") \/ InUnit("sm")
      BY <2>2
    <3>2. nm_row_cnt < bt
      BY <3>1 DEF RowsInv
    <3>3. nm_row_cnt # bt - 1
      BY <2>1 DEF UnitRowDone
    <3>4. bt \in 1 .. 1024
      BY SMTT(40), <1>0, <2>2 DEF BusyInv
    <3>5. nm_row_cnt \in Nat
      <4>1. nm_row_cnt \in Dims
        BY DEF TypeOK, FsmTypeOK
      <4>2. QED
        BY <4>1, DimsType
    <3>6. QED
      BY <3>2, <3>3, <3>4, <3>5
  <2>4. nm_row_cnt' = nm_row_cnt + 1
    BY SMT, <2>1, <2>3 DEF UnitRowDone, Wrap
  <2>5. bt' = bt
    BY SMT, <2>1 DEF UnitRowDone, bt, Wrap
  <2>6. QED
    BY <2>3, <2>4, <2>5 DEF RowsInv
<1>2. CASE state = "S_IDLE"
  <2>1. state' \in {"S_IDLE", "S_DECODE"}
    BY <1>2 DEF Next, IdleWait, IdleStart, Decode, UnitFire, UnitWait, UnitRowDone,
       UnitLastDone, InUnit, UnitStates, NmFlushFire, NmFlushWait, NmFlushDone, InNmFlush,
       MmIssue, MmWait, MmDone, MmStates, FlushFire, FlushWait, QkvFlushDone,
       ScoreFlushDone, HeadFlushDone, StepFlushDone, FlushStates, NextStep, NextLayer, Done
  <2>2. QED
    BY <2>1 DEF RowsInv, InUnit, UnitStates
<1>3. CASE state # "S_IDLE" /\ ~(\E u \in Units : UnitRowDone(u))
  <2>1. req' = req /\ nm_row_cnt' \in {nm_row_cnt, 0}
    BY <1>3 DEF Next, IdleWait, IdleStart, Decode, UnitFire, UnitWait, UnitLastDone,
       NmFlushFire, NmFlushWait, NmFlushDone, MmIssue, MmWait, MmDone, FlushFire,
       FlushWait, QkvFlushDone, ScoreFlushDone, HeadFlushDone, StepFlushDone, FlushDone,
       NextStep, NextLayer, Done, Hold
  <2>2. bt' = bt /\ bt \in 1 .. 1024
    <3>1. bt' = bt
      BY <2>1 DEF bt
    <3>2. bt \in 1 .. 1024
      BY <1>0, <1>3 DEF BusyInv
    <3>3. QED
      BY <3>1, <3>2
  <2>3. nm_row_cnt # 0 => nm_row_cnt < bt
    BY DEF RowInv, RowsInv
  <2>4. nm_row_cnt' < bt'
    BY <2>1, <2>2, <2>3
  <2>5. QED
    BY <2>4 DEF RowsInv
<1>4. QED
  BY <1>1, <1>2, <1>3

Registers == /\ TypeOK /\ AccInv /\ RowInv /\ SetupInv
             /\ ProgInv /\ CmdInv /\ RowsInv

\* The registers while the memories are followed and the job is supported.
Control == Registers /\ intact /\ (Running => job \in TileJobs)

\* What the control registers say throughout.
LEMMA ControlAlways ==
  ASSUME Fits
  PROVE  AccSpec => []Registers
<1> DEFINE More == RowInv /\ SetupInv /\ ProgInv /\ CmdInv /\ RowsInv
<1>1. AccInit => More
  <2> SUFFICES ASSUME AccInit PROVE More
    OBVIOUS
  <2>1. Init /\ FsmInit
    BY DEF AccInit, Init
  <2>2. RowInv /\ CmdInv /\ RowsInv
    BY <2>1 DEF FsmInit, RowInv, CmdInv, RowsInv, InUnit, UnitStates
  <2>3. SetupInv
    BY <2>1 DEF Init, FsmInit, SetupInv, StartOf, Devices, Units
  <2>4. ProgInv
    BY <2>1 DEF Init, FsmInit, ProgInv
  <2>5. QED
    BY <2>2, <2>3, <2>4
<1>2. TypeOK /\ AccInv /\ More /\ [AccNext]_accVars => More'
  <2> SUFFICES ASSUME TypeOK, AccInv, More, [AccNext]_accVars
               PROVE  More'
    OBVIOUS
  <2>1. CASE AccNext
    <3>1. Next /\ ~SINGLE_MATMUL
      BY <2>1 DEF AccNext, Fits
    <3>2. QED
      BY <3>1, RowKept, SetupKept, ProgKept, CmdKept, RowsKept DEF AccInv, ExclusionInv
  <2>2. CASE UNCHANGED accVars
    <3>1. UNCHANGED <<start, rsp, left, restarted, state, busy, pulse, req, layer_cnt,
                      step_idx, step_bt, step_cfg, qkv_phase, head_cnt, nm_row_cnt,
                      nm_flush_phase, waiting_mm, flush_sent, nm, mm_cmd, flush_r, uf_cmd>>
      BY <2>2 DEF accVars, vars, fsmVars, program, loops, flags, payload
    <3>2. RowInv' /\ RowsInv'
      BY SMT, <3>1 DEF RowInv, RowsInv, InUnit, UnitOf, bt, Wrap
    <3>3. CmdInv'
      BY <3>1, SameCommand DEF CmdInv
    <3>4. ProgInv'
      BY <3>1 DEF ProgInv
    <3>5. SetupInv'
      BY <3>1 DEF SetupInv, StartOf, UnitSetup, RowOffset, CausalRow, att_keys,
         cache_total, bt, layer_wgt_base
    <3>6. QED
      BY <3>2, <3>3, <3>4, <3>5
  <2>3. QED
    BY <2>1, <2>2
<1> HIDE DEF More
<1>3. More /\ TypeOK /\ AccInv => Registers
  BY DEF Registers, More
<1>4. QED
  BY <1>1, <1>2, <1>3, AccAlways, PTL DEF AccSpec

\* The dimensions the controller computes for a supported job.
LEMMA RunShape ==
  ASSUME Fits, Control, busy
  PROVE  /\ req \in TileJobs /\ bt = RowsOf(req) /\ att_rows = RowsOf(req)
         /\ att_keys = TILE /\ Words(att_keys) = KEY_WORDS
<1>1. req \in TileJobs
  BY DEF Control, Registers, AccInv, BusyInv, ProgInv, Running, job
<1>2. TILE \in 1 .. 1024 /\ MAX_SEQ_LEN = TILE
  <2>1. SizesFit
    BY DEF Fits
  <2>2. TILE \in Nat \ {0}
    BY <2>1, SizeFacts
  <2>3. QED
    BY SMT, <2>1, <2>2 DEF SizesFit
<1>3. bt = RowsOf(req)
  BY SMT, <1>1, <1>2, JobShape DEF bt, Wrap
<1>4. att_rows = RowsOf(req)
  BY <1>1, JobShape DEF att_rows, RowsOf
<1>5. att_keys = TILE
  BY SMT, <1>1, <1>2, JobShape DEF att_keys, cache_total, Wrap
<1>6. QED
  BY <1>1, <1>2, <1>3, <1>4, <1>5 DEF Words, KEY_WORDS

-----------------------------------------------------------------------------
(* The edges at which an executor ends its work.                           *)

\* The branch an executor works in, and the registers it was given.
LEMMA WorkEdge ==
  ASSUME Registers, restarted = {}, restarted' = {}, Next,
         NEW d \in Devices, Engaged(d), rsp' = {d}
  PROVE  /\ rsp = {} /\ start = NONE /\ start' = NONE /\ busy
         /\ UNCHANGED <<state, program, loops, nm_flush_phase>>
         /\ d = "mm" => state \in MmStates /\ waiting_mm
         /\ d = "uf" => state \in FlushStates /\ flush_sent
         /\ d = "ad" => InNmFlush
         /\ d \in Units => InUnit(d) /\ nm = UnitSetup(d)
<1>0. /\ Edge /\ TypeOK /\ ExclusionInv /\ BusyInv
      /\ StartPulse("mm") = "mm_cmd_valid" /\ StartPulse("uf") = "uram_flush_start"
      /\ StartPulse("ad") = "nm_adapter_flush"
      /\ \A u \in Units : StartPulse(u) = StartOf(u)
  BY DEF Next, StartPulse, Units, Control, Registers, AccInv
<1>1. left[d] = 1 \/ (left[d] = 0 /\ pulse = StartPulse(d))
  BY <1>0, EdgeEffect DEF Accepts
<1>2. /\ d = "mm" => state \in MmStates /\ waiting_mm
      /\ d = "uf" => state \in FlushStates /\ flush_sent
      /\ d = "ad" => InNmFlush
      /\ d \in Units => InUnit(d)
  BY <1>0 DEF ExclusionInv, MmInv, UfInv, AdapterInv, UnitInv
<1>3. d \in Units => nm = UnitSetup(d)
  BY <1>0, <1>1 DEF SetupInv, Control, Registers
<1>4. d \notin rsp
  <2>1. CASE d \in Units
    <3>1. d \in rsp => Accepts(d)
      BY <1>0, <1>1, <2>1 DEF ExclusionInv, UnitInv, Accepts
    <3>2. ~(Accepts(d) /\ d \in rsp)
      BY Zenon, <1>0, <2>1, Restarts
    <3>3. QED
      BY <3>1, <3>2
  <2>2. QED
    BY <1>0, <1>1, <2>1 DEF ExclusionInv, MmInv, UfInv, AdapterInv, OneStage, Devices
<1>5. rsp = {}
  <2>1. \A e \in rsp : e \in Devices /\ Engaged(e)
    BY <1>0 DEF TypeOK, Engaged
  <2>2. \A e \in rsp : e = d
    BY <1>0, <2>1, ExclusionImplied DEF AtMostOneExecutor
  <2>3. QED
    BY <1>4, <2>2
<1>6. state \notin {"S_IDLE", "S_DECODE", "S_NEXT_STEP", "S_DONE"} /\ d \in Devices
  BY <1>2 DEF MmStates, FlushStates, UnitStates, InNmFlush, InUnit, Devices
<1>7. busy /\ start = NONE /\ start' = NONE
  BY <1>0, <1>6, StartPlace DEF BusyInv, Control, Registers, ProgInv
<1> USE DEF program, loops, flags, payload
<1>8. CASE d = "mm"
  <2>1. MmWait(mm_cmd_ready)
    BY <1>0, <1>2, <1>5, <1>8, MmStep DEF MmIssue, MmDone, MmAnswered
  <2>2. QED
    BY <1>2, <1>3, <1>5, <1>7, <1>8, <2>1 DEF MmWait, Hold
<1>9. CASE d = "uf"
  <2>1. FlushWait
    BY <1>0, <1>2, <1>5, <1>9, FlushStep DEF FlushFire, QkvFlushDone, ScoreFlushDone,
       HeadFlushDone, StepFlushDone, FlushDone
  <2>2. QED
    BY <1>2, <1>3, <1>5, <1>7, <1>9, <2>1 DEF FlushWait, Hold
<1>10. CASE d = "ad"
  <2>1. NmFlushFire \/ NmFlushWait
    BY <1>2, <1>5, <1>10 DEF Next, InNmFlush, UnitStates, MmStates, FlushStates, IdleWait,
       IdleStart, Decode, NextStep, NextLayer, Done, MmIssue, MmWait, MmDone, FlushFire,
       FlushWait, QkvFlushDone, ScoreFlushDone, HeadFlushDone, StepFlushDone, FlushDone,
       UnitFire, UnitWait, UnitRowDone, UnitLastDone, InUnit, NmFlushDone
  <2>2. QED
    BY <1>2, <1>3, <1>5, <1>7, <1>10, <2>1 DEF NmFlushFire, NmFlushWait, Hold
<1>11. CASE d \in Units
  <2>1. UnitFire(d) \/ UnitWait(d)
    BY <1>0, <1>2, <1>5, <1>11, UnitPulse DEF UnitRowDone, UnitLastDone
  <2>2. QED
    BY <1>2, <1>3, <1>5, <1>7, <1>11, <2>1 DEF UnitFire, UnitWait, Hold, Units
<1>12. QED
  BY <1>6, <1>8, <1>9, <1>10, <1>11 DEF Devices

\* Where a job is in each state.
Places ==
  /\ state = "S_DECODE" => Position = At(step_idx, 0, 0, 0)
  /\ state = "S_LN_RUN" => Position = At(step_idx, 0, 0, RowsDone("ln"))
  /\ state = "S_ACT_RUN" => Position = At(step_idx + UnitDone("act"), 0, 0, 0)
  /\ state = "S_RES_RUN" => Position = At(step_idx + UnitDone("res"), 0, 0, 0)
  /\ state = "S_MM_RUN" => Position = At(step_idx + Has("mm"), 0, 0, 0)
  /\ state = "S_UF_RUN" => Position = At(step_idx + Has("uf"), 0, 0, 0)
  /\ state = "S_QKV_MM" => Position = At(step_idx, 2 * qkv_phase + Has("mm"), 0, 0)
  /\ state = "S_QKV_FL" => Position = At(step_idx, 2 * qkv_phase + 1 + Has("uf"), 0, 0)
  /\ state = "S_ATT_SCORE" => Position = At(step_idx, Has("mm"), head_cnt, 0)
  /\ state = "S_ATT_SM" => Position = At(step_idx, 1, head_cnt, RowsDone("sm"))
  /\ state = "S_ATT_SM_FL" => Position = At(step_idx, 2 + Has("uf"), head_cnt, 0)
  /\ state = "S_ATT_OUT" => Position = At(step_idx, 3 + Has("mm"), head_cnt, 0)
  /\ state = "S_ATT_OUT_FL" => Position = At(step_idx, 4 + Has("uf"), head_cnt, 0)
  /\ state \in {"S_IDLE", "S_DONE", "S_NEXT_STEP"} =>
       Position = At(step_idx + 1, 0, 0, 0)

\* The place in the table, by the controller's state.
LEMMA PlaceNow == start = NONE => Places
  BY DEF Places, Position

\* The same after a step.
LEMMA PlaceNext == (start = NONE)' => Places'
  BY DEF Places, Position
\* Neighbouring places at which the memories hold the same.
SamePlace(s, t) ==
  \/ s = t
  \/ \E i \in {0, 7} : s = At(i, 0, 0, RowsOf(req)) /\ t = At(i + 1, 0, 0, 0)
  \/ s = At(2, 6, 0, 0) /\ t = At(3, 0, 0, 0)
  \/ \E h \in 0 .. NUM_HEADS - 1 : s = At(3, 1, h, RowsOf(req)) /\ t = At(3, 2, h, 0)
  \/ \E h \in 0 .. NUM_HEADS - 2 : s = At(3, 5, h, 0) /\ t = At(3, 0, h + 1, 0)
  \/ s = At(3, 5, NUM_HEADS - 1, 0) /\ t = At(4, 0, 0, 0)
  \/ s = At(15, 0, 0, 0) /\ t = At(16, 0, 0, 0)

Onward == /\ Running /\ Running' /\ job' = job
          /\ \/ lay' = lay /\ SamePlace(Position, Position')
             \/ /\ lay' = lay + 1 /\ lay < NUM_LAYERS - 1
                /\ Position = At(16, 0, 0, 0) /\ Position' = At(0, 0, 0, 0)

\* The step of the table a state belongs to.
LEMMA StepOf ==
  ASSUME TypeOK, ProgInv
  PROVE  /\ step_idx \in 0 .. 15
         /\ state = "S_LN_RUN" => \/ step_idx = 0 /\ step_cfg = 0
                                  \/ step_idx = 7 /\ step_cfg = 1
         /\ state \in {"S_QKV_MM", "S_QKV_FL"} => step_idx = 2 /\ step_cfg = 1
         /\ state \in {"S_ATT_SCORE", "S_ATT_SM", "S_ATT_SM_FL", "S_ATT_OUT", "S_ATT_OUT_FL"}
              => step_idx = 3
         /\ state = "S_MM_RUN" => \/ step_idx = 4 /\ step_cfg = 0
                                  \/ step_idx = 9 /\ step_cfg = 2
                                  \/ step_idx = 12 /\ step_cfg = 3
         /\ state = "S_ACT_RUN" => step_idx = 10
         /\ state = "S_RES_RUN" => step_idx \in {5, 13}
         /\ state = "S_UF_RUN" => \/ step_idx \in {1, 8} /\ step_cfg = 1
                                  \/ step_idx \in {6, 14} /\ step_cfg = 0
                                  \/ step_idx = 11 /\ step_cfg = 2
         /\ state = "S_NEXT_STEP" => (step_bt = "END" <=> step_idx = 15)
<1>1. step_idx \in 0 .. 15
  BY DEF TypeOK, FsmTypeOK
<1>2. CASE state \in {"S_IDLE", "S_DECODE"}
  BY <1>1, <1>2
<1>3. CASE state \notin {"S_IDLE", "S_DECODE"}
  <2> DEFINE b == PROGRAM[step_idx + 1]
  <2>1. /\ step_bt = b.bt /\ step_cfg = b.cfg
        /\ state \in BlockStates[step_bt] \cup {"S_NEXT_STEP", "S_DONE"}
    BY <1>3 DEF ProgInv
  <2> HIDE DEF b
  <2>2. /\ b.bt = "LN" => \/ step_idx = 0 /\ b.cfg = 0
                          \/ step_idx = 7 /\ b.cfg = 1
        /\ b.bt = "QKV" => step_idx = 2 /\ b.cfg = 1
        /\ b.bt = "ATTN" => step_idx = 3
        /\ b.bt = "MATMUL" => \/ step_idx = 4 /\ b.cfg = 0
                              \/ step_idx = 9 /\ b.cfg = 2
                              \/ step_idx = 12 /\ b.cfg = 3
        /\ b.bt = "ACT" => step_idx = 10
        /\ b.bt = "RES" => step_idx \in {5, 13}
        /\ b.bt = "FLUSH" => \/ step_idx \in {1, 8} /\ b.cfg = 1
                             \/ step_idx \in {6, 14} /\ b.cfg = 0
                             \/ step_idx = 11 /\ b.cfg = 2
        /\ b.bt = "END" <=> step_idx = 15
        /\ b.bt \in DOMAIN BlockStates
    BY <1>1, BlockPlaces DEF b
  <2>3. /\ state = "S_LN_RUN" => step_bt = "LN"
        /\ state \in {"S_QKV_MM", "S_QKV_FL"} => step_bt = "QKV"
        /\ state \in {"S_ATT_SCORE", "S_ATT_SM", "S_ATT_SM_FL", "S_ATT_OUT", "S_ATT_OUT_FL"}
             => step_bt = "ATTN"
        /\ state = "S_MM_RUN" => step_bt = "MATMUL"
        /\ state = "S_ACT_RUN" => step_bt = "ACT"
        /\ state = "S_RES_RUN" => step_bt = "RES"
        /\ state = "S_UF_RUN" => step_bt = "FLUSH"
    BY <2>1, <2>2 DEF BlockStates
  <2>4. QED
    BY <1>1, <1>3, <2>1, <2>2, <2>3
<1>4. QED
  BY <1>2, <1>3

\* An edge at which no executor ends its work leaves the job at the same place, takes
\* it to the next layer, or ends it.
LEMMA ControlEdge ==
  ASSUME Fits, Control, Next, rsp' = {}, start' = NONE
  PROVE  \/ ~Running /\ ~Running'
         \/ Running /\ ~Running' /\ Position = At(16, 0, 0, 0) /\ lay = NUM_LAYERS - 1
         \/ Onward
<1> USE DEF program, loops, flags, payload
<1>0. /\ TypeOK /\ ExclusionInv /\ BusyInv /\ ProgInv /\ Places'
      /\ step_idx \in 0 .. 15
      /\ \A d \in Devices : Has(d)' = 0
  BY PlaceNext, StepOf DEF Control, Registers, AccInv, Has
<1>1. CASE IdleWait
  <2>1. pulse = "done" => step_idx = 15 /\ layer_cnt = NUM_LAYERS - 1
    BY <1>0 DEF ProgInv
  <2>2. ~Running' /\ start = NONE /\ state = "S_IDLE"
    BY <1>1 DEF IdleWait, Running
  <2>3. Running => pulse = "done"
    BY <2>2 DEF Running
  <2>4. Position = At(step_idx + 1, 0, 0, 0) /\ lay = layer_cnt
    BY <2>2, PlaceNow DEF Places, lay
  <2>5. QED
    BY <2>1, <2>2, <2>3, <2>4
<1>2. CASE IdleStart
  <2>1. Position = At(0, 0, 0, 0) /\ job = start /\ lay = 0 /\ Running
    BY <1>2 DEF IdleStart, Position, job, lay, Running
  <2>2. Position' = At(0, 0, 0, 0) /\ job' = start /\ lay' = 0 /\ Running'
    BY <1>0, <1>2 DEF IdleStart, Places, job, lay, Running
  <2>3. QED
    BY <2>1, <2>2 DEF Onward, SamePlace
<1>3. CASE state # "S_IDLE"
  <2>0. start = NONE /\ Places /\ job = req /\ lay = layer_cnt /\ Running
    BY <1>0, <1>3, PlaceNow DEF ProgInv, job, lay, Running
  <2>1. ASSUME state' # "S_IDLE" \/ pulse' = "done", req' = req, layer_cnt' = layer_cnt,
               SamePlace(Position, Position')
        PROVE  Onward
    BY <2>0, <2>1 DEF Onward, job, lay, Running
  <2>2. CASE Decode
    <3> DEFINE b == PROGRAM[step_idx + 1]
    <3>1. nm_row_cnt = 0 /\ ~nm_flush_phase
      BY <1>0, <2>2 DEF Decode, Control, Registers, RowInv, InUnit, UnitStates,
         ExclusionInv, AdapterInv
    <3>2. /\ state' = ExecutorOf[b.bt] /\ Position = At(step_idx, 0, 0, 0)
          /\ UNCHANGED <<req, layer_cnt, step_idx, nm_row_cnt, nm_flush_phase>>
          /\ b.bt = "QKV" => qkv_phase' = 0
          /\ b.bt = "ATTN" => head_cnt' = 0
      BY <2>0, <2>2 DEF Decode, Places
    <3>3. b.bt \in DOMAIN BlockStates /\ (b.bt = "END" <=> step_idx = 15)
      BY <1>0, BlockPlaces
    <3> HIDE DEF b
    <3>4. RowsDone("ln")' = 0 /\ RowsDone("sm")' = 0 /\ UnitDone("act")' = 0
          /\ UnitDone("res")' = 0
      BY <1>0, <3>1, <3>2 DEF RowsDone, UnitDone, Devices, Units
    <3>5. Has("mm")' = 0 /\ Has("uf")' = 0
      BY <1>0 DEF Devices
    <3>6. CASE b.bt = "END"
      <4>1. Position' = At(16, 0, 0, 0) /\ state' = "S_NEXT_STEP"
        BY <1>0, <3>2, <3>3, <3>6 DEF Places, ExecutorOf
      <4>2. QED
        BY <2>1, <3>2, <3>3, <3>6, <4>1 DEF SamePlace
    <3>7. CASE b.bt # "END"
      <4>1. Position' = At(step_idx, 0, 0, 0) /\ state' # "S_IDLE"
        BY <1>0, <3>2, <3>3, <3>4, <3>5, <3>7 DEF Places, ExecutorOf, BlockStates
      <4>2. QED
        BY <2>1, <3>2, <4>1 DEF SamePlace
    <3>8. QED
      BY <3>6, <3>7
  <2>3. CASE \E u \in Units : UnitFire(u) \/ UnitWait(u) \/ UnitRowDone(u) \/ UnitLastDone(u)
    <3>1. PICK u \in Units : UnitFire(u) \/ UnitWait(u) \/ UnitRowDone(u) \/ UnitLastDone(u)
      BY <2>3
    <3>2. /\ InUnit(u) /\ UNCHANGED <<state, req, layer_cnt, step_idx, head_cnt>>
          /\ state \in UnitStates /\ u = UnitOf(state) /\ ~nm_flush_phase
      BY <3>1 DEF UnitFire, UnitWait, UnitRowDone, UnitLastDone, InUnit, Hold
    <3>3. Has(u)' = 0 /\ u \in Units
      BY <1>0, <3>1 DEF Devices
    <3>4. u \in {"ln", "sm"} => RowsDone(u)' = RowsDone(u)
      <4> SUFFICES ASSUME u \in {"ln", "sm"} PROVE RowsDone(u)' = RowsDone(u)
        OBVIOUS
      <4>1. nm_row_cnt < bt /\ nm_row_cnt \in Dims /\ bt = RowsOf(req) /\ bt \in 1 .. 1024
        <5>1. InUnit("ln") \/ InUnit("sm")
          BY <3>2
        <5>2. nm_row_cnt < bt /\ nm_row_cnt \in Dims
          BY <1>0, <5>1 DEF Control, Registers, RowsInv, TypeOK, FsmTypeOK
        <5>3. busy
          BY <1>0, <1>3 DEF BusyInv
        <5>4. bt = RowsOf(req) /\ bt \in 1 .. TILE /\ TILE <= 1024
          BY SMTT(40), <1>0, <5>3, RunShape, JobShape DEF Fits, SizesFit
        <5>5. QED
          BY <5>2, <5>4, AcceleratorAssumption
      <4>2. nm_row_cnt \in Nat
        BY <4>1, DimsType
      <4>3. CASE UnitFire(u) \/ UnitWait(u)
        BY <3>2, <3>3, <4>3 DEF UnitFire, UnitWait, RowsDone, Has, Hold
      <4>4. CASE UnitRowDone(u)
        <5>1. nm_row_cnt' = nm_row_cnt + 1 /\ Has(u) = 1 /\ UNCHANGED nm_flush_phase
          BY SMT, <4>1, <4>2, <4>4 DEF UnitRowDone, Wrap, Has
        <5>2. QED
          BY <3>2, <3>3, <4>2, <5>1 DEF RowsDone
      <4>5. CASE UnitLastDone(u)
        <5>1. nm_row_cnt = bt - 1 /\ Has(u) = 1 /\ nm_flush_phase'
          BY <4>5 DEF UnitLastDone, Has
        <5>2. QED
          BY <3>2, <4>1, <5>1 DEF RowsDone, RowsOf
      <4>6. QED
        BY <3>1, <4>3, <4>4, <4>5
    <3>5. u \in {"act", "res"} => UnitDone(u)' = UnitDone(u)
      BY <3>1, <3>2, <3>3 DEF UnitFire, UnitWait, UnitRowDone, UnitLastDone, UnitDone, Has,
         Hold
    <3>6. Position' = Position
      <4>1. \/ state = "S_LN_RUN" /\ u = "ln"
            \/ state = "S_ATT_SM" /\ u = "sm"
            \/ state = "S_ACT_RUN" /\ u = "act"
            \/ state = "S_RES_RUN" /\ u = "res"
        BY <3>2 DEF UnitStates, UnitOf
      <4>2. (start = NONE)' /\ Places'
        BY <1>0
      <4>3. QED
        BY <2>0, <3>2, <3>4, <3>5, <4>1, <4>2 DEF Places
    <3>7. QED
      BY <1>3, <2>1, <3>2, <3>6 DEF SamePlace
  <2>4. CASE NmFlushFire \/ NmFlushWait
    <3>1. /\ UNCHANGED <<state, req, layer_cnt, step_idx, head_cnt, nm_flush_phase>>
          /\ state \in UnitStates /\ nm_flush_phase
      BY <2>4 DEF NmFlushFire, NmFlushWait, InNmFlush, Hold
    <3>2. Position' = Position
      BY <1>0, <2>0, <3>1 DEF Places, RowsDone, UnitDone, UnitStates
    <3>3. QED
      BY <1>3, <2>1, <3>1, <3>2 DEF SamePlace
  <2>5. CASE NmFlushDone
    <3>1. /\ UNCHANGED <<req, layer_cnt, step_idx, head_cnt>>
          /\ state \in UnitStates /\ nm_flush_phase
          /\ state' = IF state = "S_ATT_SM" THEN "S_ATT_SM_FL" ELSE "S_NEXT_STEP"
      BY <2>5 DEF NmFlushDone, InNmFlush
    <3>2. RowsDone("ln") = RowsOf(req) /\ RowsDone("sm") = RowsOf(req)
          /\ UnitDone("act") = 1 /\ UnitDone("res") = 1 /\ Has("uf")' = 0
      BY <1>0, <3>1 DEF RowsDone, UnitDone, Devices
    <3>3. CASE state = "S_ATT_SM"
      <4>1. step_idx = 3 /\ head_cnt \in 0 .. NUM_HEADS - 1
        BY <1>0, <3>3, StepOf DEF TypeOK, FsmTypeOK
      <4>2. /\ Position = At(3, 1, head_cnt, RowsOf(req))
            /\ Position' = At(3, 2, head_cnt, 0)
        BY <1>0, <2>0, <3>1, <3>2, <3>3, <4>1 DEF Places
      <4>3. QED
        BY <2>1, <3>1, <3>3, <4>1, <4>2 DEF SamePlace
    <3>4. CASE state = "S_LN_RUN"
      <4>1. step_idx \in {0, 7}
        BY <1>0, <3>4, StepOf
      <4>2. /\ Position = At(step_idx, 0, 0, RowsOf(req))
            /\ Position' = At(step_idx + 1, 0, 0, 0)
        BY <1>0, <2>0, <3>1, <3>2, <3>4, <4>1 DEF Places
      <4>3. QED
        BY <2>1, <3>1, <3>4, <4>1, <4>2 DEF SamePlace
    <3>5. CASE state \in {"S_ACT_RUN", "S_RES_RUN"}
      <4>1. Position' = Position
        BY <1>0, <2>0, <3>1, <3>2, <3>5 DEF Places
      <4>2. QED
        BY <2>1, <3>1, <3>5, <4>1 DEF SamePlace
    <3>6. QED
      BY <3>1, <3>3, <3>4, <3>5 DEF UnitStates
  <2>6. CASE MmIssue(mm_cmd_ready) \/ MmWait(mm_cmd_ready)
    <3>1. /\ UNCHANGED <<state, req, layer_cnt, step_idx, head_cnt, qkv_phase>>
          /\ state \in MmStates
      BY <2>6 DEF MmIssue, MmWait, Hold
    <3>2. Has("mm") = 0 /\ Has("mm")' = 0
      <4>1. "mm" \notin rsp
        BY <1>0, <2>6 DEF MmIssue, MmWait, mm_cmd_ready, ExclusionInv, MmInv, Engaged
      <4>2. QED
        BY <1>0, <4>1 DEF Has, Devices
    <3>3. Position' = Position
      BY <1>0, <2>0, <3>1, <3>2 DEF Places, MmStates
    <3>4. QED
      BY <1>3, <2>1, <3>1, <3>3 DEF SamePlace
  <2>7. CASE MmDone
    <3>1. /\ UNCHANGED <<req, layer_cnt, step_idx, head_cnt, qkv_phase, nm_row_cnt,
                         nm_flush_phase>>
          /\ state \in MmStates /\ "mm" \in rsp
          /\ state' = CASE state = "S_QKV_MM" -> "S_QKV_FL"
                        [] state = "S_ATT_SCORE" -> "S_ATT_SM"
                        [] state = "S_ATT_OUT" -> "S_ATT_OUT_FL"
                        [] OTHER -> "S_NEXT_STEP"
      BY <2>7 DEF MmDone, MmAnswered
    <3>2. nm_row_cnt = 0 /\ ~nm_flush_phase
      BY <1>0, <3>1 DEF Control, Registers, RowInv, InUnit, UnitStates, MmStates,
         ExclusionInv, AdapterInv
    <3>3. Has("mm") = 1 /\ Has("uf")' = 0 /\ RowsDone("sm")' = 0
      BY <1>0, <3>1, <3>2 DEF Has, RowsDone, Devices, Units
    <3>4. 2 * qkv_phase + 1 = 2 * qkv_phase + 1 + 0 /\ qkv_phase \in Int
      BY <1>0 DEF TypeOK, FsmTypeOK
    <3>5. Position' = Position
      BY <1>0, <2>0, <3>1, <3>3, <3>4 DEF Places, MmStates
    <3>6. QED
      BY <1>3, <2>1, <3>1, <3>5 DEF SamePlace, MmStates
  <2>8. CASE FlushFire \/ FlushWait
    <3>1. /\ UNCHANGED <<state, req, layer_cnt, step_idx, head_cnt, qkv_phase>>
          /\ state \in FlushStates /\ "uf" \notin rsp
      BY <2>8 DEF FlushFire, FlushWait, Hold
    <3>2. Has("uf") = 0 /\ Has("uf")' = 0
      BY <1>0, <3>1 DEF Has, Devices
    <3>3. Position' = Position
      BY <1>0, <2>0, <3>1, <3>2 DEF Places, FlushStates
    <3>4. QED
      BY <1>3, <2>1, <3>1, <3>3 DEF SamePlace
  <2>9. ASSUME FlushDone
        PROVE  /\ UNCHANGED <<req, layer_cnt, step_idx>> /\ Has("uf") = 1
               /\ Has("mm")' = 0
               /\ head_cnt \in 0 .. NUM_HEADS - 1 /\ qkv_phase \in 0 .. 2
    BY <1>0, <2>9 DEF FlushDone, Has, Devices, TypeOK, FsmTypeOK
  <2>10. CASE QkvFlushDone
    <3>1. FlushDone /\ state = "S_QKV_FL" /\ step_idx = 2
      BY <1>0, <2>10, StepOf DEF QkvFlushDone
    <3>2. Position = At(2, 2 * qkv_phase + 2, 0, 0)
      <4>1. 2 * qkv_phase + 1 + 1 = 2 * qkv_phase + 2
        BY <2>9, <3>1
      <4>2. QED
        BY <2>0, <2>9, <3>1, <4>1 DEF Places
    <3>3. CASE qkv_phase < 2
      <4>1. state' = "S_QKV_MM" /\ qkv_phase' = qkv_phase + 1
        BY <2>10, <3>3 DEF QkvFlushDone, Fits
      <4>2. 2 * (qkv_phase + 1) + 0 = 2 * qkv_phase + 2
        BY <2>9, <3>1
      <4>3. Position' = At(2, 2 * qkv_phase + 2, 0, 0)
        BY <1>0, <2>9, <3>1, <4>1, <4>2 DEF Places
      <4>4. QED
        BY <2>1, <2>9, <3>1, <3>2, <4>1, <4>3 DEF SamePlace
    <3>4. CASE qkv_phase = 2
      <4>1. state' = "S_NEXT_STEP"
        BY <2>10, <3>4 DEF QkvFlushDone, Fits
      <4>2. Position' = At(3, 0, 0, 0)
        BY <1>0, <2>9, <3>1, <4>1 DEF Places
      <4>3. Position = At(2, 6, 0, 0)
        BY <3>2, <3>4
      <4>4. QED
        BY <2>1, <2>9, <3>1, <4>1, <4>2, <4>3 DEF SamePlace
    <3>5. QED
      BY <2>9, <3>1, <3>3, <3>4
  <2>11. CASE ScoreFlushDone
    <3>1. FlushDone /\ state = "S_ATT_SM_FL" /\ step_idx = 3
          /\ state' = "S_ATT_OUT" /\ head_cnt' = head_cnt
      BY <1>0, <2>11, StepOf DEF ScoreFlushDone
    <3>2. Position = At(3, 3, head_cnt, 0) /\ Position' = At(3, 3, head_cnt, 0)
      BY <1>0, <2>0, <2>9, <3>1 DEF Places
    <3>3. QED
      BY <2>1, <2>9, <3>1, <3>2 DEF SamePlace
  <2>12. CASE HeadFlushDone
    <3>1. FlushDone /\ state = "S_ATT_OUT_FL" /\ step_idx = 3
          /\ IF LastHead THEN state' = "S_NEXT_STEP"
                         ELSE state' = "S_ATT_SCORE" /\ head_cnt' = head_cnt + 1
      BY <1>0, <2>12, StepOf DEF HeadFlushDone
    <3>2. Position = At(3, 5, head_cnt, 0)
      BY <2>0, <2>9, <3>1 DEF Places
    <3>3. CASE head_cnt = NUM_HEADS - 1
      <4>1. Position' = At(4, 0, 0, 0) /\ state' = "S_NEXT_STEP"
        BY <1>0, <2>9, <3>1, <3>3 DEF Places, LastHead
      <4>2. QED
        BY <2>1, <2>9, <3>1, <3>2, <3>3, <4>1 DEF SamePlace
    <3>4. CASE head_cnt # NUM_HEADS - 1
      <4>1. head_cnt \in 0 .. NUM_HEADS - 2 /\ state' = "S_ATT_SCORE"
            /\ head_cnt' = head_cnt + 1
        BY <2>9, <3>1, <3>4, ConstantTypes DEF LastHead
      <4>2. Position' = At(3, 0, head_cnt + 1, 0)
        BY <1>0, <2>9, <3>1, <4>1 DEF Places
      <4>3. QED
        BY <2>1, <2>9, <3>1, <3>2, <4>1, <4>2 DEF SamePlace
    <3>5. QED
      BY <3>3, <3>4
  <2>13. CASE StepFlushDone
    <3>1. FlushDone /\ state = "S_UF_RUN" /\ state' = "S_NEXT_STEP"
      BY <2>13 DEF StepFlushDone
    <3>2. Position' = Position
      BY <1>0, <2>0, <2>9, <3>1 DEF Places
    <3>3. QED
      BY <2>1, <2>9, <3>1, <3>2 DEF SamePlace
  <2>14. CASE NextStep
    <3>1. step_idx # 15
      BY <1>0, <2>14, StepOf DEF NextStep
    <3>2. step_idx' = step_idx + 1 /\ state' = "S_DECODE" /\ state = "S_NEXT_STEP"
          /\ UNCHANGED <<req, layer_cnt>>
      BY <1>0, <2>14, <3>1 DEF NextStep
    <3>3. Position' = Position
      BY <1>0, <2>0, <3>2 DEF Places
    <3>4. QED
      BY <2>1, <3>2, <3>3 DEF SamePlace
  <2>15. CASE NextLayer
    <3>1. step_idx = 15 /\ state = "S_NEXT_STEP" /\ UNCHANGED req
      BY <1>0, <2>15, StepOf DEF NextLayer
    <3>2. Position = At(16, 0, 0, 0)
      BY <2>0, <3>1 DEF Places
    <3>3. CASE LastLayer
      <4>1. state' = "S_DONE" /\ UNCHANGED <<layer_cnt, step_idx>>
        BY <2>15, <3>3 DEF NextLayer
      <4>2. Position' = At(16, 0, 0, 0)
        BY <1>0, <3>1, <4>1 DEF Places
      <4>3. QED
        BY <2>1, <3>1, <3>2, <4>1, <4>2 DEF SamePlace
    <3>4. CASE ~LastLayer
      <4>1. state' = "S_DECODE" /\ layer_cnt' = layer_cnt + 1 /\ step_idx' = 0
        BY <2>15, <3>4 DEF NextLayer
      <4>2. Position' = At(0, 0, 0, 0)
        BY <1>0, <4>1 DEF Places
      <4>3. layer_cnt < NUM_LAYERS - 1
        BY <1>0, <3>4, ConstantTypes DEF LastLayer, NUM_LAYERS, TypeOK, FsmTypeOK
      <4>4. QED
        BY <2>0, <3>1, <3>2, <4>1, <4>2, <4>3 DEF Onward, job, lay, Running
    <3>5. QED
      BY <3>3, <3>4
  <2>16. CASE Done
    <3>1. /\ state = "S_DONE" /\ state' = "S_IDLE" /\ pulse' = "done"
          /\ UNCHANGED <<req, layer_cnt, step_idx>>
      BY <2>16 DEF Done
    <3>2. Position' = Position
      BY <1>0, <2>0, <3>1 DEF Places
    <3>3. QED
      BY <2>1, <3>1, <3>2 DEF SamePlace
  <2>17. QED
    BY <1>3, <2>2, <2>3, <2>4, <2>5, <2>6, <2>7, <2>8, <2>10, <2>11, <2>12, <2>13, <2>14,
       <2>15, <2>16 DEF Next, IdleWait, IdleStart
<1>4. QED
  BY <1>1, <1>2, <1>3, StartPlace DEF Control, Registers, AccInv

-----------------------------------------------------------------------------
(* What an executor's effect is, word by word.                             *)

\* The rows of a product appear in the URAM, at the columns of the command.
LEMMA MatmulView ==
  ASSUME MatmulEffect, wb = NONE, Exact(mm_cmd),
         NEW R \in 1 .. TILE, mm_cmd.m = R, R <= RoundUp(R, TILE),
         NEW n \in Nat, mm_cmd.n \div WE = n, RoundUp(mm_cmd.n, TILE) \div WE = n,
         NEW off \in Nat, mm_cmd.out_col_offset = off,
         R <= URAM_ROWS, off + n <= URAM_COL_WORDS
  PROVE  /\ UNCHANGED <<hbm, wb, dma_word>>
         /\ \A r \in 0 .. R - 1, c \in 0 .. n - 1 :
              Uram(<<r, off + c>>)' = Product(mm_cmd, r, c)
<1>1. UNCHANGED <<hbm, wb, dma_word>>
  BY DEF MatmulEffect
<1>2. ASSUME NEW r \in 0 .. R - 1, NEW c \in 0 .. n - 1
      PROVE  Uram(<<r, off + c>>)' = Product(mm_cmd, r, c)
  <2> DEFINE x == <<r, off + c>>
  <2>0. TILE \in Nat /\ URAM_ROWS \in Nat /\ URAM_COL_WORDS \in Nat
    BY AcceleratorAssumption
  <2>1. x \in UramWords /\ x[1] = r /\ x[2] - off = c
    BY <2>0 DEF UramWords
  <2>2. x[1] < RoundUp(R, TILE) /\ x[1] < R /\ c < n
    <3>1. r < R /\ R <= RoundUp(R, TILE) /\ RoundUp(R, TILE) \in Int
      BY <2>0, AcceleratorAssumption DEF RoundUp
    <3>2. QED
      BY <3>1
  <2>3. uram'[x] = Product(mm_cmd, r, c)
    BY <2>1, <2>2 DEF MatmulEffect
  <2>4. Uram(x)' = uram'[x]
    BY <1>1, <2>1 DEF Uram
  <2>5. QED
    BY <2>3, <2>4
<1>3. QED
  BY <1>1, <1>2

\* The flush command carries R rows of n words, from column col0 on, to rows that
\* are stride words apart.
Carries(base, stride, R, n, col0) ==
  /\ base \in Int /\ stride \in Nat /\ R \in 1 .. 1024 /\ n \in 1 .. 256
  /\ col0 \in 0 .. 255 /\ uf_cmd = Flush(base, stride, R - 1, n - 1, col0)
  /\ n <= stride /\ R <= URAM_ROWS /\ col0 + n <= URAM_COL_WORDS
  /\ \A r \in 0 .. R - 1, c \in 0 .. n - 1 : base + r * stride + c \in HbmWords

\* They are written, and nothing else is.
CarriedOut(base, stride, R, n, col0) ==
  /\ \A r \in 0 .. R - 1, c \in 0 .. n - 1 :
       hbm'[base + r * stride + c] = uram[r, col0 + c]
  /\ \A a \in HbmWords :
       \/ hbm'[a] = hbm[a]
       \/ \E r \in 0 .. R - 1, c \in 0 .. n - 1 :
            a = base + r * stride + c /\ hbm'[a] = uram[r, col0 + c]

\* A flush writes its rectangle and nothing else.
LEMMA FlushWrites ==
  ASSUME FlushEffect, NEW base, NEW stride, NEW R, NEW n, NEW col0,
         Carries(base, stride, R, n, col0)
  PROVE  UNCHANGED <<uram, wb, dma_word>> /\ CarriedOut(base, stride, R, n, col0)
<1>0. /\ base \in Int /\ stride \in Nat /\ R \in 1 .. 1024 /\ n \in 1 .. 256
      /\ col0 \in 0 .. 255 /\ uf_cmd = Flush(base, stride, R - 1, n - 1, col0)
      /\ n <= stride /\ R <= URAM_ROWS /\ col0 + n <= URAM_COL_WORDS
      /\ \A r \in 0 .. R - 1, c \in 0 .. n - 1 : base + r * stride + c \in HbmWords
  BY DEF Carries
<1> DEFINE target(r, c) == base + r * stride + c
           cells == (0 .. R - 1) \X (0 .. n - 1)
<1>1. /\ uf_cmd.base = base /\ uf_cmd.stride = stride /\ uf_cmd.start_col = col0
      /\ uf_cmd.rows = R - 1 /\ uf_cmd.cols = n - 1
  BY <1>0 DEF Flush, Low10, Low8
<1>2. UNCHANGED <<uram, wb, dma_word>>
  BY DEF FlushEffect
<1>3. ASSUME NEW r \in 0 .. R - 1, NEW c \in 0 .. n - 1, NEW q \in 0 .. R - 1,
             NEW d \in 0 .. n - 1, target(r, c) = target(q, d)
      PROVE  r = q /\ c = d
  <2>1. /\ r < q => r * stride + stride <= q * stride
        /\ q < r => q * stride + stride <= r * stride
    BY <1>0, ProductStep
  <2>2. r * stride \in Int /\ q * stride \in Int
    BY <1>0
  <2>3. r = q
    BY <1>0, <1>3, <2>1, <2>2
  <2>4. QED
    BY <1>0, <1>3, <2>2, <2>3
<1>4. ASSUME NEW a \in HbmWords
      PROVE  hbm'[a] = IF \E x \in cells : target(x[1], x[2]) = a
                         THEN LET x == CHOOSE x \in cells : target(x[1], x[2]) = a
                                  y == <<x[1], col0 + x[2]>>
                              IN IF y \in UramWords THEN uram[y] ELSE BAD
                         ELSE hbm[a]
  BY <1>1 DEF FlushEffect
<1>5. ASSUME NEW r \in 0 .. R - 1, NEW c \in 0 .. n - 1
      PROVE  /\ target(r, c) \in HbmWords
             /\ hbm'[target(r, c)] = uram[r, col0 + c]
  <2>1. target(r, c) \in HbmWords
    BY <1>0
  <2>2. <<r, c>> \in cells /\ target(<<r, c>>[1], <<r, c>>[2]) = target(r, c)
    OBVIOUS
  <2>3. \E x \in cells : target(x[1], x[2]) = target(r, c)
    BY <2>2
  <2> DEFINE x == CHOOSE x \in cells : target(x[1], x[2]) = target(r, c)
  <2>4. x \in cells /\ target(x[1], x[2]) = target(r, c)
    BY <2>3
  <2>5. x[1] = r /\ x[2] = c
    <3>1. x[1] \in 0 .. R - 1 /\ x[2] \in 0 .. n - 1
      BY <2>4
    <3>2. QED
      BY <1>3, <2>4, <3>1
  <2>6. <<r, col0 + c>> \in UramWords
    BY <1>0, AcceleratorAssumption DEF UramWords
  <2>7. hbm'[target(r, c)] = LET y == <<x[1], col0 + x[2]>>
                             IN IF y \in UramWords THEN uram[y] ELSE BAD
    BY <1>4, <2>1, <2>3
  <2> HIDE DEF x
  <2>8. QED
    BY <2>1, <2>5, <2>6, <2>7
<1>6. ASSUME NEW a \in HbmWords, hbm'[a] # hbm[a]
      PROVE  \E r \in 0 .. R - 1, c \in 0 .. n - 1 :
               a = target(r, c) /\ hbm'[a] = uram[r, col0 + c]
  <2>1. PICK x \in cells : target(x[1], x[2]) = a
    BY <1>4, <1>6
  <2>2. x[1] \in 0 .. R - 1 /\ x[2] \in 0 .. n - 1
    BY <2>1
  <2>3. QED
    BY <1>5, <2>1, <2>2
<1>7. CarriedOut(base, stride, R, n, col0)
  BY <1>5, <1>6 DEF CarriedOut
<1>8. QED
  BY <1>2, <1>7

\* The adapter's flush changes no word it serves.
LEMMA FlushView ==
  ASSUME AdapterFlush, NEW x \in UramWords
  PROVE  Uram(x)' = Uram(x) /\ UNCHANGED <<hbm, dma_word>>
  BY DEF AdapterFlush, Uram

\* The adapter's cut of an element address, for rows of L words of 2^bits elements.
LEMMA CutAddress ==
  ASSUME NEW L \in Nat \ {0}, NEW row0 \in Nat, NEW i \in Nat, NEW d \in 0 .. WE - 1,
         2^nm.col_bits = L * WE
  PROVE  WordOf(row0 * (L * WE) + i * WE + d) = <<row0 + i \div L, i % L>>
<1> DEFINE q == i \div L
           m == i % L
           n == L * WE
<1>0. WE \in Nat \ {0}
  BY DimAssumption
<1>1. i = L * q + m /\ m \in 0 .. L - 1 /\ q \in Nat
  <2>1. i = L * q + m /\ m \in 0 .. L - 1 /\ q \in Int
    OBVIOUS
  <2> HIDE DEF q, m
  <2>2. q >= 0
    <3> SUFFICES ASSUME q <= -1 PROVE FALSE
      BY <2>1
    <3>1. L * (-1 - q) >= 0 /\ L * (-1 - q) = -L - L * q
      BY <2>1
    <3>2. L * q \in Int
      BY <2>1
    <3>3. QED
      BY <2>1, <3>1, <3>2
  <2>3. QED
    BY <2>1, <2>2
<1> HIDE DEF q, m
<1>2. n \in Nat \ {0} /\ m * WE + d \in 0 .. n - 1 /\ m * WE \in Nat
  <2>1. m * WE + WE <= L * WE /\ 0 * WE + WE <= L * WE
    BY <1>0, <1>1, ProductStep
  <2>2. m * WE \in Nat /\ L * WE \in Nat
    BY <1>0, <1>1
  <2>3. QED
    BY <1>0, <2>1, <2>2
<1>3. row0 * n + i * WE + d = (row0 + q) * n + (m * WE + d)
  <2>1. i * WE = q * (L * WE) + m * WE
    <3>1. (L * q + m) * WE = q * (L * WE) + m * WE
      BY <1>0, <1>1
    <3>2. QED
      BY <1>1, <3>1
  <2>2. (row0 + q) * (L * WE) = row0 * (L * WE) + q * (L * WE)
    BY <1>0, <1>1
  <2>3. /\ row0 * (L * WE) \in Int /\ q * (L * WE) \in Int /\ m * WE \in Int /\ i * WE \in Int
        /\ (row0 + q) * (L * WE) \in Int
    BY <1>0, <1>1
  <2>4. QED
    BY <2>1, <2>2, <2>3
<1> HIDE DEF n
<1>4. /\ ((row0 + q) * n + (m * WE + d)) \div n = row0 + q
      /\ ((row0 + q) * n + (m * WE + d)) % n = m * WE + d
  <2>1. row0 + q \in Nat
    BY <1>1
  <2>2. QED
    BY <1>2, <2>1, DivideBack
<1>5. (m * WE + d) \div WE = m
  BY <1>0, <1>1, DivideBack
<1>6. 2^nm.col_bits = n
  BY DEF n
<1>7. WordOf(row0 * n + i * WE + d) = <<row0 + q, m>>
  BY <1>3, <1>4, <1>5, <1>6 DEF WordOf
<1>8. QED
  BY <1>7 DEF n, q, m

\* Word i of what a unit reads and writes when it starts at row row0.
Cell(row0, L, i) == <<row0 + i \div L, i % L>>

\* Different words of a unit's row are different cells of the URAM.
LEMMA CellApart ==
  ASSUME NEW L \in Nat \ {0}, NEW row0 \in Nat, NEW i \in Nat, NEW k \in Nat,
         Cell(row0, L, i) = Cell(row0, L, k)
  PROVE  i = k
<1>1. i \div L = k \div L /\ i % L = k % L
  <2>1. /\ row0 + i \div L = row0 + k \div L /\ i % L = k % L
    BY DEF Cell
  <2>2. i \div L \in Int /\ k \div L \in Int
    OBVIOUS
  <2>3. QED
    BY <2>1, <2>2
<1> DEFINE q == i \div L
           m == i % L
<1>2. i = L * q + m /\ k = L * (k \div L) + (k % L)
  OBVIOUS
<1>3. k \div L = q /\ k % L = m
  BY <1>1
<1> HIDE DEF q, m
<1>4. QED
  BY <1>2, <1>3

\* A unit replaces the words of its rows by its outputs, and the adapter serves the rest
\* as before.
LEMMA UnitView ==
  ASSUME NoneApart, NEW u, UnitEffect(u),
         NEW L \in Nat \ {0}, NEW row0 \in Nat, NEW N \in Nat \ {0},
         2^nm.col_bits = L * WE, Offset(u) = row0 * (L * WE), nm.dim = N * WE,
         \A i \in 0 .. N - 1 : Cell(row0, L, i) \in UramWords
  PROVE  /\ UNCHANGED hbm /\ UnitWords = N
         /\ \A i \in 0 .. N - 1 : In(u)[i] = Uram(Cell(row0, L, i))
         /\ \A i \in 0 .. N - 1 : Uram(Cell(row0, L, i))' = Output(u, i)
         /\ \A x \in UramWords :
              (\A i \in 0 .. N - 1 : x # Cell(row0, L, i)) => Uram(x)' = Uram(x)
         /\ dma_word' = dma_word \/ (dma_word' # NONE /\ dma_word'.tag = N - 1)
<1>0. WE \in Nat \ {0}
  BY DimAssumption
<1>1. UnitWords = N
  <2>1. (N * WE + 0) \div WE = N
    BY <1>0, DivideBack
  <2>2. QED
    BY <1>0, <2>1 DEF UnitWords
<1>2. ASSUME NEW i \in Nat, NEW d \in 0 .. WE - 1
      PROVE  WordOf(Offset(u) + i * WE + d) = Cell(row0, L, i)
  BY CutAddress DEF Cell
<1>3. ASSUME NEW i \in Nat
      PROVE  WordOf(Offset(u) + i * WE) = Cell(row0, L, i)
  <2>1. Offset(u) + i * WE + 0 = Offset(u) + i * WE
    BY <1>0
  <2>2. WordOf(Offset(u) + i * WE + 0) = Cell(row0, L, i)
    BY <1>0, <1>2
  <2>3. QED
    BY <2>1, <2>2
<1>4. \A i \in 0 .. N - 1 : In(u)[i] = Uram(Cell(row0, L, i))
  BY <1>1, <1>3 DEF In
<1>5. Aligned(u)
  <2>1. row0 * (L * WE) = (row0 * L) * WE + 0 /\ N * WE = N * WE + 0 /\ row0 * L \in Nat
    BY <1>0
  <2>2. ((row0 * L) * WE + 0) % WE = 0 /\ (N * WE + 0) % WE = 0
    <3> DEFINE y == row0 * L
    <3>1. y \in Nat /\ 0 \in 0 .. WE - 1
      BY <1>0
    <3> HIDE DEF y
    <3>2. (y * WE + 0) % WE = 0 /\ (N * WE + 0) % WE = 0
      BY <1>0, <3>1, DivideBack
    <3>3. QED
      BY <3>2 DEF y
  <2>3. QED
    BY <2>1, <2>2 DEF Aligned
<1> DEFINE D == {WordOf(Offset(u) + e) : e \in 0 .. nm.dim - 1}
           cells == {Cell(row0, L, i) : i \in 0 .. N - 1}
<1>6. D = cells
  <2>1. ASSUME NEW e \in 0 .. nm.dim - 1
        PROVE  \E i \in 0 .. N - 1 : WordOf(Offset(u) + e) = Cell(row0, L, i)
    <3> DEFINE i == e \div WE
               d == e % WE
    <3>1. e = WE * i + d /\ d \in 0 .. WE - 1 /\ i \in Int /\ e \in 0 .. N * WE - 1
      BY <1>0
    <3> HIDE DEF i, d
    <3>2. i \in 0 .. N - 1
      <4>1. i >= 0
        <5> SUFFICES ASSUME i <= -1 PROVE FALSE
          BY <3>1
        <5>1. WE * (-1 - i) >= 0 /\ WE * (-1 - i) = -WE - WE * i /\ WE * i \in Int
          BY <1>0, <3>1
        <5>2. QED
          BY <1>0, <3>1, <5>1
      <4>2. i <= N - 1
        <5> SUFFICES ASSUME N <= i PROVE FALSE
          BY <3>1
        <5>1. WE * (i - N) >= 0 /\ WE * (i - N) = WE * i - N * WE /\ WE * i \in Int
              /\ N * WE \in Int
          BY <1>0, <3>1
        <5>2. QED
          BY <1>0, <3>1, <5>1
      <4>3. QED
        BY <3>1, <4>1, <4>2
    <3>3. Offset(u) + i * WE + d = Offset(u) + e
      <4>1. i * WE = WE * i /\ WE * i \in Int /\ Offset(u) \in Int
        BY <1>0, <3>1
      <4>2. QED
        BY <3>1, <4>1
    <3>4. WordOf(Offset(u) + i * WE + d) = Cell(row0, L, i)
      BY <1>2, <3>1, <3>2
    <3>5. QED
      BY <3>2, <3>3, <3>4
  <2>2. ASSUME NEW i \in 0 .. N - 1
        PROVE  i * WE \in 0 .. nm.dim - 1 /\ WordOf(Offset(u) + i * WE) = Cell(row0, L, i)
    <3>1. i * WE + WE <= N * WE /\ i * WE \in Nat /\ N * WE \in Nat
      BY <1>0, ProductStep
    <3>2. QED
      BY <1>0, <1>3, <3>1
  <2>3. D \subseteq cells
    BY <2>1
  <2>4. cells \subseteq D
    BY <2>2
  <2>5. QED
    BY <2>3, <2>4
<1>7. ASSUME NEW i \in 0 .. N - 1
      PROVE  (CHOOSE k \in 0 .. UnitWords - 1 :
                WordOf(Offset(u) + k * WE) = Cell(row0, L, i)) = i
  <2>1. \A k \in 0 .. N - 1 : WordOf(Offset(u) + k * WE) = Cell(row0, L, i) => k = i
    BY <1>3, CellApart
  <2>2. WordOf(Offset(u) + i * WE) = Cell(row0, L, i)
    BY <1>3
  <2>3. QED
    BY <1>1, <2>1, <2>2
<1> DEFINE out == [x \in D |->
                     IF Aligned(u)
                       THEN Output(u, CHOOSE i \in 0 .. UnitWords - 1 :
                                        WordOf(Offset(u) + i * WE) = x)
                       ELSE BAD]
           last == WordOf(Offset(u) + nm.dim - 1)
<1>8. \A i \in 0 .. N - 1 : Cell(row0, L, i) \in D /\ out[Cell(row0, L, i)] = Output(u, i)
  BY <1>5, <1>6, <1>7
<1>9. last \in D
  <2>1. nm.dim - 1 \in 0 .. nm.dim - 1 /\ Offset(u) \in Int
    <3>1. N * WE + 0 > 0 /\ N * WE \in Int /\ row0 * (L * WE) \in Int
      BY <1>0
    <3>2. QED
      BY <3>1
  <2>2. Offset(u) + nm.dim - 1 = Offset(u) + (nm.dim - 1)
    BY <2>1
  <2>3. QED
    BY <2>1, <2>2
<1>10. /\ uram' = [x \in UramWords |->
                    IF x \in DOMAIN out \ {last} THEN out[x] ELSE Uram(x)]
       /\ wb' = [at |-> last, word |-> out[last]]
       /\ dma_word' = IF u \in {"ln", "res"}
                        THEN [tag |-> UnitWords - 1, word |-> DmaRead(UnitWords - 1)]
                        ELSE dma_word
       /\ UNCHANGED hbm
  BY DEF UnitEffect
<1>11. DOMAIN out = D
  OBVIOUS
<1> HIDE DEF out, last, D
<1>12. wb' # NONE /\ wb'.at = last /\ wb'.word = out[last]
  BY <1>10 DEF NoneApart
<1>13. ASSUME NEW x \in UramWords
       PROVE  Uram(x)' = IF x \in D THEN out[x] ELSE Uram(x)
  <2>1. uram'[x] = IF x \in D \ {last} THEN out[x] ELSE Uram(x)
    BY <1>10, <1>11
  <2>2. Uram(x)' = IF last = x THEN out[last] ELSE uram'[x]
    BY <1>12 DEF Uram
  <2>3. QED
    BY <1>9, <2>1, <2>2
<1>14. \A i \in 0 .. N - 1 : Uram(Cell(row0, L, i))' = Output(u, i)
  BY <1>8, <1>13
<1>15. \A x \in UramWords :
         (\A i \in 0 .. N - 1 : x # Cell(row0, L, i)) => Uram(x)' = Uram(x)
  BY <1>6, <1>13
<1>16. dma_word' = dma_word \/ (dma_word' # NONE /\ dma_word'.tag = N - 1)
  BY <1>1, <1>10 DEF NoneApart
<1>17. QED
  BY <1>1, <1>4, <1>10, <1>14, <1>15, <1>16

-----------------------------------------------------------------------------
(* Where the matrices are.                                                 *)

\* A matrix of at most TILE rows stays within TILE strides.
LEMMA RowFits ==
  ASSUME NEW stride \in Nat, NEW r \in 0 .. TILE - 1, NEW c \in 0 .. stride - 1
  PROVE  r * stride \in Nat /\ r * stride + c \in 0 .. TILE * stride - 1
<1>1. TILE \in Nat
  BY AcceleratorAssumption
<1>2. r * stride + stride <= TILE * stride /\ r * stride \in Nat /\ TILE * stride \in Nat
  BY <1>1, ProductStep
<1>3. QED
  BY <1>2

\* A flat address has one row and one column.
LEMMA RowApart ==
  ASSUME NEW stride \in Nat, NEW r \in Nat, NEW q \in Nat,
         NEW c \in 0 .. stride - 1, NEW d \in 0 .. stride - 1,
         r * stride + c = q * stride + d
  PROVE  r = q /\ c = d
<1>1. /\ r < q => r * stride + stride <= q * stride
      /\ q < r => q * stride + stride <= r * stride
  BY ProductStep
<1>2. r * stride \in Nat /\ q * stride \in Nat
  OBVIOUS
<1>3. r = q
  BY <1>1, <1>2
<1>4. QED
  BY <1>2, <1>3

Base(k) == act_base + k * ACT_SLAB

\* The matrices lie in their slabs, and the slabs in the activation region.
LEMMA ActPlaces ==
  ASSUME SizesFit
  PROVE  /\ ACT_SLAB \in Nat \ {0} /\ act_base \in Nat
         /\ \A a \in act_base .. Base(6) - 1 : a \in HbmWords
         /\ \A k \in {0, 1, 5}, r \in 0 .. TILE - 1, c \in Cols :
              /\ ActAt(k, r, c) \in Base(k) .. Base(k) + ACT_SLAB - 1
              /\ ActAt(k, r, c) \in act_base .. Base(6) - 1
         /\ \A r \in 0 .. TILE - 1, c \in 0 .. KEY_WORDS - 1 :
              /\ ProbAt(r, c) \in Base(4) .. Base(5) - 1
              /\ ProbAt(r, c) \in act_base .. Base(6) - 1
         /\ \A r \in 0 .. TILE - 1, c \in 0 .. F_STRIDE - 1 :
              /\ FfnAt(r, c) \in Base(1) .. Base(5) - 1
              /\ FfnAt(r, c) \in act_base .. Base(6) - 1
              /\ F_STRIDE <= 3 * MODEL_STRIDE => FfnAt(r, c) < Base(4)
<1>1. /\ ACT_SLAB \in Nat \ {0} /\ act_base \in Nat /\ MODEL_STRIDE \in Nat \ {0}
      /\ ACT_SLAB = TILE * MODEL_STRIDE /\ TILE \in Nat \ {0}
      /\ Cols = 0 .. MODEL_STRIDE - 1 /\ F_STRIDE \in Nat \ {0}
      /\ KEY_WORDS \in Nat \ {0} /\ KEY_WORDS <= MODEL_STRIDE
  <2>1. KEY_WORDS = HEAD_WORDS /\ MODEL_STRIDE = NUM_HEADS * HEAD_WORDS
        /\ HEAD_WORDS \in Nat \ {0} /\ NUM_HEADS \in Nat \ {0} /\ TILE \in Nat \ {0}
        /\ F_STRIDE \in Nat \ {0}
    BY SizeFacts
  <2>2. 0 * HEAD_WORDS + HEAD_WORDS <= NUM_HEADS * HEAD_WORDS
    BY <2>1, ProductStep
  <2>3. QED
    BY SMT, <2>1, <2>2, CacheSizes, DimAssumption DEF SizesFit, Cols
<1>2. \A a \in act_base .. Base(6) - 1 : a \in HbmWords
  BY <1>1 DEF HbmWords, Base
<1>3. ASSUME NEW k \in {0, 1, 5}, NEW r \in 0 .. TILE - 1, NEW c \in Cols
      PROVE  /\ ActAt(k, r, c) \in Base(k) .. Base(k) + ACT_SLAB - 1
             /\ ActAt(k, r, c) \in act_base .. Base(6) - 1
  <2>1. r * MODEL_STRIDE + c \in 0 .. ACT_SLAB - 1 /\ r * MODEL_STRIDE \in Nat
    BY <1>1, RowFits
  <2>2. k * ACT_SLAB \in Nat /\ k * ACT_SLAB + ACT_SLAB <= 6 * ACT_SLAB
    BY <1>1
  <2>3. QED
    BY <1>1, <2>1, <2>2 DEF ActAt, Base
<1>4. ASSUME NEW r \in 0 .. TILE - 1, NEW c \in 0 .. KEY_WORDS - 1
      PROVE  /\ ProbAt(r, c) \in Base(4) .. Base(5) - 1
             /\ ProbAt(r, c) \in act_base .. Base(6) - 1
  <2>1. r * KEY_WORDS + c \in 0 .. TILE * KEY_WORDS - 1 /\ r * KEY_WORDS \in Nat
    BY <1>1, RowFits
  <2>2. TILE * KEY_WORDS <= ACT_SLAB
    <3>1. TILE * (MODEL_STRIDE - KEY_WORDS) >= 0
          /\ TILE * (MODEL_STRIDE - KEY_WORDS) = TILE * MODEL_STRIDE - TILE * KEY_WORDS
          /\ TILE * KEY_WORDS \in Int
      BY <1>1
    <3>2. QED
      BY <1>1, <3>1
  <2>3. r * KEY_WORDS + c \in 0 .. ACT_SLAB - 1
    BY <1>1, <2>1, <2>2
  <2>4. QED
    BY <1>1, <2>1, <2>3 DEF ProbAt, Base
<1>5. ASSUME NEW r \in 0 .. TILE - 1, NEW c \in 0 .. F_STRIDE - 1
      PROVE  /\ FfnAt(r, c) \in Base(1) .. Base(5) - 1
             /\ FfnAt(r, c) \in act_base .. Base(6) - 1
             /\ F_STRIDE <= 3 * MODEL_STRIDE => FfnAt(r, c) < Base(4)
  <2>1. r * F_STRIDE + c \in 0 .. TILE * F_STRIDE - 1 /\ r * F_STRIDE \in Nat
    BY <1>1, RowFits
  <2>2. ASSUME NEW m \in {3, 4}, F_STRIDE <= m * MODEL_STRIDE
        PROVE  TILE * F_STRIDE <= m * ACT_SLAB
    <3>1. TILE * (m * MODEL_STRIDE - F_STRIDE) >= 0
          /\ TILE * (m * MODEL_STRIDE - F_STRIDE)
               = m * (TILE * MODEL_STRIDE) - TILE * F_STRIDE
          /\ TILE * F_STRIDE \in Int
      BY <1>1, <2>2
    <3>2. QED
      BY <1>1, <3>1
  <2>3. TILE * F_STRIDE <= 4 * ACT_SLAB
        /\ (F_STRIDE <= 3 * MODEL_STRIDE => TILE * F_STRIDE <= 3 * ACT_SLAB)
        /\ TILE * F_STRIDE \in Int
    BY SMT, <1>1, <2>2 DEF SizesFit
  <2>4. QED
    BY <1>1, <2>1, <2>3 DEF FfnAt, Base
<1>6. QED
  BY <1>1, <1>2, <1>3, <1>4, <1>5

\* The words of the cache, apart from each other and from the activations.
LEMMA CacheAt ==
  ASSUME Fits, NEW l \in 0 .. NUM_LAYERS - 1, NEW part \in {0, 1},
         NEW p \in 0 .. TILE - 1, NEW c \in Cols
  PROVE  /\ CacheWord(l, part, p, c) \in HbmWords
         /\ CacheWord(l, part, p, c) \notin act_base .. Base(6) - 1
<1>1. MAX_SEQ_LEN = TILE
  BY SMT DEF Fits, SizesFit
<1>2. CacheWord(l, part, p, c) \in kv_base .. kv_base + NUM_LAYERS * KV_LAYER_SIZE - 1
  BY <1>1, CachePlaces
<1>4. CacheWord(l, part, p, c) \in HbmWords
  BY <1>2 DEF HbmWords
<1>5. CacheWord(l, part, p, c) \notin act_base .. act_base + 6 * ACT_SLAB - 1
  <2> DEFINE w == CacheWord(l, part, p, c)
             kv == kv_base .. kv_base + NUM_LAYERS * KV_LAYER_SIZE - 1
             act == act_base .. act_base + 6 * ACT_SLAB - 1
  <2>1. w \in kv
    BY <1>2
  <2>2. act \cap kv = {}
    BY DEF Fits, RegionsApart
  <2> HIDE DEF w, kv, act
  <2>3. w \notin act
    BY <2>1, <2>2
  <2>4. QED
    BY <2>3 DEF w, act
<1>6. ACT_SLAB \in Nat /\ act_base \in Nat
  BY CacheSizes, DimAssumption
<1>7. CacheWord(l, part, p, c) \notin act_base .. Base(6) - 1
  BY <1>5, <1>6 DEF Base
<1>8. QED
  BY <1>4, <1>7

\* Every word of the cache has one layer, part, position and column.
LEMMA CacheDistinct ==
  ASSUME Fits, NEW l \in 0 .. NUM_LAYERS - 1, NEW part \in {0, 1},
         NEW p \in 0 .. TILE - 1, NEW c \in Cols,
         NEW m \in 0 .. NUM_LAYERS - 1, NEW side \in {0, 1},
         NEW q \in 0 .. TILE - 1, NEW d \in Cols,
         CacheWord(m, side, q, d) = CacheWord(l, part, p, c)
  PROVE  m = l /\ side = part /\ q = p /\ d = c
<1>0. /\ MAX_SEQ_LEN = TILE /\ NUM_LAYERS \in Nat /\ kv_base \in Nat
      /\ Cols = 0 .. MODEL_STRIDE - 1 /\ TILE \in Nat
  BY SMT, DimAssumption, AcceleratorAssumption DEF Fits, SizesFit, NUM_LAYERS, Cols
<1> DEFINE M == m * KV_LAYER_SIZE
           L == l * KV_LAYER_SIZE
           Q == q * MODEL_STRIDE + d
           P == p * MODEL_STRIDE + c
<1>1. /\ m < l => M + KV_LAYER_SIZE <= L
      /\ l < m => L + KV_LAYER_SIZE <= M
      /\ m = l => M = L
      /\ M \in Nat /\ L \in Nat
  BY <1>0, CacheSizes, ProductStep
<1>2. Q \in 0 .. ACT_SLAB - 1 /\ P \in 0 .. ACT_SLAB - 1
  BY <1>0, CacheSizes, RowFits
<1>3. /\ CacheWord(m, side, q, d) = kv_base + M + side * ACT_SLAB + Q
      /\ CacheWord(l, part, p, c) = kv_base + L + part * ACT_SLAB + P
  BY <1>0, CacheSizes DEF CacheWord
<1>4. /\ side * ACT_SLAB = (IF side = 0 THEN 0 ELSE ACT_SLAB)
      /\ part * ACT_SLAB = (IF part = 0 THEN 0 ELSE ACT_SLAB)
  BY CacheSizes
<1>5. /\ KV_LAYER_SIZE = 2 * ACT_SLAB /\ ACT_SLAB \in Nat \ {0}
      /\ m \in Int /\ l \in Int
  BY <1>0, CacheSizes
<1> DEFINE S == side * ACT_SLAB
           T == part * ACT_SLAB
<1>6. /\ kv_base + M + S + Q = kv_base + L + T + P
      /\ S = (IF side = 0 THEN 0 ELSE ACT_SLAB) /\ T = (IF part = 0 THEN 0 ELSE ACT_SLAB)
      /\ S \in {0, ACT_SLAB} /\ T \in {0, ACT_SLAB}
  BY <1>3, <1>4
<1> HIDE DEF M, L, Q, P, S, T
<1>7. M + S + Q = L + T + P /\ S \in Nat /\ T \in Nat /\ Q \in Nat /\ P \in Nat
      /\ kv_base \in Nat /\ ACT_SLAB \in Nat /\ ACT_SLAB > 0
      /\ Q < ACT_SLAB /\ P < ACT_SLAB
  BY <1>0, <1>1, <1>2, <1>5, <1>6
<1>8. m = l
  <2>1. S <= ACT_SLAB /\ T <= ACT_SLAB
    BY <1>6, <1>7
  <2>2. ~(M + 2 * ACT_SLAB <= L) /\ ~(L + 2 * ACT_SLAB <= M)
    BY <2>1, <1>1, <1>7
  <2>3. ~(m < l) /\ ~(l < m)
    BY <2>2, <1>1, <1>5
  <2>4. QED
    BY <2>3, <1>5
<1>10. S + Q = T + P
  BY <1>8, <1>1, <1>7
<1>11. S = T
  BY <1>6, <1>7, <1>10
<1>12. side = part
  BY <1>6, <1>7, <1>11
<1>13. Q = P
  BY <1>7, <1>10, <1>11
<1>9. q = p /\ d = c
  BY <1>0, <1>13, CacheSizes, RowApart DEF Q, P
<1>14. QED
  BY <1>8, <1>9, <1>12

-----------------------------------------------------------------------------
(* What a step leaves of the matrices in the HBM.                          *)

\* The values of the tokens do not change while a job runs.
LEMMA SameVal ==
  ASSUME tokens' = tokens, NEW j, NEW kind, NEW l, NEW r, NEW c
  PROVE  Val(j, kind, l, r, c)' = Val(j, kind, l, r, c)
  BY DEF Val, V, RowPos, Prefix

\* The slabs from k to n - 1 keep their words.
Spared(k, n) == \A a \in Base(k) .. Base(n) - 1 : hbm'[a] = hbm[a]

\* A row of a matrix is within its slab.
LEMMA SlabPlaces ==
  ASSUME SizesFit, NEW r \in 0 .. TILE - 1, NEW c \in Cols
  PROVE  /\ ActAt(0, r, c) \in Base(0) .. Base(1) - 1
         /\ ActAt(1, r, c) \in Base(1) .. Base(2) - 1
         /\ ActAt(5, r, c) \in Base(5) .. Base(6) - 1
<1>1. ACT_SLAB \in Nat /\ act_base \in Nat
  BY ActPlaces
<1>2. ASSUME NEW k \in {0, 1, 5} PROVE ActAt(k, r, c) \in Base(k) .. Base(k + 1) - 1
  <2>1. ActAt(k, r, c) \in Base(k) .. Base(k) + ACT_SLAB - 1
    BY ActPlaces
  <2>2. Base(k + 1) = Base(k) + ACT_SLAB /\ Base(k) \in Int
    BY <1>1 DEF Base
  <2>3. QED
    BY <1>1, <2>1, <2>2
<1>3. Base(0 + 1) = Base(1) /\ Base(1 + 1) = Base(2) /\ Base(5 + 1) = Base(6)
  BY DEF Base
<1>4. QED
  BY <1>2, <1>3

\* Place t promises of each matrix no more than place s.
SameEmbed(s, t) == (s.step <= 6 <=> t.step <= 6) /\ (s.step <= 14 <=> t.step <= 14)
SameTemp(s, t) == t.step >= 2 => s.step >= 2 /\ (s.step <= 8 <=> t.step <= 8)
SameQueries(s, t) == QueriesThere(t) => QueriesThere(s) /\ HeadsDone(s) = HeadsDone(t)
SameProbs(s, t) == ProbsThere(t) => ProbsThere(s) /\ ProbHead(s) = ProbHead(t)
SameFfn(s, t) == t.step >= 12 => s.step >= 12
SameCache(s, t) == \A part \in {0, 1} : PastFlush(t, part) => PastFlush(s, part)

\* Each matrix stays what it is while its slab is spared: the residual stream,
LEMMA EmbedKept ==
  ASSUME SizesFit, tokens' = tokens, NEW j, RowsOf(j) \in 1 .. TILE, NEW l, NEW s, NEW t,
         EmbedHolds(j, l, s), Spared(0, 1), SameEmbed(s, t)
  PROVE  EmbedHolds(j, l, t)'
<1> SUFFICES ASSUME NEW r \in 0 .. RowsOf(j) - 1, NEW c \in Cols
             PROVE  hbm'[ActAt(0, r, c)] = (IF t.step <= 6 THEN Val(j, "x", l, r, c)
                                            ELSE IF t.step <= 14 THEN Val(j, "mid", l, r, c)
                                            ELSE Val(j, "x", l + 1, r, c))'
  BY DEF EmbedHolds, RowsOf, Cols, ActAt
<1>1. hbm'[ActAt(0, r, c)] = hbm[ActAt(0, r, c)]
  <2>1. r \in 0 .. TILE - 1
    BY AcceleratorAssumption
  <2>2. QED
    BY <2>1, SlabPlaces DEF Spared
<1>2. hbm[ActAt(0, r, c)] = IF s.step <= 6 THEN Val(j, "x", l, r, c)
                            ELSE IF s.step <= 14 THEN Val(j, "mid", l, r, c)
                            ELSE Val(j, "x", l + 1, r, c)
  BY DEF EmbedHolds
<1>3. QED
  BY <1>1, <1>2, SameVal DEF SameEmbed

\* the rows a norm wrote,
LEMMA TempKept ==
  ASSUME SizesFit, tokens' = tokens, NEW j, RowsOf(j) \in 1 .. TILE, NEW l, NEW s, NEW t,
         TempHolds(j, l, s), Spared(5, 6), SameTemp(s, t)
  PROVE  TempHolds(j, l, t)'
<1> SUFFICES ASSUME t.step >= 2, NEW r \in 0 .. RowsOf(j) - 1, NEW c \in Cols
             PROVE  hbm'[ActAt(5, r, c)]
                      = Val(j, IF t.step <= 8 THEN "ln1" ELSE "ln2", l, r, c)'
  BY DEF TempHolds, RowsOf, Cols, ActAt
<1>1. hbm'[ActAt(5, r, c)] = hbm[ActAt(5, r, c)]
  <2>1. r \in 0 .. TILE - 1
    BY AcceleratorAssumption
  <2>2. QED
    BY <2>1, SlabPlaces DEF Spared
<1>2. hbm[ActAt(5, r, c)] = Val(j, IF s.step <= 8 THEN "ln1" ELSE "ln2", l, r, c)
  BY DEF TempHolds, SameTemp
<1>3. QED
  BY <1>1, <1>2, SameVal DEF SameTemp

\* the queries and the heads' outputs,
LEMMA QueriesKept ==
  ASSUME SizesFit, tokens' = tokens, NEW j, RowsOf(j) \in 1 .. TILE, NEW l, NEW s, NEW t,
         QueriesHold(j, l, s), Spared(1, 2), SameQueries(s, t)
  PROVE  QueriesHold(j, l, t)'
<1> SUFFICES ASSUME QueriesThere(t), NEW r \in 0 .. RowsOf(j) - 1, NEW c \in Cols
             PROVE  hbm'[ActAt(1, r, c)]
                      = Val(j, IF c < HeadsDone(t) * HEAD_WORDS THEN "att" ELSE "q", l, r, c)'
  BY DEF QueriesHold, RowsOf, Cols, ActAt, QueriesThere, HeadsDone
<1>1. hbm'[ActAt(1, r, c)] = hbm[ActAt(1, r, c)]
  <2>1. r \in 0 .. TILE - 1
    BY AcceleratorAssumption
  <2>2. QED
    BY <2>1, SlabPlaces DEF Spared
<1>2. hbm[ActAt(1, r, c)]
        = Val(j, IF c < HeadsDone(s) * HEAD_WORDS THEN "att" ELSE "q", l, r, c)
  BY DEF QueriesHold, SameQueries
<1>3. QED
  BY <1>1, <1>2, SameVal DEF SameQueries

\* the probabilities,
LEMMA ProbsKept ==
  ASSUME SizesFit, tokens' = tokens, NEW j, RowsOf(j) \in 1 .. TILE, NEW l, NEW s, NEW t,
         ProbsHold(j, l, s), Spared(4, 5), SameProbs(s, t)
  PROVE  ProbsHold(j, l, t)'
<1> SUFFICES ASSUME ProbsThere(t), NEW r \in 0 .. RowsOf(j) - 1, NEW c \in 0 .. KEY_WORDS - 1
             PROVE  hbm'[ProbAt(r, c)]
                      = Val(j, "prob", l, r, ProbHead(t) * KEY_WORDS + c)'
  BY DEF ProbsHold, RowsOf, ProbAt, ProbsThere, ProbHead
<1>1. hbm'[ProbAt(r, c)] = hbm[ProbAt(r, c)]
  <2>1. r \in 0 .. TILE - 1
    BY AcceleratorAssumption
  <2>2. QED
    BY <2>1, ActPlaces DEF Spared
<1>2. hbm[ProbAt(r, c)] = Val(j, "prob", l, r, ProbHead(s) * KEY_WORDS + c)
  BY DEF ProbsHold, SameProbs
<1>3. QED
  BY <1>1, <1>2, SameVal DEF SameProbs

\* the feed-forward rows,
LEMMA FfnKept ==
  ASSUME SizesFit, tokens' = tokens, NEW j, RowsOf(j) \in 1 .. TILE, NEW l, NEW s, NEW t,
         FfnHolds(j, l, s), SameFfn(s, t), t.step >= 12 => Spared(1, 5)
  PROVE  FfnHolds(j, l, t)'
<1> SUFFICES ASSUME t.step >= 12, NEW r \in 0 .. RowsOf(j) - 1, NEW c \in 0 .. F_STRIDE - 1
             PROVE  hbm'[FfnAt(r, c)] = Val(j, "relu", l, r, c)'
  BY DEF FfnHolds, RowsOf, FfnAt
<1>1. hbm'[FfnAt(r, c)] = hbm[FfnAt(r, c)]
  <2>1. r \in 0 .. TILE - 1
    BY AcceleratorAssumption
  <2>2. QED
    BY <2>1, ActPlaces DEF Spared
<1>2. hbm[FfnAt(r, c)] = Val(j, "relu", l, r, c)
  BY DEF FfnHolds, SameFfn
<1>3. QED
  BY <1>1, <1>2, SameVal

\* A row of the cache that no word of which is written.
LEMMA CacheRowKept ==
  ASSUME tokens' = tokens, NEW m, NEW part, NEW p, CacheRow(m, part, p),
         \A c \in Cols : hbm'[CacheWord(m, part, p, c)] = hbm[CacheWord(m, part, p, c)]
  PROVE  CacheRow(m, part, p)'
  BY DEF CacheRow, Cols, CacheWord, V, Prefix

\* and the keys and values.
LEMMA CacheKept ==
  ASSUME tokens' = tokens, NEW j, NEW l, NEW s, NEW t, CacheHolds(j, l, s), SameCache(s, t),
         \A m \in 0 .. NUM_LAYERS - 1, part \in {0, 1}, p \in 0 .. TILE - 1, c \in Cols :
           hbm'[CacheWord(m, part, p, c)] = hbm[CacheWord(m, part, p, c)]
  PROVE  CacheHolds(j, l, t)'
<1> SUFFICES ASSUME NEW m \in 0 .. NUM_LAYERS - 1, NEW part \in {0, 1},
                    NEW p \in 0 .. TILE - 1, Cached(j, l, t, m, part, p)
             PROVE  CacheRow(m, part, p)'
  BY DEF CacheHolds, Cached, PastFlush
<1>1. Cached(j, l, s, m, part, p)
  BY DEF Cached, SameCache
<1>2. QED
  BY <1>1, CacheRowKept DEF CacheHolds

\* Every matrix of the HBM that place t promises was there at place s.
SameHbm(s, t) == /\ SameEmbed(s, t) /\ SameTemp(s, t) /\ SameQueries(s, t)
                 /\ SameProbs(s, t) /\ SameFfn(s, t) /\ SameCache(s, t)

\* Together: a step that leaves the HBM alone.
LEMMA HbmKept ==
  ASSUME Fits, UNCHANGED <<hbm, tokens>>, NEW j, RowsOf(j) \in 1 .. TILE,
         NEW l, NEW s, NEW t, HbmHolds(j, l, s), SameHbm(s, t)
  PROVE  HbmHolds(j, l, t)'
<1>1. SizesFit /\ tokens' = tokens /\ hbm' = hbm
  BY DEF Fits
<1>2. Spared(0, 1) /\ Spared(1, 2) /\ Spared(4, 5) /\ Spared(5, 6) /\ Spared(1, 5)
  BY <1>1 DEF Spared
<1>3. EmbedHolds(j, l, t)' /\ TempHolds(j, l, t)' /\ QueriesHold(j, l, t)'
  BY <1>1, <1>2, EmbedKept, TempKept, QueriesKept DEF HbmHolds, SameHbm
<1>4. ProbsHold(j, l, t)' /\ FfnHolds(j, l, t)'
  BY <1>1, <1>2, ProbsKept, FfnKept DEF HbmHolds, SameHbm
<1>5. CacheHolds(j, l, t)'
  BY <1>1, CacheKept DEF HbmHolds, SameHbm
<1>6. QED
  BY <1>3, <1>4, <1>5 DEF HbmHolds

\* What the adapter serves of the rows that neither the adapter nor the URAM changes.
LEMMA HoldingKept ==
  ASSUME UNCHANGED <<uram, wb, tokens>>, NEW j, NEW kind, NEW l, NEW from, NEW to,
         NEW col0, NEW n, NEW head
  PROVE  /\ Holding(j, kind, l, from, to, col0, n)' <=> Holding(j, kind, l, from, to, col0, n)
         /\ HeadRows(j, kind, l, from, to, head)' <=> HeadRows(j, kind, l, from, to, head)
         /\ Whole(j, kind, l, from, to)' <=> Whole(j, kind, l, from, to)
<1>1. \A x : Uram(x)' = Uram(x)
  BY DEF Uram
<1>2. \A r, c : Val(j, kind, l, r, c)' = Val(j, kind, l, r, c)
  BY SameVal
<1>3. ASSUME NEW d0, NEW k
      PROVE  Holding(j, kind, l, from, to, d0, k)' <=> Holding(j, kind, l, from, to, d0, k)
  BY <1>1, <1>2 DEF Holding
<1>4. HeadRows(j, kind, l, from, to, head)' <=> HeadRows(j, kind, l, from, to, head)
  BY <1>1, <1>2 DEF HeadRows, KEY_WORDS
<1>5. Whole(j, kind, l, from, to)' <=> Whole(j, kind, l, from, to)
  BY <1>3 DEF Whole, MODEL_STRIDE
<1>6. QED
  BY <1>3, <1>4, <1>5

\* A step that leaves the URAM and the adapter alone.
LEMMA UramKept ==
  ASSUME UNCHANGED <<uram, wb, tokens>>, NEW j, NEW l, NEW s, UramHolds(j, l, s)
  PROVE  UramHolds(j, l, s)'
<1>1. \A kind, k, from, to : Whole(j, kind, k, from, to) => Whole(j, kind, k, from, to)'
  BY HoldingKept
<1>2. \A kind, k, from, to, h :
        HeadRows(j, kind, k, from, to, h) => HeadRows(j, kind, k, from, to, h)'
  BY HoldingKept
<1>3. \A kind, k, from, to, d, n :
        Holding(j, kind, k, from, to, d, n) => Holding(j, kind, k, from, to, d, n)'
  BY HoldingKept
<1>4. UramHolds(j, l, s)'
  BY <1>1, <1>2, <1>3 DEF UramHolds, RowsOf
<1>5. QED
  BY <1>4

\* An empty range of rows holds what one likes.
LEMMA NoRows ==
  ASSUME NEW j, NEW kind, NEW l, NEW from \in Int, NEW to \in Int, to <= from, NEW head
  PROVE  Whole(j, kind, l, from, to) /\ HeadRows(j, kind, l, from, to, head)
  BY DEF Whole, Holding, HeadRows

\* Neighbouring places promise the same of the URAM.
LEMMA SamePlaceUram ==
  ASSUME NEW j, RowsOf(j) \in 1 .. TILE, RowsOf(req) = RowsOf(j), NEW l, NEW s, NEW t,
         SamePlace(s, t), UramHolds(j, l, s)
  PROVE  UramHolds(j, l, t)
<1>1. CASE s = t
  BY <1>1
<1>2. CASE s = At(0, 0, 0, RowsOf(req)) /\ t = At(1, 0, 0, 0)
  BY <1>2 DEF UramHolds, At
<1>3. CASE s = At(7, 0, 0, RowsOf(req)) /\ t = At(8, 0, 0, 0)
  BY <1>3 DEF UramHolds, At
<1>4. CASE s = At(2, 6, 0, 0) /\ t = At(3, 0, 0, 0)
  BY <1>4 DEF UramHolds, At
<1>5. ASSUME NEW h \in 0 .. NUM_HEADS - 1, s = At(3, 1, h, RowsOf(req)), t = At(3, 2, h, 0)
      PROVE  UramHolds(j, l, t)
  BY <1>5 DEF UramHolds, At
<1>6. ASSUME NEW h \in 0 .. NUM_HEADS - 2, s = At(3, 5, h, 0), t = At(3, 0, h + 1, 0)
      PROVE  UramHolds(j, l, t)
  BY <1>6 DEF UramHolds, At
<1>7. CASE s = At(3, 5, NUM_HEADS - 1, 0) /\ t = At(4, 0, 0, 0)
  BY <1>7 DEF UramHolds, At
<1>8. CASE s = At(15, 0, 0, 0) /\ t = At(16, 0, 0, 0)
  BY <1>8 DEF UramHolds, At
<1>9. QED
  BY <1>1, <1>2, <1>3, <1>4, <1>5, <1>6, <1>7, <1>8 DEF SamePlace

\* Neighbouring places ask the same of the HBM.
LEMMA SamePlaceHbm ==
  ASSUME NEW s, NEW t, SamePlace(s, t)
  PROVE  SameHbm(s, t)
<1> USE DEF SameHbm, SameEmbed, SameTemp, SameQueries, SameProbs, SameFfn, SameCache,
            QueriesThere, HeadsDone, ProbsThere, ProbHead, PastFlush
<1>0. NUM_HEADS \in Nat \ {0}
  BY DimAssumption
<1>1. CASE s = t
  BY <1>1
<1>2. CASE s = At(0, 0, 0, RowsOf(req)) /\ t = At(1, 0, 0, 0)
  BY <1>2 DEF At
<1>3. CASE s = At(7, 0, 0, RowsOf(req)) /\ t = At(8, 0, 0, 0)
  BY <1>3 DEF At
<1>4. CASE s = At(2, 6, 0, 0) /\ t = At(3, 0, 0, 0)
  BY <1>4 DEF At
<1>5. ASSUME NEW h \in 0 .. NUM_HEADS - 1, s = At(3, 1, h, RowsOf(req)), t = At(3, 2, h, 0)
      PROVE  SameHbm(s, t)
  BY <1>5 DEF At
<1>6. ASSUME NEW h \in 0 .. NUM_HEADS - 2, s = At(3, 5, h, 0), t = At(3, 0, h + 1, 0)
      PROVE  SameHbm(s, t)
  BY <1>6 DEF At
<1>7. CASE s = At(3, 5, NUM_HEADS - 1, 0) /\ t = At(4, 0, 0, 0)
  BY <1>0, <1>7 DEF At
<1>8. CASE s = At(15, 0, 0, 0) /\ t = At(16, 0, 0, 0)
  BY <1>8 DEF At
<1>9. QED
  BY <1>1, <1>2, <1>3, <1>4, <1>5, <1>6, <1>7, <1>8 DEF SamePlace

\* From one place to its neighbour, no word of a memory changing.
LEMMA PlaceKept ==
  ASSUME Fits, UNCHANGED memory, NEW j, RowsOf(j) \in 1 .. TILE, RowsOf(req) = RowsOf(j),
         NEW l, NEW s, NEW t, SamePlace(s, t), Facts(j, l, s)
  PROVE  Facts(j, l, t)'
<1>1. UNCHANGED <<hbm, uram, wb, tokens>>
  BY DEF memory
<1>2. HbmHolds(j, l, t)'
  BY <1>1, HbmKept, SamePlaceHbm DEF Facts
<1>3. UramHolds(j, l, t)'
  BY <1>1, UramKept, SamePlaceUram DEF Facts
<1>4. QED
  BY <1>2, <1>3 DEF Facts

\* The last place of a layer is the first of the next.
LEMMA NextLayerFacts ==
  ASSUME NEW j, RowsOf(j) \in 1 .. TILE, NEW l \in 0 .. NUM_LAYERS - 2,
         Facts(j, l, At(16, 0, 0, 0))
  PROVE  Facts(j, l + 1, At(0, 0, 0, 0))
<1> DEFINE s == At(16, 0, 0, 0)
           t == At(0, 0, 0, 0)
<1>1. EmbedHolds(j, l + 1, t)
  BY DEF Facts, HbmHolds, EmbedHolds, At
<1>2. TempHolds(j, l + 1, t) /\ FfnHolds(j, l + 1, t)
  BY DEF TempHolds, FfnHolds, At
<1>3. QueriesHold(j, l + 1, t) /\ ProbsHold(j, l + 1, t)
  BY DEF QueriesHold, ProbsHold, QueriesThere, ProbsThere, At
<1>4. CacheHolds(j, l + 1, t)
  <2> SUFFICES ASSUME NEW m \in 0 .. NUM_LAYERS - 1, NEW part \in {0, 1},
                      NEW p \in 0 .. TILE - 1, Cached(j, l + 1, t, m, part, p)
               PROVE  CacheRow(m, part, p)
    BY DEF CacheHolds
  <2>1. NUM_LAYERS \in Int
    BY DimAssumption DEF NUM_LAYERS
  <2>2. Cached(j, l, s, m, part, p)
    BY <2>1 DEF Cached, PastFlush, At
  <2>3. QED
    BY <2>2 DEF Facts, HbmHolds, CacheHolds
<1>5. UramHolds(j, l + 1, t)
  <2>1. Whole(j, "x", l + 1, 0, RowsOf(j))
    BY DEF Facts, UramHolds, At
  <2>2. Whole(j, "ln1", l + 1, 0, 0)
    BY NoRows
  <2>3. QED
    BY <2>1, <2>2 DEF UramHolds, At
<1>6. QED
  BY <1>1, <1>2, <1>3, <1>4, <1>5 DEF Facts, HbmHolds

\* And the last of the last layer has cached the whole sequence.
LEMMA EndCached ==
  ASSUME NEW j, NEW l, l = NUM_LAYERS - 1, Facts(j, l, At(16, 0, 0, 0)),
         Len(tokens) = TILE
  PROVE  AllCached
<1> SUFFICES ASSUME NEW m \in 0 .. NUM_LAYERS - 1, NEW part \in {0, 1},
                    NEW p \in 0 .. Len(tokens) - 1
             PROVE  CacheRow(m, part, p)
  BY DEF AllCached
<1>1. NUM_LAYERS \in Int
  BY DimAssumption DEF NUM_LAYERS
<1>2. Cached(j, l, At(16, 0, 0, 0), m, part, p)
  BY <1>1 DEF Cached, PastFlush, At
<1>3. QED
  BY <1>2 DEF Facts, HbmHolds, CacheHolds

-----------------------------------------------------------------------------
(* The products with a weight matrix.                                      *)

\* Consecutive words of a row make a row.
LEMMA RowOfVals ==
  ASSUME NEW w, NEW n \in Nat \ {0}, NEW j, NEW kind, NEW l, NEW r, NEW c \in Int,
         \A i \in 0 .. n - 1 : w[i] = Val(j, kind, l, r, c + i)
  PROVE  IsRow(w, n, kind) /\ w[0] = Val(j, kind, l, r, c)
<1>1. w[0] = Val(j, kind, l, r, c)
  <2>1. w[0] = Val(j, kind, l, r, c + 0) /\ c + 0 = c
    OBVIOUS
  <2>2. QED
    BY <2>1
<1>2. w[0].kind = kind
  BY <1>1 DEF Val, V
<1>3. ASSUME NEW i \in 0 .. n - 1
      PROVE  w[i] = [w[0] EXCEPT !.col = @ + i]
  BY <1>1 DEF Val, V
<1>4. QED
  BY <1>1, <1>2, <1>3 DEF IsRow

\* The host's weight addresses are none of the words the model keeps.
LEMMA WeightApart ==
  ASSUME Fits, NEW l \in 0 .. NUM_LAYERS - 1, NEW i \in 0 .. LAYER_SIZE - 1
  PROVE  weight_base + l * LAYER_SIZE + i \notin HbmWords
<1>1. NUM_LAYERS \in Nat /\ weight_base \in Nat /\ LAYER_SIZE \in Int
  BY DimAssumption DEF NUM_LAYERS, LAYER_SIZE, LAYER_LN2_OFFSET, LAYER_LN1_OFFSET,
     LAYER_FFN2_OFFSET, LAYER_FFN1_OFFSET, MODEL_DIM, MODEL_STRIDE, F_DIM
<1>2. LAYER_SIZE \in Nat \ {0}
  BY <1>1
<1>3. l * LAYER_SIZE + LAYER_SIZE <= NUM_LAYERS * LAYER_SIZE /\ l * LAYER_SIZE \in Nat
      /\ NUM_LAYERS * LAYER_SIZE \in Nat
  BY <1>1, <1>2, ProductStep
<1> DEFINE w == weight_base + l * LAYER_SIZE + i
           weights == weight_base .. weight_base + NUM_LAYERS * LAYER_SIZE - 1
           kv == kv_base .. kv_base + NUM_LAYERS * KV_LAYER_SIZE - 1
           act == act_base .. act_base + 6 * ACT_SLAB - 1
<1>4. w \in weights
  BY <1>1, <1>2, <1>3
<1>5. act \cap weights = {} /\ kv \cap weights = {}
  BY DEF Fits, RegionsApart
<1>6. HbmWords = act \cup kv
  BY DEF HbmWords
<1> HIDE DEF w, weights, kv, act
<1>7. w \notin HbmWords
  BY <1>4, <1>5, <1>6
<1>8. QED
  BY <1>7 DEF w

\* The matrices of the layer have their own places, and no other two that multiply rows
\* of the same kind.
LEMMA WeightPlaces ==
  ASSUME NEW w \in Weights, NEW v \in Weights, w.from = v.from, w.off = v.off
  PROVE  w = v
<1> DEFINE x == MODEL_DIM * MODEL_STRIDE
<1>1. x \in Nat \ {0}
  <2>1. MODEL_STRIDE \in Nat \ {0} /\ WE \in Nat \ {0}
    BY CacheSizes, DimAssumption
  <2>2. 0 * WE + WE <= MODEL_STRIDE * WE /\ MODEL_STRIDE * WE \in Nat
    BY <2>1, ProductStep
  <2>3. MODEL_DIM \in Nat \ {0}
    BY <2>1, <2>2 DEF MODEL_DIM
  <2>4. 0 * MODEL_STRIDE + MODEL_STRIDE <= MODEL_DIM * MODEL_STRIDE
        /\ MODEL_DIM * MODEL_STRIDE \in Nat
    BY <2>1, <2>3, ProductStep
  <2>5. QED
    BY <2>1, <2>4
<1>2. LAYER_WQ_OFFSET = 0 /\ LAYER_WK_OFFSET = x /\ LAYER_WV_OFFSET = 2 * x
  <2>1. MODEL_DIM \in Int /\ MODEL_STRIDE \in Int
    BY DimAssumption DEF MODEL_DIM, MODEL_STRIDE
  <2>2. 2 * MODEL_DIM * MODEL_STRIDE = 2 * (MODEL_DIM * MODEL_STRIDE)
    BY <2>1
  <2>3. QED
    BY <2>2 DEF LAYER_WQ_OFFSET, LAYER_WK_OFFSET, LAYER_WV_OFFSET
<1> HIDE DEF x
<1>3. LAYER_WQ_OFFSET # LAYER_WK_OFFSET /\ LAYER_WQ_OFFSET # LAYER_WV_OFFSET
      /\ LAYER_WK_OFFSET # LAYER_WV_OFFSET
  BY <1>1, <1>2
<1>4. QED
  BY <1>3 DEF Weights

\* Every weight matrix has the shape of whole tiles.
LEMMA WeightShapes ==
  ASSUME SizesFit, NEW w \in Weights
  PROVE  /\ w.k % TILE = 0 /\ w.n % WE = 0 /\ w.k \div WE \in Nat \ {0}
         /\ w.n \div WE \in Nat \ {0} /\ w.n \div WE <= URAM_COL_WORDS
         /\ RoundUp(w.n, TILE) = w.n
<1>1. w.k \in {MODEL_DIM, F_DIM} /\ w.n \in {MODEL_DIM, F_DIM}
  BY DEF Weights
<1>2. RoundUp(MODEL_DIM, TILE) = MODEL_DIM
  BY ZenonT(60), SizeFacts, RoundUpTo
<1>3. RoundUp(F_DIM, TILE) = F_DIM
  <2> DEFINE q == F_DIM \div TILE
  <2>0. TILE \in Nat \ {0} /\ F_DIM \in Nat \ {0} /\ F_DIM % TILE = 0
    BY SizeFacts
  <2>1. F_DIM = TILE * q + 0 /\ q \in Int
    BY <2>0
  <2> HIDE DEF q
  <2>2. q \in Nat
    <3> SUFFICES ASSUME q <= -1 PROVE FALSE
      BY <2>1
    <3>1. TILE * (-1 - q) >= 0 /\ TILE * (-1 - q) = -TILE - TILE * q /\ TILE * q \in Int
      BY <2>0, <2>1
    <3>2. QED
      BY <2>0, <2>1, <3>1
  <2>3. F_DIM = q * TILE
    BY <2>0, <2>1, <2>2
  <2>4. QED
    BY <2>0, <2>2, <2>3, RoundUpTo
<1>4. QED
  BY SMT, <1>1, <1>2, <1>3, SizeFacts DEF SizesFit

\* The command multiplies by matrix w of layer l.
Multiplies(c, w, l) ==
  /\ c.b_base = weight_base + l * LAYER_SIZE + w.off /\ weight_base + l * LAYER_SIZE \in Int
  /\ c.k = w.k /\ c.n = w.n /\ c.b_stride = w.n \div WE

\* Row i of its operand is that row of what w multiplies.
Feeds(c, i, j, w, l) ==
  \A x \in 0 .. w.k \div WE - 1 :
    Hbm(c.a_base + i * c.a_stride + x) = Val(j, w.from, l, i, x)

\* A row fed to a weight matrix becomes a row of the product.
LEMMA ProjectedRow ==
  ASSUME SizesFit, NEW j, NEW l, NEW w \in Weights, NEW c, NEW i, NEW col, Multiplies(c, w, l),
         Feeds(c, i, j, w, l)
  PROVE  Projected(c, i, col) = Val(j, w.to, l, i, col)
<1> DEFINE n == w.k \div WE
           a == ARow(c, i)
           used == {v \in Weights :
                      /\ c.b_base = weight_base + a[0].layer * LAYER_SIZE + v.off
                      /\ c.k = v.k /\ c.n = v.n /\ c.b_stride = v.n \div WE
                      /\ IsRow(a, v.k \div WE, v.from) /\ a[0].col = 0}
<1>0. Projected(c, i, col)
        = IF used = {} THEN BAD ELSE Computed(a[0], (CHOOSE v \in used : TRUE).to, col)
  BY DEF Projected
<1>1. \A x \in 0 .. n - 1 : a[x] = Val(j, w.from, l, i, x) /\ 0 + x = x
  BY DEF ARow, Multiplies, Feeds
<1> HIDE DEF a
<1>9. n \in Nat \ {0}
  BY WeightShapes
<1>2. IsRow(a, n, w.from) /\ a[0] = Val(j, w.from, l, i, 0)
  BY <1>1, <1>9, RowOfVals
<1>3. a[0].layer = l /\ a[0].col = 0 /\ a[0].kind = w.from
  BY <1>2 DEF Val, V
<1>4. w \in used
  BY <1>2, <1>3 DEF Multiplies
<1>5. ASSUME NEW v \in used PROVE v = w
  <2>1. v.from = w.from
    BY <1>3 DEF IsRow
  <2>2. v.off \in Int /\ w.off \in Int
    BY DimAssumption DEF Weights, LAYER_WQ_OFFSET, LAYER_WK_OFFSET, LAYER_WV_OFFSET,
       LAYER_WO_OFFSET, LAYER_FFN1_OFFSET, LAYER_FFN2_OFFSET, MODEL_DIM, MODEL_STRIDE
  <2>3. weight_base + l * LAYER_SIZE + v.off = weight_base + l * LAYER_SIZE + w.off
        /\ weight_base + l * LAYER_SIZE \in Int
    BY <1>3 DEF Multiplies
  <2>4. v.off = w.off
    BY <2>2, <2>3
  <2>5. QED
    BY <2>1, <2>4, WeightPlaces
<1>6. used # {} /\ (CHOOSE v \in used : TRUE) = w
  BY <1>4, <1>5
<1>7. Projected(c, i, col) = Computed(a[0], w.to, col)
  BY <1>0, <1>6
<1>8. QED
  BY <1>2, <1>7 DEF Computed, Val, V

\* The rows of a job are those of one tile.
LEMMA TileRows ==
  ASSUME Fits, NEW j \in TileJobs
  PROVE  RowsOf(j) \in 1 .. TILE /\ RowsOf(j) <= RoundUp(RowsOf(j), TILE)
         /\ RowsOf(j) <= URAM_ROWS
<1>1. TILE \in Nat \ {0} /\ URAM_ROWS \in Nat /\ TILE <= URAM_ROWS
  BY SMT, AcceleratorAssumption DEF Fits, SizesFit
<1>2. RowsOf(j) \in 1 .. TILE /\ (RowsOf(j) = 1 \/ RowsOf(j) = TILE)
  BY JobShape
<1>3. RoundUp(1 * TILE, TILE) = 1 * TILE /\ RoundUp(1, TILE) = TILE /\ 1 * TILE = TILE
  BY <1>1, RoundUpTo
<1>4. QED
  BY <1>1, <1>2, <1>3

\* A product with a weight matrix leaves its rows in the URAM.
LEMMA WeightProduct ==
  ASSUME Fits, MatmulEffect, tokens' = tokens, wb = NONE,
         NEW j \in TileJobs, NEW l \in 0 .. NUM_LAYERS - 1, NEW w \in Weights,
         NEW a \in Int, NEW stride \in Nat,
         mm_cmd = Matmul("OP_MATMUL", RowsOf(j), w.k, w.n, a, stride,
                         weight_base + l * LAYER_SIZE + w.off, w.n \div WE, 0),
         \A r \in 0 .. RowsOf(j) - 1, c \in 0 .. w.k \div WE - 1 :
           /\ a + r * stride + c \in HbmWords
           /\ hbm[a + r * stride + c] = Val(j, w.from, l, r, c)
  PROVE  /\ UNCHANGED <<hbm, dma_word>>
         /\ Holding(j, w.to, l, 0, RowsOf(j), 0, w.n \div WE)'
<1>0. RowsOf(j) \in 1 .. TILE /\ RowsOf(j) <= RoundUp(RowsOf(j), TILE)
      /\ RowsOf(j) <= URAM_ROWS
  BY TileRows
<1> DEFINE R == RowsOf(j)
           n == w.n \div WE
           k == w.k \div WE
           base == weight_base + l * LAYER_SIZE
<1>1. n \in Nat \ {0} /\ k \in Nat \ {0} /\ n <= URAM_COL_WORDS /\ base \in Int
  <2>1. base \in Int
    BY DimAssumption DEF NUM_LAYERS, LAYER_SIZE, LAYER_LN2_OFFSET, LAYER_LN1_OFFSET,
       LAYER_FFN2_OFFSET, LAYER_FFN1_OFFSET, MODEL_DIM, MODEL_STRIDE, F_DIM
  <2>2. QED
    BY <2>1, WeightShapes DEF Fits
<1>2. /\ mm_cmd.op = "OP_MATMUL" /\ mm_cmd.m = R /\ mm_cmd.k = w.k /\ mm_cmd.n = w.n
      /\ mm_cmd.a_base = a /\ mm_cmd.a_stride = stride
      /\ mm_cmd.b_base = base + w.off
      /\ mm_cmd.b_stride = n /\ mm_cmd.out_col_offset = 0
  BY DEF Matmul, Low8
<1>9. SizesFit
  BY DEF Fits
<1>3. Exact(mm_cmd)
  BY <1>2, WeightShapes DEF Exact, Fits
<1>4. RoundUp(mm_cmd.n, TILE) \div WE = n
  BY <1>2, WeightShapes DEF Fits
<1>5. /\ UNCHANGED <<hbm, wb, dma_word>>
      /\ \A r \in 0 .. R - 1, c \in 0 .. n - 1 : Uram(<<r, 0 + c>>)' = Product(mm_cmd, r, c)
  <2>1. mm_cmd.n \div WE = n /\ 0 + n <= URAM_COL_WORDS
    BY <1>1, <1>2
  <2> HIDE DEF n, R
  <2>2. R \in 1 .. TILE /\ mm_cmd.m = R /\ R <= RoundUp(R, TILE) /\ R <= URAM_ROWS
    BY <1>0, <1>2 DEF R
  <2>3. QED
    BY <1>1, <1>2, <1>3, <1>4, <2>1, <2>2, MatmulView
<1>6. ASSUME NEW r \in 0 .. R - 1, NEW c \in 0 .. n - 1
      PROVE  Uram(<<r, c>>)' = Val(j, w.to, l, r, c)'
  <2>1. Feeds(mm_cmd, r, j, w, l)
    BY <1>2 DEF Hbm, Feeds
  <2>5. Multiplies(mm_cmd, w, l)
    BY <1>1, <1>2 DEF Multiplies
  <2>2. Projected(mm_cmd, r, c) = Val(j, w.to, l, r, c)
    BY <1>9, <2>1, <2>5, ProjectedRow
  <2>3. Product(mm_cmd, r, c) = Val(j, w.to, l, r, c)
    BY <1>2, <2>2 DEF Product
  <2>4. c \in Int /\ 0 + c = c
    BY <1>1
  <2>6. QED
    BY <1>5, <2>3, <2>4, SameVal
<1>7. Holding(j, w.to, l, 0, R, 0, n)'
  <2>1. 0 + n - 1 = n - 1
    BY <1>1
  <2>2. QED
    BY <1>6, <2>1 DEF Holding, RowsOf
<1>8. QED
  BY <1>5, <1>7

Matrix(off, k, n, from, to) ==
  [off |-> off, k |-> k, n |-> n, from |-> from, to |-> to]

\* The same for a matrix given by its parts.
LEMMA Multiplied ==
  ASSUME Fits, MatmulEffect, tokens' = tokens, wb = NONE,
         NEW j \in TileJobs, NEW l \in 0 .. NUM_LAYERS - 1,
         NEW off, NEW k, NEW n, NEW from, NEW to, NEW kw, NEW nw,
         Matrix(off, k, n, from, to) \in Weights,
         kw = k \div WE, nw = n \div WE,
         NEW a \in Int, NEW stride \in Nat,
         mm_cmd = Matmul("OP_MATMUL", RowsOf(j), k, n, a, stride,
                         weight_base + l * LAYER_SIZE + off, nw, 0),
         \A r \in 0 .. RowsOf(j) - 1, c \in 0 .. kw - 1 :
           /\ a + r * stride + c \in HbmWords
           /\ hbm[a + r * stride + c] = Val(j, from, l, r, c)
  PROVE  /\ UNCHANGED <<hbm, dma_word>>
         /\ Holding(j, to, l, 0, RowsOf(j), 0, nw)'
<1>1. PICK w \in Weights : w = [off |-> off, k |-> k, n |-> n, from |-> from, to |-> to]
  BY DEF Matrix
<1>2. w.off = off /\ w.k = k /\ w.n = n /\ w.from = from /\ w.to = to
  BY <1>1
<1>3. mm_cmd = Matmul("OP_MATMUL", RowsOf(j), w.k, w.n, a, stride,
                      weight_base + l * LAYER_SIZE + w.off, w.n \div WE, 0)
  BY <1>2
<1>4. \A r \in 0 .. RowsOf(j) - 1, c \in 0 .. w.k \div WE - 1 :
        /\ a + r * stride + c \in HbmWords
        /\ hbm[a + r * stride + c] = Val(j, w.from, l, r, c)
  BY <1>2
<1>5. /\ UNCHANGED <<hbm, dma_word>>
      /\ Holding(j, w.to, l, 0, RowsOf(j), 0, w.n \div WE)'
  BY <1>3, <1>4, WeightProduct
<1>6. QED
  BY <1>2, <1>5

-----------------------------------------------------------------------------
(* The matmul steps.                                                       *)

\* The registers of the job under way.
LEMMA RunNow ==
  ASSUME Fits, Control, busy
  PROVE  /\ req \in TileJobs /\ layer_cnt \in 0 .. NUM_LAYERS - 1
         /\ head_cnt \in 0 .. NUM_HEADS - 1 /\ qkv_phase \in 0 .. 2
         /\ bt = RowsOf(req) /\ att_rows = RowsOf(req)
         /\ att_keys = TILE /\ Words(att_keys) = KEY_WORDS
         /\ RowsOf(req) \in 1 .. TILE
         /\ state \notin UnitStates => wb = NONE
<1>1. TypeOK /\ BusyInv /\ DirtyInv
  BY DEF Control, Registers, AccInv, IntactInv
<1>2. layer_cnt \in 0 .. NUM_LAYERS - 1 /\ head_cnt \in 0 .. NUM_HEADS - 1
      /\ qkv_phase \in 0 .. 2
  BY <1>1 DEF TypeOK, FsmTypeOK, NUM_LAYERS
<1>3. QED
  BY <1>1, <1>2, RunShape, JobShape DEF DirtyInv

\* A step that only changes the URAM.
LEMMA UramStep ==
  ASSUME Fits, UNCHANGED <<hbm, tokens>>, NEW j, RowsOf(j) \in 1 .. TILE,
         NEW l, NEW s, NEW t, Facts(j, l, s), SameHbm(s, t), UramHolds(j, l, t)'
  PROVE  Facts(j, l, t)'
  BY HbmKept DEF Facts

\* A row of the model's width is MODEL_STRIDE words.
LEMMA WholeRows ==
  ASSUME NEW j, NEW kind, NEW l, NEW from, NEW to
  PROVE  Holding(j, kind, l, from, to, 0, MODEL_STRIDE)' => Whole(j, kind, l, from, to)'
  BY DEF Whole, MODEL_STRIDE

\* Step 2: the queries, the keys and the values.
LEMMA QkvProduct ==
  ASSUME Fits, Control, busy, state = "S_QKV_MM", waiting_mm, MatmulEffect, tokens' = tokens,
         NEW j, NEW l, NEW q, j = req, l = layer_cnt, q = qkv_phase,
         Facts(j, l, At(2, 2 * q, 0, 0))
  PROVE  UNCHANGED <<hbm, dma_word>> /\ Facts(j, l, At(2, 2 * q + 1, 0, 0))'
<1>1. /\ j \in TileJobs /\ l \in 0 .. NUM_LAYERS - 1 /\ q \in 0 .. 2 /\ wb = NONE
      /\ RowsOf(j) \in 1 .. TILE /\ bt = RowsOf(j)
  BY RunNow DEF UnitStates
<1>2. step_cfg = 1
  BY StepOf DEF Control, Registers
<1> DEFINE off == CASE q = 0 -> LAYER_WQ_OFFSET
                    [] q = 1 -> LAYER_WK_OFFSET
                    [] OTHER -> LAYER_WV_OFFSET
           to == CASE q = 0 -> "q" [] q = 1 -> "k" [] OTHER -> "v"
<1>3. mm_cmd = Matmul("OP_MATMUL", RowsOf(j), MODEL_DIM, MODEL_DIM, Base(5), MODEL_STRIDE,
                      weight_base + l * LAYER_SIZE + off, MODEL_STRIDE, 0)
  BY <1>1, <1>2 DEF Control, Registers, CmdInv, QkvCommand, layer_wgt_base, ACT_TEMP_OFF, Base
<1>4. Matrix(off, MODEL_DIM, MODEL_DIM, "ln1", to) \in Weights
  BY DEF Weights, Matrix
<1>5. \A r \in 0 .. RowsOf(j) - 1, c \in 0 .. MODEL_STRIDE - 1 :
        /\ Base(5) + r * MODEL_STRIDE + c \in HbmWords
        /\ hbm[Base(5) + r * MODEL_STRIDE + c] = Val(j, "ln1", l, r, c)
  <2> SUFFICES ASSUME NEW r \in 0 .. RowsOf(j) - 1, NEW c \in 0 .. MODEL_STRIDE - 1
               PROVE  /\ Base(5) + r * MODEL_STRIDE + c \in HbmWords
                      /\ hbm[Base(5) + r * MODEL_STRIDE + c] = Val(j, "ln1", l, r, c)
    OBVIOUS
  <2>1. Base(5) + r * MODEL_STRIDE + c = ActAt(5, r, c)
    BY DEF Base, ActAt
  <2>2. r \in 0 .. TILE - 1 /\ c \in Cols
    BY <1>1, AcceleratorAssumption DEF Cols
  <2>3. ActAt(5, r, c) \in HbmWords
    BY <2>2, ActPlaces DEF Fits
  <2>4. hbm[ActAt(5, r, c)] = Val(j, "ln1", l, r, c)
    BY <2>2 DEF Facts, HbmHolds, TempHolds, At
  <2>5. QED
    BY <2>1, <2>3, <2>4
<1> HIDE DEF off, to
<1>6. /\ UNCHANGED <<hbm, dma_word>>
      /\ Holding(j, to, l, 0, RowsOf(j), 0, MODEL_STRIDE)'
  <2>1. MODEL_STRIDE = MODEL_DIM \div WE /\ MODEL_STRIDE \in Nat /\ Base(5) \in Int
    BY SizeFacts, ActPlaces DEF Fits, Base
  <2>2. QED
    BY <1>1, <1>3, <1>4, <1>5, <2>1, Multiplied
<1>7. Whole(j, to, l, 0, RowsOf(j))'
  BY <1>6, WholeRows
<1>8. CASE q = 0
  <2>1. 2 * q = 0 /\ 2 * q + 1 = 1 /\ to = "q"
    BY <1>8 DEF to
  <2>2. UramHolds(j, l, At(2, 1, 0, 0))'
    BY <1>7, <2>1 DEF UramHolds, At, RowsOf
  <2>3. SameHbm(At(2, 0, 0, 0), At(2, 1, 0, 0))
    BY DEF SameHbm, SameEmbed, SameTemp, SameQueries, SameProbs, SameFfn, SameCache,
       QueriesThere, ProbsThere, PastFlush, At
  <2>4. QED
    BY <1>1, <1>6, <2>1, <2>2, <2>3, UramStep
<1>9. CASE q = 1
  <2>1. 2 * q = 2 /\ 2 * q + 1 = 3 /\ to = "k"
    BY <1>9 DEF to
  <2>2. UramHolds(j, l, At(2, 3, 0, 0))'
    BY <1>7, <2>1 DEF UramHolds, At, RowsOf
  <2>3. SameHbm(At(2, 2, 0, 0), At(2, 3, 0, 0))
    BY DEF SameHbm, SameEmbed, SameTemp, SameQueries, SameProbs, SameFfn, SameCache,
       QueriesThere, HeadsDone, ProbsThere, PastFlush, At
  <2>4. QED
    BY <1>1, <1>6, <2>1, <2>2, <2>3, UramStep
<1>10. CASE q = 2
  <2>1. 2 * q = 4 /\ 2 * q + 1 = 5 /\ to = "v"
    BY <1>10 DEF to
  <2>2. UramHolds(j, l, At(2, 5, 0, 0))'
    BY <1>7, <2>1 DEF UramHolds, At, RowsOf
  <2>3. SameHbm(At(2, 4, 0, 0), At(2, 5, 0, 0))
    BY DEF SameHbm, SameEmbed, SameTemp, SameQueries, SameProbs, SameFfn, SameCache,
       QueriesThere, HeadsDone, ProbsThere, PastFlush, At
  <2>4. QED
    BY <1>1, <1>6, <2>1, <2>2, <2>3, UramStep
<1>11. QED
  BY <1>1, <1>6, <1>8, <1>9, <1>10

\* Step 4: the output projection of the heads.
LEMMA ProjProduct ==
  ASSUME Fits, Control, busy, state = "S_MM_RUN", step_idx = 4, waiting_mm, MatmulEffect,
         tokens' = tokens, NEW j, NEW l, j = req, l = layer_cnt,
         Facts(j, l, At(4, 0, 0, 0))
  PROVE  UNCHANGED <<hbm, dma_word>> /\ Facts(j, l, At(5, 0, 0, 0))'
<1>1. /\ j \in TileJobs /\ l \in 0 .. NUM_LAYERS - 1 /\ wb = NONE
      /\ RowsOf(j) \in 1 .. TILE /\ bt = RowsOf(j)
  BY RunNow DEF UnitStates
<1>2. step_cfg = 0
  BY StepOf DEF Control, Registers
<1>3. mm_cmd = Matmul("OP_MATMUL", RowsOf(j), MODEL_DIM, MODEL_DIM, Base(1), MODEL_STRIDE,
                      weight_base + l * LAYER_SIZE + LAYER_WO_OFFSET, MODEL_STRIDE, 0)
  <2>1. Base(1) = act_base + ACT_Q_OFFSET
    BY ActPlaces DEF Base, ACT_Q_OFFSET, Fits
  <2>2. QED
    BY <1>1, <1>2, <2>1 DEF Control, Registers, CmdInv, RunCommand, layer_wgt_base
<1>4. Matrix(LAYER_WO_OFFSET, MODEL_DIM, MODEL_DIM, "att", "proj") \in Weights
  BY DEF Weights, Matrix
<1>5. \A r \in 0 .. RowsOf(j) - 1, c \in 0 .. MODEL_STRIDE - 1 :
        /\ Base(1) + r * MODEL_STRIDE + c \in HbmWords
        /\ hbm[Base(1) + r * MODEL_STRIDE + c] = Val(j, "att", l, r, c)
  <2> SUFFICES ASSUME NEW r \in 0 .. RowsOf(j) - 1, NEW c \in 0 .. MODEL_STRIDE - 1
               PROVE  /\ Base(1) + r * MODEL_STRIDE + c \in HbmWords
                      /\ hbm[Base(1) + r * MODEL_STRIDE + c] = Val(j, "att", l, r, c)
    OBVIOUS
  <2>1. Base(1) + r * MODEL_STRIDE + c = ActAt(1, r, c)
    BY DEF Base, ActAt
  <2>2. r \in 0 .. TILE - 1 /\ c \in Cols
    BY <1>1, AcceleratorAssumption DEF Cols
  <2>3. ActAt(1, r, c) \in HbmWords
    BY <2>2, ActPlaces DEF Fits
  <2>4. HeadsDone(At(4, 0, 0, 0)) = NUM_HEADS /\ QueriesThere(At(4, 0, 0, 0))
    BY DEF HeadsDone, QueriesThere, At
  <2>5. c < NUM_HEADS * HEAD_WORDS
    BY <2>2, CacheSizes DEF Cols, MODEL_STRIDE
  <2>6. hbm[ActAt(1, r, c)] = Val(j, "att", l, r, c)
    BY <2>2, <2>4, <2>5 DEF Facts, HbmHolds, QueriesHold
  <2>7. QED
    BY <2>1, <2>3, <2>6
<1>6. /\ UNCHANGED <<hbm, dma_word>>
      /\ Holding(j, "proj", l, 0, RowsOf(j), 0, MODEL_STRIDE)'
  <2>1. MODEL_STRIDE = MODEL_DIM \div WE /\ MODEL_STRIDE \in Nat /\ Base(1) \in Int
    BY SizeFacts, ActPlaces DEF Fits, Base
  <2>2. QED
    BY <1>1, <1>3, <1>4, <1>5, <2>1, Multiplied
<1>7. Whole(j, "proj", l, 0, RowsOf(j))'
  BY <1>6, WholeRows
<1>8. UramHolds(j, l, At(5, 0, 0, 0))'
  BY <1>7 DEF UramHolds, At, RowsOf
<1>9. SameHbm(At(4, 0, 0, 0), At(5, 0, 0, 0))
  BY DEF SameHbm, SameEmbed, SameTemp, SameQueries, SameProbs, SameFfn, SameCache,
     QueriesThere, ProbsThere, ProbHead, PastFlush, At
<1>10. QED
  BY <1>1, <1>6, <1>8, <1>9, UramStep

\* Step 9: the first feed-forward matrix.
LEMMA Ffn1Product ==
  ASSUME Fits, Control, busy, state = "S_MM_RUN", step_idx = 9, waiting_mm, MatmulEffect,
         tokens' = tokens, NEW j, NEW l, j = req, l = layer_cnt,
         Facts(j, l, At(9, 0, 0, 0))
  PROVE  UNCHANGED <<hbm, dma_word>> /\ Facts(j, l, At(10, 0, 0, 0))'
<1>1. /\ j \in TileJobs /\ l \in 0 .. NUM_LAYERS - 1 /\ wb = NONE
      /\ RowsOf(j) \in 1 .. TILE /\ bt = RowsOf(j)
  BY RunNow DEF UnitStates
<1>2. step_cfg = 2
  BY StepOf DEF Control, Registers
<1>3. mm_cmd = Matmul("OP_MATMUL", RowsOf(j), MODEL_DIM, F_DIM, Base(5), MODEL_STRIDE,
                      weight_base + l * LAYER_SIZE + LAYER_FFN1_OFFSET, F_STRIDE, 0)
  BY <1>1, <1>2 DEF Control, Registers, CmdInv, RunCommand, layer_wgt_base, ACT_TEMP_OFF, Base
<1>4. Matrix(LAYER_FFN1_OFFSET, MODEL_DIM, F_DIM, "ln2", "ffn1") \in Weights
  BY DEF Weights, Matrix
<1>5. \A r \in 0 .. RowsOf(j) - 1, c \in 0 .. MODEL_STRIDE - 1 :
        /\ Base(5) + r * MODEL_STRIDE + c \in HbmWords
        /\ hbm[Base(5) + r * MODEL_STRIDE + c] = Val(j, "ln2", l, r, c)
  <2> SUFFICES ASSUME NEW r \in 0 .. RowsOf(j) - 1, NEW c \in 0 .. MODEL_STRIDE - 1
               PROVE  /\ Base(5) + r * MODEL_STRIDE + c \in HbmWords
                      /\ hbm[Base(5) + r * MODEL_STRIDE + c] = Val(j, "ln2", l, r, c)
    OBVIOUS
  <2>1. Base(5) + r * MODEL_STRIDE + c = ActAt(5, r, c)
    BY DEF Base, ActAt
  <2>2. r \in 0 .. TILE - 1 /\ c \in Cols
    BY <1>1, AcceleratorAssumption DEF Cols
  <2>3. ActAt(5, r, c) \in HbmWords
    BY <2>2, ActPlaces DEF Fits
  <2>4. hbm[ActAt(5, r, c)] = Val(j, "ln2", l, r, c)
    BY <2>2 DEF Facts, HbmHolds, TempHolds, At
  <2>5. QED
    BY <2>1, <2>3, <2>4
<1>6. /\ UNCHANGED <<hbm, dma_word>>
      /\ Holding(j, "ffn1", l, 0, RowsOf(j), 0, F_STRIDE)'
  <2>1. MODEL_STRIDE = MODEL_DIM \div WE /\ F_STRIDE = F_DIM \div WE
        /\ MODEL_STRIDE \in Nat /\ Base(5) \in Int
    BY SizeFacts, ActPlaces DEF Fits, Base
  <2>2. QED
    BY <1>1, <1>3, <1>4, <1>5, <2>1, Multiplied
<1>7. UramHolds(j, l, At(10, 0, 0, 0))'
  BY <1>6 DEF UramHolds, At, RowsOf
<1>8. SameHbm(At(9, 0, 0, 0), At(10, 0, 0, 0))
  BY DEF SameHbm, SameEmbed, SameTemp, SameQueries, SameProbs, SameFfn, SameCache,
     QueriesThere, ProbsThere, ProbHead, PastFlush, At
<1>9. QED
  BY <1>1, <1>6, <1>7, <1>8, UramStep

\* Step 12: the second.
LEMMA Ffn2Product ==
  ASSUME Fits, Control, busy, state = "S_MM_RUN", step_idx = 12, waiting_mm, MatmulEffect,
         tokens' = tokens, NEW j, NEW l, j = req, l = layer_cnt,
         Facts(j, l, At(12, 0, 0, 0))
  PROVE  UNCHANGED <<hbm, dma_word>> /\ Facts(j, l, At(13, 0, 0, 0))'
<1>1. /\ j \in TileJobs /\ l \in 0 .. NUM_LAYERS - 1 /\ wb = NONE
      /\ RowsOf(j) \in 1 .. TILE /\ bt = RowsOf(j)
  BY RunNow DEF UnitStates
<1>2. step_cfg = 3
  BY StepOf DEF Control, Registers
<1>3. mm_cmd = Matmul("OP_MATMUL", RowsOf(j), F_DIM, MODEL_DIM, Base(1), F_STRIDE,
                      weight_base + l * LAYER_SIZE + LAYER_FFN2_OFFSET, MODEL_STRIDE, 0)
  <2>1. Base(1) = act_base + ACT_FFN_OFFSET
    BY ActPlaces DEF Base, ACT_FFN_OFFSET, ACT_Q_OFFSET, Fits
  <2>2. QED
    BY <1>1, <1>2, <2>1 DEF Control, Registers, CmdInv, RunCommand, layer_wgt_base
<1>4. Matrix(LAYER_FFN2_OFFSET, F_DIM, MODEL_DIM, "relu", "ffn2") \in Weights
  BY DEF Weights, Matrix
<1>5. \A r \in 0 .. RowsOf(j) - 1, c \in 0 .. F_STRIDE - 1 :
        /\ Base(1) + r * F_STRIDE + c \in HbmWords
        /\ hbm[Base(1) + r * F_STRIDE + c] = Val(j, "relu", l, r, c)
  <2> SUFFICES ASSUME NEW r \in 0 .. RowsOf(j) - 1, NEW c \in 0 .. F_STRIDE - 1
               PROVE  /\ Base(1) + r * F_STRIDE + c \in HbmWords
                      /\ hbm[Base(1) + r * F_STRIDE + c] = Val(j, "relu", l, r, c)
    OBVIOUS
  <2>1. Base(1) + r * F_STRIDE + c = FfnAt(r, c)
    BY ActPlaces DEF Base, FfnAt, Fits
  <2>2. r \in 0 .. TILE - 1
    BY <1>1, AcceleratorAssumption
  <2>3. FfnAt(r, c) \in HbmWords
    BY <2>2, ActPlaces DEF Fits
  <2>4. hbm[FfnAt(r, c)] = Val(j, "relu", l, r, c)
    BY DEF Facts, HbmHolds, FfnHolds, At
  <2>5. QED
    BY <2>1, <2>3, <2>4
<1>6. /\ UNCHANGED <<hbm, dma_word>>
      /\ Holding(j, "ffn2", l, 0, RowsOf(j), 0, MODEL_STRIDE)'
  <2>1. MODEL_STRIDE = MODEL_DIM \div WE /\ F_STRIDE = F_DIM \div WE
        /\ F_STRIDE \in Nat /\ Base(1) \in Int
    BY SizeFacts, ActPlaces DEF Fits, Base
  <2>2. QED
    BY <1>1, <1>3, <1>4, <1>5, <2>1, Multiplied
<1>7. Whole(j, "ffn2", l, 0, RowsOf(j))'
  BY <1>6, WholeRows
<1>8. UramHolds(j, l, At(13, 0, 0, 0))'
  BY <1>7 DEF UramHolds, At, RowsOf
<1>9. SameHbm(At(12, 0, 0, 0), At(13, 0, 0, 0))
  BY DEF SameHbm, SameEmbed, SameTemp, SameQueries, SameProbs, SameFfn, SameCache,
     QueriesThere, ProbsThere, ProbHead, PastFlush, At
<1>10. QED
  BY <1>1, <1>6, <1>8, <1>9, UramStep

\* The columns of a head.
LEMMA HeadCols ==
  ASSUME SizesFit, NEW h \in 0 .. NUM_HEADS - 1
  PROVE  /\ h * HEAD_WORDS \in Nat /\ h * HEAD_WORDS + HEAD_WORDS <= MODEL_STRIDE
         /\ (h * HEAD_WORDS) \div HEAD_WORDS = h /\ (h * HEAD_WORDS) % HEAD_WORDS = 0
         /\ \A c \in 0 .. HEAD_WORDS - 1 : h * HEAD_WORDS + c \in Cols
         /\ KEY_WORDS = HEAD_WORDS /\ HEAD_WORDS \in Nat \ {0}
<1>1. /\ KEY_WORDS = HEAD_WORDS /\ HEAD_WORDS \in Nat \ {0} /\ NUM_HEADS \in Nat
      /\ MODEL_STRIDE = NUM_HEADS * HEAD_WORDS
  BY SizeFacts
<1>2. h * HEAD_WORDS + HEAD_WORDS <= NUM_HEADS * HEAD_WORDS /\ h * HEAD_WORDS \in Nat
      /\ NUM_HEADS * HEAD_WORDS \in Nat
  BY <1>1, ProductStep
<1>3. (h * HEAD_WORDS + 0) \div HEAD_WORDS = h /\ (h * HEAD_WORDS + 0) % HEAD_WORDS = 0
  <2>1. h \in Nat /\ 0 \in 0 .. HEAD_WORDS - 1
    BY <1>1
  <2>2. QED
    BY <1>1, <2>1, DivideBack
<1>4. h * HEAD_WORDS + 0 = h * HEAD_WORDS
  BY <1>2
<1>5. \A c \in 0 .. HEAD_WORDS - 1 : h * HEAD_WORDS + c \in Cols
  BY <1>1, <1>2 DEF Cols
<1>6. QED
  BY <1>1, <1>2, <1>3, <1>4, <1>5

\* A tile needs no rounding.
LEMMA TileRound == RoundUp(TILE, TILE) = TILE
<1>1. TILE \in Nat \ {0} /\ 1 \in Nat
  BY AcceleratorAssumption
<1>2. RoundUp(1 * TILE, TILE) = 1 * TILE
  BY <1>1, RoundUpTo
<1>3. 1 * TILE = TILE
  BY <1>1
<1>4. QED
  BY <1>2, <1>3

\* A prefix of a prefix is a prefix.
LEMMA PrefixOfPrefix ==
  ASSUME NEW s \in Seq(Int), NEW n \in 0 .. Len(s), NEW m \in 0 .. n
  PROVE  Prefix(Prefix(s, n), m) = Prefix(s, m)
<1>1. Prefix(s, n) \in Seq(Int) /\ Len(Prefix(s, n)) = n
      /\ \A i \in 1 .. n : Prefix(s, n)[i] = s[i]
  BY DEF Prefix
<1>2. Prefix(s, m) \in Seq(Int) /\ Len(Prefix(s, m)) = m
      /\ \A i \in 1 .. m : Prefix(s, m)[i] = s[i]
  BY DEF Prefix
<1> DEFINE p == Prefix(s, n)
           q == Prefix(s, m)
<1>3. p \in Seq(Int) /\ Len(p) = n /\ \A i \in 1 .. n : p[i] = s[i]
  BY <1>1
<1>4. q \in Seq(Int) /\ Len(q) = m /\ \A i \in 1 .. m : q[i] = s[i]
  BY <1>2
<1> HIDE DEF p, q
<1>5. SubSeq(p, 1, m) = q
  <2>1. SubSeq(p, 1, m) \in Seq(Int) /\ Len(SubSeq(p, 1, m)) = m
        /\ \A i \in 1 .. m : SubSeq(p, 1, m)[i] = p[i]
    BY <1>3
  <2>2. \A i \in 1 .. m : SubSeq(p, 1, m)[i] = q[i]
    BY SMTT(40), <1>3, <1>4, <2>1
  <2>3. QED
    BY <1>4, <2>1, <2>2
<1>6. QED
  BY <1>5 DEF p, q, Prefix

\* The cached words a row attends to are those of its own sequence.
LEMMA CachedWord ==
  ASSUME Fits, NEW j \in TileJobs, NEW l \in 0 .. NUM_LAYERS - 1, NEW s, CacheHolds(j, l, s),
         tokens \in Seq(Int), Len(tokens) = TILE,
         NEW part \in {0, 1}, PastFlush(s, part), NEW r \in 0 .. RowsOf(j) - 1,
         NEW p \in 0 .. TILE - 1, p <= RowPos(j, r), NEW c \in Cols, NEW kind, NEW y
  PROVE  Hbm(CacheWord(l, part, p, c))
           = KvWord(IF part = 0 THEN "k" ELSE "v", Val(j, kind, l, r, y), p, c)
<1>1. CacheRow(l, part, p)
  BY DEF CacheHolds, Cached
<1>2. hbm[CacheWord(l, part, p, c)]
        = V(IF part = 0 THEN "k" ELSE "v", l, p, c, Prefix(tokens, p + 1))
  BY <1>1 DEF CacheRow
<1>3. RowPos(j, r) \in 0 .. TILE - 1 /\ TILE \in Nat
  BY JobShape, AcceleratorAssumption
<1>4. Prefix(Prefix(tokens, RowPos(j, r) + 1), p + 1) = Prefix(tokens, p + 1)
  <2>1. RowPos(j, r) + 1 \in 0 .. Len(tokens) /\ p + 1 \in 0 .. RowPos(j, r) + 1
    BY SMTT(40), <1>3
  <2>2. QED
    BY <2>1, PrefixOfPrefix
<1>5. Val(j, kind, l, r, y).layer = l
      /\ Val(j, kind, l, r, y).ctx = Prefix(tokens, RowPos(j, r) + 1)
  BY DEF Val, V
<1>6. CacheWord(l, part, p, c) \in HbmWords
  BY CacheAt
<1>7. QED
  BY <1>2, <1>4, <1>5, <1>6 DEF Hbm, KvWord

\* Step 3: a head's scores, against the keys in the cache.
LEMMA ScoreProduct ==
  ASSUME Fits, Control, busy, state = "S_ATT_SCORE", waiting_mm, MatmulEffect,
         tokens' = tokens, tokens \in Seq(Int), Len(tokens) = TILE,
         NEW j, NEW l, NEW h, j = req, l = layer_cnt, h = head_cnt,
         Facts(j, l, At(3, 0, h, 0))
  PROVE  UNCHANGED <<hbm, dma_word>> /\ Facts(j, l, At(3, 1, h, 0))'
<1>0. SizesFit
  BY DEF Fits
<1>1. /\ j \in TileJobs /\ l \in 0 .. NUM_LAYERS - 1 /\ wb = NONE /\ h \in 0 .. NUM_HEADS - 1
      /\ RowsOf(j) \in 1 .. TILE /\ att_rows = RowsOf(j) /\ att_keys = TILE
  BY RunNow DEF UnitStates
<1> DEFINE R == RowsOf(j)
           W == HEAD_WORDS
           a0 == act_base + ACT_SLAB + h * W
           b0 == kv_base + l * KV_LAYER_SIZE + h * W
           s == At(3, 0, h, 0)
<1>2. /\ mm_cmd.op = "OP_MATMUL_T" /\ mm_cmd.m = R /\ mm_cmd.k = TILE /\ mm_cmd.n = TILE
      /\ mm_cmd.a_base = a0 /\ mm_cmd.a_stride = MODEL_STRIDE
      /\ mm_cmd.b_base = b0 /\ mm_cmd.b_stride = MODEL_STRIDE
      /\ mm_cmd.out_col_offset = 0
  <2>1. mm_cmd = ScoreCommand
    BY DEF Control, Registers, CmdInv
  <2>2. HEAD_DIM = TILE
    BY SMT, <1>0 DEF SizesFit
  <2>3. QED
    BY <1>1, <2>1, <2>2 DEF ScoreCommand, Matmul, Low8, layer_kv_base, ACT_Q_OFFSET
<1>3. /\ W \in Nat \ {0} /\ KEY_WORDS = W /\ TILE \div WE = W /\ W * WE = TILE
      /\ TILE % TILE = 0 /\ TILE % WE = 0 /\ TILE \in Nat \ {0} /\ WE \in Nat \ {0}
      /\ W <= URAM_COL_WORDS /\ RoundUp(TILE, TILE) = TILE
  <2>0. TILE \in Nat \ {0} /\ MODEL_STRIDE \in Nat
    BY <1>0, SizeFacts
  <2>1. RoundUp(TILE, TILE) = TILE
    BY TileRound
  <2>2. W <= MODEL_STRIDE
    <3>1. h * W \in Nat /\ h * W + W <= MODEL_STRIDE /\ W \in Nat
      BY <1>0, <1>1, HeadCols
    <3> DEFINE y == h * W
    <3>2. y \in Nat /\ y + W <= MODEL_STRIDE
      BY <3>1
    <3> HIDE DEF y
    <3>3. QED
      BY <2>0, <3>1, <3>2
  <2>3. MODEL_STRIDE <= URAM_COL_WORDS /\ URAM_COL_WORDS \in Nat
    BY SMT, <1>0, AcceleratorAssumption DEF SizesFit
  <2>4. QED
    BY SMTT(40), <1>0, <2>1, <2>2, <2>3, SizeFacts
<1>4. /\ h * W \in Nat /\ (h * W) \div W = h /\ (h * W) % W = 0
      /\ \A x \in 0 .. W - 1 : h * W + x \in Cols
  BY <1>0, <1>1, HeadCols
<1>5. /\ UNCHANGED <<hbm, wb, dma_word>>
      /\ \A r \in 0 .. R - 1, c \in 0 .. W - 1 : Uram(<<r, 0 + c>>)' = Product(mm_cmd, r, c)
  <2>1. Exact(mm_cmd)
    BY <1>2, <1>3 DEF Exact
  <2>2. mm_cmd.n \div WE = W /\ RoundUp(mm_cmd.n, TILE) \div WE = W /\ 0 + W <= URAM_COL_WORDS
    BY <1>2, <1>3
  <2>3. R \in 1 .. TILE /\ R <= RoundUp(R, TILE) /\ R <= URAM_ROWS
    BY <1>1, TileRows
  <2> HIDE DEF R, W
  <2>4. QED
    BY <1>1, <1>2, <1>3, <2>1, <2>2, <2>3, MatmulView
<1>6. ASSUME NEW r \in 0 .. R - 1, NEW c \in 0 .. W - 1
      PROVE  Uram(<<r, c>>)' = Val(j, "score", l, r, h * KEY_WORDS + c)'
  <2> DEFINE a == ARow(mm_cmd, r)
  <2>0. r \in 0 .. TILE - 1
    BY <1>1, <1>3
  <2>1. \A x \in 0 .. W - 1 : a[x] = Val(j, "q", l, r, h * W + x)
    <3> SUFFICES ASSUME NEW x \in 0 .. W - 1
                 PROVE  a[x] = Val(j, "q", l, r, h * W + x)
      OBVIOUS
    <3>1. h * W + x \in Cols /\ ~(h * W + x < h * W)
      <4> DEFINE y == h * W
      <4>1. y \in Nat /\ y + x \in Cols
        BY <1>4
      <4> HIDE DEF y
      <4>2. ~(y + x < y)
        BY <1>3, <4>1
      <4>3. QED
        BY <4>1, <4>2 DEF y
    <3>2. HeadsDone(s) = h /\ QueriesThere(s)
      BY DEF HeadsDone, QueriesThere, At
    <3>3. hbm[ActAt(1, r, h * W + x)] = Val(j, "q", l, r, h * W + x)
      BY <3>1, <3>2 DEF Facts, HbmHolds, QueriesHold
    <3>4. ActAt(1, r, h * W + x) \in HbmWords
      BY <1>0, <2>0, <3>1, ActPlaces
    <3>5. a0 + r * MODEL_STRIDE + x = ActAt(1, r, h * W + x)
      <4>1. act_base \in Nat /\ ACT_SLAB \in Nat /\ 1 * ACT_SLAB = ACT_SLAB
            /\ r * MODEL_STRIDE \in Nat
        BY <1>0, <2>0, ActPlaces, CacheSizes
      <4>2. QED
        BY <1>4, <4>1 DEF ActAt
    <3>6. a[x] = Hbm(a0 + r * MODEL_STRIDE + x)
      BY <1>2, <1>3 DEF ARow
    <3>7. QED
      BY <3>3, <3>4, <3>5, <3>6 DEF Hbm
  <2> HIDE DEF a
  <2>2. IsRow(a, W, "q") /\ a[0] = Val(j, "q", l, r, h * W)
    BY SMTT(40), <1>3, <1>4, <2>1, RowOfVals
  <2>3. a[0].col = h * W /\ a[0].pos = RowPos(j, r)
    BY <2>2 DEF Val, V
  <2>4. ASSUME NEW t \in c * WE .. c * WE + WE - 1, t <= RowPos(j, r), NEW x \in 0 .. W - 1
        PROVE  BWord(mm_cmd, t, x) = KvWord("k", a[0], t, h * W + x)
    <3>1. t \in 0 .. TILE - 1
      <4>1. c * WE \in Nat /\ c \in Nat
        BY <1>3
      <4>2. RowPos(j, r) \in 0 .. TILE - 1
        BY <1>1, JobShape
      <4>3. QED
        BY SMTT(40), <1>3, <2>4, <4>1, <4>2
    <3>2. h * W + x \in Cols
      BY <1>4
    <3>3. b0 + t * MODEL_STRIDE + x = CacheWord(l, 0, t, h * W + x)
      <4>1. l * KV_LAYER_SIZE \in Nat /\ t * MODEL_STRIDE \in Nat /\ 0 * ACT_SLAB = 0
            /\ kv_base \in Nat /\ x \in Int
        <5>1. l \in Nat /\ t \in Nat /\ KV_LAYER_SIZE \in Nat /\ MODEL_STRIDE \in Nat
          BY <1>1, <1>3, <3>1, CacheSizes
        <5>2. l * KV_LAYER_SIZE \in Nat /\ t * MODEL_STRIDE \in Nat
          BY SMT, <5>1
        <5>3. ACT_SLAB \in Nat /\ kv_base \in Nat /\ x \in Int
          BY <2>4, CacheSizes, DimAssumption
        <5>4. QED
          BY <5>2, <5>3
      <4>2. QED
        BY <1>4, <4>1 DEF CacheWord
    <3>4. PastFlush(s, 0)
      BY DEF PastFlush, At
    <3>5. Hbm(CacheWord(l, 0, t, h * W + x))
            = KvWord("k", Val(j, "q", l, r, h * W), t, h * W + x)
      <4>1. CacheHolds(j, l, s)
        BY DEF Facts, HbmHolds
      <4> HIDE DEF s
      <4>2. QED
        BY <1>1, <2>4, <3>1, <3>2, <3>4, <4>1, CachedWord
    <3>6. QED
      BY <1>2, <2>2, <3>3, <3>5 DEF BWord
  <2>5. Score(mm_cmd, r, c) = Computed(a[0], "score", h * KEY_WORDS + c)
    BY ZenonT(60), <1>3, <1>4, <2>2, <2>3, <2>4 DEF Score, a
  <2>6. Product(mm_cmd, r, c) = Val(j, "score", l, r, h * KEY_WORDS + c)
    BY <1>2, <2>2, <2>5 DEF Product, Computed, Val, V
  <2>7. 0 + c = c
    BY <1>3
  <2>8. QED
    BY <1>5, <2>6, <2>7, SameVal
<1>7. HeadRows(j, "score", l, 0, R, h)'
  BY <1>3, <1>6 DEF HeadRows, RowsOf, KEY_WORDS
<1>8. HeadRows(j, "prob", l, 0, 0, h)'
  BY DEF HeadRows
<1>9. UramHolds(j, l, At(3, 1, h, 0))'
  BY <1>7, <1>8 DEF UramHolds, At, RowsOf
<1>10. SameHbm(s, At(3, 1, h, 0))
  BY DEF SameHbm, SameEmbed, SameTemp, SameQueries, SameProbs, SameFfn, SameCache,
     QueriesThere, HeadsDone, ProbsThere, ProbHead, PastFlush, At
<1>11. QED
  BY <1>1, <1>5, <1>9, <1>10, UramStep

\* Step 3: a head's output, from its probabilities and the values in the cache.
LEMMA OutProduct ==
  ASSUME Fits, Control, busy, state = "S_ATT_OUT", waiting_mm, MatmulEffect,
         tokens' = tokens, tokens \in Seq(Int), Len(tokens) = TILE,
         NEW j, NEW l, NEW h, j = req, l = layer_cnt, h = head_cnt,
         Facts(j, l, At(3, 3, h, 0))
  PROVE  UNCHANGED <<hbm, dma_word>> /\ Facts(j, l, At(3, 4, h, 0))'
<1>0. SizesFit
  BY DEF Fits
<1>1. /\ j \in TileJobs /\ l \in 0 .. NUM_LAYERS - 1 /\ wb = NONE /\ h \in 0 .. NUM_HEADS - 1
      /\ RowsOf(j) \in 1 .. TILE /\ att_rows = RowsOf(j) /\ att_keys = TILE
      /\ Words(att_keys) = KEY_WORDS
  BY RunNow DEF UnitStates
<1> DEFINE R == RowsOf(j)
           W == HEAD_WORDS
           off == h * W
           b0 == kv_base + l * KV_LAYER_SIZE + ACT_SLAB + off
           s == At(3, 3, h, 0)
<1>2. /\ W \in Nat \ {0} /\ KEY_WORDS = W /\ TILE \div WE = W
      /\ TILE % TILE = 0 /\ TILE % WE = 0 /\ TILE \in Nat \ {0}
      /\ RoundUp(TILE, TILE) = TILE
  BY <1>0, TileRound, SizeFacts
<1>3. /\ off \in Nat /\ off \div W = h /\ off % W = 0
      /\ \A x \in 0 .. W - 1 : off + x \in Cols
  BY <1>0, <1>1, HeadCols
<1>4. off + W <= MODEL_STRIDE /\ MODEL_STRIDE \in 2 .. 256
      /\ MODEL_STRIDE <= URAM_COL_WORDS /\ URAM_COL_WORDS \in Nat
  BY SMT, <1>0, <1>1, HeadCols, AcceleratorAssumption DEF SizesFit
<1>5. Low8(off) = off
  <2> HIDE DEF off, W
  <2>1. off \in 0 .. 255
    BY <1>2, <1>3, <1>4
  <2>2. QED
    BY <2>1 DEF Low8
<1>6. /\ mm_cmd.op = "OP_MATMUL_AA" /\ mm_cmd.m = R /\ mm_cmd.k = TILE /\ mm_cmd.n = TILE
      /\ mm_cmd.a_base = Base(4) /\ mm_cmd.a_stride = KEY_WORDS
      /\ mm_cmd.b_base = b0 /\ mm_cmd.b_stride = MODEL_STRIDE
      /\ mm_cmd.out_col_offset = off
  <2>1. mm_cmd = OutCommand
    BY DEF Control, Registers, CmdInv
  <2>2. HEAD_DIM = TILE
    BY SMT, <1>0 DEF SizesFit
  <2>3. QED
    BY <1>1, <1>5, <2>1, <2>2 DEF OutCommand, Matmul, layer_kv_base, ACT_ATTN_OFFSET,
       KV_V_OFFSET, Base
<1>7. /\ UNCHANGED <<hbm, wb, dma_word>>
      /\ \A r \in 0 .. R - 1, c \in 0 .. W - 1 : Uram(<<r, off + c>>)' = Product(mm_cmd, r, c)
  <2>1. Exact(mm_cmd)
    BY <1>2, <1>6 DEF Exact
  <2>2. mm_cmd.n \div WE = W /\ RoundUp(mm_cmd.n, TILE) \div WE = W
    BY <1>2, <1>6
  <2>3. R \in 1 .. TILE /\ R <= RoundUp(R, TILE) /\ R <= URAM_ROWS
    BY <1>1, TileRows
  <2> HIDE DEF R, W, off
  <2>4. off + W <= URAM_COL_WORDS
    BY <1>2, <1>3, <1>4
  <2>5. QED
    BY <1>1, <1>2, <1>3, <1>6, <2>1, <2>2, <2>3, <2>4, MatmulView
<1>8. ASSUME NEW r \in 0 .. R - 1, NEW c \in 0 .. W - 1
      PROVE  Uram(<<r, off + c>>)' = Val(j, "att", l, r, off + c)'
  <2> DEFINE a == ARow(mm_cmd, r)
  <2>0. r \in 0 .. TILE - 1 /\ RowPos(j, r) \in 0 .. TILE - 1
    BY <1>1, <1>2, JobShape
  <2>1. \A x \in 0 .. W - 1 : a[x] = Val(j, "prob", l, r, off + x)
    <3> SUFFICES ASSUME NEW x \in 0 .. W - 1
                 PROVE  a[x] = Val(j, "prob", l, r, off + x)
      OBVIOUS
    <3>1. ProbHead(s) = h /\ ProbsThere(s)
      BY DEF ProbHead, ProbsThere, At
    <3>2. hbm[ProbAt(r, x)] = Val(j, "prob", l, r, off + x)
      BY <1>2, <3>1 DEF Facts, HbmHolds, ProbsHold
    <3>3. ProbAt(r, x) \in HbmWords
      BY <1>0, <1>2, <2>0, ActPlaces
    <3>4. a[x] = Hbm(Base(4) + r * KEY_WORDS + x)
      BY <1>2, <1>6 DEF ARow
    <3>5. Base(4) + r * KEY_WORDS + x = ProbAt(r, x)
      BY DEF ProbAt, Base
    <3>6. QED
      BY <3>2, <3>3, <3>4, <3>5 DEF Hbm
  <2> HIDE DEF a
  <2>2. IsRow(a, W, "prob") /\ a[0] = Val(j, "prob", l, r, off)
    BY SMTT(40), <1>2, <1>3, <2>1, RowOfVals
  <2>3. a[0].col = off /\ a[0].pos = RowPos(j, r)
    BY <2>2 DEF Val, V
  <2>4. ASSUME NEW t \in 0 .. RowPos(j, r)
        PROVE  BWord(mm_cmd, t, c) = KvWord("v", a[0], t, off + c)
    <3>1. t \in 0 .. TILE - 1 /\ t <= RowPos(j, r)
      BY <1>2, <2>0
    <3>2. off + c \in Cols
      BY <1>3
    <3>3. b0 + t * MODEL_STRIDE + c = CacheWord(l, 1, t, off + c)
      <4>1. l * KV_LAYER_SIZE \in Nat /\ t * MODEL_STRIDE \in Nat /\ 1 * ACT_SLAB = ACT_SLAB
            /\ ACT_SLAB \in Nat /\ kv_base \in Nat /\ c \in Int
        <5>1. l \in Nat /\ t \in Nat /\ KV_LAYER_SIZE \in Nat /\ MODEL_STRIDE \in Nat
          BY <1>1, <1>2, <3>1, CacheSizes
        <5>2. l * KV_LAYER_SIZE \in Nat /\ t * MODEL_STRIDE \in Nat
          BY SMT, <5>1
        <5>3. ACT_SLAB \in Nat /\ kv_base \in Nat /\ c \in Int
          BY <1>2, <1>3, CacheSizes, DimAssumption
        <5>4. QED
          BY <5>2, <5>3
      <4>2. QED
        BY SMTT(40), <1>3, <4>1 DEF CacheWord
    <3>4. PastFlush(s, 1)
      BY DEF PastFlush, At
    <3>5. Hbm(CacheWord(l, 1, t, off + c))
            = KvWord("v", Val(j, "prob", l, r, off), t, off + c)
      <4>1. CacheHolds(j, l, s)
        BY DEF Facts, HbmHolds
      <4> HIDE DEF s
      <4>2. QED
        BY <1>1, <3>1, <3>2, <3>4, <4>1, CachedWord
    <3>6. QED
      BY <1>6, <2>2, <3>3, <3>5 DEF BWord
  <2>5. Attended(mm_cmd, r, c) = Computed(a[0], "att", off + c)
    <3> DEFINE out == (a[0].col \div KEY_WORDS) * HEAD_WORDS + c
    <3>1. Attended(mm_cmd, r, c)
            = IF /\ IsRow(a, mm_cmd.k \div WE, "prob") /\ a[0].col % KEY_WORDS = 0
                 /\ a[0].pos < mm_cmd.k
                 /\ \A t \in 0 .. a[0].pos : BWord(mm_cmd, t, c) = KvWord("v", a[0], t, out)
                THEN Computed(a[0], "att", out) ELSE BAD
      BY DEF Attended, a
    <3>2. mm_cmd.k \div WE = W /\ a[0].col % KEY_WORDS = 0 /\ a[0].pos < mm_cmd.k
      BY <1>2, <1>3, <1>6, <2>0, <2>3
    <3>3. a[0].col \div KEY_WORDS = h
      BY <1>2, <1>3, <2>3
    <3>4. out = off + c
      BY <3>3
    <3> HIDE DEF out, off, W
    <3>5. \A t \in 0 .. a[0].pos : BWord(mm_cmd, t, c) = KvWord("v", a[0], t, out)
      BY <2>3, <2>4, <3>4
    <3>6. QED
      BY <2>2, <3>1, <3>2, <3>4, <3>5
  <2>6. Product(mm_cmd, r, c) = Val(j, "att", l, r, off + c)
    BY <1>6, <2>2, <2>5 DEF Product, Computed, Val, V
  <2>7. QED
    BY <1>7, <2>6, SameVal
<1>9. Holding(j, "att", l, 0, R, off, W)'
  <2> SUFFICES ASSUME NEW r \in 0 .. R - 1, NEW d \in off .. off + W - 1
               PROVE  Uram(<<r, d>>)' = Val(j, "att", l, r, d)'
    BY DEF Holding, RowsOf
  <2>1. d - off \in 0 .. W - 1 /\ off + (d - off) = d
    <3>1. off \in Int /\ W \in Int
      BY <1>2, <1>3
    <3> HIDE DEF off, W
    <3>2. QED
      BY <3>1
  <2>2. QED
    BY <1>8, <2>1
<1>10. UramHolds(j, l, At(3, 4, h, 0))'
  BY <1>9 DEF UramHolds, At, RowsOf
<1>11. SameHbm(s, At(3, 4, h, 0))
  BY DEF SameHbm, SameEmbed, SameTemp, SameQueries, SameProbs, SameFfn, SameCache,
     QueriesThere, HeadsDone, ProbsThere, ProbHead, PastFlush, At
<1>12. QED
  BY <1>1, <1>7, <1>10, <1>11, UramStep

-----------------------------------------------------------------------------
(* The scalar units.                                                       *)

\* A unit given one row of L words replaces that row.
LEMMA RowUnit ==
  ASSUME NoneApart, NEW u, UnitEffect(u), NEW L \in Nat \ {0},
         NEW row \in 0 .. URAM_ROWS - 1, L <= URAM_COL_WORDS,
         2^nm.col_bits = L * WE, Offset(u) = row * (L * WE), nm.dim = L * WE
  PROVE  /\ UNCHANGED hbm /\ UnitWords = L
         /\ \A c \in 0 .. L - 1 : In(u)[c] = Uram(<<row, c>>)
         /\ \A c \in 0 .. L - 1 : Uram(<<row, c>>)' = Output(u, c)
         /\ \A x \in UramWords : x[1] # row => Uram(x)' = Uram(x)
         /\ dma_word' = dma_word \/ (dma_word' # NONE /\ dma_word'.tag = L - 1)
<1>1. \A c \in 0 .. L - 1 : Cell(row, L, c) = <<row, c>>
  <2> SUFFICES ASSUME NEW c \in 0 .. L - 1 PROVE Cell(row, L, c) = <<row, c>>
    OBVIOUS
  <2>1. c \div L = 0 /\ c % L = c
    OBVIOUS
  <2>2. QED
    BY <2>1, AcceleratorAssumption DEF Cell
<1>2. \A c \in 0 .. L - 1 : Cell(row, L, c) \in UramWords
  BY <1>1, AcceleratorAssumption DEF UramWords
<1>3. row \in Nat
  BY AcceleratorAssumption
<1> DEFINE size == L * WE
           at == row * size
<1>4. 2^nm.col_bits = size /\ Offset(u) = at /\ nm.dim = size
  OBVIOUS
<1>5. /\ UNCHANGED hbm /\ UnitWords = L
      /\ \A i \in 0 .. L - 1 : In(u)[i] = Uram(Cell(row, L, i))
      /\ \A i \in 0 .. L - 1 : Uram(Cell(row, L, i))' = Output(u, i)
      /\ \A x \in UramWords :
           (\A i \in 0 .. L - 1 : x # Cell(row, L, i)) => Uram(x)' = Uram(x)
      /\ dma_word' = dma_word \/ (dma_word' # NONE /\ dma_word'.tag = L - 1)
  BY <1>2, <1>3, <1>4, UnitView
<1>6. \A c \in 0 .. L - 1 : Uram(<<row, c>>)' = Output(u, c)
  BY <1>1, <1>5
<1>7. \A x \in UramWords : x[1] # row => Uram(x)' = Uram(x)
  BY <1>1, <1>5
<1>8. QED
  BY <1>1, <1>5, <1>6, <1>7

\* A unit given R rows of L words replaces those.
LEMMA BlockUnit ==
  ASSUME NoneApart, NEW u, UnitEffect(u), NEW L \in Nat \ {0},
         NEW R \in 1 .. URAM_ROWS, L <= URAM_COL_WORDS,
         2^nm.col_bits = L * WE, Offset(u) = 0, nm.dim = (R * L) * WE
  PROVE  /\ UNCHANGED hbm /\ UnitWords = R * L
         /\ \A r \in 0 .. R - 1, c \in 0 .. L - 1 :
              /\ r * L + c \in 0 .. R * L - 1
              /\ In(u)[r * L + c] = Uram(<<r, c>>)
              /\ Uram(<<r, c>>)' = Output(u, r * L + c)
         /\ dma_word' = dma_word \/ (dma_word' # NONE /\ dma_word'.tag = R * L - 1)
<1> DEFINE N == R * L
<1>0. R \in Nat \ {0} /\ URAM_ROWS \in Nat /\ URAM_COL_WORDS \in Nat
  BY AcceleratorAssumption
<1>1. N \in Nat \ {0}
  BY <1>0
<1>2. ASSUME NEW i \in 0 .. N - 1
      PROVE  Cell(0, L, i) \in UramWords
  <2>1. i \in Nat /\ i < R * L
    BY <1>0, <1>1
  <2>2. i \div L \in 0 .. R - 1 /\ i % L \in 0 .. L - 1
    BY <1>0, <2>1
  <2>3. QED
    BY <1>0, <2>2 DEF Cell, UramWords
<1>3. ASSUME NEW r \in 0 .. R - 1, NEW c \in 0 .. L - 1
      PROVE  r * L + c \in 0 .. N - 1 /\ Cell(0, L, r * L + c) = <<r, c>>
  <2>1. (r * L + c) \div L = r /\ (r * L + c) % L = c
    <3>1. r \in Nat
      BY <1>0
    <3>2. QED
      BY <3>1, DivideBack
  <2>2. r * L + L <= N /\ r * L \in Nat
    <3>1. r \in Nat /\ r < R
      OBVIOUS
    <3>2. QED
      BY <1>0, <3>1, ProductStep
  <2> HIDE DEF N
  <2>3. r * L + c \in 0 .. N - 1
    BY <1>1, <2>2
  <2>4. QED
    BY <2>1, <2>3 DEF Cell
<1>4. 2^nm.col_bits = L * WE /\ Offset(u) = 0 * (L * WE) /\ nm.dim = N * WE
  BY DimAssumption
<1> HIDE DEF N
<1>5. /\ UNCHANGED hbm /\ UnitWords = N
      /\ \A i \in 0 .. N - 1 : In(u)[i] = Uram(Cell(0, L, i))
      /\ \A i \in 0 .. N - 1 : Uram(Cell(0, L, i))' = Output(u, i)
      /\ dma_word' = dma_word \/ (dma_word' # NONE /\ dma_word'.tag = N - 1)
  BY <1>1, <1>2, <1>4, UnitView
<1>6. ASSUME NEW r \in 0 .. R - 1, NEW c \in 0 .. L - 1
      PROVE  /\ r * L + c \in 0 .. N - 1
             /\ In(u)[r * L + c] = Uram(<<r, c>>)
             /\ Uram(<<r, c>>)' = Output(u, r * L + c)
  BY <1>3, <1>5
<1>7. QED
  BY <1>5, <1>6 DEF N

\* A product of up to n and D fits a 16-bit register.
Small(n, D) == n \in Nat /\ D \in Nat /\ n * D < 65536

\* A row address that fits its 16-bit register is not cut.
LEMMA SmallProduct ==
  ASSUME NEW n, NEW D, Small(n, D), NEW r \in 0 .. n
  PROVE  Wrap(r * D) = r * D
<1>0. n \in Nat /\ D \in Nat /\ n * D < 65536
  BY DEF Small
<1>1. n - r \in Nat /\ r \in Nat
  BY <1>0
<1>2. (n - r) * D \in Nat /\ n * D = r * D + (n - r) * D /\ r * D \in Nat /\ n * D \in Nat
  BY <1>0, <1>1
<1> DEFINE y == r * D
           z == n * D
<1>3. y \in Nat /\ y <= z /\ z < 65536 /\ z \in Nat
  BY <1>0, <1>2
<1> HIDE DEF y, z
<1>4. y % 65536 = y
  BY <1>3
<1>5. QED
  BY SMT, <1>4 DEF y, Wrap

\* The row a unit works on is one of the job's.
LEMMA RowNow ==
  ASSUME Fits, Control, busy, InUnit("ln") \/ InUnit("sm")
  PROVE  /\ nm_row_cnt \in 0 .. RowsOf(req) - 1 /\ nm_row_cnt \in 0 .. URAM_ROWS - 1
         /\ RowsOf(req) \in 1 .. URAM_ROWS
<1>1. RowsOf(req) \in 1 .. TILE /\ bt = RowsOf(req) /\ TypeOK /\ RowsInv
  BY RunNow DEF Control, Registers
<1>2. nm_row_cnt \in Dims
  BY SMTT(40), <1>1 DEF TypeOK, FsmTypeOK
<1>3. nm_row_cnt \in Nat
  BY <1>2, DimsType
<1>4. nm_row_cnt < bt
  BY <1>1 DEF RowsInv
<1>5. TILE \in Nat /\ URAM_ROWS \in Nat /\ TILE <= URAM_ROWS
  BY SMT, AcceleratorAssumption DEF Fits, SizesFit
<1>6. QED
  BY <1>1, <1>3, <1>4, <1>5

\* What a row of the layernorm is given.
LEMMA NormNow ==
  ASSUME Fits, Control, busy, InUnit("ln"), nm = UnitSetup("ln"),
         NEW j, NEW l, NEW row, j = req, l = layer_cnt, row = nm_row_cnt
  PROVE  /\ row \in 0 .. RowsOf(j) - 1 /\ row \in 0 .. URAM_ROWS - 1
         /\ 2^nm.col_bits = MODEL_STRIDE * WE
         /\ Offset("ln") = row * (MODEL_STRIDE * WE) /\ nm.dim = MODEL_STRIDE * WE
         /\ nm.rd_base = weight_base + l * LAYER_SIZE
              + (IF step_cfg = 0 THEN LAYER_LN1_OFFSET ELSE LAYER_LN2_OFFSET)
<1>1. RowsOf(j) \in 1 .. TILE /\ bt = RowsOf(j) /\ TypeOK /\ RowsInv
  BY RunNow DEF Control, Registers
<1>2. row \in 0 .. RowsOf(j) - 1 /\ row \in 0 .. URAM_ROWS - 1
  BY RowNow
<1>3. MODEL_DIM = MODEL_STRIDE * WE /\ 2^CFG_COL_MOD = MODEL_DIM
      /\ TILE * MODEL_DIM < 65536 /\ MODEL_DIM \in Nat \ {0} /\ TILE \in Nat \ {0}
  BY SMT, SizeFacts DEF Fits, SizesFit, MODEL_DIM
<1>4. /\ nm.col_bits = CFG_COL_MOD /\ nm.addr_offset = RowOffset(MODEL_DIM)
      /\ nm.rd_base = layer_wgt_base
           + (IF step_cfg = 0 THEN LAYER_LN1_OFFSET ELSE LAYER_LN2_OFFSET)
      /\ nm.dim = MODEL_DIM
  BY <1>1 DEF TypeOK, FsmTypeOK, UnitSetup
<1>5. RowOffset(MODEL_DIM) = row * MODEL_DIM
  <2>1. row \in 0 .. TILE
    BY <1>1, <1>2, <1>3
  <2>2. Small(TILE, MODEL_DIM)
    BY <1>3 DEF Small
  <2>3. Wrap(row * MODEL_DIM) = row * MODEL_DIM
    BY <2>1, <2>2, SmallProduct
  <2>4. QED
    BY <2>3 DEF RowOffset
<1>6. QED
  BY <1>2, <1>3, <1>4, <1>5 DEF Offset, layer_wgt_base

\* act_dma reads its base when it holds no word, or one with another tag.
LEMMA DmaReads ==
  ASSUME DmaInv, NEW i
  PROVE  DmaRead(i) = Hbm(nm.rd_base + i)
<1>1. i = 0 /\ dma_word # NONE => dma_word.tag # 0
  BY DEF DmaInv
<1>2. QED
  BY <1>1 DEF DmaRead

\* The parameters of a layer's norm.
Params(l, off, n) ==
  \A x \in 0 .. n - 1 :
    DmaRead(x) = V("weight", 0, 0, weight_base + l * LAYER_SIZE + off + x, <<>>)

\* A norm reads its layer's gamma and beta, whatever word act_dma still caches.
LEMMA NormParams ==
  ASSUME Fits, DmaInv, NEW l \in 0 .. NUM_LAYERS - 1,
         NEW off \in {LAYER_LN1_OFFSET, LAYER_LN2_OFFSET},
         nm.rd_base = weight_base + l * LAYER_SIZE + off
  PROVE  Params(l, off, MODEL_STRIDE)
<1> SUFFICES ASSUME NEW x \in 0 .. MODEL_STRIDE - 1
             PROVE  DmaRead(x) = V("weight", 0, 0, weight_base + l * LAYER_SIZE + off + x, <<>>)
  BY DEF Params
<1> DEFINE ms == MODEL_STRIDE
           a == MODEL_DIM * MODEL_STRIDE
           b == MODEL_DIM * F_STRIDE
           d == F_DIM * MODEL_STRIDE
<1>1. ms \in Nat \ {0} /\ a \in Nat /\ b \in Nat /\ d \in Nat
  <2>1. SizesFit
    BY DEF Fits
  <2>2. MODEL_STRIDE \in Nat \ {0} /\ MODEL_DIM \in Nat /\ F_STRIDE \in Nat /\ F_DIM \in Nat
    BY <2>1, SizeFacts
  <2>3. QED
    BY <2>2
<1>2. /\ LAYER_LN1_OFFSET = 4 * a + b + d /\ LAYER_LN2_OFFSET = 4 * a + b + d + 2 * ms
      /\ LAYER_SIZE = 4 * a + b + d + 2 * ms + 2 * ms
  <2>1. 4 * MODEL_DIM * MODEL_STRIDE = 4 * (MODEL_DIM * MODEL_STRIDE)
    BY SizeFacts DEF Fits
  <2>2. QED
    BY <2>1 DEF LAYER_LN1_OFFSET, LAYER_LN2_OFFSET, LAYER_FFN1_OFFSET, LAYER_FFN2_OFFSET,
       LAYER_SIZE
<1>3. x \in 0 .. ms - 1
  OBVIOUS
<1> HIDE DEF ms, a, b, d
<1>4. off + x \in 0 .. LAYER_SIZE - 1 /\ off \in Nat /\ x \in Int
  BY <1>1, <1>2, <1>3
<1>5. weight_base + l * LAYER_SIZE + (off + x) \notin HbmWords
  BY <1>4, WeightApart
<1>6. weight_base + l * LAYER_SIZE \in Int
  <2>1. LAYER_SIZE \in Nat /\ weight_base \in Nat /\ l \in Int
    BY <1>1, <1>2, DimAssumption, AcceleratorAssumption DEF NUM_LAYERS
  <2>2. QED
    BY <2>1
<1>7. weight_base + l * LAYER_SIZE + (off + x) = weight_base + l * LAYER_SIZE + off + x
  <2> DEFINE y == weight_base + l * LAYER_SIZE
  <2>1. y \in Int
    BY <1>6
  <2> HIDE DEF y
  <2>2. y + (off + x) = y + off + x
    BY <1>4, <2>1
  <2>3. QED
    BY <2>2 DEF y
<1>8. DmaRead(x) = Hbm(nm.rd_base + x)
  BY DmaReads
<1>9. QED
  BY <1>5, <1>7, <1>8 DEF Hbm

\* A normalised word.
LEMMA NormWord ==
  ASSUME Fits, DmaInv, NEW j, NEW l \in 0 .. NUM_LAYERS - 1, NEW row, NEW first \in BOOLEAN,
         nm.rd_base = weight_base + l * LAYER_SIZE
           + (IF first THEN LAYER_LN1_OFFSET ELSE LAYER_LN2_OFFSET),
         UnitWords = MODEL_STRIDE,
         \A c \in Cols : In("ln")[c] = Val(j, IF first THEN "x" ELSE "mid", l, row, c),
         NEW c \in Cols
  PROVE  Output("ln", c) = Val(j, IF first THEN "ln1" ELSE "ln2", l, row, c)
<1> DEFINE w == In("ln")
           from == IF first THEN "x" ELSE "mid"
           off == IF first THEN LAYER_LN1_OFFSET ELSE LAYER_LN2_OFFSET
           is(kind, at) ==
             /\ UnitWords = MODEL_STRIDE /\ w[0].col = 0 /\ IsRow(w, MODEL_STRIDE, kind)
             /\ \A x \in 0 .. UnitWords - 1 :
                  DmaRead(x) = V("weight", 0, 0,
                                 weight_base + w[0].layer * LAYER_SIZE + at + x, <<>>)
<1>1. MODEL_STRIDE \in Nat \ {0}
  BY SizeFacts DEF Fits
<1>2. \A x \in 0 .. MODEL_STRIDE - 1 : w[x] = Val(j, from, l, row, 0 + x)
  BY <1>1 DEF Cols
<1>3. Params(l, off, MODEL_STRIDE)
  BY NormParams
<1>4. Output("ln", c) = CASE is("x", LAYER_LN1_OFFSET) -> [w[c] EXCEPT !.kind = "ln1"]
                          [] is("mid", LAYER_LN2_OFFSET) -> [w[c] EXCEPT !.kind = "ln2"]
                          [] OTHER -> BAD
  BY DEF Output, Normalized
<1> HIDE DEF w
<1>5. IsRow(w, MODEL_STRIDE, from) /\ w[0] = Val(j, from, l, row, 0)
  BY <1>1, <1>2, RowOfVals
<1>6. w[0].col = 0 /\ w[0].layer = l /\ w[0].kind = from
  BY <1>5 DEF Val, V
<1>7. is(from, off)
  BY <1>3, <1>5, <1>6 DEF Params
<1>8. IF first THEN ~is("mid", LAYER_LN2_OFFSET) ELSE ~is("x", LAYER_LN1_OFFSET)
  BY <1>6 DEF IsRow
<1>9. w[c] = Val(j, from, l, row, c)
  BY DEF w
<1>10. CASE first
  <2>1. is("x", LAYER_LN1_OFFSET) /\ ~is("mid", LAYER_LN2_OFFSET)
    BY <1>7, <1>8, <1>10
  <2> HIDE DEF is
  <2>2. Output("ln", c) = [w[c] EXCEPT !.kind = "ln1"]
    BY <1>4, <2>1
  <2>3. [Val(j, "x", l, row, c) EXCEPT !.kind = "ln1"] = Val(j, "ln1", l, row, c)
    BY DEF Val, V
  <2>4. QED
    BY <1>9, <1>10, <2>2, <2>3
<1>11. CASE ~first
  <2>1. is("mid", LAYER_LN2_OFFSET) /\ ~is("x", LAYER_LN1_OFFSET)
    BY <1>7, <1>8, <1>11
  <2> HIDE DEF is
  <2>2. Output("ln", c) = [w[c] EXCEPT !.kind = "ln2"]
    BY <1>4, <2>1
  <2>3. [Val(j, "mid", l, row, c) EXCEPT !.kind = "ln2"] = Val(j, "ln2", l, row, c)
    BY DEF Val, V
  <2>4. QED
    BY <1>9, <1>11, <2>2, <2>3
<1>12. QED
  BY <1>10, <1>11

\* What Whole says, word by word.
LEMMA WholeIs ==
  ASSUME Fits, NEW j, NEW kind, NEW l, NEW from, NEW to
  PROVE  Whole(j, kind, l, from, to) <=>
           \A r \in from .. to - 1, c \in Cols : Uram(<<r, c>>) = Val(j, kind, l, r, c)
<1>1. 0 .. 0 + MODEL_STRIDE - 1 = Cols
  <2>1. MODEL_STRIDE \in Nat
    BY SizeFacts DEF Fits
  <2>2. QED
    BY <2>1 DEF Cols
<1>2. QED
  BY <1>1 DEF Whole, Holding

\* Whole rows of the next state, word by word.
LEMMA WholeNext ==
  ASSUME Fits, tokens' = tokens, NEW j, NEW kind, NEW l, NEW from, NEW to
  PROVE  Whole(j, kind, l, from, to)' <=>
           \A r \in from .. to - 1, c \in Cols : Uram(<<r, c>>)' = Val(j, kind, l, r, c)
<1>1. 0 .. 0 + MODEL_STRIDE - 1 = Cols
  <2>1. MODEL_STRIDE \in Nat
    BY SizeFacts DEF Fits
  <2>2. QED
    BY <2>1 DEF Cols
<1>2. \A r, c : Val(j, kind, l, r, c)' = Val(j, kind, l, r, c)
  BY SameVal
<1>3. QED
  BY <1>1, <1>2 DEF Whole, Holding, MODEL_STRIDE

\* A row written below those already written.
LEMMA NextRow ==
  ASSUME Fits, tokens' = tokens, NEW j, NEW l, NEW from, NEW to,
         NEW R \in 1 .. URAM_ROWS, RowsOf(j) = R, NEW row \in 0 .. R - 1,
         Whole(j, to, l, 0, row), Whole(j, from, l, row, R),
         \A c \in Cols : Uram(<<row, c>>)' = Val(j, to, l, row, c),
         \A x \in UramWords : x[1] # row => Uram(x)' = Uram(x)
  PROVE  Whole(j, to, l, 0, row + 1)' /\ Whole(j, from, l, row + 1, R)'
<1>1. /\ MODEL_STRIDE \in Nat \ {0} /\ MODEL_STRIDE <= URAM_COL_WORDS
      /\ URAM_COL_WORDS \in Nat /\ URAM_ROWS \in Nat
  BY SMT, SizeFacts, AcceleratorAssumption DEF Fits, SizesFit
<1>2. \A r \in 0 .. R - 1, c \in Cols : <<r, c>> \in UramWords
  BY <1>1 DEF UramWords, Cols
<1>4. /\ \A r \in 0 .. row - 1, c \in Cols : Uram(<<r, c>>) = Val(j, to, l, r, c)
      /\ \A r \in row .. R - 1, c \in Cols : Uram(<<r, c>>) = Val(j, from, l, r, c)
  BY WholeIs
<1>5. \A r \in 0 .. row, c \in Cols : Uram(<<r, c>>)' = Val(j, to, l, r, c)
  <2> SUFFICES ASSUME NEW r \in 0 .. row, NEW c \in Cols
               PROVE  Uram(<<r, c>>)' = Val(j, to, l, r, c)
    OBVIOUS
  <2>1. CASE r = row
    BY <2>1
  <2>2. CASE r # row
    <3>1. r \in 0 .. row - 1 /\ r \in 0 .. R - 1
      BY <1>1, <2>2
    <3>2. <<r, c>> \in UramWords /\ <<r, c>>[1] # row
      BY <1>2, <2>2, <3>1
    <3>3. QED
      BY <1>4, <3>1, <3>2
  <2>3. QED
    BY <2>1, <2>2
<1>6. \A r \in row + 1 .. R - 1, c \in Cols : Uram(<<r, c>>)' = Val(j, from, l, r, c)
  <2> SUFFICES ASSUME NEW r \in row + 1 .. R - 1, NEW c \in Cols
               PROVE  Uram(<<r, c>>)' = Val(j, from, l, r, c)
    OBVIOUS
  <2>1. r \in row .. R - 1 /\ r \in 0 .. R - 1 /\ r # row
    BY <1>1
  <2>2. <<r, c>> \in UramWords /\ <<r, c>>[1] # row
    BY <1>2, <2>1
  <2>3. QED
    BY <1>4, <2>1, <2>2
<1>7. Whole(j, to, l, 0, row + 1)'
  <2>1. row + 1 - 1 = row
    BY <1>1
  <2>2. QED
    BY <1>5, <2>1, WholeNext
<1>8. Whole(j, from, l, row + 1, R)'
  BY <1>6, WholeNext
<1>9. QED
  BY <1>7, <1>8

\* A row of the first or second norm: the row after it is next.
LEMMA NormRow ==
  ASSUME Fits, NoneApart, Control, busy, InUnit("ln"), nm = UnitSetup("ln"),
         UnitEffect("ln"), tokens' = tokens, DmaInv,
         NEW j, NEW l, NEW i, NEW row,
         j = req, l = layer_cnt, i = step_idx, row = nm_row_cnt,
         Facts(j, l, At(i, 0, 0, row))
  PROVE  UNCHANGED hbm /\ Facts(j, l, At(i, 0, 0, row + 1))'
<1>1. /\ j \in TileJobs /\ l \in 0 .. NUM_LAYERS - 1 /\ RowsOf(j) \in 1 .. TILE
  BY RunNow
<1> DEFINE R == RowsOf(j)
           first == i = 0
           from == IF first THEN "x" ELSE "mid"
           to == IF first THEN "ln1" ELSE "ln2"
<1>2. i \in {0, 7} /\ (step_cfg = 0 <=> first)
  <2>1. state = "S_LN_RUN"
    BY DEF InUnit, UnitStates, UnitOf
  <2>2. QED
    BY <2>1, StepOf DEF Control, Registers
<1>3. /\ row \in 0 .. R - 1 /\ row \in 0 .. URAM_ROWS - 1
      /\ 2^nm.col_bits = MODEL_STRIDE * WE
      /\ Offset("ln") = row * (MODEL_STRIDE * WE) /\ nm.dim = MODEL_STRIDE * WE
      /\ nm.rd_base = weight_base + l * LAYER_SIZE
           + (IF first THEN LAYER_LN1_OFFSET ELSE LAYER_LN2_OFFSET)
  BY <1>2, NormNow
<1>4. /\ MODEL_STRIDE \in Nat \ {0} /\ MODEL_STRIDE >= 2 /\ MODEL_STRIDE <= URAM_COL_WORDS
      /\ URAM_COL_WORDS \in Nat /\ URAM_ROWS \in Nat
  BY SMT, SizeFacts, AcceleratorAssumption DEF Fits, SizesFit
<1>5. /\ UNCHANGED hbm /\ UnitWords = MODEL_STRIDE
      /\ \A c \in 0 .. MODEL_STRIDE - 1 : In("ln")[c] = Uram(<<row, c>>)
      /\ \A c \in 0 .. MODEL_STRIDE - 1 : Uram(<<row, c>>)' = Output("ln", c)
      /\ \A x \in UramWords : x[1] # row => Uram(x)' = Uram(x)
      /\ dma_word' = dma_word \/ (dma_word' # NONE /\ dma_word'.tag = MODEL_STRIDE - 1)
  BY <1>3, <1>4, RowUnit
<1>6. Whole(j, to, l, 0, row) /\ Whole(j, from, l, row, R)
  BY <1>2 DEF Facts, UramHolds, At
<1>7. \A c \in Cols : In("ln")[c] = Val(j, from, l, row, c)
  <2> HIDE DEF R, from
  <2>1. \A r \in row .. R - 1, c \in Cols : Uram(<<r, c>>) = Val(j, from, l, r, c)
    BY ZenonT(60), <1>6, WholeIs
  <2>2. row \in row .. R - 1
    BY <1>3
  <2>3. QED
    BY <1>5, <2>1, <2>2 DEF Cols
<1>8. \A c \in Cols : Output("ln", c) = Val(j, to, l, row, c)
  BY ZenonT(60), <1>1, <1>3, <1>5, <1>7, NormWord
<1>9. \A c \in Cols : Uram(<<row, c>>)' = Val(j, to, l, row, c)
  BY <1>5, <1>8 DEF Cols
<1>10. Whole(j, to, l, 0, row + 1)' /\ Whole(j, from, l, row + 1, R)'
  <2>1. R \in 1 .. URAM_ROWS /\ RowsOf(j) = R
    BY RowNow
  <2> HIDE DEF R, from, to
  <2>2. QED
    BY <1>3, <1>5, <1>6, <1>9, <2>1, NextRow
<1>11. UramHolds(j, l, At(i, 0, 0, row + 1))'
  BY <1>2, <1>10 DEF UramHolds, At, RowsOf
<1>12. SameHbm(At(i, 0, 0, row), At(i, 0, 0, row + 1))
  BY <1>2 DEF SameHbm, SameEmbed, SameTemp, SameQueries, SameProbs, SameFfn, SameCache,
     QueriesThere, HeadsDone, ProbsThere, ProbHead, PastFlush, At
<1>13. QED
  BY <1>1, <1>5, <1>11, <1>12, UramStep

\* What HeadRows says, word by word.
LEMMA HeadNext ==
  ASSUME tokens' = tokens, NEW j, NEW kind, NEW l, NEW from, NEW to, NEW head
  PROVE  HeadRows(j, kind, l, from, to, head)' <=>
           \A r \in from .. to - 1, c \in 0 .. KEY_WORDS - 1 :
             Uram(<<r, c>>)' = Val(j, kind, l, r, head * KEY_WORDS + c)
<1>1. \A r, c : Val(j, kind, l, r, c)' = Val(j, kind, l, r, c)
  BY SameVal
<1>2. QED
  BY <1>1 DEF HeadRows, KEY_WORDS

\* A row of a head's probabilities written below those already written.
LEMMA NextHeadRow ==
  ASSUME Fits, tokens' = tokens, NEW j, NEW l, NEW h, NEW from, NEW to,
         NEW R \in 1 .. URAM_ROWS, RowsOf(j) = R, NEW row \in 0 .. R - 1,
         HeadRows(j, to, l, 0, row, h), HeadRows(j, from, l, row, R, h),
         \A c \in 0 .. KEY_WORDS - 1 :
           Uram(<<row, c>>)' = Val(j, to, l, row, h * KEY_WORDS + c),
         \A x \in UramWords : x[1] # row => Uram(x)' = Uram(x)
  PROVE  HeadRows(j, to, l, 0, row + 1, h)' /\ HeadRows(j, from, l, row + 1, R, h)'
<1>1. /\ KEY_WORDS \in Nat \ {0} /\ KEY_WORDS <= URAM_COL_WORDS
      /\ URAM_COL_WORDS \in Nat /\ URAM_ROWS \in Nat
  <2>1. KEY_WORDS \in Nat \ {0} /\ MODEL_STRIDE = NUM_HEADS * KEY_WORDS
        /\ NUM_HEADS \in Nat \ {0} /\ MODEL_STRIDE \in Nat
    BY SizeFacts DEF Fits
  <2>2. MODEL_STRIDE <= URAM_COL_WORDS /\ URAM_COL_WORDS \in Nat /\ URAM_ROWS \in Nat
    BY SMT, AcceleratorAssumption DEF Fits, SizesFit
  <2>3. 0 * KEY_WORDS + KEY_WORDS <= NUM_HEADS * KEY_WORDS
    BY <2>1, ProductStep
  <2>4. QED
    BY <2>1, <2>2, <2>3
<1>2. \A r \in 0 .. R - 1, c \in 0 .. KEY_WORDS - 1 : <<r, c>> \in UramWords
  BY <1>1 DEF UramWords
<1>3. \A r \in 0 .. row - 1, c \in 0 .. KEY_WORDS - 1 :
        Uram(<<r, c>>) = Val(j, to, l, r, h * KEY_WORDS + c)
  BY DEF HeadRows
<1>4. \A r \in row .. R - 1, c \in 0 .. KEY_WORDS - 1 :
        Uram(<<r, c>>) = Val(j, from, l, r, h * KEY_WORDS + c)
  BY DEF HeadRows
<1>5. \A r \in 0 .. row, c \in 0 .. KEY_WORDS - 1 :
        Uram(<<r, c>>)' = Val(j, to, l, r, h * KEY_WORDS + c)
  <2> SUFFICES ASSUME NEW r \in 0 .. row, NEW c \in 0 .. KEY_WORDS - 1
               PROVE  Uram(<<r, c>>)' = Val(j, to, l, r, h * KEY_WORDS + c)
    OBVIOUS
  <2>1. CASE r = row
    BY <2>1
  <2>2. CASE r # row
    <3>1. r \in 0 .. row - 1 /\ r \in 0 .. R - 1
      BY <1>1, <2>2
    <3>2. <<r, c>> \in UramWords /\ <<r, c>>[1] # row
      BY <1>2, <2>2, <3>1
    <3>3. QED
      BY <1>3, <3>1, <3>2
  <2>3. QED
    BY <2>1, <2>2
<1>6. \A r \in row + 1 .. R - 1, c \in 0 .. KEY_WORDS - 1 :
        Uram(<<r, c>>)' = Val(j, from, l, r, h * KEY_WORDS + c)
  <2> SUFFICES ASSUME NEW r \in row + 1 .. R - 1, NEW c \in 0 .. KEY_WORDS - 1
               PROVE  Uram(<<r, c>>)' = Val(j, from, l, r, h * KEY_WORDS + c)
    OBVIOUS
  <2>1. r \in row .. R - 1 /\ r \in 0 .. R - 1 /\ r # row
    BY <1>1
  <2>2. <<r, c>> \in UramWords /\ <<r, c>>[1] # row
    BY <1>2, <2>1
  <2>3. QED
    BY <1>4, <2>1, <2>2
<1>7. HeadRows(j, to, l, 0, row + 1, h)'
  <2>1. row + 1 - 1 = row
    BY <1>1
  <2>2. QED
    BY <1>5, <2>1, HeadNext
<1>8. HeadRows(j, from, l, row + 1, R, h)'
  BY <1>6, HeadNext
<1>9. QED
  BY <1>7, <1>8

\* What a row of the softmax is given.
LEMMA SoftNow ==
  ASSUME Fits, Control, busy, InUnit("sm"), nm = UnitSetup("sm"),
         NEW j, NEW row, j = req, row = nm_row_cnt
  PROVE  /\ row \in 0 .. RowsOf(j) - 1 /\ row \in 0 .. URAM_ROWS - 1
         /\ 2^nm.col_bits = KEY_WORDS * WE
         /\ Offset("sm") = row * (KEY_WORDS * WE) /\ nm.dim = KEY_WORDS * WE
         /\ nm.dim = TILE
         /\ nm.row_idx = RowPos(j, row)
<1>1. RowsOf(j) \in 1 .. TILE /\ att_keys = TILE /\ TypeOK /\ j \in TileJobs
  BY RunNow DEF Control, Registers
<1>2. row \in 0 .. RowsOf(j) - 1 /\ row \in 0 .. URAM_ROWS - 1
  BY RowNow
<1>3. KEY_WORDS * WE = TILE /\ 2^CFG_COL_SEQ = TILE /\ TILE \in Nat \ {0}
  BY SMT, SizeFacts DEF Fits, SizesFit
<1>4. /\ nm.col_bits = CFG_COL_SEQ /\ nm.addr_offset = RowOffset(att_keys)
      /\ nm.dim = att_keys /\ nm.row_idx = CausalRow
  BY <1>1 DEF TypeOK, FsmTypeOK, UnitSetup
<1>5. Small(TILE, TILE)
  <2>1. TILE * MODEL_DIM < 65536 /\ MODEL_DIM \in Nat \ {0} /\ MODEL_DIM = NUM_HEADS * TILE
        /\ NUM_HEADS \in Nat \ {0}
    BY SMT, SizeFacts DEF Fits, SizesFit
  <2>2. 0 * TILE + TILE <= MODEL_DIM
    BY <1>3, <2>1, ProductStep
  <2>3. MODEL_DIM - TILE \in Nat /\ TILE \in Nat
    BY <1>3, <2>1, <2>2
  <2>4. TILE * MODEL_DIM = TILE * TILE + TILE * (MODEL_DIM - TILE)
        /\ TILE * (MODEL_DIM - TILE) \in Nat /\ TILE * TILE \in Nat
    BY <2>1, <2>3
  <2>5. TILE * TILE < 65536
    BY <2>1, <2>4
  <2>6. QED
    BY <2>3, <2>5 DEF Small
<1>6. RowOffset(att_keys) = row * TILE
  <2>1. row \in 0 .. TILE
    BY <1>1, <1>2, <1>3
  <2>2. Wrap(row * TILE) = row * TILE
    BY <1>5, <2>1, SmallProduct
  <2>3. QED
    BY <1>1, <2>2 DEF RowOffset
<1>7. CausalRow = RowPos(j, row)
  <2>1. CASE j.decode
    <3>1. j.cache_len = TILE - 1
      BY <1>1, <2>1, JobShape
    <3>2. RowPos(j, row) = TILE - 1
      BY <1>1, <1>2, <2>1, JobShape
    <3>3. QED
      BY <2>1, <3>1, <3>2 DEF CausalRow
  <2>2. CASE ~j.decode
    BY <2>2 DEF CausalRow, RowPos
  <2>3. QED
    BY <2>1, <2>2
<1>8. QED
  BY <1>1, <1>2, <1>3, <1>4, <1>6, <1>7 DEF Offset

\* A word of the softmax of a row of a head's scores.
LEMMA SoftWord ==
  ASSUME Fits, NEW j \in TileJobs, NEW l, NEW h \in 0 .. NUM_HEADS - 1,
         NEW row \in 0 .. RowsOf(j) - 1,
         nm.row_idx = RowPos(j, row), nm.dim = TILE, UnitWords = KEY_WORDS,
         \A c \in 0 .. KEY_WORDS - 1 :
           In("sm")[c] = Val(j, "score", l, row, h * KEY_WORDS + c),
         NEW c \in 0 .. KEY_WORDS - 1
  PROVE  Output("sm", c) = Val(j, "prob", l, row, h * KEY_WORDS + c)
<1> DEFINE w == In("sm")
           off == h * KEY_WORDS
<1>1. off \in Nat /\ off % KEY_WORDS = 0 /\ KEY_WORDS \in Nat \ {0}
  BY HeadCols DEF Fits
<1>2. RowPos(j, row) \in 0 .. TILE - 1 /\ TILE \in Nat
  BY JobShape, AcceleratorAssumption
<1>3. Output("sm", c)
        = IF /\ w[0].col % KEY_WORDS = 0 /\ IsRow(w, UnitWords, "score")
             /\ nm.row_idx = w[0].pos /\ w[0].pos < nm.dim
            THEN [w[c] EXCEPT !.kind = "prob"] ELSE BAD
  BY DEF Output, Softmaxed
<1>4. \A x \in 0 .. KEY_WORDS - 1 : w[x] = Val(j, "score", l, row, off + x)
  OBVIOUS
<1> HIDE DEF w, off
<1>5. IsRow(w, KEY_WORDS, "score") /\ w[0] = Val(j, "score", l, row, off)
  <2>1. off \in Int /\ KEY_WORDS \in Nat \ {0}
    BY <1>1
  <2> DEFINE n == KEY_WORDS
  <2>2. n \in Nat \ {0} /\ \A x \in 0 .. n - 1 : w[x] = Val(j, "score", l, row, off + x)
    BY <1>4, <2>1
  <2> HIDE DEF n
  <2>3. IsRow(w, n, "score") /\ w[0] = Val(j, "score", l, row, off)
    BY <2>1, <2>2, RowOfVals
  <2>4. QED
    BY <2>3 DEF n
<1>6. w[0].col = off /\ w[0].pos = RowPos(j, row)
  BY <1>5 DEF Val, V
<1>7. Output("sm", c) = [w[c] EXCEPT !.kind = "prob"]
  BY <1>1, <1>2, <1>3, <1>5, <1>6
<1>8. [Val(j, "score", l, row, off + c) EXCEPT !.kind = "prob"]
        = Val(j, "prob", l, row, off + c)
  BY DEF Val, V
<1>9. Output("sm", c) = Val(j, "prob", l, row, off + c)
  BY <1>4, <1>7, <1>8
<1>10. QED
  BY <1>9 DEF off

\* A row of a head's softmax: the row after it is next.
LEMMA SoftRow ==
  ASSUME Fits, NoneApart, Control, busy, InUnit("sm"), nm = UnitSetup("sm"),
         UnitEffect("sm"), tokens' = tokens, DmaInv,
         NEW j, NEW l, NEW h, NEW row,
         j = req, l = layer_cnt, h = head_cnt, row = nm_row_cnt,
         Facts(j, l, At(3, 1, h, row))
  PROVE  UNCHANGED <<hbm, dma_word>> /\ Facts(j, l, At(3, 1, h, row + 1))'
<1>1. j \in TileJobs /\ RowsOf(j) \in 1 .. TILE /\ h \in 0 .. NUM_HEADS - 1
  BY RunNow
<1> DEFINE R == RowsOf(j)
<1>2. /\ row \in 0 .. R - 1 /\ row \in 0 .. URAM_ROWS - 1
      /\ 2^nm.col_bits = KEY_WORDS * WE
      /\ Offset("sm") = row * (KEY_WORDS * WE) /\ nm.dim = KEY_WORDS * WE
      /\ nm.dim = TILE /\ nm.row_idx = RowPos(j, row)
  BY SoftNow
<1>3. KEY_WORDS \in Nat \ {0} /\ KEY_WORDS <= URAM_COL_WORDS
  <2>1. h * HEAD_WORDS + HEAD_WORDS <= MODEL_STRIDE /\ h * HEAD_WORDS \in Nat
        /\ KEY_WORDS = HEAD_WORDS /\ HEAD_WORDS \in Nat \ {0}
    BY <1>1, HeadCols DEF Fits
  <2>2. MODEL_STRIDE <= URAM_COL_WORDS /\ URAM_COL_WORDS \in Nat /\ MODEL_STRIDE \in Nat
    BY SMT, SizeFacts, AcceleratorAssumption DEF Fits, SizesFit
  <2>3. QED
    BY <2>1, <2>2
<1>4. /\ UNCHANGED hbm /\ UnitWords = KEY_WORDS
      /\ \A c \in 0 .. KEY_WORDS - 1 : In("sm")[c] = Uram(<<row, c>>)
      /\ \A c \in 0 .. KEY_WORDS - 1 : Uram(<<row, c>>)' = Output("sm", c)
      /\ \A x \in UramWords : x[1] # row => Uram(x)' = Uram(x)
  BY <1>2, <1>3, RowUnit
<1>5. dma_word' = dma_word
  BY DEF UnitEffect
<1>6. HeadRows(j, "prob", l, 0, row, h) /\ HeadRows(j, "score", l, row, R, h)
  BY DEF Facts, UramHolds, At
<1>7. \A c \in 0 .. KEY_WORDS - 1 : In("sm")[c] = Val(j, "score", l, row, h * KEY_WORDS + c)
  <2> HIDE DEF R
  <2>1. row \in row .. R - 1
    BY <1>2
  <2>2. \A c \in 0 .. KEY_WORDS - 1 :
          Uram(<<row, c>>) = Val(j, "score", l, row, h * KEY_WORDS + c)
    BY <1>6, <2>1 DEF HeadRows
  <2>3. QED
    BY <1>4, <2>2
<1>8. \A c \in 0 .. KEY_WORDS - 1 :
        Uram(<<row, c>>)' = Val(j, "prob", l, row, h * KEY_WORDS + c)
  BY <1>1, <1>2, <1>4, <1>7, SoftWord
<1>9. HeadRows(j, "prob", l, 0, row + 1, h)' /\ HeadRows(j, "score", l, row + 1, R, h)'
  <2>1. R \in 1 .. URAM_ROWS /\ RowsOf(j) = R
    BY RowNow
  <2> HIDE DEF R
  <2>2. QED
    BY <1>2, <1>4, <1>6, <1>8, <2>1, NextHeadRow
<1>10. UramHolds(j, l, At(3, 1, h, row + 1))'
  BY <1>9 DEF UramHolds, At, RowsOf
<1>11. SameHbm(At(3, 1, h, row), At(3, 1, h, row + 1))
  BY DEF SameHbm, SameEmbed, SameTemp, SameQueries, SameProbs, SameFfn, SameCache,
     QueriesThere, HeadsDone, ProbsThere, ProbHead, PastFlush, At
<1>12. QED
  BY <1>1, <1>4, <1>5, <1>10, <1>11, UramStep

\* What the activation and the residual sum are given: every row of the job.
LEMMA BlockNow ==
  ASSUME Fits, Control, busy, NEW u \in {"act", "res"}, InUnit(u), nm = UnitSetup(u),
         NEW j, NEW R, NEW L, j = req, R = RowsOf(j),
         L = IF u = "act" THEN F_STRIDE ELSE MODEL_STRIDE
  PROVE  /\ R \in 1 .. URAM_ROWS /\ L \in Nat \ {0} /\ L <= URAM_COL_WORDS
         /\ 2^nm.col_bits = L * WE /\ Offset(u) = 0 /\ nm.dim = (R * L) * WE
         /\ u = "res" => nm.rd_base = act_base
<1>1. R \in 1 .. TILE /\ bt = R /\ TypeOK
  BY RunNow DEF Control, Registers
<1> DEFINE D == IF u = "act" THEN F_DIM ELSE MODEL_DIM
<1>2. /\ D = L * WE /\ L \in Nat \ {0} /\ WE \in Nat \ {0} /\ TILE \in Nat \ {0}
      /\ 2^(IF u = "act" THEN CFG_COL_FFN ELSE CFG_COL_MOD) = D
      /\ L <= URAM_COL_WORDS /\ TILE <= URAM_ROWS /\ URAM_ROWS \in Nat
  BY SMT, SizeFacts, AcceleratorAssumption DEF Fits, SizesFit
<1>3. Small(TILE, D)
  BY SMT, SizeFacts DEF Small, Fits, SizesFit
<1>4. /\ nm.col_bits = IF u = "act" THEN CFG_COL_FFN ELSE CFG_COL_MOD
      /\ nm.dim = Wrap(bt * D)
      /\ u = "res" => nm.rd_base = act_base + ACT_EMBED_OFFSET
  BY <1>1 DEF TypeOK, FsmTypeOK, UnitSetup
<1> HIDE DEF D
<1>5. R \in 0 .. TILE /\ R \in Nat
  BY <1>1, <1>2
<1>6. Wrap(R * D) = R * D
  BY <1>3, <1>5, SmallProduct
<1>7. R * (L * WE) = (R * L) * WE
  BY <1>2, <1>5
<1>8. nm.dim = (R * L) * WE
  BY <1>1, <1>2, <1>4, <1>6, <1>7
<1>9. act_base + ACT_EMBED_OFFSET = act_base
  BY DimAssumption DEF ACT_EMBED_OFFSET
<1>10. R \in 1 .. URAM_ROWS
  BY <1>1, <1>2
<1>11. QED
  BY <1>2, <1>4, <1>8, <1>9, <1>10 DEF Offset, D

\* The activation: 10 to 11.
LEMMA ActRun ==
  ASSUME Fits, NoneApart, Control, busy, InUnit("act"), nm = UnitSetup("act"),
         UnitEffect("act"), tokens' = tokens, DmaInv,
         NEW j, NEW l, j = req, l = layer_cnt,
         Facts(j, l, At(10, 0, 0, 0))
  PROVE  UNCHANGED <<hbm, dma_word>> /\ Facts(j, l, At(11, 0, 0, 0))'
<1> DEFINE R == RowsOf(j)
<1>1. j \in TileJobs /\ R \in 1 .. TILE
  BY RunNow
<1>2. /\ R \in 1 .. URAM_ROWS /\ F_STRIDE \in Nat \ {0} /\ F_STRIDE <= URAM_COL_WORDS
      /\ 2^nm.col_bits = F_STRIDE * WE /\ Offset("act") = 0 /\ nm.dim = (R * F_STRIDE) * WE
  BY BlockNow
<1>3. /\ UNCHANGED hbm
      /\ \A r \in 0 .. R - 1, c \in 0 .. F_STRIDE - 1 :
           /\ In("act")[r * F_STRIDE + c] = Uram(<<r, c>>)
           /\ Uram(<<r, c>>)' = Output("act", r * F_STRIDE + c)
  <2> HIDE DEF R
  <2>1. QED
    BY <1>2, BlockUnit
<1>4. dma_word' = dma_word
  BY DEF UnitEffect
<1>5. ASSUME NEW r \in 0 .. R - 1, NEW c \in 0 .. F_STRIDE - 1
      PROVE  Uram(<<r, c>>)' = Val(j, "relu", l, r, c)'
  <2> DEFINE i == r * F_STRIDE + c
  <2>1. Uram(<<r, c>>) = Val(j, "ffn1", l, r, c)
    BY <1>2 DEF Facts, UramHolds, Holding, At
  <2>2. In("act")[i] = Val(j, "ffn1", l, r, c) /\ Uram(<<r, c>>)' = Output("act", i)
    BY <1>3, <2>1
  <2> HIDE DEF i
  <2>3. Output("act", i) = Val(j, "relu", l, r, c)
    BY <2>2 DEF Output, Rectified, Val, V
  <2>4. QED
    BY <2>2, <2>3, SameVal
<1>6. Holding(j, "relu", l, 0, R, 0, F_STRIDE)'
  <2>1. 0 .. 0 + F_STRIDE - 1 = 0 .. F_STRIDE - 1
    BY <1>2
  <2>2. QED
    BY <1>5, <2>1 DEF Holding, RowsOf
<1>7. UramHolds(j, l, At(11, 0, 0, 0))'
  BY <1>6 DEF UramHolds, At, RowsOf
<1>8. SameHbm(At(10, 0, 0, 0), At(11, 0, 0, 0))
  BY DEF SameHbm, SameEmbed, SameTemp, SameQueries, SameProbs, SameFfn, SameCache,
     QueriesThere, HeadsDone, ProbsThere, ProbHead, PastFlush, At
<1>9. QED
  BY <1>1, <1>3, <1>4, <1>7, <1>8, UramStep

\* Kinds before and after the two residual sums.
Summand(i) == IF i = 5 THEN "proj" ELSE "ffn2"
Carried(i) == IF i = 5 THEN "x" ELSE "mid"
Sum(i) == IF i = 5 THEN "mid" ELSE "x"
SumLayer(i, l) == IF i = 5 THEN l ELSE l + 1

\* A word of a sum, from those of its summands.
LEMMA SumWord ==
  ASSUME NEW i \in {5, 13}, NEW j, NEW l, NEW r, NEW c, NEW k,
         In("res")[k] = Val(j, Summand(i), l, r, c),
         DmaRead(k) = Val(j, Carried(i), l, r, c)
  PROVE  Output("res", k) = Val(j, Sum(i), SumLayer(i, l), r, c)
<1> DEFINE w == In("res")[k]
<1>1. Output("res", k)
        = CASE w.kind = "proj" /\ DmaRead(k) = [w EXCEPT !.kind = "x"] ->
                 [w EXCEPT !.kind = "mid"]
            [] w.kind = "ffn2" /\ DmaRead(k) = [w EXCEPT !.kind = "mid"] ->
                 [Computed(w, "x", w.col) EXCEPT !.layer = @ + 1]
            [] OTHER -> BAD
  BY DEF Output, Added
<1>2. w = Val(j, Summand(i), l, r, c)
  OBVIOUS
<1> HIDE DEF w
<1>3. CASE i = 5
  <2>1. w = Val(j, "proj", l, r, c) /\ DmaRead(k) = Val(j, "x", l, r, c)
    BY <1>2, <1>3 DEF Summand, Carried
  <2>2. w.kind = "proj" /\ DmaRead(k) = [w EXCEPT !.kind = "x"]
    BY <2>1 DEF Val, V
  <2>3. Output("res", k) = [w EXCEPT !.kind = "mid"]
    BY <1>1, <2>2
  <2>4. QED
    BY <1>3, <2>1, <2>3 DEF Sum, SumLayer, Val, V
<1>4. CASE i = 13
  <2>1. w = Val(j, "ffn2", l, r, c) /\ DmaRead(k) = Val(j, "mid", l, r, c)
    BY <1>2, <1>4 DEF Summand, Carried
  <2>2. w.kind = "ffn2" /\ DmaRead(k) = [w EXCEPT !.kind = "mid"]
    BY <2>1 DEF Val, V
  <2>3. Output("res", k) = [Computed(w, "x", w.col) EXCEPT !.layer = @ + 1]
    BY <1>1, <2>2
  <2>4. QED
    BY <1>4, <2>1, <2>3 DEF Sum, SumLayer, Computed, Val, V
<1>5. QED
  BY <1>3, <1>4

\* A residual sum: 5 to 6 and 13 to 14.
LEMMA ResRun ==
  ASSUME Fits, NoneApart, Control, busy, InUnit("res"), nm = UnitSetup("res"),
         UnitEffect("res"), tokens' = tokens, DmaInv,
         NEW j, NEW l, NEW i, j = req, l = layer_cnt, i = step_idx,
         Facts(j, l, At(i, 0, 0, 0))
  PROVE  UNCHANGED hbm /\ Facts(j, l, At(i + 1, 0, 0, 0))'
<1> DEFINE R == RowsOf(j)
<1>1. j \in TileJobs /\ R \in 1 .. TILE /\ i \in {5, 13}
  <2>1. state = "S_RES_RUN"
    BY DEF InUnit, UnitStates, UnitOf
  <2>2. QED
    BY <2>1, RunNow, StepOf DEF Control, Registers
<1>2. /\ R \in 1 .. URAM_ROWS /\ MODEL_STRIDE \in Nat \ {0} /\ MODEL_STRIDE <= URAM_COL_WORDS
      /\ 2^nm.col_bits = MODEL_STRIDE * WE /\ Offset("res") = 0
      /\ nm.dim = (R * MODEL_STRIDE) * WE /\ nm.rd_base = act_base
  BY BlockNow
<1>3. /\ UNCHANGED hbm
      /\ \A r \in 0 .. R - 1, c \in 0 .. MODEL_STRIDE - 1 :
           /\ In("res")[r * MODEL_STRIDE + c] = Uram(<<r, c>>)
           /\ Uram(<<r, c>>)' = Output("res", r * MODEL_STRIDE + c)
      /\ dma_word' = dma_word \/ (dma_word' # NONE /\ dma_word'.tag = R * MODEL_STRIDE - 1)
  <2> HIDE DEF R
  <2>1. QED
    BY <1>2, BlockUnit
<1>4. ASSUME NEW r \in 0 .. R - 1, NEW c \in Cols
      PROVE  Uram(<<r, c>>)' = Val(j, Sum(i), SumLayer(i, l), r, c)
  <2> DEFINE k == r * MODEL_STRIDE + c
  <2>1. Uram(<<r, c>>) = Val(j, Summand(i), l, r, c)
    <3>1. Whole(j, Summand(i), l, 0, R)
      BY <1>1 DEF Facts, UramHolds, At, Summand
    <3>2. QED
      BY <3>1, WholeIs
  <2>2. In("res")[k] = Val(j, Summand(i), l, r, c) /\ Uram(<<r, c>>)' = Output("res", k)
    BY <1>3, <2>1 DEF Cols
  <2>3. DmaRead(k) = Val(j, Carried(i), l, r, c)
    <3>1. hbm[ActAt(0, r, c)] = Val(j, Carried(i), l, r, c)
      BY <1>1 DEF Facts, HbmHolds, EmbedHolds, At, Carried
    <3>2. ActAt(0, r, c) \in HbmWords
      <4>1. r \in 0 .. TILE - 1
        BY <1>1, AcceleratorAssumption
      <4>2. QED
        BY <4>1, ActPlaces DEF Fits
    <3>3. ActAt(0, r, c) = act_base + k
      <4>1. r * MODEL_STRIDE \in Nat /\ c \in Int /\ act_base \in Nat /\ ACT_SLAB \in Nat
            /\ 0 * ACT_SLAB = 0
        <5>1. r \in Nat /\ c \in Int
          BY <1>1, <1>2, AcceleratorAssumption DEF Cols
        <5>2. act_base \in Nat /\ ACT_SLAB \in Nat
          BY ActPlaces DEF Fits
        <5>3. QED
          BY <1>2, <5>1, <5>2
      <4> DEFINE y == r * MODEL_STRIDE
      <4>2. y \in Nat /\ ActAt(0, r, c) = act_base + 0 * ACT_SLAB + y + c /\ k = y + c
        BY <4>1 DEF ActAt
      <4> HIDE DEF y, k
      <4>3. QED
        BY <4>1, <4>2
    <3>4. DmaRead(k) = Hbm(act_base + k)
      <4> HIDE DEF k
      <4>1. QED
        BY <1>2, DmaReads
    <3>5. QED
      BY <3>1, <3>2, <3>3, <3>4 DEF Hbm
  <2> HIDE DEF k
  <2>4. Output("res", k) = Val(j, Sum(i), SumLayer(i, l), r, c)
    BY <1>1, <2>2, <2>3, SumWord
  <2>5. QED
    BY <2>2, <2>4
<1>5. Whole(j, Sum(i), SumLayer(i, l), 0, R)'
  BY <1>4, WholeNext DEF RowsOf
<1>6. UramHolds(j, l, At(i + 1, 0, 0, 0))'
  BY <1>1, <1>5 DEF UramHolds, At, RowsOf, Sum, SumLayer
<1>7. SameHbm(At(i, 0, 0, 0), At(i + 1, 0, 0, 0))
  BY <1>1 DEF SameHbm, SameEmbed, SameTemp, SameQueries, SameProbs, SameFfn, SameCache,
     QueriesThere, HeadsDone, ProbsThere, ProbHead, PastFlush, At
<1>8. QED
  BY <1>1, <1>3, <1>6, <1>7, UramStep

\* The adapter's flush changes where a word is kept and not what is served.
LEMMA HoldingFlushed ==
  ASSUME AdapterFlush, tokens' = tokens, NEW j, NEW kind, NEW l, NEW from \in Nat,
         NEW to, NEW col0 \in Nat, NEW n, to \in Int, to <= URAM_ROWS,
         n \in Int, col0 + n <= URAM_COL_WORDS, Holding(j, kind, l, from, to, col0, n)
  PROVE  Holding(j, kind, l, from, to, col0, n)'
<1>1. ASSUME NEW r \in from .. to - 1, NEW c \in col0 .. col0 + n - 1
      PROVE  Uram(<<r, c>>)' = Val(j, kind, l, r, c)'
  <2>1. URAM_ROWS \in Nat /\ URAM_COL_WORDS \in Nat
    BY AcceleratorAssumption
  <2>2. r \in 0 .. URAM_ROWS - 1 /\ c \in 0 .. URAM_COL_WORDS - 1
    BY <2>1
  <2>3. <<r, c>> \in UramWords
    BY <2>2 DEF UramWords
  <2>4. Uram(<<r, c>>)' = Uram(<<r, c>>)
    BY <2>3, FlushView
  <2>5. Uram(<<r, c>>) = Val(j, kind, l, r, c)
    BY DEF Holding
  <2>6. QED
    BY <2>4, <2>5, SameVal
<1>2. QED
  BY <1>1 DEF Holding

\* A head's rows, served by the buffer before and by the URAM afterwards.
LEMMA HeadRowsFlushed ==
  ASSUME AdapterFlush, tokens' = tokens, NEW j, NEW kind, NEW l, NEW from \in Nat,
         NEW to, NEW head, to \in Int, to <= URAM_ROWS,
         KEY_WORDS \in Nat, KEY_WORDS <= URAM_COL_WORDS, HeadRows(j, kind, l, from, to, head)
  PROVE  HeadRows(j, kind, l, from, to, head)'
<1>1. ASSUME NEW r \in from .. to - 1, NEW c \in 0 .. KEY_WORDS - 1
      PROVE  Uram(<<r, c>>)' = Val(j, kind, l, r, head * KEY_WORDS + c)
  <2>1. URAM_ROWS \in Nat /\ URAM_COL_WORDS \in Nat
    BY AcceleratorAssumption
  <2>2. r \in 0 .. URAM_ROWS - 1 /\ c \in 0 .. URAM_COL_WORDS - 1
    BY <2>1
  <2>3. <<r, c>> \in UramWords
    BY <2>2 DEF UramWords
  <2>4. Uram(<<r, c>>)' = Uram(<<r, c>>)
    BY <2>3, FlushView
  <2>5. Uram(<<r, c>>) = Val(j, kind, l, r, head * KEY_WORDS + c)
    BY DEF HeadRows
  <2>6. QED
    BY <2>4, <2>5
<1>2. QED
  BY <1>1, HeadNext

\* The adapter's flush changes nothing a reader sees.
LEMMA AdapterServes ==
  ASSUME Fits, AdapterFlush, tokens' = tokens,
         NEW j, RowsOf(j) \in 1 .. TILE, NEW l, NEW s, Facts(j, l, s),
         s.row \in 0 .. RowsOf(j), s.step = 3 => s.head \in 0 .. NUM_HEADS - 1
  PROVE  UNCHANGED <<hbm, dma_word>> /\ Facts(j, l, s)'
<1>1. UNCHANGED <<hbm, dma_word>>
  BY DEF AdapterFlush
<1> DEFINE R == RowsOf(j)
<1>2. /\ R \in Nat /\ R <= URAM_ROWS /\ s.row \in Nat /\ s.row \in Int /\ s.row <= URAM_ROWS
      /\ 0 \in Nat /\ R \in Int
  <2>1. TILE \in Nat /\ URAM_ROWS \in Nat /\ TILE <= URAM_ROWS
    BY SMT, AcceleratorAssumption DEF Fits, SizesFit
  <2>2. R \in Nat /\ R <= URAM_ROWS
    BY <2>1
  <2>3. s.row \in 0 .. R
    OBVIOUS
  <2> HIDE DEF R
  <2>4. QED
    BY <2>1, <2>2, <2>3
<1>3. /\ MODEL_STRIDE \in Int /\ 0 + MODEL_STRIDE <= URAM_COL_WORDS
      /\ F_STRIDE \in Int /\ 0 + F_STRIDE <= URAM_COL_WORDS
      /\ KEY_WORDS \in Nat /\ KEY_WORDS <= URAM_COL_WORDS /\ HEAD_WORDS \in Int
  <2>1. /\ MODEL_STRIDE \in Nat /\ MODEL_STRIDE <= URAM_COL_WORDS /\ URAM_COL_WORDS \in Nat
        /\ F_STRIDE \in Nat /\ F_STRIDE <= URAM_COL_WORDS
    BY SMT, SizeFacts, AcceleratorAssumption DEF Fits, SizesFit
  <2>2. 0 * HEAD_WORDS + HEAD_WORDS <= MODEL_STRIDE /\ KEY_WORDS = HEAD_WORDS
        /\ HEAD_WORDS \in Nat
    <3>1. 0 \in 0 .. NUM_HEADS - 1
      BY DimAssumption
    <3>2. QED
      BY <3>1, HeadCols DEF Fits
  <2>3. QED
    BY <2>1, <2>2
<1>4. s.step = 3 => /\ s.head * HEAD_WORDS \in Nat
                    /\ s.head * HEAD_WORDS + HEAD_WORDS <= URAM_COL_WORDS
  <2> SUFFICES ASSUME s.step = 3
               PROVE  /\ s.head * HEAD_WORDS \in Nat
                      /\ s.head * HEAD_WORDS + HEAD_WORDS <= URAM_COL_WORDS
    OBVIOUS
  <2> DEFINE h == s.head
  <2>0. h \in 0 .. NUM_HEADS - 1
    OBVIOUS
  <2> HIDE DEF h
  <2>1. h * HEAD_WORDS \in Nat /\ h * HEAD_WORDS + HEAD_WORDS <= MODEL_STRIDE
    BY <2>0, HeadCols DEF Fits
  <2>2. MODEL_STRIDE <= URAM_COL_WORDS /\ MODEL_STRIDE \in Nat /\ URAM_COL_WORDS \in Nat
        /\ HEAD_WORDS \in Nat
    BY SMT, SizeFacts, AcceleratorAssumption DEF Fits, SizesFit
  <2>3. h * HEAD_WORDS + HEAD_WORDS <= URAM_COL_WORDS
    BY <2>1, <2>2
  <2>4. QED
    BY <2>1, <2>3 DEF h
<1>5. ASSUME NEW kind, NEW m, NEW from \in Nat, NEW to \in Int, to <= URAM_ROWS
      PROVE  Whole(j, kind, m, from, to) => Whole(j, kind, m, from, to)'
  <2>1. Holding(j, kind, m, from, to, 0, MODEL_STRIDE)
          => Holding(j, kind, m, from, to, 0, MODEL_STRIDE)'
    BY <1>3, <1>5, HoldingFlushed
  <2>2. QED
    BY <2>1, WholeRows DEF Whole
<1>6. ASSUME NEW kind, NEW m, NEW from \in Nat, NEW to \in Int, to <= URAM_ROWS, NEW h
      PROVE  HeadRows(j, kind, m, from, to, h) => HeadRows(j, kind, m, from, to, h)'
  BY <1>3, <1>6, HeadRowsFlushed
<1>7. ASSUME NEW kind, NEW m
      PROVE  Holding(j, kind, m, 0, R, 0, F_STRIDE) => Holding(j, kind, m, 0, R, 0, F_STRIDE)'
  <2>1. 0 \in Nat /\ R \in Int /\ R <= URAM_ROWS
    BY <1>2
  <2> HIDE DEF R
  <2>2. Holding(j, kind, m, 0, R, 0, F_STRIDE) => Holding(j, kind, m, 0, R, 0, F_STRIDE)'
    BY <1>3, <2>1, HoldingFlushed
  <2>3. QED
    BY <2>2 DEF R, RowsOf
<1>8. ASSUME NEW kind, NEW m, s.step = 3
      PROVE  Holding(j, kind, m, 0, R, s.head * HEAD_WORDS, HEAD_WORDS)
               => Holding(j, kind, m, 0, R, s.head * HEAD_WORDS, HEAD_WORDS)'
  <2> DEFINE off == s.head * HEAD_WORDS
  <2>1. 0 \in Nat /\ R \in Int /\ R <= URAM_ROWS
    BY <1>2
  <2>2. off \in Nat /\ off + HEAD_WORDS <= URAM_COL_WORDS
    BY <1>4, <1>8
  <2> HIDE DEF R, off
  <2>3. Holding(j, kind, m, 0, R, off, HEAD_WORDS)
          => Holding(j, kind, m, 0, R, off, HEAD_WORDS)'
    BY <1>3, <2>1, <2>2, HoldingFlushed
  <2>4. QED
    BY <2>3 DEF off, R, RowsOf
<1>9. UramHolds(j, l, s)'
  BY <1>2, <1>5, <1>6, <1>7, <1>8 DEF Facts, UramHolds, RowsOf
<1>10. SameHbm(s, s)
  BY DEF SameHbm, SameEmbed, SameTemp, SameQueries, SameProbs, SameFfn, SameCache
<1>11. QED
  BY <1>1, <1>9, <1>10, UramStep

-----------------------------------------------------------------------------
(* The flushes.                                                            *)

\* The URAM holds, from column col0 on, R rows of n words of one kind.
Offered(R, n, col0, j, kind, l, d) ==
  \A r \in 0 .. R - 1, c \in 0 .. n - 1 :
    Uram(<<r, col0 + c>>) = Val(j, kind, l, r, d + c)

\* The edge writes them to the HBM.
Delivered(base, stride, R, n, j, kind, l, d) ==
  \A r \in 0 .. R - 1, c \in 0 .. n - 1 :
    hbm'[base + r * stride + c] = Val(j, kind, l, r, d + c)

\* It writes nothing else.
OnlyTo(base, stride, R, n) ==
  \A a \in HbmWords :
    \/ hbm'[a] = hbm[a]
    \/ \E r \in 0 .. R - 1, c \in 0 .. n - 1 : a = base + r * stride + c

\* Rows of words of one kind carried from the URAM to the HBM.
LEMMA FlushTo ==
  ASSUME FlushEffect, wb = NONE,
         NEW base, NEW stride, NEW R, NEW n, NEW col0,
         Carries(base, stride, R, n, col0),
         NEW j, NEW kind, kind # "bad", NEW l, NEW d,
         Offered(R, n, col0, j, kind, l, d)
  PROVE  /\ UNCHANGED <<uram, wb, dma_word>> /\ Unspoiled
         /\ Delivered(base, stride, R, n, j, kind, l, d) /\ OnlyTo(base, stride, R, n)
<1>1. /\ UNCHANGED <<uram, wb, dma_word>>
      /\ \A r \in 0 .. R - 1, c \in 0 .. n - 1 :
           hbm'[base + r * stride + c] = uram[r, col0 + c]
      /\ \A a \in HbmWords :
           \/ hbm'[a] = hbm[a]
           \/ \E r \in 0 .. R - 1, c \in 0 .. n - 1 :
                a = base + r * stride + c /\ hbm'[a] = uram[r, col0 + c]
  <2>1. UNCHANGED <<uram, wb, dma_word>> /\ CarriedOut(base, stride, R, n, col0)
    BY FlushWrites
  <2>2. QED
    BY <2>1 DEF CarriedOut
<1>2. ASSUME NEW r \in 0 .. R - 1, NEW c \in 0 .. n - 1
      PROVE  uram[r, col0 + c] = Val(j, kind, l, r, d + c)
  <2>1. URAM_ROWS \in Nat /\ URAM_COL_WORDS \in Nat
    BY AcceleratorAssumption
  <2>2. r \in 0 .. URAM_ROWS - 1 /\ col0 + c \in 0 .. URAM_COL_WORDS - 1
    BY <2>1 DEF Carries
  <2>3. <<r, col0 + c>> \in UramWords
    BY <2>2 DEF UramWords
  <2>4. Uram(<<r, col0 + c>>) = uram[<<r, col0 + c>>]
    BY <2>3 DEF Uram
  <2>5. QED
    BY <2>4 DEF Offered
<1>3. ASSUME NEW a \in HbmWords
      PROVE  hbm'[a].kind = "bad" => hbm'[a] = hbm[a]
  <2>1. CASE hbm'[a] = hbm[a]
    BY <2>1
  <2>2. CASE \E r \in 0 .. R - 1, c \in 0 .. n - 1 :
               a = base + r * stride + c /\ hbm'[a] = uram[r, col0 + c]
    <3>1. PICK r \in 0 .. R - 1, c \in 0 .. n - 1 : hbm'[a] = uram[r, col0 + c]
      BY <2>2
    <3>2. hbm'[a] = Val(j, kind, l, r, d + c)
      BY <1>2, <3>1
    <3>3. QED
      BY <3>2 DEF Val, V
  <2>3. QED
    BY <1>1, <2>1, <2>2
<1>4. Unspoiled
  BY <1>3 DEF Unspoiled
<1>5. Delivered(base, stride, R, n, j, kind, l, d)
  BY ZenonT(60), <1>1, <1>2 DEF Delivered
<1>6. OnlyTo(base, stride, R, n)
  BY <1>1 DEF OnlyTo
<1>7. QED
  BY <1>1, <1>4, <1>5, <1>6

\* An edge that writes the HBM within that range only.
Written(lo, hi) == \A a \in HbmWords : hbm'[a] = hbm[a] \/ a \in lo .. hi - 1

\* The bases of the slabs, in order.
LEMMA BaseOrder ==
  ASSUME SizesFit, NEW i \in 0 .. 6, NEW k \in i .. 6
  PROVE  Base(i) \in Int /\ Base(k) \in Int /\ Base(i) <= Base(k) /\ Base(0) = act_base
         /\ Base(0) <= Base(i) /\ Base(k) <= Base(6)
<1>1. ACT_SLAB \in Nat /\ act_base \in Nat
  BY ActPlaces
<1>2. i \in Nat /\ k \in Nat /\ k - i \in Nat /\ 6 - k \in Nat
  OBVIOUS
<1>3. /\ i * ACT_SLAB \in Nat /\ k * ACT_SLAB \in Nat /\ (k - i) * ACT_SLAB \in Nat
      /\ (6 - k) * ACT_SLAB \in Nat /\ 6 * ACT_SLAB \in Nat
      /\ k * ACT_SLAB = i * ACT_SLAB + (k - i) * ACT_SLAB
      /\ 6 * ACT_SLAB = k * ACT_SLAB + (6 - k) * ACT_SLAB /\ 0 * ACT_SLAB = 0
  BY <1>1, <1>2
<1> DEFINE x == i * ACT_SLAB
           y == k * ACT_SLAB
           z == 6 * ACT_SLAB
<1>4. x \in Nat /\ y \in Nat /\ z \in Nat /\ x <= y /\ y <= z
  BY <1>3
<1>5. Base(i) = act_base + x /\ Base(k) = act_base + y /\ Base(6) = act_base + z
      /\ Base(0) = act_base
  BY <1>1, <1>3 DEF Base
<1> HIDE DEF x, y, z
<1>6. QED
  BY <1>1, <1>4, <1>5

\* A flush into some slabs spares the slabs before and behind them,
LEMMA SparedBy ==
  ASSUME SizesFit, NEW k \in 0 .. 6, NEW m \in 0 .. 6, Written(Base(k), Base(m)),
         NEW i \in 0 .. 6, NEW n \in i .. 6, n <= k \/ m <= i
  PROVE  Spared(i, n)
<1> SUFFICES ASSUME NEW a \in Base(i) .. Base(n) - 1
             PROVE  hbm'[a] = hbm[a]
  BY DEF Spared
<1>1. /\ Base(i) \in Int /\ Base(n) \in Int /\ Base(0) <= Base(i) /\ Base(n) <= Base(6)
      /\ Base(0) = act_base /\ Base(0) \in Int /\ Base(6) \in Int
  <2>1. 0 \in 0 .. 6 /\ 6 \in 0 .. 6
    OBVIOUS
  <2>2. QED
    BY <2>1, BaseOrder
<1>2. Base(k) \in Int /\ Base(m) \in Int /\ (Base(n) <= Base(k) \/ Base(m) <= Base(i))
  <2>1. CASE n <= k
    <3>1. k \in n .. 6 /\ n \in 0 .. 6
      BY <2>1
    <3>2. m \in m .. 6
      OBVIOUS
    <3>3. QED
      BY <3>1, <3>2, BaseOrder
  <2>2. CASE m <= i
    <3>1. i \in m .. 6
      BY <2>2
    <3>2. k \in k .. 6
      OBVIOUS
    <3>3. QED
      BY <3>1, <3>2, BaseOrder
  <2>3. QED
    BY <2>1, <2>2
<1>3. a \in act_base .. Base(6) - 1
  BY <1>1
<1>4. a \in HbmWords
  BY <1>3, ActPlaces
<1>5. a \notin Base(k) .. Base(m) - 1
  BY <1>1, <1>2
<1>6. QED
  BY <1>4, <1>5 DEF Written

\* and the whole cache.
LEMMA CacheSpared ==
  ASSUME Fits, NEW k \in 0 .. 6, NEW m \in 0 .. 6, Written(Base(k), Base(m)),
         NEW l \in 0 .. NUM_LAYERS - 1, NEW part \in {0, 1},
         NEW p \in 0 .. TILE - 1, NEW c \in Cols
  PROVE  hbm'[CacheWord(l, part, p, c)] = hbm[CacheWord(l, part, p, c)]
<1> DEFINE a == CacheWord(l, part, p, c)
<1>1. a \in HbmWords /\ a \notin act_base .. Base(6) - 1
  BY CacheAt
<1>2. SizesFit /\ k \in k .. 6 /\ m \in m .. 6
  BY DEF Fits
<1>3. /\ act_base <= Base(k) /\ Base(m) <= Base(6) /\ Base(k) \in Int /\ Base(m) \in Int
      /\ Base(6) \in Int /\ act_base \in Int
  <2>1. 6 \in 0 .. 6 /\ 6 \in 6 .. 6
    OBVIOUS
  <2>2. Base(6) \in Int /\ Base(0) = act_base /\ Base(0) <= Base(k) /\ Base(m) <= Base(6)
        /\ Base(k) \in Int /\ Base(m) \in Int
    BY <1>2, <2>1, BaseOrder
  <2>3. QED
    BY <2>2, DimAssumption
<1>4. a \notin Base(k) .. Base(m) - 1
  BY <1>1, <1>3
<1>5. QED
  BY <1>1, <1>4 DEF Written

\* The command of the flush under way.
LEMMA FlushNow ==
  ASSUME Fits, Control, busy, state \in FlushStates, flush_sent
  PROVE  /\ wb = NONE /\ RowsOf(req) \in 1 .. TILE /\ RowsOf(req) \in 1 .. 1024
         /\ RowsOf(req) <= URAM_ROWS
         /\ MODEL_STRIDE \in 1 .. 256 /\ F_STRIDE \in 1 .. 256
         /\ MODEL_STRIDE <= URAM_COL_WORDS /\ F_STRIDE <= URAM_COL_WORDS
         /\ state = "S_UF_RUN" => uf_cmd = StepFlush
         /\ state = "S_QKV_FL" => uf_cmd = QkvFlush
         /\ state = "S_ATT_SM_FL" => uf_cmd = ScoreFlush
         /\ state = "S_ATT_OUT_FL" => uf_cmd = OutFlush
<1>1. wb = NONE /\ RowsOf(req) \in 1 .. TILE
  BY RunNow DEF FlushStates, UnitStates
<1>2. RowsOf(req) \in 1 .. 1024 /\ RowsOf(req) <= URAM_ROWS
  BY SMT, <1>1, AcceleratorAssumption DEF Fits, SizesFit
<1>3. /\ MODEL_STRIDE \in 1 .. 256 /\ F_STRIDE \in 1 .. 256
      /\ MODEL_STRIDE <= URAM_COL_WORDS /\ F_STRIDE <= URAM_COL_WORDS
  <2>1. SizesFit
    BY DEF Fits
  <2>2. MODEL_STRIDE \in Nat \ {0} /\ F_STRIDE \in Nat \ {0}
    BY <2>1, SizeFacts
  <2>3. QED
    BY SMT, <2>1, <2>2 DEF SizesFit
<1>4. SavedInv
  BY DEF Control, Registers, AccInv
<1>5. QED
  BY <1>1, <1>2, <1>3, <1>4 DEF SavedInv

\* The rows of the URAM carried to one of the activation regions.
LEMMA RowsFlushed ==
  ASSUME Fits, Control, busy, state \in FlushStates, flush_sent, FlushEffect,
         NEW k \in {0, 1, 5}, NEW j, j = req, NEW kind, kind # "bad", NEW l,
         uf_cmd = Flush(Base(k), MODEL_STRIDE, RowsOf(j) - 1, MODEL_STRIDE - 1, 0),
         Whole(j, kind, l, 0, RowsOf(j))
  PROVE  /\ UNCHANGED <<uram, wb, dma_word>> /\ Unspoiled
         /\ Written(Base(k), Base(k + 1))
         /\ \A r \in 0 .. RowsOf(j) - 1, c \in Cols :
              hbm'[ActAt(k, r, c)] = Val(j, kind, l, r, c)
<1> DEFINE R == RowsOf(j)
           n == MODEL_STRIDE
<1>1. /\ wb = NONE /\ R \in 1 .. 1024 /\ R \in 1 .. TILE /\ R <= URAM_ROWS
      /\ n \in 1 .. 256 /\ n <= URAM_COL_WORDS
  BY FlushNow
<1>2. \A r \in 0 .. R - 1, c \in 0 .. n - 1 : ActAt(k, r, c) = Base(k) + r * n + c
  BY DEF ActAt, Base
<1>3. \A r \in 0 .. R - 1, c \in 0 .. n - 1 :
        ActAt(k, r, c) \in HbmWords /\ ActAt(k, r, c) \in Base(k) .. Base(k) + ACT_SLAB - 1
  <2>1. \A r \in 0 .. R - 1 : r \in 0 .. TILE - 1
    BY <1>1, AcceleratorAssumption
  <2>2. QED
    BY <2>1, ActPlaces DEF Fits, Cols
<1>4. Base(k + 1) = Base(k) + ACT_SLAB /\ Base(k) \in Int
  BY ActPlaces DEF Base, Fits
<1>5. \A r \in 0 .. R - 1, c \in 0 .. n - 1 : Uram(<<r, c>>) = Val(j, kind, l, r, c)
  BY ZenonT(60), WholeIs DEF Cols
<1>6. Carries(Base(k), n, R, n, 0)
  <2>1. \A r \in 0 .. R - 1, c \in 0 .. n - 1 : Base(k) + r * n + c \in HbmWords
    BY <1>2, <1>3
  <2>2. uf_cmd = Flush(Base(k), n, R - 1, n - 1, 0)
    OBVIOUS
  <2> HIDE DEF R, n
  <2>3. n \in Nat /\ n <= n /\ 0 \in 0 .. 255 /\ 0 + n <= URAM_COL_WORDS
    BY <1>1
  <2>4. QED
    BY <1>1, <1>4, <2>1, <2>2, <2>3 DEF Carries
<1>7. Offered(R, n, 0, j, kind, l, 0)
  <2>1. \A c \in 0 .. n - 1 : 0 + c = c
    BY <1>1
  <2>2. QED
    BY <1>5, <2>1 DEF Offered
<1> HIDE DEF R, n
<1>8. /\ UNCHANGED <<uram, wb, dma_word>> /\ Unspoiled
      /\ Delivered(Base(k), n, R, n, j, kind, l, 0) /\ OnlyTo(Base(k), n, R, n)
  BY <1>1, <1>6, <1>7, FlushTo
<1>9. \A r \in 0 .. R - 1, c \in 0 .. n - 1 : hbm'[ActAt(k, r, c)] = Val(j, kind, l, r, c)
  <2>1. \A c \in 0 .. n - 1 : 0 + c = c
    BY <1>1
  <2>2. QED
    BY <1>2, <1>8, <2>1 DEF Delivered
<1>10. Written(Base(k), Base(k + 1))
  <2> SUFFICES ASSUME NEW a \in HbmWords, hbm'[a] # hbm[a]
               PROVE  a \in Base(k) .. Base(k + 1) - 1
    BY DEF Written
  <2>1. PICK r \in 0 .. R - 1, c \in 0 .. n - 1 : a = Base(k) + r * n + c
    BY <1>8 DEF OnlyTo
  <2>2. a = ActAt(k, r, c)
    BY <1>2, <2>1
  <2>3. ActAt(k, r, c) \in Base(k) .. Base(k) + ACT_SLAB - 1
    BY <1>3
  <2>4. ACT_SLAB \in Nat
    BY CacheSizes
  <2>5. QED
    BY <1>4, <2>2, <2>3, <2>4
<1>11. QED
  BY <1>8, <1>9, <1>10 DEF R, n, Cols

\* What a flush to one region leaves of the other regions, and of the caches.
LEMMA RestKept ==
  ASSUME Fits, tokens' = tokens, NEW j, RowsOf(j) \in 1 .. TILE, NEW l, NEW s, NEW t,
         HbmHolds(j, l, s), NEW k \in 0 .. 6, NEW m \in 0 .. 6, Written(Base(k), Base(m))
  PROVE  /\ k >= 1 /\ SameEmbed(s, t) => EmbedHolds(j, l, t)'
         /\ m <= 5 /\ SameTemp(s, t) => TempHolds(j, l, t)'
         /\ (k >= 2 \/ m <= 1) /\ SameQueries(s, t) => QueriesHold(j, l, t)'
         /\ (k >= 5 \/ m <= 4) /\ SameProbs(s, t) => ProbsHold(j, l, t)'
         /\ (t.step >= 12 => k >= 5 \/ m <= 1) /\ SameFfn(s, t) => FfnHolds(j, l, t)'
         /\ SameCache(s, t) => CacheHolds(j, l, t)'
<1>1. SizesFit /\ 0 \in 0 .. 6 /\ 1 \in 0 .. 6 /\ 4 \in 0 .. 6 /\ 5 \in 0 .. 6
      /\ 1 \in 0 .. 6 /\ 2 \in 1 .. 6 /\ 5 \in 4 .. 6 /\ 6 \in 5 .. 6 /\ 5 \in 1 .. 6
  BY DEF Fits
<1>2. /\ k >= 1 => Spared(0, 1)
      /\ m <= 5 => Spared(5, 6)
      /\ k >= 2 \/ m <= 1 => Spared(1, 2)
      /\ k >= 5 \/ m <= 4 => Spared(4, 5)
      /\ k >= 5 \/ m <= 1 => Spared(1, 5)
  BY <1>1, SparedBy
<1>3. \A q \in 0 .. NUM_LAYERS - 1, part \in {0, 1}, p \in 0 .. TILE - 1, c \in Cols :
        hbm'[CacheWord(q, part, p, c)] = hbm[CacheWord(q, part, p, c)]
  BY CacheSpared
<1>4. /\ EmbedHolds(j, l, s) /\ TempHolds(j, l, s) /\ QueriesHold(j, l, s)
      /\ ProbsHold(j, l, s) /\ FfnHolds(j, l, s) /\ CacheHolds(j, l, s)
  BY DEF HbmHolds
<1>5. k >= 1 /\ SameEmbed(s, t) => EmbedHolds(j, l, t)'
  BY <1>1, <1>2, <1>4, EmbedKept
<1>6. m <= 5 /\ SameTemp(s, t) => TempHolds(j, l, t)'
  BY <1>1, <1>2, <1>4, TempKept
<1>7. (k >= 2 \/ m <= 1) /\ SameQueries(s, t) => QueriesHold(j, l, t)'
  BY <1>1, <1>2, <1>4, QueriesKept
<1>8. (k >= 5 \/ m <= 4) /\ SameProbs(s, t) => ProbsHold(j, l, t)'
  BY <1>1, <1>2, <1>4, ProbsKept
<1>9. (t.step >= 12 => k >= 5 \/ m <= 1) /\ SameFfn(s, t) => FfnHolds(j, l, t)'
  BY <1>1, <1>2, <1>4, FfnKept
<1>10. SameCache(s, t) => CacheHolds(j, l, t)'
  BY <1>3, <1>4, CacheKept
<1>11. QED
  BY <1>5, <1>6, <1>7, <1>8, <1>9, <1>10

\* The flush of a normalised matrix to ACT_TEMP.
LEMMA TempFlushed ==
  ASSUME Fits, Control, busy, state = "S_UF_RUN", flush_sent, FlushEffect,
         tokens' = tokens, NEW i \in {1, 8}, i = step_idx,
         NEW j, NEW l, j = req, l = layer_cnt, Facts(j, l, At(i, 0, 0, 0))
  PROVE  UNCHANGED dma_word /\ Unspoiled /\ Facts(j, l, At(i + 1, 0, 0, 0))'
<1> DEFINE s == At(i, 0, 0, 0)
           t == At(i + 1, 0, 0, 0)
           kind == IF i = 1 THEN "ln1" ELSE "ln2"
<1>1. state \in FlushStates /\ RowsOf(j) \in 1 .. TILE /\ bt = RowsOf(j)
  BY RunNow DEF FlushStates
<1>2. step_cfg = 1
  BY StepOf DEF Control, Registers
<1>3. uf_cmd = Flush(Base(5), MODEL_STRIDE, RowsOf(j) - 1, MODEL_STRIDE - 1, 0)
  BY <1>1, <1>2, FlushNow DEF StepFlush, ACT_TEMP_OFF, Base
<1>4. kind # "bad" /\ Whole(j, kind, l, 0, RowsOf(j))
  BY DEF Facts, UramHolds, At
<1>5. /\ UNCHANGED <<uram, wb, dma_word>> /\ Unspoiled
      /\ Written(Base(5), Base(5 + 1))
      /\ \A r \in 0 .. RowsOf(j) - 1, c \in Cols :
           hbm'[ActAt(5, r, c)] = Val(j, kind, l, r, c)
  <2> HIDE DEF kind
  <2>1. 5 \in {0, 1, 5}
    OBVIOUS
  <2>2. QED
    BY <1>1, <1>3, <1>4, <2>1, RowsFlushed
<1>6. /\ EmbedHolds(j, l, t)' /\ QueriesHold(j, l, t)' /\ ProbsHold(j, l, t)'
      /\ FfnHolds(j, l, t)' /\ CacheHolds(j, l, t)'
  <2>1. HbmHolds(j, l, s) /\ 5 \in 0 .. 6 /\ 6 \in 0 .. 6 /\ Written(Base(5), Base(6))
    BY <1>5 DEF Facts
  <2>2. SameEmbed(s, t) /\ SameQueries(s, t) /\ SameProbs(s, t) /\ SameFfn(s, t)
        /\ SameCache(s, t)
    BY DEF SameEmbed, SameQueries, SameProbs, SameFfn, SameCache, QueriesThere, ProbsThere,
       ProbHead, PastFlush, At
  <2> HIDE DEF s, t
  <2>3. QED
    BY <1>1, <2>1, <2>2, RestKept
<1>7. TempHolds(j, l, t)'
  <2>1. kind = IF t.step <= 8 THEN "ln1" ELSE "ln2"
    BY DEF At
  <2> HIDE DEF t, kind
  <2>2. QED
    BY <1>5, <2>1, SameVal DEF TempHolds, RowsOf, Cols, ActAt
<1>8. UramHolds(j, l, t)'
  BY DEF UramHolds, At
<1>9. QED
  BY <1>5, <1>6, <1>7, <1>8 DEF Facts, HbmHolds

\* The flush of a residual sum to ACT_EMBED.
LEMMA EmbedFlushed ==
  ASSUME Fits, Control, busy, state = "S_UF_RUN", flush_sent, FlushEffect,
         tokens' = tokens, NEW i \in {6, 14}, i = step_idx,
         NEW j, NEW l, j = req, l = layer_cnt, Facts(j, l, At(i, 0, 0, 0))
  PROVE  UNCHANGED dma_word /\ Unspoiled /\ Facts(j, l, At(i + 1, 0, 0, 0))'
<1> DEFINE s == At(i, 0, 0, 0)
           t == At(i + 1, 0, 0, 0)
           kind == IF i = 6 THEN "mid" ELSE "x"
           m == IF i = 6 THEN l ELSE l + 1
<1>1. state \in FlushStates /\ RowsOf(j) \in 1 .. TILE /\ bt = RowsOf(j)
  BY RunNow DEF FlushStates
<1>2. step_cfg = 0
  BY StepOf DEF Control, Registers
<1>3. uf_cmd = Flush(Base(0), MODEL_STRIDE, RowsOf(j) - 1, MODEL_STRIDE - 1, 0)
  <2>1. Base(0) = act_base + ACT_EMBED_OFFSET
    BY ActPlaces DEF Base, ACT_EMBED_OFFSET, Fits
  <2>2. QED
    BY <1>1, <1>2, <2>1, FlushNow DEF StepFlush
<1>4. kind # "bad" /\ Whole(j, kind, m, 0, RowsOf(j))
  BY DEF Facts, UramHolds, At
<1>5. /\ UNCHANGED <<uram, wb, dma_word>> /\ Unspoiled
      /\ Written(Base(0), Base(0 + 1))
      /\ \A r \in 0 .. RowsOf(j) - 1, c \in Cols :
           hbm'[ActAt(0, r, c)] = Val(j, kind, m, r, c)
  <2> HIDE DEF kind, m
  <2>1. 0 \in {0, 1, 5}
    OBVIOUS
  <2>2. QED
    BY <1>1, <1>3, <1>4, <2>1, RowsFlushed
<1>6. /\ TempHolds(j, l, t)' /\ QueriesHold(j, l, t)' /\ ProbsHold(j, l, t)'
      /\ FfnHolds(j, l, t)' /\ CacheHolds(j, l, t)'
  <2>1. HbmHolds(j, l, s) /\ 0 \in 0 .. 6 /\ 1 \in 0 .. 6 /\ Written(Base(0), Base(1))
    BY <1>5 DEF Facts
  <2>2. SameTemp(s, t) /\ SameQueries(s, t) /\ SameProbs(s, t) /\ SameFfn(s, t)
        /\ SameCache(s, t)
    BY DEF SameTemp, SameQueries, SameProbs, SameFfn, SameCache, QueriesThere, ProbsThere,
       ProbHead, PastFlush, At
  <2> HIDE DEF s, t
  <2>3. QED
    BY <1>1, <2>1, <2>2, RestKept
<1>7. EmbedHolds(j, l, t)'
  <2>1. \A r, c : Val(j, kind, m, r, c) = IF t.step <= 6 THEN Val(j, "x", l, r, c)
                                          ELSE IF t.step <= 14 THEN Val(j, "mid", l, r, c)
                                          ELSE Val(j, "x", l + 1, r, c)
    BY DEF At
  <2> HIDE DEF t, kind, m
  <2>2. QED
    BY <1>5, <2>1, SameVal DEF EmbedHolds, RowsOf, Cols, ActAt
<1>8. UramHolds(j, l, t)'
  <2>1. CASE i = 6
    <3>1. Whole(j, "mid", l, 0, RowsOf(j))'
      BY <1>4, <1>5, <2>1, HoldingKept DEF RowsOf
    <3>2. Whole(j, "ln2", l, 0, 0)'
      BY DEF Whole, Holding
    <3>3. QED
      BY <2>1, <3>1, <3>2 DEF UramHolds, At, RowsOf
  <2>2. CASE i = 14
    <3>1. Whole(j, "x", l + 1, 0, RowsOf(j))'
      BY <1>4, <1>5, <2>2, HoldingKept DEF RowsOf
    <3>2. QED
      BY <2>2, <3>1 DEF UramHolds, At, RowsOf
  <2>3. QED
    BY <2>1, <2>2
<1>9. QED
  BY <1>5, <1>6, <1>7, <1>8 DEF Facts, HbmHolds

\* The flush of the rectified feed-forward rows, over the queries and, where they are
\* long, the probabilities.
LEMMA FfnFlushed ==
  ASSUME Fits, Control, busy, state = "S_UF_RUN", flush_sent, FlushEffect,
         tokens' = tokens, step_idx = 11,
         NEW j, NEW l, j = req, l = layer_cnt, Facts(j, l, At(11, 0, 0, 0))
  PROVE  UNCHANGED dma_word /\ Unspoiled /\ Facts(j, l, At(12, 0, 0, 0))'
<1> DEFINE s == At(11, 0, 0, 0)
           t == At(12, 0, 0, 0)
           R == RowsOf(j)
           n == F_STRIDE
<1>1. /\ state \in FlushStates /\ wb = NONE /\ R \in 1 .. TILE /\ R \in 1 .. 1024
      /\ R <= URAM_ROWS /\ n \in 1 .. 256 /\ n <= URAM_COL_WORDS /\ bt = R
      /\ uf_cmd = StepFlush
  BY RunNow, FlushNow DEF FlushStates
<1>2. step_cfg = 2
  BY StepOf DEF Control, Registers
<1>3. ACT_SLAB \in Nat /\ act_base \in Nat /\ Base(1) = act_base + ACT_SLAB
      /\ Base(1) \in Int /\ Base(4) \in Int /\ Base(5) \in Int
  BY ActPlaces DEF Base, Fits
<1>4. uf_cmd = Flush(Base(1), n, R - 1, n - 1, 0)
  BY <1>1, <1>2, <1>3 DEF StepFlush, ACT_FFN_OFFSET, ACT_Q_OFFSET
<1>5. \A r \in 0 .. R - 1, c \in 0 .. n - 1 :
        /\ Base(1) + r * n + c = FfnAt(r, c) /\ FfnAt(r, c) \in HbmWords
        /\ FfnAt(r, c) \in Base(1) .. Base(5) - 1
        /\ F_STRIDE <= 3 * MODEL_STRIDE => FfnAt(r, c) < Base(4)
  <2> SUFFICES ASSUME NEW r \in 0 .. R - 1, NEW c \in 0 .. n - 1
               PROVE  /\ Base(1) + r * n + c = FfnAt(r, c) /\ FfnAt(r, c) \in HbmWords
                      /\ FfnAt(r, c) \in Base(1) .. Base(5) - 1
                      /\ F_STRIDE <= 3 * MODEL_STRIDE => FfnAt(r, c) < Base(4)
    OBVIOUS
  <2>1. r \in 0 .. TILE - 1
    BY <1>1, AcceleratorAssumption
  <2>2. SizesFit
    BY DEF Fits
  <2>3. Base(1) + r * n + c = FfnAt(r, c)
    BY <1>3 DEF FfnAt
  <2>4. QED
    BY <2>1, <2>2, <2>3, ActPlaces
<1>6. Offered(R, n, 0, j, "relu", l, 0)
  <2>1. Holding(j, "relu", l, 0, R, 0, n)
    BY DEF Facts, UramHolds, At
  <2> HIDE DEF R, n
  <2>2. \A c \in 0 .. n - 1 : 0 + c = c
    BY <1>1
  <2>3. 0 .. 0 + n - 1 = 0 .. n - 1
    BY <1>1
  <2>4. QED
    BY <2>1, <2>2, <2>3 DEF Offered, Holding
<1> HIDE DEF R, n
<1>7. Carries(Base(1), n, R, n, 0)
  <2>1. \A r \in 0 .. R - 1, c \in 0 .. n - 1 : Base(1) + r * n + c \in HbmWords
    BY <1>5
  <2>2. n \in Nat /\ n <= n /\ 0 \in 0 .. 255 /\ 0 + n <= URAM_COL_WORDS
    BY <1>1
  <2>3. QED
    BY <1>1, <1>3, <1>4, <2>1, <2>2 DEF Carries
<1>8. /\ UNCHANGED <<uram, wb, dma_word>> /\ Unspoiled
      /\ Delivered(Base(1), n, R, n, j, "relu", l, 0) /\ OnlyTo(Base(1), n, R, n)
  BY <1>1, <1>6, <1>7, FlushTo
<1>9. FfnHolds(j, l, t)'
  <2>1. \A r \in 0 .. R - 1, c \in 0 .. n - 1 : hbm'[FfnAt(r, c)] = Val(j, "relu", l, r, c)
    <3>1. \A c \in 0 .. n - 1 : 0 + c = c
      BY <1>1
    <3>2. QED
      BY <1>5, <1>8, <3>1 DEF Delivered
  <2>2. QED
    BY <2>1, SameVal DEF FfnHolds, RowsOf, FfnAt, R, n
<1>10. /\ Written(Base(1), Base(5))
       /\ F_STRIDE <= 3 * MODEL_STRIDE => Written(Base(1), Base(4))
  <2>1. ASSUME NEW a \in HbmWords, hbm'[a] # hbm[a]
        PROVE  /\ a \in Base(1) .. Base(5) - 1
               /\ F_STRIDE <= 3 * MODEL_STRIDE => a \in Base(1) .. Base(4) - 1
    <3>1. PICK r \in 0 .. R - 1, c \in 0 .. n - 1 : a = Base(1) + r * n + c
      BY <1>8, <2>1 DEF OnlyTo
    <3>2. a = FfnAt(r, c)
      BY <1>5, <3>1
    <3>3. QED
      BY <1>3, <1>5, <3>2
  <2>2. QED
    BY <2>1 DEF Written
<1>11. HbmHolds(j, l, s) /\ R = RowsOf(j)
  BY SMTT(40) DEF Facts, R
<1>12. EmbedHolds(j, l, t)' /\ TempHolds(j, l, t)' /\ CacheHolds(j, l, t)'
  <2>1. SameEmbed(s, t) /\ SameTemp(s, t) /\ SameCache(s, t)
    BY DEF SameEmbed, SameTemp, SameCache, PastFlush, At
  <2>2. 1 \in 0 .. 6 /\ 5 \in 0 .. 6
    OBVIOUS
  <2> HIDE DEF s, t
  <2>3. QED
    BY <1>1, <1>10, <1>11, <2>1, <2>2, RestKept
<1>13. ProbsHold(j, l, t)'
  <2>1. CASE F_STRIDE <= 3 * MODEL_STRIDE
    <3>1. SameProbs(s, t)
      BY DEF SameProbs, ProbsThere, ProbHead, At
    <3>2. 1 \in 0 .. 6 /\ 4 \in 0 .. 6
      OBVIOUS
    <3> HIDE DEF s, t
    <3>3. QED
      BY <1>1, <1>10, <1>11, <2>1, <3>1, <3>2, RestKept
  <2>2. CASE ~(F_STRIDE <= 3 * MODEL_STRIDE)
    BY <2>2 DEF ProbsHold, ProbsThere, At, MODEL_STRIDE
  <2>3. QED
    BY SMTT(40), <2>1, <2>2
<1>14. QueriesHold(j, l, t)' /\ UramHolds(j, l, t)'
  BY DEF QueriesHold, QueriesThere, UramHolds, At
<1>15. QED
  BY <1>8, <1>9, <1>12, <1>13, <1>14 DEF Facts, HbmHolds

\* The flush of the queries.
LEMMA QueriesFlushed ==
  ASSUME Fits, Control, busy, state = "S_QKV_FL", flush_sent, FlushEffect,
         tokens' = tokens, qkv_phase = 0,
         NEW j, NEW l, j = req, l = layer_cnt, Facts(j, l, At(2, 1, 0, 0))
  PROVE  UNCHANGED dma_word /\ Unspoiled /\ Facts(j, l, At(2, 2, 0, 0))'
<1> DEFINE s == At(2, 1, 0, 0)
           t == At(2, 2, 0, 0)
<1>1. state \in FlushStates /\ RowsOf(j) \in 1 .. TILE /\ bt = RowsOf(j)
  BY RunNow DEF FlushStates
<1>2. uf_cmd = Flush(Base(1), MODEL_STRIDE, RowsOf(j) - 1, MODEL_STRIDE - 1, 0)
  <2>1. Base(1) = act_base + ACT_Q_OFFSET
    BY ActPlaces DEF Base, ACT_Q_OFFSET, Fits
  <2>2. QED
    BY <1>1, <2>1, FlushNow DEF QkvFlush
<1>3. Whole(j, "q", l, 0, RowsOf(j))
  BY DEF Facts, UramHolds, At
<1>4. /\ UNCHANGED <<uram, wb, dma_word>> /\ Unspoiled
      /\ Written(Base(1), Base(1 + 1))
      /\ \A r \in 0 .. RowsOf(j) - 1, c \in Cols :
           hbm'[ActAt(1, r, c)] = Val(j, "q", l, r, c)
  <2>1. 1 \in {0, 1, 5}
    OBVIOUS
  <2>2. QED
    BY <1>1, <1>2, <1>3, <2>1, RowsFlushed
<1>5. /\ EmbedHolds(j, l, t)' /\ TempHolds(j, l, t)' /\ ProbsHold(j, l, t)'
      /\ FfnHolds(j, l, t)' /\ CacheHolds(j, l, t)'
  <2>1. HbmHolds(j, l, s) /\ 1 \in 0 .. 6 /\ 2 \in 0 .. 6 /\ Written(Base(1), Base(2))
    BY <1>4 DEF Facts
  <2>2. SameEmbed(s, t) /\ SameTemp(s, t) /\ SameProbs(s, t) /\ SameFfn(s, t)
        /\ SameCache(s, t) /\ ~(t.step >= 12)
    BY DEF SameEmbed, SameTemp, SameProbs, SameFfn, SameCache, ProbsThere, PastFlush, At
  <2> HIDE DEF s, t
  <2>3. QED
    BY <1>1, <2>1, <2>2, RestKept
<1>6. QueriesHold(j, l, t)'
  <2>1. HeadsDone(t) = 0
    BY DEF HeadsDone, At
  <2>2. \A c \in Cols : ~(c < 0 * HEAD_WORDS)
    <3>1. HEAD_WORDS \in Nat /\ MODEL_STRIDE \in Nat
      BY SizeFacts DEF Fits
    <3>2. 0 * HEAD_WORDS = 0
      BY <3>1
    <3>3. QED
      BY <3>1, <3>2 DEF Cols
  <2>3. \A r \in 0 .. RowsOf(j) - 1, c \in Cols :
          hbm'[ActAt(1, r, c)]
            = Val(j, IF c < HeadsDone(t) * HEAD_WORDS THEN "att" ELSE "q", l, r, c)'
    BY <1>4, <2>1, <2>2, SameVal
  <2> HIDE DEF t
  <2>4. QED
    BY <2>3 DEF QueriesHold, RowsOf, Cols, ActAt
<1>7. UramHolds(j, l, t)'
  BY DEF UramHolds, At
<1>8. QED
  BY <1>4, <1>5, <1>6, <1>7 DEF Facts, HbmHolds

\* The flush of a head's probabilities.
LEMMA ProbsFlushed ==
  ASSUME Fits, Control, busy, state = "S_ATT_SM_FL", flush_sent, FlushEffect,
         tokens' = tokens,
         NEW j, NEW l, NEW h, j = req, l = layer_cnt, h = head_cnt,
         Facts(j, l, At(3, 2, h, 0))
  PROVE  UNCHANGED dma_word /\ Unspoiled /\ Facts(j, l, At(3, 3, h, 0))'
<1> DEFINE s == At(3, 2, h, 0)
           t == At(3, 3, h, 0)
           R == RowsOf(j)
           n == KEY_WORDS
           d == h * KEY_WORDS
<1>1. /\ state \in FlushStates /\ wb = NONE /\ R \in 1 .. TILE /\ R \in 1 .. 1024
      /\ R <= URAM_ROWS /\ att_rows = R /\ Words(att_keys) = n
      /\ uf_cmd = ScoreFlush
  BY RunNow, FlushNow DEF FlushStates
<1>2. n \in 1 .. 256 /\ n <= URAM_COL_WORDS
  <2>1. n = HEAD_WORDS /\ 0 * HEAD_WORDS + HEAD_WORDS <= MODEL_STRIDE
        /\ HEAD_WORDS \in Nat \ {0}
    <3>1. 0 \in 0 .. NUM_HEADS - 1
      BY DimAssumption
    <3>2. QED
      BY <3>1, HeadCols DEF Fits
  <2>2. MODEL_STRIDE \in 1 .. 256 /\ MODEL_STRIDE <= URAM_COL_WORDS
        /\ URAM_COL_WORDS \in Nat
    BY <1>1, FlushNow, AcceleratorAssumption
  <2>3. QED
    BY <2>1, <2>2
<1>3. Base(4) \in Int /\ Base(5) \in Int /\ Base(4) = act_base + ACT_ATTN_OFFSET
  BY ActPlaces DEF Base, Fits, ACT_ATTN_OFFSET
<1>4. uf_cmd = Flush(Base(4), n, R - 1, n - 1, 0)
  BY <1>1, <1>3 DEF ScoreFlush
<1>5. \A r \in 0 .. R - 1, c \in 0 .. n - 1 :
        /\ Base(4) + r * n + c = ProbAt(r, c) /\ ProbAt(r, c) \in HbmWords
        /\ ProbAt(r, c) \in Base(4) .. Base(5) - 1
  <2> SUFFICES ASSUME NEW r \in 0 .. R - 1, NEW c \in 0 .. n - 1
               PROVE  /\ Base(4) + r * n + c = ProbAt(r, c) /\ ProbAt(r, c) \in HbmWords
                      /\ ProbAt(r, c) \in Base(4) .. Base(5) - 1
    OBVIOUS
  <2>1. r \in 0 .. TILE - 1 /\ SizesFit
    BY <1>1, AcceleratorAssumption DEF Fits
  <2>2. Base(4) + r * n + c = ProbAt(r, c)
    BY DEF ProbAt, Base
  <2>3. QED
    BY <2>1, <2>2, ActPlaces
<1>6. Offered(R, n, 0, j, "prob", l, d)
  <2>1. HeadRows(j, "prob", l, 0, R, h)
    BY DEF Facts, UramHolds, At
  <2>2. \A c \in 0 .. n - 1 : 0 + c = c
    BY <1>2
  <2> HIDE DEF R
  <2>3. QED
    BY <2>1, <2>2 DEF Offered, HeadRows
<1> HIDE DEF R, n
<1>7. Carries(Base(4), n, R, n, 0)
  <2>1. \A r \in 0 .. R - 1, c \in 0 .. n - 1 : Base(4) + r * n + c \in HbmWords
    BY <1>5
  <2>2. n \in Nat /\ n <= n /\ 0 \in 0 .. 255 /\ 0 + n <= URAM_COL_WORDS
    BY <1>2
  <2>3. QED
    BY <1>1, <1>2, <1>3, <1>4, <2>1, <2>2 DEF Carries
<1> HIDE DEF d
<1>8. /\ UNCHANGED <<uram, wb, dma_word>> /\ Unspoiled
      /\ Delivered(Base(4), n, R, n, j, "prob", l, d) /\ OnlyTo(Base(4), n, R, n)
  BY <1>1, <1>6, <1>7, FlushTo
<1>9. ProbsHold(j, l, t)'
  <2>1. ProbHead(t) = h
    BY DEF ProbHead, At
  <2>2. \A r \in 0 .. R - 1, c \in 0 .. KEY_WORDS - 1 :
          hbm'[ProbAt(r, c)] = Val(j, "prob", l, r, ProbHead(t) * KEY_WORDS + c)
    BY <1>5, <1>8, <2>1 DEF Delivered, n, d
  <2> HIDE DEF t
  <2>3. QED
    BY <2>2, SameVal DEF ProbsHold, RowsOf, ProbAt, R, KEY_WORDS, ProbHead
<1>10. Written(Base(4), Base(5))
  <2> SUFFICES ASSUME NEW a \in HbmWords, hbm'[a] # hbm[a]
               PROVE  a \in Base(4) .. Base(5) - 1
    BY DEF Written
  <2>1. PICK r \in 0 .. R - 1, c \in 0 .. n - 1 : a = Base(4) + r * n + c
    BY SMTT(40), <1>8 DEF OnlyTo
  <2>2. QED
    BY <1>5, <2>1
<1>11. /\ EmbedHolds(j, l, t)' /\ TempHolds(j, l, t)' /\ QueriesHold(j, l, t)'
       /\ FfnHolds(j, l, t)' /\ CacheHolds(j, l, t)'
  <2>1. HbmHolds(j, l, s) /\ R = RowsOf(j) /\ 4 \in 0 .. 6 /\ 5 \in 0 .. 6
    BY DEF Facts, R
  <2>2. SameEmbed(s, t) /\ SameTemp(s, t) /\ SameQueries(s, t) /\ SameFfn(s, t)
        /\ SameCache(s, t) /\ ~(t.step >= 12)
    BY DEF SameEmbed, SameTemp, SameQueries, SameFfn, SameCache, QueriesThere, HeadsDone,
       PastFlush, At
  <2> HIDE DEF s, t
  <2>3. QED
    BY <1>1, <1>10, <2>1, <2>2, RestKept
<1>12. UramHolds(j, l, t)'
  BY DEF UramHolds, At
<1>13. QED
  BY <1>8, <1>9, <1>11, <1>12 DEF Facts, HbmHolds

\* The flush of a head's output over its queries.
LEMMA HeadFlushed ==
  ASSUME Fits, Control, busy, state = "S_ATT_OUT_FL", flush_sent, FlushEffect,
         tokens' = tokens,
         NEW j, NEW l, NEW h, j = req, l = layer_cnt, h = head_cnt,
         Facts(j, l, At(3, 4, h, 0))
  PROVE  UNCHANGED dma_word /\ Unspoiled /\ Facts(j, l, At(3, 5, h, 0))'
<1> DEFINE s == At(3, 4, h, 0)
           t == At(3, 5, h, 0)
           R == RowsOf(j)
           n == HEAD_WORDS
           off == h * HEAD_WORDS
           M == MODEL_STRIDE
<1>0. SizesFit
  BY DEF Fits
<1>1. /\ state \in FlushStates /\ wb = NONE /\ R \in 1 .. TILE /\ R \in 1 .. 1024
      /\ R <= URAM_ROWS /\ att_rows = R /\ uf_cmd = OutFlush /\ h \in 0 .. NUM_HEADS - 1
      /\ M \in 1 .. 256 /\ M <= URAM_COL_WORDS /\ URAM_COL_WORDS \in Nat
  BY RunNow, FlushNow, AcceleratorAssumption DEF FlushStates
<1>2. /\ off \in Nat /\ off + n <= M /\ n \in Nat \ {0}
      /\ \A c \in 0 .. n - 1 : off + c \in Cols
  BY <1>0, <1>1, HeadCols
<1>3. /\ n \in 1 .. 256 /\ n <= M /\ off \in 0 .. 255 /\ off + n <= URAM_COL_WORDS
  <2> HIDE DEF n, off, M
  <2>1. QED
    BY <1>1, <1>2
<1>4. act_base \in Nat /\ ACT_SLAB \in Nat /\ Base(1) = act_base + ACT_Q_OFFSET
      /\ Base(1) \in Int /\ Base(2) = Base(1) + ACT_SLAB
  BY <1>0, ActPlaces DEF Base, ACT_Q_OFFSET
<1>5. uf_cmd = Flush(Base(1) + off, M, R - 1, n - 1, off)
  BY <1>1, <1>4 DEF OutFlush
<1>6. \A r \in 0 .. R - 1, c \in 0 .. n - 1 :
        /\ Base(1) + off + r * M + c = ActAt(1, r, off + c)
        /\ ActAt(1, r, off + c) \in HbmWords
        /\ ActAt(1, r, off + c) \in Base(1) .. Base(2) - 1
  <2> SUFFICES ASSUME NEW r \in 0 .. R - 1, NEW c \in 0 .. n - 1
               PROVE  /\ Base(1) + off + r * M + c = ActAt(1, r, off + c)
                      /\ ActAt(1, r, off + c) \in HbmWords
                      /\ ActAt(1, r, off + c) \in Base(1) .. Base(2) - 1
    OBVIOUS
  <2>1. r \in 0 .. TILE - 1 /\ off + c \in Cols
    <3>1. r \in 0 .. TILE - 1
      BY SMT, <1>1, AcceleratorAssumption
    <3>2. off + c \in Cols
      BY SMT, <1>1, <1>2
    <3>3. QED
      BY <3>1, <3>2
  <2>2. ActAt(1, r, off + c) \in HbmWords /\ ActAt(1, r, off + c) \in Base(1) .. Base(2) - 1
    BY <1>0, <2>1, ActPlaces, SlabPlaces
  <2>3. Base(1) + off + r * M + c = ActAt(1, r, off + c)
    <3>1. ActAt(1, r, off + c) = Base(1) + r * M + (off + c)
      BY DEF ActAt, Base
    <3>2. r * M \in Int /\ off \in Int /\ c \in Int /\ Base(1) \in Int
      BY <1>1, <1>2, <1>4
    <3> HIDE DEF off, M
    <3>3. QED
      BY <3>1, <3>2
  <2>4. QED
    BY <2>2, <2>3
<1>7. Offered(R, n, off, j, "att", l, off)
  <2>1. Holding(j, "att", l, 0, R, off, n)
    BY DEF Facts, UramHolds, At
  <2> HIDE DEF R, n, off
  <2>2. \A c \in 0 .. n - 1 : off + c \in off .. off + n - 1
    BY <1>2
  <2>3. QED
    BY <2>1, <2>2 DEF Offered, Holding
<1> HIDE DEF R, n, off, M
<1>8. Carries(Base(1) + off, M, R, n, off)
  <2>1. \A r \in 0 .. R - 1, c \in 0 .. n - 1 : Base(1) + off + r * M + c \in HbmWords
    BY <1>6
  <2>2. M \in Nat /\ Base(1) + off \in Int
    BY <1>1, <1>2, <1>4
  <2>3. QED
    BY <1>1, <1>3, <1>5, <2>1, <2>2 DEF Carries
<1>9. /\ UNCHANGED <<uram, wb, dma_word>> /\ Unspoiled
      /\ Delivered(Base(1) + off, M, R, n, j, "att", l, off)
      /\ OnlyTo(Base(1) + off, M, R, n)
  BY <1>1, <1>7, <1>8, FlushTo
<1>10. ASSUME NEW a \in HbmWords, hbm'[a] # hbm[a]
       PROVE  \E r \in 0 .. R - 1, c \in 0 .. n - 1 : a = ActAt(1, r, off + c)
  <2>1. PICK r \in 0 .. R - 1, c \in 0 .. n - 1 : a = Base(1) + off + r * M + c
    BY <1>9, <1>10 DEF OnlyTo
  <2>2. QED
    BY <1>6, <2>1
<1>11. Written(Base(1), Base(2))
  BY <1>6, <1>10 DEF Written
<1>12. HbmHolds(j, l, s) /\ R = RowsOf(j)
  BY DEF Facts, R
<1>13. ASSUME NEW r \in 0 .. R - 1, NEW c \in Cols
       PROVE  hbm'[ActAt(1, r, c)]
                = Val(j, IF c < (h + 1) * HEAD_WORDS THEN "att" ELSE "q", l, r, c)
  <2>1. (h + 1) * HEAD_WORDS = off + n /\ n \in Nat /\ off \in Nat
        /\ c \in 0 .. M - 1 /\ M \in Nat
    <3>1. h \in Int /\ HEAD_WORDS \in Int
      BY <1>1, <1>2 DEF n
    <3>2. (h + 1) * HEAD_WORDS = h * HEAD_WORDS + HEAD_WORDS
      BY <3>1
    <3>3. QED
      BY <1>1, <1>2, <3>2 DEF off, n, Cols, M
  <2>2. CASE c \in off .. off + n - 1
    <3>1. c - off \in 0 .. n - 1 /\ off + (c - off) = c /\ c < off + n
      BY <2>1, <2>2
    <3>2. hbm'[Base(1) + off + r * M + (c - off)] = Val(j, "att", l, r, off + (c - off))
      BY <1>9, <3>1 DEF Delivered
    <3>3. Base(1) + off + r * M + (c - off) = ActAt(1, r, off + (c - off))
      BY <1>6, <3>1
    <3>4. QED
      BY <2>1, <3>1, <3>2, <3>3
  <2>3. CASE c \notin off .. off + n - 1
    <3>1. hbm[ActAt(1, r, c)] = Val(j, IF c < h * HEAD_WORDS THEN "att" ELSE "q", l, r, c)
      <4>1. QueriesThere(s) /\ HeadsDone(s) = h
        BY DEF QueriesThere, HeadsDone, At
      <4> HIDE DEF s
      <4>2. QED
        BY <1>12, <1>13, <4>1 DEF HbmHolds, QueriesHold
    <3>2. (c < off) <=> (c < off + n)
      BY <2>1, <2>3
    <3>3. hbm'[ActAt(1, r, c)] = hbm[ActAt(1, r, c)]
      <4>1. r \in 0 .. TILE - 1 /\ r \in Nat
        BY <1>1, AcceleratorAssumption
      <4>2. ActAt(1, r, c) \in HbmWords
        BY <1>0, <4>1, ActPlaces
      <4> SUFFICES ASSUME NEW q \in 0 .. R - 1, NEW d \in 0 .. n - 1,
                          ActAt(1, r, c) = ActAt(1, q, off + d)
                   PROVE  FALSE
        BY <1>10, <4>2
      <4>3. q \in Nat /\ off + d \in 0 .. M - 1
        BY <1>1, <1>2 DEF Cols, M
      <4>4. ActAt(1, r, c) = Base(1) + (r * M + c)
            /\ ActAt(1, q, off + d) = Base(1) + (q * M + (off + d))
        <5>1. /\ ActAt(1, r, c) = Base(1) + r * M + c
              /\ ActAt(1, q, off + d) = Base(1) + q * M + (off + d)
          BY DEF ActAt, Base, M
        <5>2. r * M \in Int /\ q * M \in Int /\ off + d \in Int /\ c \in Int
              /\ Base(1) \in Int
          BY <1>4, <2>1, <4>1, <4>3
        <5>3. QED
          BY <5>1, <5>2
      <4>5. r * M + c = q * M + (off + d)
        <5> DEFINE x == r * M + c
                   y == q * M + (off + d)
        <5>1. x \in Int /\ y \in Int /\ Base(1) \in Int
          BY <1>4, <2>1, <4>1, <4>3
        <5>2. Base(1) + x = Base(1) + y
          BY <4>4
        <5> HIDE DEF x, y
        <5>3. x = y
          BY <5>1, <5>2
        <5>4. QED
          BY <5>3 DEF x, y
      <4>6. c = off + d
        BY <2>1, <4>1, <4>3, <4>5, RowApart
      <4>7. QED
        BY <2>1, <2>3, <4>6
    <3>4. QED
      BY <2>1, <3>1, <3>2, <3>3 DEF off
  <2>4. QED
    BY <2>2, <2>3
<1>14. QueriesHold(j, l, t)'
  <2>1. HeadsDone(t) = h + 1
    BY DEF HeadsDone, At
  <2>2. \A r \in 0 .. R - 1, c \in Cols :
          hbm'[ActAt(1, r, c)]
            = Val(j, IF c < HeadsDone(t) * HEAD_WORDS THEN "att" ELSE "q", l, r, c)'
    BY SMTT(40), <1>13, <2>1, SameVal
  <2> HIDE DEF t
  <2>3. QED
    BY <2>2 DEF QueriesHold, RowsOf, Cols, ActAt, R
<1>15. /\ EmbedHolds(j, l, t)' /\ TempHolds(j, l, t)' /\ ProbsHold(j, l, t)'
       /\ FfnHolds(j, l, t)' /\ CacheHolds(j, l, t)'
  <2>1. 1 \in 0 .. 6 /\ 2 \in 0 .. 6
    OBVIOUS
  <2>2. SameEmbed(s, t) /\ SameTemp(s, t) /\ SameProbs(s, t) /\ SameFfn(s, t)
        /\ SameCache(s, t) /\ ~(t.step >= 12)
    BY DEF SameEmbed, SameTemp, SameProbs, SameFfn, SameCache, ProbsThere, ProbHead,
       PastFlush, At
  <2> HIDE DEF s, t
  <2>3. QED
    BY <1>1, <1>11, <1>12, <2>1, <2>2, RestKept
<1>16. UramHolds(j, l, t)'
  BY DEF UramHolds, At
<1>17. QED
  BY <1>9, <1>14, <1>15, <1>16 DEF Facts, HbmHolds

\* No word of the activations changed: no region of theirs did.
LEMMA ActSpared ==
  ASSUME SizesFit, \A a \in act_base .. Base(6) - 1 : hbm'[a] = hbm[a],
         NEW i \in 0 .. 6, NEW k \in i .. 6
  PROVE  Spared(i, k)
<1>1. /\ Base(i) \in Int /\ Base(k) \in Int /\ Base(0) = act_base /\ Base(0) <= Base(i)
      /\ Base(k) <= Base(6)
  BY BaseOrder
<1>2. Base(0) \in Int /\ Base(6) \in Int
  <2>1. 0 \in 0 .. 6 /\ 6 \in 0 .. 6
    OBVIOUS
  <2>2. QED
    BY <2>1, BaseOrder
<1>3. \A a \in Base(i) .. Base(k) - 1 : a \in act_base .. Base(6) - 1
  BY <1>1, <1>2
<1>4. QED
  BY <1>3 DEF Spared

\* The rows of a job are those from its first on.
LEMMA RowOnward ==
  ASSUME Fits, NEW l \in 0 .. NUM_LAYERS - 1, NEW part \in {0, 1}, NEW j \in TileJobs,
         NEW r \in 0 .. RowsOf(j) - 1, NEW c \in Cols
  PROVE  CacheWord(l, part, RowPos(j, 0), 0) + r * MODEL_STRIDE + c
           = CacheWord(l, part, RowPos(j, r), c)
<1> DEFINE p == RowPos(j, 0)
           M == MODEL_STRIDE
           L == kv_base + l * KV_LAYER_SIZE + part * ACT_SLAB
<1>1. RowsOf(j) \in 1 .. TILE /\ TILE \in Nat
  BY JobShape, AcceleratorAssumption
<1>2. p \in Nat /\ RowPos(j, r) = p + r /\ r \in Nat /\ c \in Nat
  <2>1. 0 \in 0 .. RowsOf(j) - 1
    BY <1>1
  <2>2. p \in 0 .. TILE - 1 /\ p = (IF j.decode THEN TILE - 1 ELSE 0)
        /\ RowPos(j, r) = (IF j.decode THEN TILE - 1 ELSE r)
        /\ (j.decode => RowsOf(j) = 1)
    BY <2>1, JobShape
  <2>3. r \in Nat /\ c \in Nat
    BY <1>1 DEF Cols
  <2>4. j.decode => r = 0
    BY <1>1, <2>2
  <2>5. QED
    BY <1>1, <2>2, <2>3, <2>4
<1>3. M \in Nat /\ L \in Int
  <2>1. KV_LAYER_SIZE \in Nat /\ ACT_SLAB \in Nat /\ kv_base \in Nat /\ M \in Nat
        /\ NUM_LAYERS \in Nat
    BY CacheSizes, DimAssumption DEF NUM_LAYERS
  <2>2. l * KV_LAYER_SIZE \in Nat /\ part * ACT_SLAB \in Nat
    BY <2>1
  <2>3. QED
    BY <2>1, <2>2
<1>4. /\ CacheWord(l, part, p, 0) = L + p * M + 0
      /\ CacheWord(l, part, p + r, c) = L + (p + r) * M + c
  BY DEF CacheWord
<1> HIDE DEF p, M, L
<1>5. (p + r) * M = p * M + r * M /\ p * M \in Int /\ r * M \in Int
  BY <1>2, <1>3
<1>6. CacheWord(l, part, p, 0) + r * M + c = CacheWord(l, part, p + r, c)
  BY <1>2, <1>3, <1>4, <1>5
<1>7. QED
  BY <1>2, <1>6 DEF p, M

\* The flush of the keys or the values, to the rows of the cache of the job's tokens.
LEMMA CacheFlushed ==
  ASSUME Fits, Control, busy, state = "S_QKV_FL", flush_sent, FlushEffect,
         tokens' = tokens, NEW q \in {1, 2}, q = qkv_phase,
         NEW j, NEW l, j = req, l = layer_cnt, Facts(j, l, At(2, 2 * q + 1, 0, 0))
  PROVE  UNCHANGED dma_word /\ Unspoiled /\ Facts(j, l, At(2, 2 * q + 2, 0, 0))'
<1> DEFINE s == At(2, 2 * q + 1, 0, 0)
           t == At(2, 2 * q + 2, 0, 0)
           R == RowsOf(j)
           n == MODEL_STRIDE
           part == q - 1
           kind == IF part = 0 THEN "k" ELSE "v"
           B == CacheWord(l, part, RowPos(j, 0), 0)
<1>0. SizesFit /\ part \in {0, 1} /\ kind # "bad"
  BY DEF Fits
<1>1. /\ state \in FlushStates /\ wb = NONE /\ R \in 1 .. TILE /\ R \in 1 .. 1024
      /\ R <= URAM_ROWS /\ bt = R /\ uf_cmd = QkvFlush /\ j \in TileJobs
      /\ n \in 1 .. 256 /\ n <= URAM_COL_WORDS /\ URAM_COL_WORDS \in Nat
      /\ l \in 0 .. NUM_LAYERS - 1 /\ TILE \in Nat
  BY RunNow, FlushNow, AcceleratorAssumption DEF FlushStates
<1>2. \A r \in 0 .. R - 1 : RowPos(j, r) \in 0 .. TILE - 1
  BY <1>1, JobShape
<1>3. \A r \in 0 .. R - 1, c \in 0 .. n - 1 :
        /\ B + r * n + c = CacheWord(l, part, RowPos(j, r), c)
        /\ CacheWord(l, part, RowPos(j, r), c) \in HbmWords
        /\ CacheWord(l, part, RowPos(j, r), c) \notin act_base .. Base(6) - 1
  <2> SUFFICES ASSUME NEW r \in 0 .. R - 1, NEW c \in 0 .. n - 1
               PROVE  /\ B + r * n + c = CacheWord(l, part, RowPos(j, r), c)
                      /\ CacheWord(l, part, RowPos(j, r), c) \in HbmWords
                      /\ CacheWord(l, part, RowPos(j, r), c) \notin act_base .. Base(6) - 1
    OBVIOUS
  <2>1. c \in Cols
    BY DEF Cols
  <2> HIDE DEF part
  <2>2. B + r * n + c = CacheWord(l, part, RowPos(j, r), c)
    BY <1>0, <1>1, <2>1, RowOnward
  <2>3. QED
    BY <1>0, <1>1, <1>2, <2>1, <2>2, CacheAt
<1>4. uf_cmd = Flush(B, n, R - 1, n - 1, 0) /\ B \in Int
  <2>1. /\ kv_base \in Nat /\ l * KV_LAYER_SIZE \in Nat /\ ACT_SLAB \in Nat
        /\ kv_row \in Nat /\ RowPos(j, 0) * n = kv_row
    <3>1. KV_LAYER_SIZE \in Nat /\ ACT_SLAB \in Nat /\ kv_base \in Nat
      BY CacheSizes, DimAssumption
    <3>2. l \in Nat
      BY <1>1, DimAssumption DEF NUM_LAYERS
    <3>3. j.decode => j.cache_len \in Nat
      BY <1>1, JobShape, AcceleratorAssumption
    <3>4. n \in Nat
      BY <1>1
    <3>5. kv_row = (IF j.decode THEN j.cache_len * n ELSE 0)
          /\ RowPos(j, 0) = (IF j.decode THEN j.cache_len + 0 ELSE 0)
      BY DEF kv_row, RowPos
    <3> HIDE DEF n
    <3>6. RowPos(j, 0) * n = kv_row /\ kv_row \in Nat
      BY <3>3, <3>4, <3>5
    <3>7. QED
      BY <3>1, <3>2, <3>6
  <2>2. B = kv_base + l * KV_LAYER_SIZE + part * ACT_SLAB + kv_row + 0
    BY <2>1 DEF CacheWord
  <2>3. CASE q = 1
    <3>1. part * ACT_SLAB = 0
      BY <2>1, <2>3
    <3>2. B = layer_kv_base + kv_row
      BY <2>1, <2>2, <3>1 DEF layer_kv_base
    <3>3. QED
      BY <1>1, <2>1, <2>3, <3>2 DEF QkvFlush, layer_kv_base
  <2>4. CASE q = 2
    <3>1. part * ACT_SLAB = ACT_SLAB
      BY <2>1, <2>4
    <3>2. B = layer_kv_base + KV_V_OFFSET + kv_row
      BY <2>1, <2>2, <3>1 DEF layer_kv_base, KV_V_OFFSET
    <3>3. QED
      BY <1>1, <2>1, <2>4, <3>2 DEF QkvFlush, layer_kv_base, KV_V_OFFSET
  <2>5. QED
    BY <2>3, <2>4
<1>5. Offered(R, n, 0, j, kind, l, 0)
  <2>1. Whole(j, kind, l, 0, R)
    BY DEF Facts, UramHolds, At
  <2> HIDE DEF kind, R
  <2>2. \A r \in 0 .. R - 1, c \in 0 .. n - 1 : Uram(<<r, c>>) = Val(j, kind, l, r, c)
    BY ZenonT(60), <2>1, WholeIs DEF Cols
  <2>3. \A c \in 0 .. n - 1 : 0 + c = c
    BY <1>1
  <2>4. QED
    BY <2>2, <2>3 DEF Offered
<1> HIDE DEF R, n, B, kind
<1>6. Carries(B, n, R, n, 0)
  <2>1. \A r \in 0 .. R - 1, c \in 0 .. n - 1 : B + r * n + c \in HbmWords
    BY <1>3
  <2>2. n \in Nat /\ n <= n /\ 0 \in 0 .. 255 /\ 0 + n <= URAM_COL_WORDS
    BY <1>1
  <2>3. QED
    BY <1>1, <1>4, <2>1, <2>2 DEF Carries
<1>7. /\ UNCHANGED <<uram, wb, dma_word>> /\ Unspoiled
      /\ Delivered(B, n, R, n, j, kind, l, 0) /\ OnlyTo(B, n, R, n)
  BY <1>0, <1>1, <1>5, <1>6, FlushTo
<1>8. ASSUME NEW a \in HbmWords, hbm'[a] # hbm[a]
      PROVE  \E r \in 0 .. R - 1, c \in Cols : a = CacheWord(l, part, RowPos(j, r), c)
  <2>1. PICK r \in 0 .. R - 1, c \in 0 .. n - 1 : a = B + r * n + c
    BY <1>7, <1>8 DEF OnlyTo
  <2>2. QED
    BY <1>3, <2>1 DEF Cols, n
<1>9. \A a \in act_base .. Base(6) - 1 : hbm'[a] = hbm[a]
  BY <1>0, <1>3, <1>8, ActPlaces DEF Cols, n
<1>10. Spared(0, 1) /\ Spared(1, 2) /\ Spared(4, 5) /\ Spared(5, 6) /\ Spared(1, 5)
  <2>1. /\ 0 \in 0 .. 6 /\ 1 \in 0 .. 6 /\ 4 \in 0 .. 6 /\ 5 \in 0 .. 6
        /\ 1 \in 0 .. 6 /\ 2 \in 1 .. 6 /\ 5 \in 4 .. 6 /\ 6 \in 5 .. 6 /\ 5 \in 1 .. 6
    OBVIOUS
  <2>2. QED
    BY <1>0, <1>9, <2>1, ActSpared
<1>11. HbmHolds(j, l, s) /\ RowsOf(j) \in 1 .. TILE
  BY <1>1 DEF Facts, R
<1>12. /\ EmbedHolds(j, l, t)' /\ TempHolds(j, l, t)' /\ QueriesHold(j, l, t)'
       /\ ProbsHold(j, l, t)' /\ FfnHolds(j, l, t)'
  <2>1. SameEmbed(s, t) /\ SameTemp(s, t) /\ SameQueries(s, t) /\ SameProbs(s, t)
        /\ SameFfn(s, t)
    BY DEF SameEmbed, SameTemp, SameQueries, SameProbs, SameFfn, QueriesThere, HeadsDone,
       ProbsThere, At
  <2> HIDE DEF s, t
  <2>2. EmbedHolds(j, l, t)' /\ TempHolds(j, l, t)'
    BY <1>0, <1>10, <1>11, <2>1, EmbedKept, TempKept DEF HbmHolds
  <2>3. QueriesHold(j, l, t)' /\ ProbsHold(j, l, t)'
    BY <1>0, <1>10, <1>11, <2>1, QueriesKept, ProbsKept DEF HbmHolds
  <2>4. FfnHolds(j, l, t)'
    BY <1>0, <1>10, <1>11, <2>1, FfnKept DEF HbmHolds
  <2>5. QED
    BY <2>2, <2>3, <2>4
<1>13. ASSUME NEW m \in 0 .. NUM_LAYERS - 1, NEW side \in {0, 1}, NEW p \in 0 .. TILE - 1,
              Cached(j, l, t, m, side, p)
       PROVE  CacheRow(m, side, p)'
  <2>1. CASE m = l /\ side = part /\ \E r \in 0 .. R - 1 : p = RowPos(j, r)
    <3>1. PICK r \in 0 .. R - 1 : p = RowPos(j, r)
      BY <2>1
    <3>2. ASSUME NEW c \in Cols
          PROVE  hbm'[CacheWord(m, side, p, c)] = Val(j, kind, l, r, c)
      <4>1. c \in 0 .. n - 1 /\ 0 + c = c
        BY <1>1 DEF Cols, n
      <4>2. hbm'[B + r * n + c] = Val(j, kind, l, r, 0 + c)
        BY <1>7, <4>1 DEF Delivered
      <4>3. QED
        BY <1>3, <2>1, <3>1, <4>1, <4>2
    <3>3. \A c : Val(j, kind, l, r, c)
                   = V(IF side = 0 THEN "k" ELSE "v", m, p, c, Prefix(tokens, p + 1))
      BY <2>1, <3>1 DEF Val, kind
    <3>4. \A c \in Cols : hbm'[CacheWord(m, side, p, c)]
            = V(IF side = 0 THEN "k" ELSE "v", m, p, c, Prefix(tokens, p + 1))
      BY <3>2, <3>3
    <3>5. QED
      BY <3>4 DEF CacheRow, Cols, CacheWord, V, Prefix
  <2>2. CASE ~(m = l /\ side = part /\ \E r \in 0 .. R - 1 : p = RowPos(j, r))
    <3>1. ASSUME NEW c \in Cols
          PROVE  hbm'[CacheWord(m, side, p, c)] = hbm[CacheWord(m, side, p, c)]
      <4>1. CacheWord(m, side, p, c) \in HbmWords
        BY CacheAt
      <4> SUFFICES ASSUME NEW r \in 0 .. R - 1, NEW d \in Cols,
                          CacheWord(m, side, p, c) = CacheWord(l, part, RowPos(j, r), d)
                   PROVE  FALSE
        BY <1>8, <4>1
      <4> HIDE DEF part
      <4>2. RowPos(j, r) \in 0 .. TILE - 1
        BY <1>2
      <4>3. m = l /\ side = part /\ p = RowPos(j, r)
        BY <1>0, <1>1, <4>2, CacheDistinct
      <4>4. QED
        BY <2>2, <4>3
    <3>2. Cached(j, l, s, m, side, p)
      <4>1. CASE m = l /\ side = part
        <5>1. ~\E r \in 0 .. R - 1 : p = RowPos(j, r)
          BY <2>2, <4>1
        <5>2. j.decode /\ p < TILE - 1
          <6>1. CASE j.decode
            <7>1. R = 1 /\ RowPos(j, 0) = TILE - 1
              <8>1. R = 1 /\ 0 \in 0 .. R - 1
                BY <1>1, <6>1, JobShape DEF R
              <8>2. QED
                BY <1>1, <6>1, <8>1, JobShape DEF R
            <7>2. p # TILE - 1
              BY <5>1, <7>1
            <7>3. QED
              BY <1>1, <6>1, <7>2
          <6>2. CASE ~j.decode
            <7>1. R = TILE /\ RowPos(j, p) = p
              BY <1>1, <6>2, JobShape DEF R
            <7>2. QED
              BY <5>1, <7>1
          <6>3. QED
            BY <6>1, <6>2
        <5>3. QED
          BY <5>2 DEF Cached
      <4>2. CASE ~(m = l /\ side = part)
        <5>1. m = l => (PastFlush(t, side) => PastFlush(s, side))
          BY <1>0, <4>2 DEF PastFlush, At
        <5> HIDE DEF s, t
        <5>2. QED
          BY <1>13, <5>1 DEF Cached
      <4>3. QED
        BY <4>1, <4>2
    <3>3. CacheRow(m, side, p)
      BY <1>11, <3>2 DEF HbmHolds, CacheHolds
    <3>4. QED
      BY <3>1, <3>3, CacheRowKept
  <2>3. QED
    BY <2>1, <2>2
<1>14. CacheHolds(j, l, t)'
  <2> HIDE DEF t
  <2>1. QED
    BY <1>13 DEF CacheHolds, Cached, PastFlush, NUM_LAYERS
<1>15. UramHolds(j, l, t)'
  BY DEF UramHolds, At
<1>16. QED
  BY <1>7, <1>12, <1>14, <1>15 DEF Facts, HbmHolds

-----------------------------------------------------------------------------
(* The host's loading of a job.                                            *)

\* Sequences that agree up to n have the same prefix.
LEMMA SamePrefix ==
  ASSUME NEW s \in Seq(Int), NEW u \in Seq(Int), NEW n \in Nat, n <= Len(s), n <= Len(u),
         \A i \in 1 .. n : s[i] = u[i]
  PROVE  Prefix(s, n) = Prefix(u, n)
<1> DEFINE q == Prefix(u, n)
<1>1. q \in Seq(Int) /\ Len(q) = n /\ \A i \in 1 .. n : q[i] = u[i]
  BY DEF Prefix
<1> HIDE DEF q
<1>2. SubSeq(s, 1, n) = q
  <2>1. SubSeq(s, 1, n) \in Seq(Int) /\ Len(SubSeq(s, 1, n)) = n
        /\ \A i \in 1 .. n : SubSeq(s, 1, n)[i] = s[i]
    OBVIOUS
  <2>2. \A i \in 1 .. n : SubSeq(s, 1, n)[i] = q[i]
    BY <1>1, <2>1
  <2>3. QED
    BY <1>1, <2>1, <2>2
<1>3. QED
  BY <1>2 DEF q, Prefix

\* Whatever the job, its sequence is one of tokens.
LEMMA TokensTyped ==
  ASSUME Fits, tokens \in Seq(Int), NEW j \in Jobs, Load(j)
  PROVE  tokens' \in Seq(Int)
<1>1. j.cache_len \in Nat /\ j.batch * j.seq \in Nat /\ j.decode \in BOOLEAN
  BY JobAssumption DEF Job
<1>2. \A p \in Nat \ {0} : Flip(p) \in Int
  BY DEF Flip
<1>3. CASE j.decode
  <2>1. /\ j.cache_len <= Len(tokens)
        /\ tokens' = Append(Prefix(tokens, j.cache_len), Flip(j.cache_len + 1))
    BY <1>3 DEF Load, LegalJob
  <2>2. Prefix(tokens, j.cache_len) \in Seq(Int) /\ Flip(j.cache_len + 1) \in Int
    BY <1>1, <1>2, <2>1 DEF Prefix
  <2>3. QED
    BY <2>1, <2>2
<1>4. CASE ~j.decode
  <2>1. tokens' = [p \in 1 .. j.batch * j.seq |-> Flip(p)]
    BY <1>4 DEF Load
  <2>2. \A p \in 1 .. j.batch * j.seq : Flip(p) \in Int
    BY <1>1, <1>2
  <2>3. QED
    BY <1>1, <2>1, <2>2
<1>5. QED
  BY <1>1, <1>3, <1>4

\* The host's stores spoil nothing: they are embeddings.
LEMMA LoadSpoilsNothing ==
  ASSUME NEW j \in Jobs, Load(j)
  PROVE  Unspoiled
<1> DEFINE x(r, c) == V("x", 0, RowPos(j, r), c, Prefix(tokens', RowPos(j, r) + 1))
<1>1. \A a \in HbmWords :
        hbm'[a] = IF a - act_base \in 0 .. j.batch * j.seq * MODEL_STRIDE - 1
                    THEN x((a - act_base) \div MODEL_STRIDE, (a - act_base) % MODEL_STRIDE)
                    ELSE hbm[a]
  BY DEF Load
<1>2. \A r, c : x(r, c).kind = "x"
  BY DEF V
<1> HIDE DEF x
<1>3. QED
  BY <1>1, <1>2 DEF Unspoiled

\* The sequence a supported job leaves is a tile of tokens; a decode keeps all but the
\* last.
LEMMA TokensLoaded ==
  ASSUME Fits, tokens \in Seq(Int), NEW j \in TileJobs, Load(j), j.decode => TokensInv
  PROVE  /\ tokens' \in Seq(Int) /\ Len(tokens') = TILE
         /\ j.decode => /\ TILE - 1 <= Len(tokens)
                        /\ \A p \in 0 .. TILE - 2 : Prefix(tokens', p + 1)
                                                      = Prefix(tokens, p + 1)
<1>1. /\ TILE \in Nat \ {0} /\ (j.decode => Len(tokens) \in {0, TILE})
      /\ \A p \in Nat \ {0} : Flip(p) \in Int
  BY AcceleratorAssumption DEF TokensInv, Flip
<1>2. /\ j.decode => j.cache_len = TILE - 1
      /\ j.batch * j.seq = RowsOf(j) /\ (~j.decode => RowsOf(j) = TILE)
      /\ j.decode \in BOOLEAN
  BY JobShape
<1>3. CASE j.decode
  <2>1. /\ TILE - 1 <= Len(tokens) /\ TILE - 1 \in Nat
        /\ tokens' = Append(Prefix(tokens, TILE - 1), Flip(TILE - 1 + 1))
    BY <1>1, <1>2, <1>3 DEF Load, LegalJob
  <2> DEFINE q == Prefix(tokens, TILE - 1)
             f == Flip(TILE - 1 + 1)
  <2>2. f \in Int
    BY <1>1
  <2>3. q \in Seq(Int) /\ Len(q) = TILE - 1 /\ \A i \in 1 .. TILE - 1 : q[i] = tokens[i]
    BY <1>1, <2>1 DEF Prefix
  <2> HIDE DEF q, f
  <2>4. /\ tokens' \in Seq(Int) /\ Len(tokens') = TILE
        /\ \A i \in 1 .. TILE - 1 : tokens'[i] = q[i]
    BY <1>1, <2>1, <2>2, <2>3 DEF q, f
  <2>5. \A i \in 1 .. TILE - 1 : tokens'[i] = tokens[i]
    BY <2>3, <2>4
  <2>6. ASSUME NEW p \in 0 .. TILE - 2
        PROVE  Prefix(tokens', p + 1) = Prefix(tokens, p + 1)
    <3> DEFINE u == tokens'
    <3>1. u \in Seq(Int) /\ Len(u) = TILE /\ \A i \in 1 .. TILE - 1 : u[i] = tokens[i]
      BY <2>4, <2>5
    <3> HIDE DEF u
    <3>2. p + 1 \in Nat /\ p + 1 <= Len(u) /\ p + 1 <= Len(tokens)
          /\ \A i \in 1 .. p + 1 : u[i] = tokens[i]
      BY SMTT(40), <1>1, <2>1, <3>1
    <3>3. Prefix(u, p + 1) = Prefix(tokens, p + 1)
      BY <1>1, <3>1, <3>2, SamePrefix
    <3>4. QED
      BY <3>3 DEF u
  <2>7. QED
    BY <2>1, <2>4, <2>6
<1>4. CASE ~j.decode
  <2>1. tokens' = [p \in 1 .. TILE |-> Flip(p)]
    BY <1>2, <1>4 DEF Load
  <2>2. \A p \in 1 .. TILE : Flip(p) \in Int
    BY <1>1
  <2>3. tokens' \in Seq(Int) /\ Len(tokens') = TILE
    BY <1>1, <2>1, <2>2
  <2>4. QED
    BY <1>4, <2>3
<1>5. QED
  BY <1>2, <1>3, <1>4

\* The host's stores: the embeddings of the job's rows, in ACT_EMBED and in the URAM.
LEMMA EmbedsLoaded ==
  ASSUME Fits, NEW j \in TileJobs, Load(j)
  PROVE  /\ \A r \in 0 .. RowsOf(j) - 1, c \in Cols :
              /\ hbm'[ActAt(0, r, c)] = Val(j, "x", 0, r, c)'
              /\ uram'[<<r, c>>] = Val(j, "x", 0, r, c)'
         /\ \A a \in HbmWords : a \notin act_base .. Base(6) - 1 => hbm'[a] = hbm[a]
<1> DEFINE R == RowsOf(j)
           M == MODEL_STRIDE
           x(r, c) == V("x", 0, RowPos(j, r), c, Prefix(tokens', RowPos(j, r) + 1))
<1>1. /\ R \in 1 .. TILE /\ j.batch * j.seq = R /\ M \in Nat \ {0} /\ TILE \in Nat
      /\ act_base \in Nat /\ ACT_SLAB \in Nat /\ Cols = 0 .. M - 1 /\ TILE <= URAM_ROWS
      /\ M <= URAM_COL_WORDS /\ URAM_ROWS \in Nat /\ URAM_COL_WORDS \in Nat /\ Preload
      /\ ACT_SLAB = TILE * M
  BY JobShape, ActPlaces, SizeFacts, CacheSizes, AcceleratorAssumption
     DEF Fits, SizesFit, Cols
<1>2. /\ \A a \in HbmWords : hbm'[a] = IF a - act_base \in 0 .. R * M - 1
                                         THEN x((a - act_base) \div M, (a - act_base) % M)
                                         ELSE hbm[a]
      /\ \A y \in UramWords : uram'[y] = IF Preload /\ y[1] < R /\ y[2] < M
                                           THEN x(y[1], y[2]) ELSE uram[y]
  BY <1>1 DEF Load
<1>3. \A r, c : Val(j, "x", 0, r, c)' = x(r, c)
  BY DEF Val, V, RowPos, Prefix
<1> HIDE DEF x
<1>4. ASSUME NEW r \in 0 .. R - 1, NEW c \in Cols
      PROVE  hbm'[ActAt(0, r, c)] = x(r, c) /\ uram'[<<r, c>>] = x(r, c)
  <2>1. r \in Nat /\ r \in 0 .. TILE - 1 /\ c \in 0 .. M - 1
    BY <1>1
  <2>2. ActAt(0, r, c) \in HbmWords
    BY <2>1, ActPlaces DEF Fits, Cols
  <2>3. ActAt(0, r, c) - act_base = r * M + c
    <3>1. 0 * ACT_SLAB = 0 /\ r * M \in Int /\ c \in Int
      BY <1>1, <2>1
    <3>2. QED
      BY <1>1, <3>1 DEF ActAt
  <2>4. (r * M + c) \div M = r /\ (r * M + c) % M = c
    <3> HIDE DEF M
    <3>1. QED
      BY <1>1, <2>1, DivideBack
  <2>5. r * M + c \in 0 .. R * M - 1
    <3> HIDE DEF M, R
    <3>1. r * M + M <= R * M /\ r * M \in Nat /\ R * M \in Nat
      <4>1. R \in Nat /\ r < R /\ M \in Nat
        BY <1>1, <2>1
      <4>2. QED
        BY <2>1, <4>1, ProductStep
    <3>2. QED
      BY <1>1, <2>1, <3>1
  <2>6. hbm'[ActAt(0, r, c)] = x(r, c)
    BY <1>2, <2>2, <2>3, <2>4, <2>5
  <2>7. r \in 0 .. URAM_ROWS - 1 /\ c \in 0 .. URAM_COL_WORDS - 1 /\ r < R /\ c < M
    BY <1>1, <2>1
  <2>8. <<r, c>> \in UramWords
    BY <2>7 DEF UramWords
  <2>9. uram'[<<r, c>>] = x(r, c)
    BY <1>1, <1>2, <2>7, <2>8
  <2>10. QED
    BY <2>6, <2>9
<1>5. ASSUME NEW a \in HbmWords, a \notin act_base .. Base(6) - 1
      PROVE  hbm'[a] = hbm[a]
  <2>1. ~(a - act_base \in 0 .. R * M - 1)
    <3>1. a \in Int
      <4>1. kv_base \in Nat /\ NUM_LAYERS * KV_LAYER_SIZE \in Nat
        BY CacheSizes, DimAssumption DEF NUM_LAYERS
      <4>2. QED
        BY <1>1, <4>1 DEF HbmWords
    <3>2. R * M <= 6 * ACT_SLAB /\ R * M \in Nat
      <4>1. (TILE - R) * M \in Nat /\ TILE * M = R * M + (TILE - R) * M /\ R * M \in Nat
            /\ TILE * M \in Nat
        BY <1>1
      <4>2. QED
        BY <1>1, <4>1
    <3>3. Base(6) = act_base + 6 * ACT_SLAB
      BY DEF Base
    <3> HIDE DEF R, M
    <3> DEFINE z == R * M
    <3>4. z \in Nat /\ z <= 6 * ACT_SLAB
      BY <3>2
    <3> HIDE DEF z
    <3>5. ~(a - act_base \in 0 .. z - 1)
      BY <1>1, <1>5, <3>1, <3>3, <3>4
    <3>6. QED
      BY <3>5 DEF z
  <2>2. QED
    BY <1>2, <1>5, <2>1
<1>6. QED
  BY <1>3, <1>4, <1>5

\* A loaded job is at the first place of the table, in the first layer; a decode finds
\* the keys and values of the earlier tokens.
LEMMA Loaded ==
  ASSUME Fits, tokens \in Seq(Int), wb = NONE, NEW j \in TileJobs, Load(j),
         j.decode => TokensInv /\ AllCached
  PROVE  tokens' \in Seq(Int) /\ Len(tokens') = TILE /\ Facts(j, 0, At(0, 0, 0, 0))'
<1> DEFINE t == At(0, 0, 0, 0)
<1>1. /\ tokens' \in Seq(Int) /\ Len(tokens') = TILE
      /\ j.decode => /\ TILE - 1 <= Len(tokens)
                     /\ \A p \in 0 .. TILE - 2 : Prefix(tokens', p + 1)
                                                   = Prefix(tokens, p + 1)
  BY TokensLoaded
<1>2. /\ \A r \in 0 .. RowsOf(j) - 1, c \in Cols :
           /\ hbm'[ActAt(0, r, c)] = Val(j, "x", 0, r, c)'
           /\ uram'[<<r, c>>] = Val(j, "x", 0, r, c)'
      /\ \A a \in HbmWords : a \notin act_base .. Base(6) - 1 => hbm'[a] = hbm[a]
  BY EmbedsLoaded
<1>3. wb' = wb
  BY DEF Load
<1>5. EmbedHolds(j, 0, t)'
  <2>1. t.step <= 6
    BY DEF At
  <2> HIDE DEF t
  <2>2. QED
    BY <1>2, <2>1 DEF EmbedHolds, RowsOf, Cols, ActAt
<1>6. CacheHolds(j, 0, t)'
  <2>1. ASSUME NEW m \in 0 .. NUM_LAYERS - 1, NEW part \in {0, 1},
               NEW p \in 0 .. TILE - 1, Cached(j, 0, t, m, part, p)
        PROVE  CacheRow(m, part, p)'
    <3>1. j.decode /\ p < TILE - 1
      <4>1. m \in Int /\ ~(m < 0)
        BY DimAssumption DEF NUM_LAYERS
      <4>2. ~PastFlush(t, part)
        BY DEF PastFlush, At
      <4> HIDE DEF t
      <4>3. QED
        BY <2>1, <4>1, <4>2 DEF Cached
    <3>2. /\ p \in 0 .. TILE - 2 /\ p \in 0 .. Len(tokens) - 1
          /\ Prefix(tokens', p + 1) = Prefix(tokens, p + 1)
      <4>1. TILE \in Nat /\ Len(tokens) \in {0, TILE}
        BY <3>1, AcceleratorAssumption DEF TokensInv
      <4>2. p \in 0 .. TILE - 2 /\ p \in 0 .. Len(tokens) - 1
        BY <1>1, <3>1, <4>1
      <4>3. QED
        BY <1>1, <3>1, <4>2
    <3>3. \A c \in Cols : hbm[CacheWord(m, part, p, c)]
            = V(IF part = 0 THEN "k" ELSE "v", m, p, c, Prefix(tokens, p + 1))
      <4>1. CacheRow(m, part, p)
        BY <3>1, <3>2 DEF AllCached
      <4>2. QED
        BY <4>1 DEF CacheRow
    <3>4. \A c \in Cols : hbm'[CacheWord(m, part, p, c)] = hbm[CacheWord(m, part, p, c)]
      BY <1>2, CacheAt
    <3>5. \A c \in Cols : hbm'[CacheWord(m, part, p, c)]
            = V(IF part = 0 THEN "k" ELSE "v", m, p, c, Prefix(tokens', p + 1))
      BY <3>2, <3>3, <3>4
    <3>6. QED
      BY <3>5 DEF CacheRow, Cols, CacheWord, V, Prefix
  <2> HIDE DEF t
  <2>2. QED
    BY <2>1 DEF CacheHolds, Cached, PastFlush, NUM_LAYERS
<1>7. TempHolds(j, 0, t)' /\ QueriesHold(j, 0, t)' /\ ProbsHold(j, 0, t)' /\ FfnHolds(j, 0, t)'
  BY DEF TempHolds, QueriesHold, ProbsHold, FfnHolds, QueriesThere, ProbsThere, At
<1>8. UramHolds(j, 0, t)'
  <2>1. \A r \in 0 .. RowsOf(j) - 1, c \in Cols : Uram(<<r, c>>)' = Val(j, "x", 0, r, c)'
    <3> SUFFICES ASSUME NEW r \in 0 .. RowsOf(j) - 1, NEW c \in Cols
                 PROVE  Uram(<<r, c>>)' = Val(j, "x", 0, r, c)'
      OBVIOUS
    <3>1. /\ RowsOf(j) \in 1 .. TILE /\ TILE <= URAM_ROWS /\ URAM_ROWS \in Nat
          /\ TILE \in Nat /\ MODEL_STRIDE \in Nat /\ MODEL_STRIDE <= URAM_COL_WORDS
          /\ URAM_COL_WORDS \in Nat
      BY SMT, JobShape, SizeFacts, AcceleratorAssumption DEF Fits, SizesFit
    <3>2. r \in 0 .. URAM_ROWS - 1 /\ c \in 0 .. URAM_COL_WORDS - 1
      BY <3>1 DEF Cols
    <3>3. <<r, c>> \in UramWords
      BY <3>2 DEF UramWords
    <3>4. Uram(<<r, c>>)' = uram'[<<r, c>>]
      BY <1>3, <3>3 DEF Uram
    <3>5. QED
      BY <1>2, <3>4
  <2>2. 0 .. 0 + MODEL_STRIDE - 1 = Cols
    BY SMTT(40), SizeFacts DEF Cols, Fits
  <2>3. Whole(j, "x", 0, 0, RowsOf(j))'
    BY <2>1, <2>2 DEF Whole, Holding, RowsOf, MODEL_STRIDE
  <2>4. Whole(j, "ln1", 0, 0, 0)'
    BY DEF Whole, Holding
  <2>5. QED
    BY <2>3, <2>4 DEF UramHolds, At, RowsOf
<1>9. QED
  BY <1>1, <1>5, <1>6, <1>7, <1>8 DEF Facts, HbmHolds

-----------------------------------------------------------------------------
(* The answers of the executors.                                           *)

\* An edge that ends the work of executor d, the only one at work.
Working(d) == /\ start = NONE /\ start' = NONE /\ busy /\ rsp = {} /\ rsp' = {d}
              /\ UNCHANGED <<state, program, loops, nm_flush_phase>>

\* Where the job is at such an edge, before and after it.
LEMMA WorkPlace ==
  ASSUME Control, NEW d \in Devices, Working(d)
  PROVE  /\ Running /\ Running' /\ job = req /\ job' = req /\ lay = layer_cnt
         /\ lay' = layer_cnt /\ Places /\ Places' /\ Has(d) = 0 /\ Has(d)' = 1
         /\ UNCHANGED <<state, req, layer_cnt, step_idx, qkv_phase, head_cnt, nm_row_cnt,
                        nm_flush_phase>>
         /\ step_idx \in 0 .. 15 /\ qkv_phase \in 0 .. 2 /\ nm_row_cnt \in Nat
         /\ state # "S_IDLE"
<1>1. UNCHANGED <<state, req, layer_cnt, step_idx, qkv_phase, head_cnt, nm_row_cnt,
                  nm_flush_phase>>
  BY DEF Working, program, loops
<1>2. start = NONE /\ start' = NONE /\ busy /\ rsp = {} /\ rsp' = {d}
  BY DEF Working
<1>3. Places /\ Places'
  BY <1>2, PlaceNow, PlaceNext
<1>4. Has(d) = 0 /\ Has(d)' = 1
  BY <1>2 DEF Has
<1>5. state # "S_IDLE" /\ state' # "S_IDLE"
  BY <1>1, <1>2 DEF Control, Registers, AccInv, BusyInv
<1>6. Running /\ Running' /\ job = req /\ job' = req /\ lay = layer_cnt /\ lay' = layer_cnt
  BY <1>1, <1>2, <1>5 DEF Running, job, lay
<1>7. nm_row_cnt \in Dims /\ step_idx \in 0 .. 15 /\ qkv_phase \in 0 .. 2
  BY DEF Control, Registers, TypeOK, FsmTypeOK
<1>8. nm_row_cnt \in Nat
  BY <1>7, DimsType
<1>9. QED
  BY <1>1, <1>3, <1>4, <1>5, <1>6, <1>7, <1>8

\* A matmul's.
LEMMA MmAnswer ==
  ASSUME Fits, Control, Working("mm"), state \in MmStates, waiting_mm, MatmulEffect,
         tokens' = tokens, tokens \in Seq(Int), TokensInv,
         NEW j, NEW l, j = req, l = layer_cnt,
         NEW s, NEW t, s = Position, t = Position', Facts(j, l, s)
  PROVE  UNCHANGED <<hbm, dma_word>> /\ Facts(j, l, t)'
<1>1. /\ Places /\ Places' /\ Has("mm") = 0 /\ Has("mm")' = 1 /\ busy
      /\ UNCHANGED <<state, step_idx, qkv_phase, head_cnt>>
      /\ step_idx \in 0 .. 15 /\ qkv_phase \in 0 .. 2
  BY WorkPlace DEF Devices, Working
<1>2. tokens \in Seq(Int) /\ Len(tokens) = TILE
  BY WorkPlace DEF TokensInv, Devices
<1>3. /\ state = "S_QKV_MM" => step_idx = 2
      /\ state \in {"S_ATT_SCORE", "S_ATT_OUT"} => step_idx = 3
      /\ state = "S_MM_RUN" => step_idx \in {4, 9, 12}
  BY StepOf DEF Control, Registers
<1>4. CASE state = "S_QKV_MM"
  <2> DEFINE q == qkv_phase
  <2>1. s = At(2, 2 * q, 0, 0) /\ t = At(2, 2 * q + 1, 0, 0)
    <3>1. s = At(2, 2 * q + 0, 0, 0) /\ t = At(2, 2 * q + 1, 0, 0)
      BY <1>1, <1>3, <1>4 DEF Places
    <3>2. 2 * q + 0 = 2 * q
      BY <1>1
    <3>3. QED
      BY <3>1, <3>2
  <2>2. PICK z : z = qkv_phase
    OBVIOUS
  <2>3. s = At(2, 2 * z, 0, 0) /\ t = At(2, 2 * z + 1, 0, 0)
    BY <2>1, <2>2
  <2>4. Facts(j, l, At(2, 2 * z, 0, 0))
    BY <2>3
  <2>5. UNCHANGED <<hbm, dma_word>> /\ Facts(j, l, At(2, 2 * z + 1, 0, 0))'
    BY <1>1, <1>4, <2>2, <2>4, QkvProduct
  <2>6. QED
    BY <2>3, <2>5
<1>5. CASE state \in {"S_ATT_SCORE", "S_ATT_OUT"}
  <2>1. PICK h : h = head_cnt
    OBVIOUS
  <2>2. CASE state = "S_ATT_SCORE"
    <3>1. s = At(3, 0, h, 0) /\ t = At(3, 1, h, 0)
      BY <1>1, <1>3, <2>1, <2>2 DEF Places
    <3>2. UNCHANGED <<hbm, dma_word>> /\ Facts(j, l, At(3, 1, h, 0))'
      BY <1>1, <1>2, <2>1, <2>2, <3>1, ScoreProduct
    <3>3. QED
      BY <3>1, <3>2
  <2>3. CASE state = "S_ATT_OUT"
    <3>1. s = At(3, 3, h, 0) /\ t = At(3, 4, h, 0)
      BY <1>1, <1>3, <2>1, <2>3 DEF Places
    <3>2. UNCHANGED <<hbm, dma_word>> /\ Facts(j, l, At(3, 4, h, 0))'
      BY <1>1, <1>2, <2>1, <2>3, <3>1, OutProduct
    <3>3. QED
      BY <3>1, <3>2
  <2>4. QED
    BY <1>5, <2>2, <2>3
<1>6. CASE state = "S_MM_RUN"
  <2>1. CASE step_idx = 4
    <3>1. s = At(4, 0, 0, 0) /\ t = At(5, 0, 0, 0)
      BY <1>1, <1>6, <2>1 DEF Places
    <3>2. UNCHANGED <<hbm, dma_word>> /\ Facts(j, l, At(5, 0, 0, 0))'
      BY <1>1, <1>6, <2>1, <3>1, ProjProduct
    <3>3. QED
      BY <3>1, <3>2
  <2>2. CASE step_idx = 9
    <3>1. s = At(9, 0, 0, 0) /\ t = At(10, 0, 0, 0)
      BY <1>1, <1>6, <2>2 DEF Places
    <3>2. UNCHANGED <<hbm, dma_word>> /\ Facts(j, l, At(10, 0, 0, 0))'
      BY <1>1, <1>6, <2>2, <3>1, Ffn1Product
    <3>3. QED
      BY <3>1, <3>2
  <2>3. CASE step_idx = 12
    <3>1. s = At(12, 0, 0, 0) /\ t = At(13, 0, 0, 0)
      BY <1>1, <1>6, <2>3 DEF Places
    <3>2. UNCHANGED <<hbm, dma_word>> /\ Facts(j, l, At(13, 0, 0, 0))'
      BY <1>1, <1>6, <2>3, <3>1, Ffn2Product
    <3>3. QED
      BY <3>1, <3>2
  <2>4. QED
    BY <1>3, <1>6, <2>1, <2>2, <2>3
<1>7. QED
  BY <1>4, <1>5, <1>6 DEF MmStates

\* A flush's.
LEMMA UfAnswer ==
  ASSUME Fits, Control, Working("uf"), state \in FlushStates, flush_sent, FlushEffect,
         tokens' = tokens, NEW j, NEW l, j = req, l = layer_cnt,
         NEW s, NEW t, s = Position, t = Position', Facts(j, l, s)
  PROVE  UNCHANGED dma_word /\ Unspoiled /\ Facts(j, l, t)'
<1>1. /\ Places /\ Places' /\ Has("uf") = 0 /\ Has("uf")' = 1 /\ busy
      /\ UNCHANGED <<state, step_idx, qkv_phase, head_cnt>>
      /\ step_idx \in 0 .. 15 /\ qkv_phase \in 0 .. 2
  BY WorkPlace DEF Devices, Working
<1>2. /\ state = "S_QKV_FL" => step_idx = 2
      /\ state \in {"S_ATT_SM_FL", "S_ATT_OUT_FL"} => step_idx = 3
      /\ state = "S_UF_RUN" => step_idx \in {1, 8} \cup {6, 14} \cup {11}
  BY StepOf DEF Control, Registers
<1>3. CASE state = "S_QKV_FL" /\ qkv_phase = 0
  <2>1. s = At(2, 1, 0, 0) /\ t = At(2, 2, 0, 0)
    BY <1>1, <1>2, <1>3 DEF Places
  <2>2. UNCHANGED dma_word /\ Unspoiled /\ Facts(j, l, At(2, 2, 0, 0))'
    BY <1>1, <1>3, <2>1, QueriesFlushed
  <2>3. QED
    BY <2>1, <2>2
<1>4. CASE state = "S_QKV_FL" /\ qkv_phase \in {1, 2}
  <2>1. PICK q \in {1, 2} : q = qkv_phase
    BY <1>4
  <2>2. s = At(2, 2 * q + 1, 0, 0) /\ t = At(2, 2 * q + 2, 0, 0)
    <3>1. s = At(2, 2 * q + 1 + 0, 0, 0) /\ t = At(2, 2 * q + 1 + 1, 0, 0)
      BY <1>1, <1>2, <1>4, <2>1 DEF Places
    <3>2. 2 * q + 1 + 0 = 2 * q + 1 /\ 2 * q + 1 + 1 = 2 * q + 2
      OBVIOUS
    <3>3. QED
      BY <3>1, <3>2
  <2>3. Facts(j, l, At(2, 2 * q + 1, 0, 0))
    BY <2>2
  <2>4. UNCHANGED dma_word /\ Unspoiled /\ Facts(j, l, At(2, 2 * q + 2, 0, 0))'
    BY <1>1, <1>4, <2>1, <2>3, CacheFlushed
  <2>5. QED
    BY <2>2, <2>4
<1>5. CASE state \in {"S_ATT_SM_FL", "S_ATT_OUT_FL"}
  <2>1. PICK h : h = head_cnt
    OBVIOUS
  <2>2. CASE state = "S_ATT_SM_FL"
    <3>1. s = At(3, 2, h, 0) /\ t = At(3, 3, h, 0)
      BY <1>1, <1>2, <2>1, <2>2 DEF Places
    <3>2. UNCHANGED dma_word /\ Unspoiled /\ Facts(j, l, At(3, 3, h, 0))'
      BY <1>1, <2>1, <2>2, <3>1, ProbsFlushed
    <3>3. QED
      BY <3>1, <3>2
  <2>3. CASE state = "S_ATT_OUT_FL"
    <3>1. s = At(3, 4, h, 0) /\ t = At(3, 5, h, 0)
      BY <1>1, <1>2, <2>1, <2>3 DEF Places
    <3>2. UNCHANGED dma_word /\ Unspoiled /\ Facts(j, l, At(3, 5, h, 0))'
      BY <1>1, <2>1, <2>3, <3>1, HeadFlushed
    <3>3. QED
      BY <3>1, <3>2
  <2>4. QED
    BY <1>5, <2>2, <2>3
<1>6. CASE state = "S_UF_RUN"
  <2>1. PICK i : i = step_idx
    OBVIOUS
  <2>2. i \in 0 .. 15 /\ s = At(i, 0, 0, 0) /\ t = At(i + 1, 0, 0, 0)
    <3>1. s = At(i + 0, 0, 0, 0) /\ t = At(i + 1, 0, 0, 0)
      BY <1>1, <1>6, <2>1 DEF Places
    <3>2. i \in 0 .. 15 /\ i + 0 = i
      BY <1>1, <2>1
    <3>3. QED
      BY <3>1, <3>2
  <2>3. Facts(j, l, At(i, 0, 0, 0))
    BY <2>2
  <2>4. CASE i \in {1, 8}
    BY <1>1, <1>6, <2>1, <2>2, <2>3, <2>4, TempFlushed
  <2>5. CASE i \in {6, 14}
    BY <1>1, <1>6, <2>1, <2>2, <2>3, <2>5, EmbedFlushed
  <2>6. CASE i = 11
    <3>1. s = At(11, 0, 0, 0) /\ t = At(12, 0, 0, 0)
      BY <2>2, <2>6
    <3>2. UNCHANGED dma_word /\ Unspoiled /\ Facts(j, l, At(12, 0, 0, 0))'
      BY <1>1, <1>6, <2>1, <2>6, <3>1, FfnFlushed
    <3>3. QED
      BY <3>1, <3>2
  <2>7. QED
    BY <1>2, <1>6, <2>1, <2>4, <2>5, <2>6
<1>7. QED
  BY <1>1, <1>3, <1>4, <1>5, <1>6 DEF FlushStates

\* A scalar unit's.
LEMMA UnitAnswer ==
  ASSUME Fits, NoneApart, Control, NEW u \in Units, Working(u), InUnit(u),
         nm = UnitSetup(u), UnitEffect(u), tokens' = tokens, DmaInv,
         NEW j, NEW l, j = req, l = layer_cnt,
         NEW s, NEW t, s = Position, t = Position', Facts(j, l, s)
  PROVE  UNCHANGED hbm /\ Facts(j, l, t)'
<1>1. /\ Places /\ Places' /\ Has(u) = 0 /\ Has(u)' = 1 /\ busy
      /\ UNCHANGED <<state, step_idx, head_cnt, nm_row_cnt, nm_flush_phase>>
      /\ step_idx \in 0 .. 15 /\ nm_row_cnt \in Nat
  BY WorkPlace DEF Devices, Working
<1>2. /\ state = "S_ATT_SM" => step_idx = 3
      /\ state = "S_ACT_RUN" => step_idx = 10
  BY StepOf DEF Control, Registers
<1>3. /\ ~nm_flush_phase /\ ~nm_flush_phase'
      /\ u = "ln" => state = "S_LN_RUN"
      /\ u = "sm" => state = "S_ATT_SM"
      /\ u = "act" => state = "S_ACT_RUN"
      /\ u = "res" => state = "S_RES_RUN"
  BY <1>1 DEF InUnit, UnitStates, UnitOf
<1>4. PICK i, row, h : i = step_idx /\ row = nm_row_cnt /\ h = head_cnt
  OBVIOUS
<1>5. i \in 0 .. 15 /\ i + 0 = i /\ row + 0 = row
  BY <1>1, <1>4
<1>6. CASE u = "ln"
  <2>1. s = At(i, 0, 0, row) /\ t = At(i, 0, 0, row + 1)
    <3>1. RowsDone("ln") = row + 0 /\ RowsDone("ln")' = row + 1
      BY <1>1, <1>3, <1>4, <1>6 DEF RowsDone
    <3>2. QED
      BY <1>1, <1>3, <1>4, <1>5, <1>6, <3>1 DEF Places
  <2>2. Facts(j, l, At(i, 0, 0, row))
    BY <2>1
  <2>3. InUnit("ln") /\ nm = UnitSetup("ln") /\ UnitEffect("ln")
    BY <1>6
  <2>4. UNCHANGED hbm /\ Facts(j, l, At(i, 0, 0, row + 1))'
    BY <1>1, <1>4, <2>2, <2>3, NormRow
  <2>5. QED
    BY <2>1, <2>4
<1>7. CASE u = "sm"
  <2>1. s = At(3, 1, h, row) /\ t = At(3, 1, h, row + 1)
    <3>1. RowsDone("sm") = row + 0 /\ RowsDone("sm")' = row + 1
      BY <1>1, <1>3, <1>4, <1>7 DEF RowsDone
    <3>2. QED
      BY <1>1, <1>2, <1>3, <1>4, <1>5, <1>7, <3>1 DEF Places
  <2>2. Facts(j, l, At(3, 1, h, row))
    BY <2>1
  <2>3. InUnit("sm") /\ nm = UnitSetup("sm") /\ UnitEffect("sm")
    BY <1>7
  <2>4. UNCHANGED <<hbm, dma_word>> /\ Facts(j, l, At(3, 1, h, row + 1))'
    BY <1>1, <1>4, <2>2, <2>3, SoftRow
  <2>5. QED
    BY <2>1, <2>4
<1>8. CASE u = "act"
  <2>1. s = At(10, 0, 0, 0) /\ t = At(11, 0, 0, 0)
    <3>1. UnitDone("act") = 0 /\ UnitDone("act")' = 1
      BY <1>1, <1>3, <1>8 DEF UnitDone
    <3>2. QED
      BY <1>1, <1>2, <1>3, <1>8, <3>1 DEF Places
  <2>2. Facts(j, l, At(10, 0, 0, 0))
    BY <2>1
  <2>3. InUnit("act") /\ nm = UnitSetup("act") /\ UnitEffect("act")
    BY <1>8
  <2>4. UNCHANGED <<hbm, dma_word>> /\ Facts(j, l, At(11, 0, 0, 0))'
    BY <1>1, <2>2, <2>3, ActRun
  <2>5. QED
    BY <2>1, <2>4
<1>9. CASE u = "res"
  <2>1. s = At(i, 0, 0, 0) /\ t = At(i + 1, 0, 0, 0)
    <3>1. UnitDone("res") = 0 /\ UnitDone("res")' = 1
      BY <1>1, <1>3, <1>9 DEF UnitDone
    <3>2. QED
      BY <1>1, <1>3, <1>4, <1>5, <1>9, <3>1 DEF Places
  <2>2. Facts(j, l, At(i, 0, 0, 0))
    BY <2>1
  <2>3. InUnit("res") /\ nm = UnitSetup("res") /\ UnitEffect("res")
    BY <1>9
  <2>4. UNCHANGED hbm /\ Facts(j, l, At(i + 1, 0, 0, 0))'
    BY <1>1, <1>4, <2>2, <2>3, ResRun
  <2>5. QED
    BY <2>1, <2>4
<1>10. QED
  BY <1>6, <1>7, <1>8, <1>9 DEF Units

\* The adapter's.
LEMMA AdAnswer ==
  ASSUME Fits, Control, Working("ad"), InNmFlush, AdapterFlush, tokens' = tokens,
         NEW j, NEW l, j = req, l = layer_cnt,
         NEW s, NEW t, s = Position, t = Position', Facts(j, l, s)
  PROVE  UNCHANGED <<hbm, dma_word>> /\ Facts(j, l, t)'
<1>1. /\ Places /\ Places' /\ busy
      /\ UNCHANGED <<state, req, step_idx, head_cnt, nm_row_cnt, nm_flush_phase>>
      /\ step_idx \in 0 .. 15
  BY WorkPlace DEF Devices, Working
<1>2. RowsOf(j) \in 1 .. TILE /\ head_cnt \in 0 .. NUM_HEADS - 1
  BY <1>1, RunNow
<1>3. /\ state = "S_LN_RUN" => step_idx \in {0, 7}
      /\ state = "S_ATT_SM" => step_idx = 3
      /\ state = "S_ACT_RUN" => step_idx = 10
      /\ state = "S_RES_RUN" => step_idx \in {5, 13}
  BY StepOf DEF Control, Registers
<1>4. /\ nm_flush_phase /\ nm_flush_phase' /\ state \in UnitStates
      /\ RowsOf(req)' = RowsOf(req)
  BY <1>1 DEF InNmFlush, RowsOf
<1>5. \A u : /\ RowsDone(u) = RowsOf(j) /\ RowsDone(u)' = RowsOf(j)
             /\ UnitDone(u) = 1 /\ UnitDone(u)' = 1
  BY <1>4 DEF RowsDone, UnitDone
<1>6. t = s
  BY <1>1, <1>4, <1>5 DEF Places, UnitStates
<1>7. s.row \in 0 .. RowsOf(j) /\ (s.step = 3 => s.head \in 0 .. NUM_HEADS - 1)
  <2>1. RowsOf(j) \in 0 .. RowsOf(j) /\ 0 \in 0 .. RowsOf(j)
    BY <1>2, AcceleratorAssumption
  <2>2. state \in {"S_LN_RUN", "S_ACT_RUN", "S_RES_RUN"} => step_idx \in {0, 5, 7, 10, 13}
    BY <1>3
  <2>3. CASE state = "S_ATT_SM"
    <3>1. s = At(3, 1, head_cnt, RowsOf(j))
      BY <1>1, <1>3, <1>5, <2>3 DEF Places
    <3>2. QED
      BY <1>2, <2>1, <3>1 DEF At
  <2>4. CASE state \in {"S_LN_RUN", "S_ACT_RUN", "S_RES_RUN"}
    <3>1. s = At(step_idx, 0, 0, RowsOf(j)) \/ s = At(step_idx + 1, 0, 0, 0)
      BY <1>1, <1>5, <2>4 DEF Places
    <3>2. QED
      BY <2>1, <2>2, <2>4, <3>1 DEF At
  <2>5. QED
    BY <1>4, <2>3, <2>4 DEF UnitStates
<1>8. UNCHANGED <<hbm, dma_word>> /\ Facts(j, l, s)'
  BY <1>2, <1>7, AdapterServes
<1>9. QED
  BY <1>6, <1>8

-----------------------------------------------------------------------------
(* The invariant.                                                          *)

\* While the sequence is sound the job under way is supported.
LEMMA SoundControl ==
  ASSUME Registers, intact, sound, DataInv
  PROVE  Control /\ SoundInv /\ (start = NONE /\ Running => job = req /\ lay = layer_cnt)
  BY DEF Control, DataInv, SoundInv, job, lay

\* A sequence that is behind its job is cached as a whole.
LEMMA BetweenJobs ==
  ASSUME Fits, Registers, intact, sound, DataInv, start = NONE, state = "S_IDLE"
  PROVE  TokensInv /\ AllCached
<1>1. ProgInv /\ SoundInv
  BY SoundControl DEF Registers
<1>2. CASE ~Running
  BY <1>1, <1>2 DEF SoundInv
<1>3. CASE Running
  <2>1. pulse = "done"
    BY <1>3 DEF Running
  <2>2. step_idx = 15 /\ layer_cnt = NUM_LAYERS - 1
    BY <1>1, <2>1 DEF ProgInv
  <2>3. Position = At(16, 0, 0, 0) /\ lay = NUM_LAYERS - 1
    BY <2>2, PlaceNow DEF Places, lay
  <2>4. Len(tokens) = TILE /\ Facts(job, lay, Position)
    BY <1>1, <1>3 DEF SoundInv, TokensInv
  <2>5. PICK i, l : i = job /\ l = lay
    OBVIOUS
  <2>6. Facts(i, l, At(16, 0, 0, 0)) /\ l = NUM_LAYERS - 1
    BY <2>3, <2>4, <2>5
  <2>7. QED
    BY <1>1, <2>4, <2>6, EndCached DEF SoundInv
<1>4. QED
  BY <1>2, <1>3

\* The host loads a job: a supported prompt over whatever the memories hold, a supported
\* decode once the cache holds a sound sequence.
LEMMA LoadKeeps ==
  ASSUME Fits, Registers, intact, Next, DataInv, state = "S_IDLE",
         NEW j \in Jobs, start' = j, Load(j),
         sound' = (Supported(j) /\ (j.decode => sound))
  PROVE  DataInv'
<1>1. /\ tokens \in Seq(Int) /\ DmaInv /\ wb = NONE /\ j # NONE
      /\ dma_word' = dma_word
  BY JobAssumption
     DEF Registers, AccInv, IntactInv, DirtyInv, UnitStates, DataInv, Load
<1>2. start = NONE
  BY <1>1 DEF Next, Edge, Host
<1>3. tokens' \in Seq(Int) /\ DmaInv'
  BY <1>1, TokensTyped DEF DmaInv
<1>4. ASSUME sound'
      PROVE  SoundInv'
  <2>1. j \in TileJobs /\ (j.decode => TokensInv /\ AllCached)
    BY <1>2, <1>4, BetweenJobs DEF TileJobs
  <2>2. Len(tokens') = TILE /\ Facts(j, 0, At(0, 0, 0, 0))'
    BY <1>1, <2>1, Loaded
  <2>3. Running' /\ job' = j /\ lay' = 0 /\ Position' = At(0, 0, 0, 0)
    BY <1>1 DEF Running, job, lay, Position
  <2>4. Facts(job, lay, Position)'
    BY <2>2, <2>3
  <2>5. TokensInv' /\ (job \in TileJobs)'
    <3>1. TileJobs' = TileJobs
      BY DEF TileJobs, Supported
    <3>2. QED
      BY <2>1, <2>2, <2>3, <3>1 DEF TokensInv
  <2>6. QED
    BY <2>3, <2>4, <2>5 DEF SoundInv
<1>5. QED
  BY <1>3, <1>4 DEF DataInv

\* No memory changes: neither do the facts of a place.
LEMMA PlaceStays ==
  ASSUME Fits, UNCHANGED memory, NEW j, NEW l, NEW s, Facts(j, l, s)
  PROVE  Facts(j, l, s)'
<1>1. RowsOf(j) \in 1 .. TILE
  BY AcceleratorAssumption DEF RowsOf
<1>2. UNCHANGED <<hbm, uram, wb, tokens>>
  BY DEF memory
<1>3. SameHbm(s, s)
  BY DEF SameHbm, SameEmbed, SameTemp, SameQueries, SameProbs, SameFfn, SameCache
<1>4. HbmHolds(j, l, s)' /\ UramHolds(j, l, s)'
  BY <1>1, <1>2, <1>3, HbmKept, UramKept DEF Facts
<1>5. QED
  BY <1>4 DEF Facts

\* The edges at which no executor answers.
LEMMA QuietKeeps ==
  ASSUME Fits, Registers, intact, Next, DataInv, UNCHANGED memory, start' = NONE, rsp' = {},
         sound' = sound
  PROVE  DataInv'
<1>1. UNCHANGED <<hbm, uram, wb, dma_word, tokens>>
  BY DEF memory
<1>2. tokens' \in Seq(Int) /\ DmaInv'
  BY <1>1 DEF DataInv, DmaInv
<1> SUFFICES ASSUME sound
             PROVE  SoundInv'
  BY <1>2 DEF DataInv
<1>3. AllCached => AllCached'
  BY ZenonT(60), <1>1 DEF AllCached, CacheRow, Cols, CacheWord, V, Prefix
<1>4. /\ Control /\ SoundInv /\ Len(tokens) \in {0, TILE}
      /\ Running => Len(tokens) = TILE /\ job \in TileJobs
  BY SoundControl DEF SoundInv, TokensInv
<1>5. PICK j, l, s, t : j = job /\ l = lay /\ s = Position /\ t = Position'
  OBVIOUS
<1>6. Running => Facts(j, l, s)
  BY <1>4, <1>5 DEF SoundInv
<1>7. CASE ~Running /\ ~Running'
  <2>1. TokensInv'
    BY <1>1, <1>4, <1>7 DEF TokensInv
  <2>2. AllCached'
    BY <1>3, <1>4, <1>7 DEF SoundInv
  <2>3. QED
    BY <1>7, <2>1, <2>2 DEF SoundInv
<1>8. CASE Running /\ ~Running' /\ Position = At(16, 0, 0, 0) /\ lay = NUM_LAYERS - 1
  <2>1. Facts(j, l, At(16, 0, 0, 0)) /\ l = NUM_LAYERS - 1 /\ Len(tokens) = TILE
    BY <1>4, <1>5, <1>6, <1>8
  <2>2. AllCached'
    BY <1>3, <2>1, EndCached
  <2>3. TokensInv'
    BY <1>1, <1>4, <1>8 DEF TokensInv
  <2>4. QED
    BY <1>8, <2>2, <2>3 DEF SoundInv
<1>9. CASE Onward
  <2>1. Running /\ Running' /\ job' = j
    BY <1>5, <1>9 DEF Onward
  <2>2. RowsOf(j) \in 1 .. TILE /\ RowsOf(req) # 0
    BY AcceleratorAssumption DEF RowsOf
  <2>3. TokensInv'
    BY <1>1, <1>4, <2>1 DEF TokensInv
  <2>4. ASSUME NEW m, lay' = m, NEW p, Position' = p, Facts(j, m, p)'
        PROVE  SoundInv'
    <3>1. Facts(job, lay, Position)'
      BY <2>1, <2>4
    <3>2. job' \in TileJobs /\ TileJobs' = TileJobs
      BY <1>4, <1>5, <2>1 DEF TileJobs, Supported
    <3>3. QED
      BY <2>1, <2>3, <3>1, <3>2 DEF SoundInv
  <2>5. CASE lay' = lay /\ SamePlace(Position, Position')
    <3>1. SamePlace(s, t) /\ lay' = l /\ Position' = t
      BY <1>5, <2>5
    <3>2. CASE start = NONE
      <4>1. RowsOf(req) = RowsOf(j)
        BY <1>5, <3>2 DEF job
      <4>2. Facts(j, l, t)'
        BY <1>6, <2>1, <2>2, <3>1, <4>1, PlaceKept
      <4>3. QED
        BY <2>4, <3>1, <4>2
    <3>3. CASE start # NONE
      <4>1. s = At(0, 0, 0, 0)
        BY <1>5, <3>3 DEF Position
      <4>2. s = t
        <5>1. \A a, b, c, d : At(0, 0, 0, 0) = At(a, b, c, d) => a = 0 /\ d = 0
          BY DEF At
        <5>2. PICK n : n = RowsOf(req)
          OBVIOUS
        <5>3. QED
          BY <2>2, <3>1, <4>1, <5>1, <5>2 DEF SamePlace
      <4>3. Facts(j, l, s)'
        BY <1>6, <2>1, PlaceStays
      <4>4. Position' = s
        BY <3>1, <4>2
      <4>5. QED
        BY <2>4, <3>1, <4>3, <4>4
    <3>4. QED
      BY <3>2, <3>3
  <2>6. CASE /\ lay' = lay + 1 /\ lay < NUM_LAYERS - 1
             /\ Position = At(16, 0, 0, 0) /\ Position' = At(0, 0, 0, 0)
    <3>1. start = NONE
      BY <2>6 DEF Position, At
    <3>2. l \in 0 .. NUM_LAYERS - 2
      <4>1. lay = layer_cnt /\ layer_cnt \in 0 .. NUM_LAYERS - 1 /\ NUM_LAYERS \in Int
        BY <3>1, DimAssumption DEF lay, Registers, TypeOK, FsmTypeOK, NUM_LAYERS
      <4>2. QED
        BY <1>5, <2>6, <4>1
    <3>3. Facts(j, l, At(16, 0, 0, 0))
      BY <1>5, <1>6, <2>1, <2>6
    <3>4. Facts(j, l + 1, At(0, 0, 0, 0))
      BY <2>2, <3>2, <3>3, NextLayerFacts
    <3>5. PICK m, p : m = l + 1 /\ p = At(0, 0, 0, 0)
      OBVIOUS
    <3>6. Facts(j, m, p)
      BY <3>4, <3>5
    <3>7. Facts(j, m, p)'
      BY <3>6, PlaceStays
    <3>8. lay' = m /\ Position' = p
      BY <1>5, <2>6, <3>5
    <3>9. QED
      BY <2>4, <3>7, <3>8
  <2>7. QED
    BY <1>9, <2>5, <2>6 DEF Onward
<1>10. QED
  BY <1>4, <1>7, <1>8, <1>9, ControlEdge

-----------------------------------------------------------------------------
\* A unit leaves in act_dma the last word of its parameters or of the residual, which is
\* never the first one: whatever the job, a later read of the first goes to memory.
LEMMA DmaStays ==
  ASSUME Fits, NoneApart, TypeOK, req \in Jobs, NEW u \in Units, nm = UnitSetup(u),
         UnitEffect(u), DmaInv
  PROVE  DmaInv'
<1>1. CASE u \in {"act", "sm"}
  BY <1>1 DEF UnitEffect, DmaInv
<1>2. CASE u \in {"ln", "res"}
  <2>1. /\ MODEL_DIM = MODEL_STRIDE * WE /\ MODEL_STRIDE \in Nat /\ MODEL_STRIDE >= 2
        /\ MODEL_DIM \in Nat \ {0} /\ WE \in Nat \ {0} /\ TILE \in Nat \ {0}
        /\ TILE * MODEL_DIM < 65536
    BY SMT, SizeFacts DEF Fits, SizesFit, MODEL_DIM
  <2>2. bt \in 1 .. TILE
    BY RowsFit
  <2>3. Wrap(bt * MODEL_DIM) = bt * MODEL_DIM
    <3>1. Small(TILE, MODEL_DIM) /\ bt \in 0 .. TILE
      BY <2>1, <2>2 DEF Small
    <3>2. QED
      BY <3>1, SmallProduct
  <2>4. PICK n \in 1 .. TILE : nm.dim = n * MODEL_DIM
    <3>1. u = "ln" => nm.dim = MODEL_DIM
      BY DEF TypeOK, FsmTypeOK, UnitSetup
    <3>2. u = "res" => nm.dim = bt * MODEL_DIM
      BY <2>3 DEF TypeOK, FsmTypeOK, UnitSetup
    <3>3. 1 \in 1 .. TILE /\ 1 * MODEL_DIM = MODEL_DIM
      BY <2>1
    <3>4. QED
      BY <1>2, <2>2, <3>1, <3>2, <3>3
  <2>5. UnitWords = n * MODEL_STRIDE
    <3> DEFINE N == n * MODEL_STRIDE
    <3>1. N \in Nat /\ nm.dim = N * WE + 0
      BY <2>1, <2>4
    <3> HIDE DEF N
    <3>2. (N * WE + 0) \div WE = N
      BY <2>1, <3>1, DivideBack
    <3>3. QED
      BY <3>1, <3>2 DEF UnitWords, N
  <2>6. UnitWords \in Nat /\ UnitWords >= 2
    <3>1. n - 1 \in Nat /\ n * MODEL_STRIDE = MODEL_STRIDE + (n - 1) * MODEL_STRIDE
          /\ (n - 1) * MODEL_STRIDE \in Nat
      BY <2>1
    <3>2. QED
      BY <2>1, <2>5, <3>1
  <2>7. dma_word'.tag = UnitWords - 1
    BY <1>2 DEF UnitEffect
  <2>8. QED
    BY <2>6, <2>7 DEF DmaInv
<1>3. QED
  BY <1>1, <1>2 DEF Units

\* The edge at which executor d answers.
LEMMA WorkKeeps ==
  ASSUME Fits, NoneApart, Registers, intact, restarted = {}, restarted' = {}, Next, DataInv,
         NEW d \in Devices, rsp' = {d}, Engaged(d), start' = NONE, Effect(d), sound' = sound
  PROVE  DataInv' /\ (sound => Unspoiled)
<1>1. /\ Working(d)
      /\ d = "mm" => state \in MmStates /\ waiting_mm /\ MatmulEffect
      /\ d = "uf" => state \in FlushStates /\ flush_sent /\ FlushEffect
      /\ d = "ad" => InNmFlush /\ AdapterFlush
      /\ d \in Units => InUnit(d) /\ nm = UnitSetup(d) /\ UnitEffect(d)
  BY WorkEdge DEF Working, Effect, Units
<1>2. tokens' = tokens /\ tokens \in Seq(Int) /\ DmaInv
  BY DEF Effect, DataInv
<1>3. DmaInv'
  <2>1. CASE d \in Units
    <3>1. TypeOK /\ req \in Jobs
      BY <1>1 DEF Registers, AccInv, BusyInv, Working
    <3>2. QED
      BY <1>1, <1>2, <2>1, <3>1, DmaStays
  <2>2. CASE d \notin Units
    <3>1. dma_word' = dma_word
      BY <1>1, <2>2 DEF Devices, MatmulEffect, FlushEffect, AdapterFlush
    <3>2. QED
      BY <1>2, <3>1 DEF DmaInv
  <2>3. QED
    BY <2>1, <2>2
<1>4. ASSUME sound
      PROVE  SoundInv' /\ Unspoiled
  <2>1. Control /\ SoundInv
    BY <1>4, SoundControl
  <2>2. /\ Running /\ Running' /\ job = req /\ job' = req /\ lay = layer_cnt
        /\ lay' = layer_cnt
    BY <1>1, <2>1, WorkPlace
  <2>3. PICK j, l, s, t : j = req /\ l = layer_cnt /\ s = Position /\ t = Position'
    OBVIOUS
  <2>4. Facts(j, l, s) /\ TokensInv /\ j \in TileJobs
    BY <2>1, <2>2, <2>3 DEF SoundInv
  <2>5. ASSUME Facts(j, l, t)'
        PROVE  SoundInv'
    <3>1. TokensInv' /\ TileJobs' = TileJobs
      BY <1>2, <2>2, <2>4 DEF TokensInv, TileJobs, Supported
    <3>2. job' = j /\ lay' = l /\ Position' = t
      BY <2>2, <2>3
    <3>3. Facts(job, lay, Position)'
      BY <2>5, <3>2
    <3>4. QED
      BY <2>2, <2>4, <3>1, <3>2, <3>3 DEF SoundInv
  <2>6. UNCHANGED hbm => Unspoiled
    BY DEF Unspoiled
  <2>7. CASE d = "mm"
    <3>1. Working("mm") /\ state \in MmStates /\ waiting_mm /\ MatmulEffect
      BY <1>1, <2>7
    <3>2. UNCHANGED hbm /\ Facts(j, l, t)'
      BY <1>2, <2>1, <2>3, <2>4, <3>1, MmAnswer
    <3>3. QED
      BY <2>5, <2>6, <3>2
  <2>8. CASE d = "uf"
    <3>1. Working("uf") /\ state \in FlushStates /\ flush_sent /\ FlushEffect
      BY <1>1, <2>8
    <3>2. Unspoiled /\ Facts(j, l, t)'
      BY <1>2, <2>1, <2>3, <2>4, <3>1, UfAnswer
    <3>3. QED
      BY <2>5, <3>2
  <2>9. CASE d = "ad"
    <3>1. Working("ad") /\ InNmFlush /\ AdapterFlush
      BY <1>1, <2>9
    <3>2. UNCHANGED hbm /\ Facts(j, l, t)'
      BY <1>2, <2>1, <2>3, <2>4, <3>1, AdAnswer
    <3>3. QED
      BY <2>5, <2>6, <3>2
  <2>10. CASE d \in Units
    <3>1. InUnit(d) /\ nm = UnitSetup(d) /\ UnitEffect(d)
      BY <1>1, <2>10
    <3>2. UNCHANGED hbm /\ Facts(j, l, t)'
      BY <1>1, <1>2, <2>1, <2>3, <2>4, <2>10, <3>1, UnitAnswer
    <3>3. QED
      BY <2>5, <2>6, <3>2
  <2>11. QED
    BY <2>7, <2>8, <2>9, <2>10 DEF Devices
<1>5. QED
  BY <1>2, <1>3, <1>4 DEF DataInv

\* Every edge keeps the invariant, and spoils nothing.
LEMMA DataKept ==
  ASSUME Fits, NoneApart, Registers, DataInv, AccNext
  PROVE  DataInv' /\ (intact' /\ sound => Unspoiled)
<1>1. Next /\ IntactInv
  BY DEF AccNext, Registers, AccInv
<1>2. CASE ~intact'
  <2>1. dma_word' = NONE /\ tokens' = <<>>
    BY <1>2 DEF AccNext, Memory, Forget
  <2>2. QED
    BY <1>2, <2>1 DEF DataInv, DmaInv
<1>3. CASE intact'
  <2>1. intact /\ restarted = {} /\ restarted' = {}
    BY <1>1, <1>3, StillIntact
  <2>2. /\ start' = NONE => sound' = sound
        /\ \A j \in Jobs : start' = j => sound' = (Supported(j) /\ (j.decode => sound))
    BY JobAssumption DEF AccNext, History
  <2>3. CASE state = "S_IDLE" /\ \E j \in Jobs : start' = j /\ Load(j)
    BY <1>1, <2>1, <2>2, <2>3, LoadKeeps, LoadSpoilsNothing
  <2>4. CASE start' = NONE /\ UNCHANGED memory /\ rsp' = {}
    <3>1. Unspoiled
      BY <2>4 DEF memory, Unspoiled
    <3>2. QED
      BY <1>1, <2>1, <2>2, <2>4, <3>1, QuietKeeps
  <2>5. CASE start' = NONE /\ \E d \in Devices : rsp' = {d} /\ Engaged(d) /\ Effect(d)
    BY <1>1, <2>1, <2>2, <2>5, WorkKeeps
  <2>6. QED
    BY <1>3, <2>1, <2>3, <2>4, <2>5, WhoWrites DEF Registers, AccInv
<1>4. QED
  BY <1>2, <1>3

\* Nothing moves.
LEMMA DataStutters ==
  ASSUME Fits, DataInv, UNCHANGED accVars
  PROVE  DataInv'
<1>1. UNCHANGED <<start, rsp, left, fsmVars, hbm, uram, wb, dma_word, tokens, intact, sound>>
  BY DEF accVars, vars, memory, history
<1>2. UNCHANGED <<state, pulse, req, layer_cnt, step_idx, head_cnt, qkv_phase,
                  nm_row_cnt, nm_flush_phase>>
  BY <1>1 DEF fsmVars, program, loops, flags
<1>3. job' = job /\ lay' = lay /\ Running' = Running /\ TileJobs' = TileJobs
  BY <1>1, <1>2 DEF job, lay, Running, TileJobs, Supported
<1>4. Position' = Position
  BY <1>1, <1>2 DEF Position, At, Has, RowsDone, UnitDone, RowsOf
<1>5. tokens' \in Seq(Int) /\ DmaInv' /\ (TokensInv => TokensInv')
  BY <1>1, <1>3 DEF DataInv, DmaInv, TokensInv
<1>6. AllCached => AllCached'
  BY <1>1 DEF AllCached, CacheRow, Cols, CacheWord, V, Prefix
<1>7. ASSUME NEW j, NEW l, NEW s, Facts(j, l, s)
      PROVE  Facts(j, l, s)'
  BY <1>1, <1>7, PlaceStays DEF memory
<1>8. SoundInv => SoundInv'
  BY <1>3, <1>4, <1>5, <1>6, <1>7 DEF SoundInv
<1>9. QED
  BY <1>1, <1>5, <1>8 DEF DataInv

-----------------------------------------------------------------------------
\* What a reset leaves in the memories.
LEMMA DataStarts == AccInit => DataInv
<1> SUFFICES ASSUME AccInit PROVE DataInv
  OBVIOUS
<1>1. /\ start = NONE /\ state = "S_IDLE" /\ pulse = "none" /\ tokens = <<>>
      /\ dma_word = NONE
  BY DEF AccInit, Init, FsmInit
<1>2. ~Running
  BY <1>1 DEF Running
<1>3. Len(tokens) = 0 /\ tokens \in Seq(Int)
  BY <1>1
<1>4. DmaInv /\ TokensInv
  BY <1>1, <1>2, <1>3 DEF DmaInv, TokensInv
<1>5. AllCached
  <2>1. 0 .. Len(tokens) - 1 = {}
    BY <1>3
  <2>2. QED
    BY <2>1 DEF AllCached
<1>6. QED
  BY <1>2, <1>3, <1>4, <1>5 DEF DataInv, SoundInv

\* Everywhere, whatever the jobs and the latencies, the memories of a sound sequence hold
\* what the place of the job in the table says.
THEOREM DataAlways ==
  ASSUME Fits, NoneApart
  PROVE  AccSpec => []DataInv
<1>1. Registers /\ DataInv /\ [AccNext]_accVars => DataInv'
  BY DataKept, DataStutters
<1>2. QED
  BY <1>1, DataStarts, ControlAlways, PTL DEF AccSpec

\* While a sequence is sound, nothing computed from the wrong operands, and no word of a
\* tile's garbage margin, is written to the HBM.
THEOREM NeverSpoiled ==
  ASSUME Fits, NoneApart
  PROVE  AccSpec => NothingSpoiled
<1>1. Registers /\ DataInv /\ [AccNext]_accVars
        => [intact' /\ sound => Unspoiled]_accVars
  BY DataKept
<1>2. QED
  BY <1>1, DataAlways, ControlAlways, PTL DEF AccSpec, NothingSpoiled

\* Where a sound job that ends is: behind the last step of the last layer.
LEMMA EndPlace ==
  ASSUME Fits, Registers, DataInv, intact, sound, pulse = "done"
  PROVE  /\ req \in TileJobs /\ Len(tokens) = TILE /\ wb = NONE
         /\ Facts(req, NUM_LAYERS - 1, At(16, 0, 0, 0))
<1>1. /\ state = "S_IDLE" /\ start = NONE /\ step_idx = 15 /\ layer_cnt = NUM_LAYERS - 1
      /\ wb = NONE
  BY DEF Registers, ProgInv, AccInv, IntactInv, DirtyInv, UnitStates
<1>2. Running /\ job = req /\ lay = NUM_LAYERS - 1
  BY <1>1 DEF Running, job, lay
<1>3. Position = At(16, 0, 0, 0)
  BY <1>1, PlaceNow DEF Places
<1>4. Len(tokens) = TILE /\ Facts(job, lay, Position) /\ req \in TileJobs
  BY <1>2, SoundControl DEF SoundInv, TokensInv
<1>5. PICK n : n = NUM_LAYERS - 1
  OBVIOUS
<1>6. Facts(req, n, At(16, 0, 0, 0))
  BY <1>2, <1>3, <1>4, <1>5
<1>7. QED
  BY <1>1, <1>4, <1>5, <1>6

-----------------------------------------------------------------------------
(* What the invariant says of the memories when a job ends.                *)

\* The addresses of the cache, as a decode and as a dump of the HBM form them.
LEMMA CacheReads ==
  ASSUME NEW l \in 0 .. NUM_LAYERS - 1, NEW p \in Nat, NEW c \in Cols
  PROVE  /\ CacheWord(l, 0, p, c) = kv_base + l * KV_LAYER_SIZE + p * MODEL_STRIDE + c
         /\ CacheWord(l, 1, p, c)
              = kv_base + l * KV_LAYER_SIZE + KV_V_OFFSET + p * MODEL_STRIDE + c
<1>1. /\ kv_base \in Int /\ l * KV_LAYER_SIZE \in Int /\ 0 * ACT_SLAB = 0
      /\ 1 * ACT_SLAB = ACT_SLAB /\ ACT_SLAB \in Int /\ MODEL_STRIDE \in Nat
  BY CacheSizes, DimAssumption DEF NUM_LAYERS
<1>2. p * MODEL_STRIDE \in Int /\ c \in Int
  BY <1>1 DEF Cols
<1>3. QED
  BY <1>1, <1>2 DEF CacheWord, KV_V_OFFSET

\* The key and the value of a position, in a layer whose row of the cache is right.
LEMMA RowCached ==
  ASSUME NEW l \in 0 .. NUM_LAYERS - 1, NEW p \in Nat, CacheRow(l, 0, p), CacheRow(l, 1, p),
         NEW c \in Cols
  PROVE  KeyAt(l, p, c) = Row("k", l, p, c) /\ ValueAt(l, p, c) = Row("v", l, p, c)
<1>1. /\ hbm[CacheWord(l, 0, p, c)] = Row("k", l, p, c)
      /\ hbm[CacheWord(l, 1, p, c)] = Row("v", l, p, c)
  BY DEF CacheRow, Row
<1>2. QED
  BY <1>1, CacheReads DEF KeyAt, ValueAt

\* When a sound job raises done every row of ACT_EMBED holds the last layer's output for
\* its token, computed from the current tokens alone.
THEOREM OutputAlwaysCorrect ==
  ASSUME Fits, NoneApart
  PROVE  AccSpec => []OutputCorrect
<1>1. ASSUME Registers, DataInv, intact, sound, pulse = "done", NEW r \in Rows, NEW c \in Cols
      PROVE  hbm[act_base + ACT_EMBED_OFFSET + r * MODEL_STRIDE + c]
               = Row("x", NUM_LAYERS, RowPos(req, r), c)
  <2>1. req \in TileJobs /\ Facts(req, NUM_LAYERS - 1, At(16, 0, 0, 0))
    BY <1>1, EndPlace
  <2>2. r \in 0 .. RowsOf(req) - 1
    BY <2>1, JobShape DEF Rows
  <2>3. hbm[ActAt(0, r, c)] = Val(req, "x", NUM_LAYERS - 1 + 1, r, c)
    BY <2>1, <2>2 DEF Facts, HbmHolds, EmbedHolds, At
  <2>4. NUM_LAYERS - 1 + 1 = NUM_LAYERS
    BY DimAssumption DEF NUM_LAYERS
  <2>5. ActAt(0, r, c) = act_base + ACT_EMBED_OFFSET + r * MODEL_STRIDE + c
    <3>1. 0 * ACT_SLAB = 0 /\ act_base \in Int
      BY CacheSizes, DimAssumption
    <3>2. QED
      BY <3>1 DEF ActAt, ACT_EMBED_OFFSET
  <2>6. QED
    BY <2>3, <2>4, <2>5 DEF Val, Row
<1>2. Registers /\ DataInv => OutputCorrect
  BY <1>1 DEF OutputCorrect
<1>3. QED
  BY <1>2, DataAlways, ControlAlways, PTL

\* When a sound job ends, and during one for the layers already left behind, the cache
\* holds the key and the value of every token of the sequence.
THEOREM CacheAlwaysComplete ==
  ASSUME Fits, NoneApart
  PROVE  AccSpec => []CacheComplete
<1>1. ASSUME Registers, DataInv, intact, sound, NEW l \in 0 .. NUM_LAYERS - 1,
             (busy /\ state # "S_IDLE" /\ l < layer_cnt) \/ pulse = "done",
             NEW p \in 0 .. Len(tokens) - 1, NEW part \in {0, 1}
      PROVE  CacheRow(l, part, p)
  <2>1. CASE pulse = "done"
    <3>1. Facts(req, NUM_LAYERS - 1, At(16, 0, 0, 0)) /\ Len(tokens) = TILE
      BY <1>1, <2>1, EndPlace
    <3>2. AllCached
      BY <3>1, EndCached
    <3>3. QED
      BY <3>2 DEF AllCached
  <2>2. CASE busy /\ state # "S_IDLE" /\ l < layer_cnt
    <3>1. start = NONE
      BY <1>1, <2>2 DEF Registers, ProgInv
    <3>2. Running /\ lay = layer_cnt
      BY <2>2, <3>1 DEF Running, lay
    <3>3. Len(tokens) = TILE /\ Facts(job, lay, Position)
      BY <1>1, <3>2, SoundControl DEF SoundInv, TokensInv
    <3>4. Cached(job, lay, Position, l, part, p)
      BY <2>2, <3>2 DEF Cached
    <3>5. QED
      BY <3>3, <3>4 DEF Facts, HbmHolds, CacheHolds
  <2>3. QED
    BY <1>1, <2>1, <2>2
<1>2. Registers /\ DataInv => CacheComplete
  <2> SUFFICES ASSUME Registers, DataInv, intact, sound, NEW l \in 0 .. NUM_LAYERS - 1,
                      (busy /\ state # "S_IDLE" /\ l < layer_cnt) \/ pulse = "done",
                      NEW p \in 0 .. Len(tokens) - 1, NEW c \in Cols
               PROVE  /\ KeyAt(l, p, c) = Row("k", l, p, c)
                      /\ ValueAt(l, p, c) = Row("v", l, p, c)
    BY DEF CacheComplete
  <2>1. CacheRow(l, 0, p) /\ CacheRow(l, 1, p)
    BY <1>1
  <2>2. p \in Nat
    OBVIOUS
  <2>3. QED
    BY <2>1, <2>2, RowCached
<1>3. QED
  BY <1>2, DataAlways, ControlAlways, PTL

\* When a sound job ends, its last keys, values, probabilities (where feed-forward rows
\* leave them room), second norm and rectified rows are where their steps put them, and
\* the URAM holds the same result as the HBM.
THEOREM StagesAlwaysLeft ==
  ASSUME Fits, NoneApart
  PROVE  AccSpec => []StagesLeft
<1> DEFINE last == NUM_LAYERS - 1
           end == At(16, 0, 0, 0)
<1>0. /\ last \in 0 .. NUM_LAYERS - 1 /\ act_base \in Int /\ kv_base \in Int
      /\ MODEL_STRIDE \in Nat /\ TILE \in Nat /\ Cols = 0 .. MODEL_STRIDE - 1
  BY DimAssumption, AcceleratorAssumption, CacheSizes DEF NUM_LAYERS, Cols
<1>1. ASSUME Registers, DataInv, intact, sound, pulse = "done"
      PROVE  /\ req \in TileJobs /\ Len(tokens) = TILE /\ wb = NONE
             /\ HbmHolds(req, last, end) /\ UramHolds(req, last, end)
             /\ Rows = 0 .. RowsOf(req) - 1 /\ RowsOf(req) \in 1 .. TILE
             /\ \A r \in Rows : /\ RowPos(req, r) \in 0 .. TILE - 1
                                /\ RowPos(req, 0) * MODEL_STRIDE + r * MODEL_STRIDE
                                     = RowPos(req, r) * MODEL_STRIDE
  <2>1. /\ req \in TileJobs /\ Len(tokens) = TILE /\ wb = NONE
        /\ HbmHolds(req, last, end) /\ UramHolds(req, last, end)
    BY <1>1, EndPlace DEF Facts
  <2>2. Rows = 0 .. RowsOf(req) - 1 /\ RowsOf(req) \in 1 .. TILE
    BY <2>1, JobShape DEF Rows
  <2>3. ASSUME NEW r \in Rows
        PROVE  /\ RowPos(req, r) \in 0 .. TILE - 1
               /\ RowPos(req, 0) * MODEL_STRIDE + r * MODEL_STRIDE
                    = RowPos(req, r) * MODEL_STRIDE
    <3>1. RowPos(req, r) \in 0 .. TILE - 1
      BY <2>1, <2>2, <2>3, JobShape
    <3>2. RowPos(req, 0) = (IF req.decode THEN TILE - 1 ELSE 0)
      BY <2>1, <2>2, JobShape
    <3>3. RowPos(req, r) = (IF req.decode THEN TILE - 1 ELSE r)
      BY <2>1, <2>2, <2>3, JobShape
    <3>4. req.decode => r = 0
      BY <2>1, <2>2, <2>3, JobShape
    <3>5. 0 * MODEL_STRIDE = 0 /\ r * MODEL_STRIDE \in Int /\ (TILE - 1) * MODEL_STRIDE \in Int
      BY <1>0, <2>2, <2>3
    <3>6. QED
      BY <3>1, <3>2, <3>3, <3>4, <3>5
  <2>4. QED
    BY <2>1, <2>2, <2>3
<1>2. ASSUME Registers, DataInv, intact, sound, pulse = "done", NEW s \in DumpedStages
      PROVE  compare_stage(s)
  <2> DEFINE at(a, stride, r, c) == a + r * stride + c
             cache == kv_base + last * KV_LAYER_SIZE + RowPos(req, 0) * MODEL_STRIDE
  <2>1. ASSUME NEW r \in Rows, NEW c \in Cols
        PROVE  /\ hbm[at(cache, MODEL_STRIDE, r, c)] = Row("k", last, RowPos(req, r), c)
               /\ hbm[at(cache + KV_V_OFFSET, MODEL_STRIDE, r, c)]
                    = Row("v", last, RowPos(req, r), c)
    <3>1. RowPos(req, r) \in 0 .. TILE - 1
      BY <1>1, <1>2, <2>1
    <3>2. CacheRow(last, 0, RowPos(req, r)) /\ CacheRow(last, 1, RowPos(req, r))
      <4>1. \A part \in {0, 1} : Cached(req, last, end, last, part, RowPos(req, r))
        BY DEF Cached, PastFlush, At
      <4>2. QED
        BY <1>0, <1>1, <1>2, <3>1, <4>1 DEF HbmHolds, CacheHolds
    <3>3. /\ KeyAt(last, RowPos(req, r), c) = Row("k", last, RowPos(req, r), c)
          /\ ValueAt(last, RowPos(req, r), c) = Row("v", last, RowPos(req, r), c)
      BY <1>0, <2>1, <3>1, <3>2, RowCached
    <3>4. /\ RowPos(req, 0) * MODEL_STRIDE + r * MODEL_STRIDE = RowPos(req, r) * MODEL_STRIDE
          /\ RowPos(req, 0) * MODEL_STRIDE \in Int /\ r * MODEL_STRIDE \in Int
          /\ RowPos(req, r) * MODEL_STRIDE \in Int
          /\ last * KV_LAYER_SIZE \in Int /\ KV_V_OFFSET \in Int /\ c \in Int
      <4>0. Rows = 0 .. RowsOf(req) - 1 /\ RowsOf(req) \in 1 .. TILE
            /\ \A i \in Rows : RowPos(req, i) \in 0 .. TILE - 1
        BY <1>1, <1>2
      <4>1. RowPos(req, 0) \in Int /\ r \in Int /\ RowPos(req, r) \in Int
        <5>1. 0 \in Rows /\ r \in Int
          BY <1>0, <2>1, <4>0
        <5>2. QED
          BY <1>0, <2>1, <4>0, <5>1
      <4>2. KV_V_OFFSET \in Int /\ last * KV_LAYER_SIZE \in Int /\ c \in Int
        BY <1>0, <2>1, CacheSizes DEF KV_V_OFFSET
      <4>3. QED
        BY SMTT(40), <1>0, <1>1, <1>2, <2>1, <4>1, <4>2
    <3>5. /\ at(cache, MODEL_STRIDE, r, c)
               = kv_base + last * KV_LAYER_SIZE + RowPos(req, r) * MODEL_STRIDE + c
          /\ at(cache + KV_V_OFFSET, MODEL_STRIDE, r, c)
               = kv_base + last * KV_LAYER_SIZE + KV_V_OFFSET
                   + RowPos(req, r) * MODEL_STRIDE + c
      BY SMTT(40), <1>0, <3>4
    <3>6. QED
      BY <3>3, <3>5 DEF KeyAt, ValueAt
  <2>2. ASSUME F_STRIDE <= 3 * MODEL_STRIDE, NEW r \in Rows, NEW c \in 0 .. KEY_WORDS - 1
        PROVE  hbm[at(act_base + ACT_ATTN_OFFSET, KEY_WORDS, r, c)]
                 = Row("prob", last, RowPos(req, r), (NUM_HEADS - 1) * KEY_WORDS + c)
    <3>1. ProbsThere(end) /\ ProbHead(end) = NUM_HEADS - 1
      BY <2>2 DEF ProbsThere, ProbHead, At
    <3>2. hbm[ProbAt(r, c)] = Val(req, "prob", last, r, (NUM_HEADS - 1) * KEY_WORDS + c)
      BY <1>1, <1>2, <2>2, <3>1 DEF HbmHolds, ProbsHold
    <3>3. QED
      BY <3>2 DEF ProbAt, ACT_ATTN_OFFSET, Val, Row
  <2>3. ASSUME NEW r \in Rows, NEW c \in Cols
        PROVE  hbm[at(act_base + ACT_TEMP_OFF, MODEL_STRIDE, r, c)]
                 = Row("ln2", last, RowPos(req, r), c)
    <3>1. hbm[ActAt(5, r, c)] = Val(req, "ln2", last, r, c)
      BY <1>1, <1>2, <2>3 DEF HbmHolds, TempHolds, At
    <3>2. QED
      BY <3>1 DEF ActAt, ACT_TEMP_OFF, Val, Row
  <2>4. ASSUME NEW r \in Rows, NEW c \in 0 .. F_STRIDE - 1
        PROVE  hbm[at(act_base + ACT_FFN_OFFSET, F_STRIDE, r, c)]
                 = Row("relu", last, RowPos(req, r), c)
    <3>1. hbm[FfnAt(r, c)] = Val(req, "relu", last, r, c)
      BY <1>1, <1>2, <2>4 DEF HbmHolds, FfnHolds, At
    <3>2. QED
      BY <3>1 DEF FfnAt, ACT_FFN_OFFSET, ACT_Q_OFFSET, Val, Row
  <2>5. \A c : c \in Int => 0 + c = c
    OBVIOUS
  <2>6. F_STRIDE \in Int
    BY DimAssumption
  <2>7. QED
    BY <1>0, <1>2, <2>1, <2>2, <2>3, <2>4, <2>5, <2>6 DEF DumpedStages, compare_stage
<1>3. ASSUME Registers, DataInv, intact, sound, pulse = "done", NEW r \in Rows, NEW c \in Cols
      PROVE  uram[r, c] = hbm[act_base + ACT_EMBED_OFFSET + r * MODEL_STRIDE + c]
  <2>1. hbm[ActAt(0, r, c)] = Val(req, "x", last + 1, r, c)
    BY <1>1, <1>3 DEF HbmHolds, EmbedHolds, At
  <2>2. Uram(<<r, c>>) = Val(req, "x", last + 1, r, c)
    <3>1. Whole(req, "x", last + 1, 0, RowsOf(req))
      BY <1>1, <1>3 DEF UramHolds, At
    <3>2. c \in 0 .. 0 + MODEL_STRIDE - 1 /\ r \in 0 .. RowsOf(req) - 1
      BY <1>0, <1>1, <1>3
    <3>3. QED
      BY <3>1, <3>2 DEF Whole, Holding
  <2>3. <<r, c>> \in UramWords
    <3>1. URAM_ROWS >= TILE /\ URAM_COL_WORDS >= MODEL_STRIDE
      BY SMT DEF Fits, SizesFit
    <3>2. r \in 0 .. URAM_ROWS - 1 /\ c \in 0 .. URAM_COL_WORDS - 1
      BY SMTT(40), <1>0, <1>1, <1>3, <3>1, AcceleratorAssumption
    <3>3. QED
      BY <3>2 DEF UramWords
  <2>4. Uram(<<r, c>>) = uram[r, c]
    BY <1>1, <1>3, <2>3 DEF Uram
  <2>5. ActAt(0, r, c) = act_base + ACT_EMBED_OFFSET + r * MODEL_STRIDE + c
    <3>1. 0 * ACT_SLAB = 0
      BY CacheSizes
    <3>2. QED
      BY <1>0, <3>1 DEF ActAt, ACT_EMBED_OFFSET
  <2>6. QED
    BY <2>1, <2>2, <2>4, <2>5
<1>4. Registers /\ DataInv => StagesLeft
  BY <1>2, <1>3 DEF StagesLeft
<1>5. QED
  BY <1>4, DataAlways, ControlAlways, PTL
=============================================================================
