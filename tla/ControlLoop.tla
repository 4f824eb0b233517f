----------------------------- MODULE ControlLoop -----------------------------
(***************************************************************************)
(* The controller, the seven executors it starts and the host port, wired  *)
(* as in rtl/top_level.v.  Next is one clock edge: every register of the   *)
(* composition is updated from the values it had before the edge.          *)
(*                                                                         *)
(* An executor d that is idle accepts its start pulse, works for a number  *)
(* of cycles of Latency[d], and raises done for one cycle; it is idle      *)
(* again in the cycle its done is visible (every executor sets done in the *)
(* edge that returns it to its idle state).  It ignores a start it sees    *)
(* while it works.                                                         *)
(*                                                                         *)
(* The start of a scalar unit toggles for as long as the unit works        *)
(* (fsm_controller.v:389, 533, 689, 714): when its done comes in a cycle   *)
(* in which the start is high, the unit is started again and works beside  *)
(* whatever the controller does next.  The history variable restarted      *)
(* names the units at work on such a start.                                *)
(***************************************************************************)
EXTENDS FsmController

CONSTANT Latency    \* executor -> the cycles its work may take

Devices == Units \cup {"mm", "uf", "ad"}

ASSUME LatencyAssumption ==
  /\ Latency \in [Devices -> SUBSET Nat] /\ \A d \in Devices : Latency[d] # {}
  /\ Latency["ad"] = {0}

VARIABLES
  left,             \* cycles of work each executor has left
  restarted         \* the units at work on a start that met their own done

vars == <<start, rsp, left, restarted, fsmVars>>

StartPulse(d) == CASE d = "mm" -> "mm_cmd_valid"
                   [] d = "uf" -> "uram_flush_start"
                   [] d = "ad" -> "nm_adapter_flush"
                   [] OTHER -> StartOf(d)

Accepts(d) == left[d] = 0 /\ pulse = StartPulse(d)

mm_cmd_ready == left["mm"] = 0 /\ "mm" \notin rsp

\* The adapter drops a flush that meets an access of a working unit.
Dropped == IF \E u \in Units : left[u] > 0 THEN {"ad"} ELSE {}

\* At most one start is high, so one number n serves every executor.
Executors ==
  \E n \in UNION {Latency[d] : d \in Devices} :
    /\ \A d \in Devices : Accepts(d) => n \in Latency[d]
    /\ (\A d \in Devices : ~Accepts(d)) => n = 0
    /\ left' = [d \in Devices |-> IF left[d] > 0 THEN left[d] - 1
                                 ELSE IF Accepts(d) THEN n ELSE 0]
    /\ LET finished == {d \in Devices : \/ left[d] = 1
                                        \/ Accepts(d) /\ n = 0}
       IN rsp' \in {finished, finished \ Dropped}
    /\ restarted' = {u \in Units : \/ Accepts(u) /\ u \in rsp
                                   \/ u \in restarted /\ u \notin rsp}

\* start <= start_pulse && !busy; two writes of the control register are
\* more than one cycle apart.
Host == start' \in IF start = NONE /\ ~busy THEN Jobs \cup {NONE} ELSE {NONE}

Init == FsmInit /\ start = NONE /\ rsp = {}
        /\ left = [d \in Devices |-> 0] /\ restarted = {}

Edge == Executors /\ Host

Next ==
  \/ IdleWait /\ Edge
  \/ IdleStart /\ Edge
  \/ Decode /\ Edge
  \/ \E u \in Units : UnitFire(u) /\ Edge
  \/ \E u \in Units : UnitWait(u) /\ Edge
  \/ \E u \in Units : UnitRowDone(u) /\ Edge
  \/ \E u \in Units : UnitLastDone(u) /\ Edge
  \/ NmFlushFire /\ Edge
  \/ NmFlushWait /\ Edge
  \/ NmFlushDone /\ Edge
  \/ MmIssue(mm_cmd_ready) /\ Edge
  \/ MmWait(mm_cmd_ready) /\ Edge
  \/ MmDone /\ Edge
  \/ FlushFire /\ Edge
  \/ FlushWait /\ Edge
  \/ QkvFlushDone /\ Edge
  \/ ScoreFlushDone /\ Edge
  \/ HeadFlushDone /\ Edge
  \/ StepFlushDone /\ Edge
  \/ NextStep /\ Edge
  \/ NextLayer /\ Edge
  \/ Done /\ Edge

Spec == Init /\ [][Next]_vars
\* The clock does not stop.
FairSpec == Spec /\ WF_vars(Next)

-----------------------------------------------------------------------------
(* Properties.                                                             *)

\* The wires and the executors' state are of their types.
TypeOK ==
  /\ FsmTypeOK
  /\ start \in Jobs \cup {NONE} /\ rsp \subseteq Devices
  /\ left \in [Devices -> Nat] /\ restarted \subseteq Units

\* d has been asked for something the controller has not seen the end of.
Engaged(d) == pulse = StartPulse(d) \/ left[d] > 0 \/ d \in rsp

\* The three stages of one request exclude each other: asked for, at work,
\* reporting.
OneStage(d) == /\ pulse = StartPulse(d) => left[d] = 0 /\ d \notin rsp
               /\ left[d] > 0 => d \notin rsp

\* The controller waits for the tiling engine (waiting_mm), or for uram_flush
\* (flush_sent), exactly while one request to it is under way: no command is
\* lost, issued twice, or answered after the controller has moved on.
OneOutstanding ==
  /\ waiting_mm <=> Engaged("mm")
  /\ flush_sent <=> Engaged("uf")
  /\ OneStage("mm") /\ OneStage("uf")

\* The executors share the URAM ports: whatever their latencies, two of them work at
\* the same time only if one is a unit whose start met its own done (top_level.v:817,
\* "flush vs adapter -- FSM mutual exclusion").
AtMostOneExecutor ==
  \A d, e \in Devices \ restarted : Engaged(d) /\ Engaged(e) => d = e

\* A job ends with every handshake flag and the row counter back at its reset value,
\* so the next job, which does not clear the flags, starts clean; no executor still
\* works but a unit whose start met its own done.
IdleIsClean ==
  state = "S_IDLE" =>
    /\ \A d \in Devices \ restarted : ~Engaged(d)
    /\ ~nm_flush_phase /\ ~waiting_mm /\ ~flush_sent
    /\ nm_row_cnt = 0

\* The registers an executor reads while it works do not change under it: the
\* adapter and act_dma read nm_cfg_col_bits, nm_addr_offset and the DMA base at
\* every access, and the branch that toggles a start reloads them each time.  They
\* change under a unit only if its start met its own done.
StableCommands ==
  [][/\ (\E u \in Units \ restarted : left[u] > 0) => nm' = nm
     /\ left["mm"] > 0 => mm_cmd' = mm_cmd /\ flush_r' = flush_r
     /\ left["uf"] > 0 => uf_cmd' = uf_cmd]_vars

=============================================================================
