------------------------------ MODULE ScalarPath ------------------------------
(***************************************************************************)
(* A scalar unit at work, element by element, in one of two places: in     *)
(* top_level (env = "top"), driven by its branch of fsm_controller, on the *)
(* URAM through the adapter and on the HBM through act_dma; or in its      *)
(* cosimulation bench (env = "bench"), which answers from arrays that      *)
(* verify/run_cosim.py filled through hex files.                           *)
(*                                                                         *)
(* Next is one clock edge of everything.                                   *)
(***************************************************************************)
EXTENDS ScalarUnits, ScalarMemory

\* The jobs: a unit, where it runs, its command, and what lies in its memories.
\*   top:   [unit, rows, len, decode, cache_len, scale_shift, data, hbm]
\*   bench: [unit, len, data, sub, gamma, beta]
CONSTANTS TopJobs, BenchJobs

\* The controller's jobs: some rows, which lie in the URAM one after the other.
ASSUME JobsAssumption == \A j \in TopJobs :
  /\ j.unit \in {"sm", "ln", "act", "res"}
  /\ j.rows \in Nat \ {0} /\ j.len \in Nat \ {0}
  /\ j.rows * j.len <= ROWS * ROW_EL

VARIABLES
  env, job,
  phase,               \* "run", "flush" (nm_flush_phase), "over"
  row, offset,         \* nm_row_cnt, nm_addr_offset
  adapter_flush,       \* nm_adapter_flush
  bench,               \* the bench's answer registers and its output array
  shadow, due, ghost   \* history: see below

driver == <<phase, row, offset, adapter_flush>>
vars == <<env, job, unit, u, x, start, cmd, memory, driver, bench, shadow, due, ghost>>

-----------------------------------------------------------------------------
(* fsm_controller's branch for the unit: S_LN_RUN and S_ATT_SM go over the *)
(* rows, S_ACT_RUN and S_RES_RUN run once over everything; then the        *)
(* adapter is flushed.                                                     *)

ByRow == unit \in {"sm", "ln"}

CtlFire ==
  /\ phase = "run" /\ ~start /\ ~u.done
  /\ start' = TRUE
  /\ offset' = IF ByRow THEN row * job.len ELSE offset
  /\ cmd' = [len |-> IF ByRow THEN job.len ELSE job.rows * job.len, causal |-> TRUE,
             row_idx |-> IF job.decode THEN job.cache_len ELSE row,
             scale_shift |-> job.scale_shift]
  /\ UNCHANGED <<phase, row, adapter_flush>>

CtlWait == /\ phase = "run" /\ start /\ ~u.done
           /\ start' = FALSE /\ UNCHANGED <<cmd, driver>>

CtlRowDone ==
  /\ phase = "run" /\ u.done /\ ByRow /\ row # job.rows - 1
  /\ row' = row + 1 /\ start' = FALSE
  /\ UNCHANGED <<cmd, phase, offset, adapter_flush>>

CtlLastDone ==
  /\ phase = "run" /\ u.done /\ (ByRow => row = job.rows - 1)
  /\ phase' = "flush" /\ row' = 0 /\ offset' = 0 /\ start' = FALSE
  /\ UNCHANGED <<cmd, adapter_flush>>

CtlFlush ==
  /\ phase = "flush"
  /\ adapter_flush' = (~adapter_flush /\ ~ad.flush_done)
  /\ phase' = IF ad.flush_done THEN "over" ELSE phase
  /\ UNCHANGED <<start, cmd, row, offset>>

Controller ==
  \/ CtlFire \/ CtlWait \/ CtlRowDone \/ CtlLastDone \/ CtlFlush
  \/ phase = "over" /\ UNCHANGED <<start, cmd, driver>>

\* The adapter muxes of top_level: softmax and layernorm count from their row.
Address(addr) == IF ByRow THEN addr + offset ELSE addr

Top ==
  /\ env = "top"
  /\ Controller
  /\ Unit([valid |-> ad.rd_valid, data |-> ad.rd_data,
           sub_valid |-> dma.rd_valid, sub_data |-> dma.rd_data])
  /\ Adapter(u.rd_en, Address(u.rd_addr), u.wr_en, Address(u.wr_addr), u.wr_data,
             adapter_flush)
  /\ Uram
  /\ Dma(u.sub_en, u.rd_addr)
  /\ UNCHANGED bench

-----------------------------------------------------------------------------
(* verify/tb_cosim: start is pulsed once; softmax's bench answers in the   *)
(* cycle of the request, the others one cycle later.                       *)

BenchStart == /\ phase = "run" /\ ~start /\ u.state = "ST_IDLE" /\ ~u.done
              /\ start' = TRUE /\ UNCHANGED <<cmd, driver>>
BenchWait == /\ phase = "run" /\ ~u.done /\ (start \/ u.state # "ST_IDLE")
             /\ start' = FALSE /\ UNCHANGED <<cmd, driver>>
BenchDone == /\ phase = "run" /\ u.done
             /\ phase' = "over" /\ UNCHANGED <<start, cmd, row, offset, adapter_flush>>

\* The arrays $readmemh fills.
input_mem == read_hex_file(write_hex_file(job.data, 16), 16)
sub_mem == read_hex_file(write_hex_file(job.sub, 16), 16)
gamma_mem == read_hex_file(write_hex_file(job.gamma, 8), 8)
beta_mem == read_hex_file(write_hex_file(job.beta, 8), 8)

BenchAnswer ==
  [valid |-> u.rd_en, data |-> input_mem[u.rd_addr], sub_valid |-> u.sub_en,
   sub_data |-> IF unit = "ln" THEN uint8(gamma_mem[u.rd_addr]) + 256 * beta_mem[u.rd_addr]
                               ELSE sub_mem[u.rd_addr]]

Bench ==
  /\ env = "bench"
  /\ BenchStart \/ BenchWait \/ BenchDone
       \/ (phase = "over" /\ UNCHANGED <<start, cmd, driver>>)
  /\ Unit(IF unit = "sm" THEN BenchAnswer ELSE bench.answer)
  /\ bench' = [answer |-> BenchAnswer,
               output_mem |-> IF u.wr_en
                 THEN [bench.output_mem EXCEPT ![u.wr_addr] = u.wr_data]
                 ELSE bench.output_mem]
  /\ UNCHANGED memory

-----------------------------------------------------------------------------
(* History.  shadow is a memory that obeys every write at once; due is what*)
(* the last read asked of the adapter has to return; ghost records a start *)
(* that met the unit's own done, which sets the unit off once more.        *)

History ==
  /\ shadow' = IF env = "top" /\ u.wr_en
       THEN LET a == Address(u.wr_addr)
            IN [shadow EXCEPT ![Place(a)][El(a)] = u.wr_data]
       ELSE shadow
  /\ due' = IF env = "top" /\ u.rd_en
       THEN LET a == Address(u.rd_addr) IN shadow[Place(a)][El(a)]
       ELSE due
  /\ ghost' = (ghost \/ (env = "top" /\ start /\ u.done))

Loads(data) == [p \in Places |->
  [e \in Word |-> data[p[1] * ROW_EL + p[2] * BUS_EL + e]]]

UnitInit(n) ==
  CASE unit = "sm" -> SoftmaxInit(n) [] unit = "ln" -> LayerNormInit(n)
    [] unit = "act" -> ActivationInit [] OTHER -> ResidualInit

Idle == [valid |-> FALSE, data |-> 0, sub_valid |-> FALSE, sub_data |-> 0]

Init ==
  /\ \/ env = "top" /\ job \in TopJobs
     \/ env = "bench" /\ job \in BenchJobs
  /\ unit = job.unit /\ CommonInit /\ UnitInit(job.len)
  /\ start = FALSE
  /\ cmd = [len |-> job.len, row_idx |-> 0, scale_shift |-> 0, causal |-> FALSE]
  /\ AdapterInit /\ UramInit /\ DmaInit
  /\ uram = IF env = "top" THEN Loads(job.data) ELSE [p \in Places |-> Zeros]
  /\ hbm = IF env = "top" THEN job.hbm ELSE [i \in {} |-> 0]
  /\ phase = "run" /\ row = 0 /\ offset = 0 /\ adapter_flush = FALSE
  /\ bench = [answer |-> Idle, output_mem |-> [i \in range(job.len) |-> 0]]
  /\ shadow = uram /\ due = 0 /\ ghost = FALSE

Next == (Top \/ Bench) /\ History /\ UNCHANGED <<env, job, unit>>

Spec == Init /\ [][Next]_vars
FairSpec == Spec /\ WF_vars(Next)

-----------------------------------------------------------------------------
(* verify/run_cosim.py                                                     *)

\* The bench writes its results with %04x.
actual == read_hex_file(write_hex_file(bench.output_mem, 16), 16)
Unsigned(v) == [i \in DOMAIN v |-> uint16(v[i])]

run_softmax == softmax_golden(job.data, 0, NoRow) = Unsigned(actual)
run_layernorm ==
  Unsigned(layernorm_golden(job.data, job.gamma, job.beta, job.len)) = Unsigned(actual)
run_activation == [i \in Index(job.data) |-> relu_golden(job.data[i])] = actual
run_residual_add == residual_add_golden(job.data, job.sub) = actual

Matches == CASE unit = "sm" -> run_softmax [] unit = "ln" -> run_layernorm
             [] unit = "act" -> run_activation [] OTHER -> run_residual_add

-----------------------------------------------------------------------------
(* Properties.                                                             *)

\* The adapter answers every read with what was last written there, whether the word
\* is in the URAM, on its way to it, in the write buffer or in the cache.
ReadsCoherent == env = "top" /\ ~ghost /\ ad.rd_valid => ad.rd_data = due

\* No request is made of the adapter or of act_dma in a cycle in which they do not
\* look at it, and no two are made of the adapter in the same cycle.
NoLostAccess ==
  env = "top" /\ ~ghost =>
    /\ u.rd_en \/ u.wr_en \/ adapter_flush => ad.state = "AD_IDLE"
    /\ u.sub_en => dma.state = "AX_IDLE"
    /\ Cardinality({r \in {"rd", "wr", "flush"} :
         \/ r = "rd" /\ u.rd_en
         \/ r = "wr" /\ u.wr_en
         \/ r = "flush" /\ adapter_flush}) <= 1

Gamma(v) == [i \in DOMAIN v |-> int8(v[i])]
Beta(v) == [i \in DOMAIN v |-> int8(v[i] \div 256)]

\* Row r of what was in the URAM, and what the unit should make of it.
RowOf(r) == [j \in range(job.len) |-> job.data[r * ROW_EL + j]]
Golden(r) ==
  CASE unit = "sm" -> softmax_golden(RowOf(r), job.scale_shift,
                                     IF job.decode THEN job.cache_len ELSE r)
    [] unit = "ln" -> layernorm_golden(RowOf(r), Gamma(hbm), Beta(hbm), job.len)
    [] unit = "act" -> [j \in range(job.len) |-> relu_golden(RowOf(r)[j])]
    [] OTHER -> residual_add_golden(RowOf(r), [j \in range(job.len) |->
                                                 hbm[r * job.len + j]])

\* After the flush the URAM holds the golden model's rows, and every element outside
\* them is as it was.
RowsGolden ==
  env = "top" /\ phase = "over" /\ ~ghost =>
    \A r \in range(ROWS), j \in range(ROW_EL) :
      uram[<<r, j \div BUS_EL>>][El(j)] =
        IF r < job.rows /\ j < job.len THEN int16(Golden(r)[j])
        ELSE job.data[r * ROW_EL + j]

\* The softmax keeps the order of the scores: a column after the diagonal weighs
\* nothing, and of the others a greater score never weighs less.
WeightsOrdered ==
  env = "top" /\ unit = "sm" /\ phase = "over" /\ ~ghost =>
    \A r \in range(job.rows) :
      LET last == IF job.decode THEN job.cache_len ELSE r
          weight(j) == uint16(uram[<<r, j \div BUS_EL>>][El(j)])
      IN \A i, j \in range(job.len) :
           /\ j > last => weight(j) = 0
           /\ i <= last /\ j <= last /\ RowOf(r)[i] <= RowOf(r)[j] => weight(i) <= weight(j)

\* run_cosim.py's table says OK on every line.
CosimMatches == env = "bench" /\ phase = "over" => Matches

\* Every branch comes to its end, at any latency of the HBM.
UnitFinishes == <>(phase = "over")

\* A unit is at rest once the controller has left its branch, so that it never meets the
\* flush, or the next executor, on the ports of the URAM (top_level.v: "flush vs
\* adapter -- FSM mutual exclusion").
RestsAfterRun == phase # "run" => u.state = "ST_IDLE"
=============================================================================
