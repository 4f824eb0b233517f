------------------------------- MODULE HostPort -------------------------------
(***************************************************************************)
(* A host, its AXI-Lite master, the register file of one of the two builds *)
(* (FPGA_TARGET in rtl/top_level.v), and the controller's idle and done    *)
(* states.  Next is one clock edge of everything.                          *)
(*                                                                         *)
(* The host writes the parameters of a job, then the start, and polls      *)
(* until it believes the job over:                                         *)
(*   "sticky"  simulation build, done_sticky of the status register        *)
(*   "idle"    FPGA build, ap_idle of the control register                 *)
(*   "done"    FPGA build, ap_done of the control register                 *)
(*   "irq"     FPGA build, waits for the interrupt and acknowledges it     *)
(***************************************************************************)
EXTENDS HostInterface, VitisControl

CONSTANTS
  Hosts,      \* the ways of polling
  Gaps,       \* cycles the host may take between two operations
  RunTimes    \* cycles a job may take

ASSUME HostAssumption ==
  /\ Hosts \subseteq {"sticky", "idle", "done", "irq"}
  /\ Gaps \subseteq Nat /\ Gaps # {} /\ RunTimes \subseteq Nat /\ RunTimes # {}

VARIABLES
  kind,       \* how this host polls
  m,          \* the master's operation: op, order, the channel it still has to open
  host        \* pc, the configuration it wants, cycles before its next operation

vars == <<kind, m, host, bus, wr, rd, regs, ctl, start, fsm>>

FPGA_TARGET == kind # "sticky"

-----------------------------------------------------------------------------
(* The controller: S_IDLE latches a start's parameters, S_DONE raises done *)
(* for one cycle and lowers busy.                                          *)

FsmIdle ==
  /\ fsm.state = "S_IDLE"
  /\ IF start THEN \E n \in RunTimes :
            fsm' = [state |-> "run", left |-> n, busy |-> TRUE, done |-> FALSE, job |-> regs]
     ELSE fsm' = [fsm EXCEPT !.busy = FALSE, !.done = FALSE]

FsmRun ==
  /\ fsm.state = "run"
  /\ fsm' = IF fsm.left > 0 THEN [fsm EXCEPT !.left = @ - 1]
            ELSE [fsm EXCEPT !.state = "S_IDLE", !.busy = FALSE, !.done = TRUE]

-----------------------------------------------------------------------------
(* The master: one operation at a time.  That of the benches shows address *)
(* and data together, or the address first, and leaves both on the bus; on *)
(* the FPGA either may come first and nothing stays once it was taken.     *)

Orders == IF FPGA_TARGET THEN {"both", "aw", "w"} ELSE {"both", "aw"}
After(taken, word) == IF taken /\ FPGA_TARGET THEN JUNK ELSE word

WriteDone == m.op = "write" /\ wr.bvalid /\ bus.bready
ReadDone == m.op = "read" /\ rd.rvalid /\ bus.rready

NoOp == [op |-> "none", order |-> "both", addr |-> "CTRL", data |-> 0]

\* The second channel of a write opens once the first was taken.
WriteGoesOn ==
  /\ m.op = "write" /\ ~WriteDone
  /\ LET openAw == m.order = "w" /\ WTaken
         openW == m.order = "aw" /\ AwTaken
     IN /\ bus' = [bus EXCEPT
             !.awvalid = (@ /\ ~AwTaken) \/ openAw,
             !.awaddr = IF openAw THEN m.addr ELSE After(AwTaken, @),
             !.wvalid = (@ /\ ~WTaken) \/ openW,
             !.wdata = IF openW THEN m.data ELSE After(WTaken, @)]
        /\ m' = IF openAw \/ openW THEN [m EXCEPT !.order = "both"] ELSE m

ReadGoesOn ==
  /\ m.op = "read" /\ ~ReadDone
  /\ bus' = [bus EXCEPT !.arvalid = @ /\ ~ArTaken, !.araddr = After(ArTaken, @)]
  /\ UNCHANGED m

Ends == /\ WriteDone \/ ReadDone
        /\ m' = NoOp /\ UNCHANGED bus

WriteBegins(addr, data) ==
  \E order \in Orders :
    /\ m' = [op |-> "write", order |-> order, addr |-> addr, data |-> data]
    /\ bus' = [bus EXCEPT
         !.awvalid = order # "w", !.awaddr = IF order # "w" THEN addr ELSE @,
         !.wvalid = order # "aw", !.wdata = IF order # "aw" THEN data ELSE @]

ReadBegins(addr) ==
  /\ m' = [NoOp EXCEPT !.op = "read", !.addr = addr]
  /\ bus' = [bus EXCEPT !.arvalid = TRUE, !.araddr = addr]

-----------------------------------------------------------------------------
(* The host.                                                               *)

Status == IF kind = "sticky" THEN "STATUS" ELSE "CTRL"
Polled == CASE kind = "sticky" -> "done_sticky" [] kind = "idle" -> "ap_idle"
            [] OTHER -> "ap_done"

Goto(pc) == \E gap \in Gaps : host' = [host EXCEPT !.pc = pc, !.gap = gap]

HostWaits == host.gap > 0 /\ m.op = "none"
             /\ host' = [host EXCEPT !.gap = @ - 1] /\ UNCHANGED <<m, bus>>

HostMay(pc) == host.pc = pc /\ host.gap = 0 /\ m.op = "none"

EnableInterrupt ==
  /\ HostMay("gie") /\ WriteBegins("GIE", 1) /\ Goto("ier")
EnableDone ==
  /\ HostMay("ier") /\ WriteBegins("IER", 1) /\ Goto("config")

WriteParameter ==
  /\ HostMay("config")
  /\ \E p \in Params, v \in Values :
       /\ WriteBegins(p, v)
       /\ \E gap \in Gaps : host' = [host EXCEPT !.want[p] = v, !.gap = gap]

WriteStart == HostMay("config") /\ WriteBegins("CTRL", 1) /\ Goto("poll")

Poll == HostMay("poll") /\ kind # "irq" /\ ReadBegins(Status) /\ UNCHANGED host

AwaitInterrupt ==
  /\ HostMay("poll") /\ kind = "irq"
  /\ IF interrupt THEN WriteBegins("ISR", 1) /\ Goto("config")
     ELSE UNCHANGED <<m, bus, host>>

\* The answer of a poll: the job is over, or the host polls again.
Answered ==
  /\ Ends /\ m.op = "read"
  /\ IF Polled \in rd.data THEN Goto("config") ELSE Goto("poll")

Written == Ends /\ m.op = "write" /\ UNCHANGED host
Pending == (WriteGoesOn \/ ReadGoesOn) /\ UNCHANGED host

Host ==
  \/ HostWaits \/ EnableInterrupt \/ EnableDone \/ WriteParameter \/ WriteStart
  \/ Poll \/ AwaitInterrupt \/ Answered \/ Written \/ Pending

-----------------------------------------------------------------------------
Init ==
  /\ kind \in Hosts
  /\ IF FPGA_TARGET THEN VcInit ELSE HiInit
  /\ regs \in [Params -> Values] /\ \A p, q \in Params : regs[p] = regs[q]
  /\ fsm = [state |-> "S_IDLE", left |-> 0, busy |-> FALSE, done |-> FALSE, job |-> regs]
  /\ bus = [awvalid |-> FALSE, awaddr |-> "CTRL", wvalid |-> FALSE, wdata |-> 0,
            bready |-> TRUE, arvalid |-> FALSE, araddr |-> "CTRL", rready |-> TRUE]
  /\ m = NoOp
  /\ host = [pc |-> IF kind = "irq" THEN "gie" ELSE "config", want |-> regs, gap |-> 0]

Next ==
  /\ FsmIdle \/ FsmRun
  /\ \/ ~FPGA_TARGET /\ HostInterface
     \/ FPGA_TARGET /\ VitisControl
  /\ Host
  /\ UNCHANGED kind

Spec == Init /\ [][Next]_vars
\* The clock does not stop.
FairSpec == Spec /\ WF_vars(Next)

-----------------------------------------------------------------------------
(* Properties.                                                             *)

\* A job runs on the parameters the host wrote before it wrote the start: those the
\* controller latched, and those (the bases) it reads from the registers as it works.
JobAsConfigured == fsm.state = "run" => fsm.job = host.want /\ regs = host.want

\* A host that is not waiting for a job finds the accelerator at rest, with no start
\* under way to it: no answer was left over from an earlier job, and no start ran twice.
RestsBetweenJobs ==
  host.pc # "poll" =>
    /\ fsm.state = "S_IDLE" /\ ~start
    /\ IF FPGA_TARGET THEN ~ctl.ap_start ELSE ~ctl.start_pulse

\* A host that wrote a start learns of the end of its job.
DoneReported == (host.pc = "poll") ~> (host.pc = "config")
=============================================================================
