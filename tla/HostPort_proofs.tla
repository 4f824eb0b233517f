--------------------------- MODULE HostPort_proofs ---------------------------
(***************************************************************************)
(* Theorems about HostPort, for every set of parameters and values, either *)
(* build, every way of polling, and hosts and jobs that take any time: one *)
(* start makes one job, the job runs on the parameters written before it,  *)
(* and whoever learnt of its end finds the accelerator at rest.            *)
(***************************************************************************)
EXTENDS HostPort, TLAPS

-----------------------------------------------------------------------------
(* The inductive invariant.                                                *)

Wires == Addresses \cup {JUNK}
DataWires == Words \cup {JUNK}
Write == [state : {"WR_IDLE", "WR_DATA", "WR_RESP"}, addr : Wires, awready : BOOLEAN,
          wready : BOOLEAN, bvalid : BOOLEAN]
VcWrite == [state : {"WR_IDLE", "WR_EXEC", "WR_RESP"}, addr : Wires,
            data : DataWires, aw_done : BOOLEAN, w_done : BOOLEAN,
            awready : BOOLEAN, wready : BOOLEAN, bvalid : BOOLEAN]

MasterType ==
  /\ m \in [op : {"none", "write", "read"}, order : {"both", "aw", "w"},
            addr : Addresses, data : Words]
  /\ bus \in [awvalid : BOOLEAN, awaddr : Wires, wvalid : BOOLEAN,
              wdata : DataWires, bready : {TRUE},
              arvalid : BOOLEAN, araddr : Wires, rready : {TRUE}]
HostType == host \in [pc : {"gie", "ier", "config", "poll"}, want : [Params -> Values],
                      gap : Nat]
PortType == /\ wr \in IF FPGA_TARGET THEN VcWrite ELSE Write
            /\ regs \in [Params -> Values] /\ start \in BOOLEAN
FsmType == fsm \in [state : {"S_IDLE", "run"}, left : Nat, busy : BOOLEAN,
                    done : BOOLEAN, job : [Params -> Values]]

TypeInv == kind \in Hosts /\ MasterType /\ HostType /\ PortType /\ FsmType

\* A write under way whose register is not loaded yet.
Unexecuted == m.op = "write" /\ wr.state # "WR_RESP"

\* A write's address and data are each on the bus, taken, or still to be shown;
\* the register is loaded with what this operation carries.
ChannelsInv ==
  /\ m.op # "write" => wr.state = "WR_IDLE" /\ m.order = "both"
  /\ ~Unexecuted => ~bus.awvalid /\ ~bus.wvalid /\ m.order = "both"
  /\ bus.awvalid => bus.awaddr = m.addr
  /\ bus.wvalid => bus.wdata = m.data
  /\ wr.bvalid => wr.state = "WR_RESP"

HiChannels ==
  /\ Unexecuted /\ wr.state = "WR_IDLE" =>
       /\ m.order \in {"both", "aw"} /\ (m.order = "aw" <=> ~bus.wvalid)
       /\ m.order = "aw" => bus.awvalid
       /\ bus.awvalid => wr.awready
       /\ bus.wvalid => wr.wready
       /\ ~bus.awvalid => wr.addr = m.addr
  /\ wr.state = "WR_DATA" => /\ ~bus.awvalid /\ ~bus.wvalid /\ m.order = "both"
                             /\ wr.addr = m.addr /\ bus.wdata = m.data

VcChannels ==
  /\ ~Unexecuted => ~wr.aw_done /\ ~wr.w_done
  /\ Unexecuted =>
       /\ bus.awvalid <=> ~wr.aw_done /\ m.order # "w"
       /\ bus.wvalid <=> ~wr.w_done /\ m.order # "aw"
       /\ m.order = "w" => ~wr.aw_done /\ bus.wvalid
       /\ m.order = "aw" => ~wr.w_done /\ bus.awvalid
       /\ wr.aw_done => wr.addr = m.addr
       /\ wr.w_done => wr.data = m.data
       /\ wr.state = "WR_EXEC" <=> wr.aw_done /\ wr.w_done

\* A read's address is on the bus until it is taken; then its answer is held.
ReadInv ==
  /\ DOMAIN rd = {"state", "arready", "rvalid", "data", "ctrl_fired"}
  /\ rd.state \in {"RD_IDLE", "RD_DATA"} /\ rd.ctrl_fired \in BOOLEAN
  /\ rd.rvalid => rd.state = "RD_DATA" /\ ~rd.ctrl_fired
  /\ rd.ctrl_fired => rd.state = "RD_DATA"
  /\ rd.state = "RD_DATA" => m.op = "read" /\ ~bus.arvalid
  /\ bus.arvalid => m.op = "read" /\ bus.araddr = m.addr
  /\ m.op = "read" => /\ m.addr = Status /\ kind # "irq"
                      /\ rd.state = "RD_IDLE" => bus.arvalid

\* The registers are what the host wants, but for the one it is writing.
RegInv ==
  /\ \A p \in Params : regs[p] = host.want[p] \/ (Unexecuted /\ m.addr = p)
  /\ Unexecuted /\ m.addr \in Params => host.want[m.addr] = m.data

\* A start under way to the controller, and the bit the host polls.
Asked == IF FPGA_TARGET THEN ctl.ap_start ELSE ctl.start_pulse
Over == CASE kind = "sticky" -> ctl.done_sticky [] kind = "idle" -> ctl.ap_idle
          [] kind = "done" -> ctl.ap_done [] kind = "irq" -> ctl.isr

Idle == fsm.state = "S_IDLE" /\ ~fsm.busy /\ ~fsm.done
Resting == Idle /\ ~start /\ ~Asked /\ (FPGA_TARGET => ctl.ap_idle)

\* The stages of a job: its start is being written, asked for, given; it runs; it
\* ends; it is over.
Unasked == Resting /\ Unexecuted /\ (kind \in {"done", "irq"} => ~Over)
Asking == /\ Idle /\ ~start /\ Asked /\ m.op = "write" /\ wr.state = "WR_RESP" /\ ~wr.bvalid
          /\ FPGA_TARGET => ctl.ap_idle
          /\ kind \in {"done", "irq"} => ~Over
Given == /\ Idle /\ start /\ ~Asked /\ m.op = "write" /\ wr.state = "WR_RESP" /\ wr.bvalid
         /\ ~Over /\ (FPGA_TARGET => ~ctl.ap_idle)
Running == /\ fsm.state = "run" /\ fsm.job = regs /\ ~fsm.done /\ ~start /\ ~Asked
           /\ m.op # "write" /\ ~Over /\ (FPGA_TARGET => ~ctl.ap_idle)
Ending == /\ fsm.state = "S_IDLE" /\ fsm.done /\ ~fsm.busy /\ ~start /\ ~Asked
          /\ m.op # "write" /\ ~Over /\ (FPGA_TARGET => ~ctl.ap_idle /\ ~ctl.done_r)
Ended == Resting /\ m.op # "write"

Answer == m.op = "read" /\ rd.state = "RD_DATA" /\ Polled \in rd.data

ControlDomain ==
  DOMAIN ctl = IF FPGA_TARGET THEN {"ap_start", "ap_done", "ap_idle", "auto_restart",
                                    "gie", "ier", "isr", "done_r"}
               ELSE {"start_pulse", "done_sticky"}

\* The host waits for the job whose start it wrote; what it heard was true.
Polling ==
  /\ m.op = "write" => m.addr = "CTRL" /\ m.data = 1
  /\ Unasked \/ Asking \/ Given \/ Running \/ Ending \/ Ended
  /\ Answer => Ended
  /\ Answer /\ kind = "done" => rd.ctrl_fired \/ ~Over

\* The host writes parameters; the end of an earlier job is cleared, or about to be.
Configuring ==
  /\ Resting /\ m.op # "read" /\ (m.op = "write" => m.addr # "CTRL")
  /\ kind = "done" => ~Over
  /\ kind = "irq" /\ Over => Unexecuted /\ m.addr = "ISR" /\ m.data = 1

JobInv == /\ ControlDomain /\ (FPGA_TARGET => ~ctl.auto_restart)
          /\ IF host.pc = "poll" THEN Polling ELSE Configuring

BuildInv == IF FPGA_TARGET THEN VcChannels ELSE HiChannels

IInv == TypeInv /\ ChannelsInv /\ BuildInv /\ ReadInv /\ RegInv /\ JobInv

-----------------------------------------------------------------------------
(* What one clock edge does to each part.                                  *)

Writes(addr, data) == m.op = "none" /\ WriteBegins(addr, data)
Reads == m.op = "none" /\ kind # "irq" /\ ReadBegins(Status)
Quiet == m.op = "none" /\ UNCHANGED <<m, bus>>

LEMMA MasterMoves ==
  ASSUME TypeInv, Host
  PROVE  \/ Quiet
         \/ \E addr \in Addresses, data \in Words : Writes(addr, data)
         \/ Reads \/ WriteGoesOn \/ ReadGoesOn \/ Ends
<1>1. CASE HostWaits BY <1>1 DEF HostWaits, Quiet
<1>2. CASE EnableInterrupt BY <1>2 DEF EnableInterrupt, HostMay, Writes, Words, Addresses
<1>3. CASE EnableDone BY <1>3 DEF EnableDone, HostMay, Writes, Words, Addresses
<1>4. CASE WriteParameter BY <1>4 DEF WriteParameter, HostMay, Writes, Words, Addresses
<1>5. CASE WriteStart BY <1>5 DEF WriteStart, HostMay, Writes, Words, Addresses
<1>6. CASE Poll BY <1>6 DEF Poll, HostMay, Reads
<1>7. CASE AwaitInterrupt
  BY <1>7 DEF AwaitInterrupt, HostMay, Writes, Words, Addresses, Quiet
<1>8. CASE Answered BY <1>8 DEF Answered
<1>9. CASE Written BY <1>9 DEF Written
<1>10. CASE Pending BY <1>10 DEF Pending
<1> QED
  BY <1>1, <1>2, <1>3, <1>4, <1>5, <1>6, <1>7, <1>8, <1>9, <1>10 DEF Host

LEMMA MasterTypes == TypeInv /\ Host => MasterType'
<1> SUFFICES ASSUME TypeInv, Host PROVE MasterType'
  OBVIOUS
<1> USE DEF MasterType, TypeInv
<1>1. CASE Quiet BY <1>1 DEF Quiet
<1>2. ASSUME NEW addr \in Addresses, NEW data \in Words, Writes(addr, data)
      PROVE  MasterType'
  <2>1. PICK order \in {"both", "aw", "w"} :
          /\ m' = [op |-> "write", order |-> order, addr |-> addr, data |-> data]
          /\ bus' = [bus EXCEPT
                !.awvalid = order # "w", !.awaddr = IF order # "w" THEN addr ELSE @,
                !.wvalid = order # "aw", !.wdata = IF order # "aw" THEN data ELSE @]
    BY <1>2 DEF Writes, WriteBegins, Orders
  <2>2. addr \in Wires /\ data \in DataWires
    BY DEF Wires, DataWires
  <2>3. (IF order # "w" THEN addr ELSE bus.awaddr) \in Wires
    BY <2>2
  <2>4. (IF order # "aw" THEN data ELSE bus.wdata) \in DataWires
    BY <2>2
  <2> QED BY <2>1, <2>3, <2>4
<1>3. CASE Reads BY <1>3 DEF Reads, ReadBegins, NoOp, Status, Addresses, Wires, Words
<1>4. CASE WriteGoesOn
  <2> DEFINE openAw == m.order = "w" /\ WTaken
             openW == m.order = "aw" /\ AwTaken
  <2>1. /\ ((bus.awvalid /\ ~AwTaken) \/ openAw) \in BOOLEAN
        /\ ((bus.wvalid /\ ~WTaken) \/ openW) \in BOOLEAN
    OBVIOUS
  <2>2. /\ (IF openAw THEN m.addr ELSE After(AwTaken, bus.awaddr)) \in Wires
        /\ (IF openW THEN m.data ELSE After(WTaken, bus.wdata)) \in DataWires
    BY DEF After, Wires, DataWires
  <2>3. bus' = [bus EXCEPT
             !.awvalid = (@ /\ ~AwTaken) \/ openAw,
             !.awaddr = IF openAw THEN m.addr ELSE After(AwTaken, @),
             !.wvalid = (@ /\ ~WTaken) \/ openW,
             !.wdata = IF openW THEN m.data ELSE After(WTaken, @)]
    BY <1>4 DEF WriteGoesOn
  <2>4. m' = IF openAw \/ openW THEN [m EXCEPT !.order = "both"] ELSE m
    BY <1>4 DEF WriteGoesOn
  <2> HIDE DEF openAw, openW
  <2> QED BY <2>1, <2>2, <2>3, <2>4
<1>5. CASE ReadGoesOn
  BY <1>5 DEF ReadGoesOn, Wires, After
<1>6. CASE Ends BY <1>6 DEF Ends, NoOp, Addresses, Words
<1> QED BY <1>1, <1>2, <1>3, <1>4, <1>5, <1>6, MasterMoves

LEMMA HostTypes == TypeInv /\ Host => HostType'
<1> SUFFICES ASSUME TypeInv, Host PROVE HostType'
  OBVIOUS
<1> USE HostAssumption DEF TypeInv, HostType
<1>1. ASSUME NEW pc \in {"ier", "config", "poll"}, Goto(pc) PROVE HostType'
  BY <1>1 DEF Goto
<1>2. CASE UNCHANGED host BY <1>2
<1>3. CASE HostWaits BY <1>3 DEF HostWaits
<1>4. CASE WriteParameter
  <2>1. PICK p \in Params, v \in Values, gap \in Gaps :
          host' = [host EXCEPT !.want[p] = v, !.gap = gap]
    BY <1>4 DEF WriteParameter
  <2>2. [host.want EXCEPT ![p] = v] \in [Params -> Values] BY <2>1
  <2>3. host' = [host EXCEPT !.want = [host.want EXCEPT ![p] = v], !.gap = gap]
    BY <2>1
  <2> QED BY <2>2, <2>3
<1> QED
  BY <1>1, <1>2, <1>3, <1>4 DEF Host, EnableInterrupt, EnableDone, WriteStart, Poll,
     AwaitInterrupt, Answered, Written, Pending

LEMMA FsmTypes == TypeInv /\ (FsmIdle \/ FsmRun) => FsmType'
<1> SUFFICES ASSUME TypeInv, FsmIdle \/ FsmRun PROVE FsmType'
  OBVIOUS
<1> USE HostAssumption DEF TypeInv, FsmType, PortType
<1>1. CASE FsmIdle
  <2>1. CASE start
    <3>1. PICK n \in RunTimes :
            fsm' = [state |-> "run", left |-> n, busy |-> TRUE, done |-> FALSE, job |-> regs]
      BY <1>1, <2>1 DEF FsmIdle
    <3> QED BY <3>1
  <2>2. CASE ~start
    <3>1. fsm' = [fsm EXCEPT !.busy = FALSE, !.done = FALSE]
      BY <1>1, <2>2 DEF FsmIdle
    <3> QED BY <3>1
  <2> QED BY <2>1, <2>2
<1>2. CASE FsmRun
  <2>1. CASE fsm.left > 0
    <3>1. fsm' = [fsm EXCEPT !.left = @ - 1] /\ fsm.left - 1 \in Nat
      BY <1>2, <2>1 DEF FsmRun
    <3> QED BY <3>1
  <2>2. CASE ~(fsm.left > 0)
    <3>1. fsm' = [fsm EXCEPT !.state = "S_IDLE", !.busy = FALSE, !.done = TRUE]
      BY <1>2, <2>2 DEF FsmRun
    <3> QED BY <3>1
  <2> QED BY <2>1, <2>2
<1> QED BY <1>1, <1>2

-----------------------------------------------------------------------------
(* The write channels of the simulation build.                             *)

HiWrites == HiWriteIdle \/ HiWriteData \/ WriteResponse

LEMMA HiWriteTypes == TypeInv /\ ~FPGA_TARGET /\ HiWrites => wr' \in Write
<1> SUFFICES ASSUME TypeInv, ~FPGA_TARGET, HiWrites PROVE wr' \in Write
  OBVIOUS
<1>1. wr \in Write BY DEF TypeInv, PortType
<1>2. bus.awaddr \in Wires BY DEF TypeInv, MasterType
<1>3. CASE HiWriteIdle
  <2>1. (IF AwTaken THEN bus.awaddr ELSE wr.addr) \in Wires BY <1>1, <1>2 DEF Write
  <2>2. (IF WTaken THEN "WR_DATA" ELSE wr.state) \in {"WR_IDLE", "WR_DATA", "WR_RESP"}
    BY <1>1 DEF Write
  <2>3. (~AwTaken) \in BOOLEAN /\ (~WTaken) \in BOOLEAN OBVIOUS
  <2> QED BY <1>1, <1>3, <2>1, <2>2, <2>3 DEF HiWriteIdle, Write
<1>4. CASE HiWriteData BY <1>1, <1>4 DEF HiWriteData, Write
<1>5. CASE WriteResponse BY <1>1, <1>5 DEF WriteResponse, Write
<1> QED BY <1>3, <1>4, <1>5 DEF HiWrites

\* No data is taken while no write is under way, and the state stays.
LEMMA HiNoWrite ==
  ASSUME TypeInv, ChannelsInv, ~FPGA_TARGET, HiWrites, m.op # "write"
  PROVE  wr'.state = "WR_IDLE" /\ ~wr'.bvalid /\ wr'.awready /\ wr'.wready
<1>1. wr \in Write BY DEF TypeInv, PortType
<1>2. wr.state = "WR_IDLE" /\ ~bus.wvalid /\ ~bus.awvalid /\ ~wr.bvalid
  BY DEF ChannelsInv, Unexecuted
<1>3. HiWriteIdle BY <1>2 DEF HiWrites, HiWriteData, WriteResponse
<1>4. ~AwTaken /\ ~WTaken BY <1>2 DEF AwTaken, WTaken
<1> QED BY <1>1, <1>2, <1>3, <1>4 DEF HiWriteIdle, Write

LEMMA HiOther ==
  ASSUME TypeInv, ChannelsInv, HiChannels, ~FPGA_TARGET, kind' = kind, HiWrites,
         m.op # "write", Host
  PROVE  ChannelsInv' /\ HiChannels'
<1>1. wr'.state = "WR_IDLE" /\ ~wr'.bvalid /\ wr'.awready /\ wr'.wready
  BY HiNoWrite
<1>2. ~bus.wvalid /\ ~bus.awvalid /\ m.order = "both"
  BY DEF ChannelsInv, Unexecuted
<1>3. CASE UNCHANGED <<bus.awvalid, bus.wvalid, m.order>> /\ m'.op # "write"
  BY <1>1, <1>2, <1>3 DEF ChannelsInv, HiChannels, Unexecuted
<1>4. ASSUME NEW addr \in Addresses, NEW data \in Words, Writes(addr, data)
      PROVE  ChannelsInv' /\ HiChannels'
  <2>1. PICK order \in {"both", "aw"} :
          /\ m' = [op |-> "write", order |-> order, addr |-> addr, data |-> data]
          /\ bus' = [bus EXCEPT
                !.awvalid = order # "w", !.awaddr = IF order # "w" THEN addr ELSE @,
                !.wvalid = order # "aw", !.wdata = IF order # "aw" THEN data ELSE @]
    BY <1>4 DEF Writes, WriteBegins, Orders
  <2>2. bus'.awvalid /\ bus'.awaddr = addr /\ bus'.wvalid = (order # "aw")
        /\ (order # "aw" => bus'.wdata = data)
    BY <2>1 DEF TypeInv, MasterType
  <2> QED BY <2>1, <2>2, <1>1 DEF ChannelsInv, HiChannels, Unexecuted
<1>5. CASE Quiet BY <1>3, <1>5 DEF Quiet
<1>6. CASE Reads BY <1>3, <1>6, <1>2 DEF Reads, ReadBegins, NoOp, TypeInv, MasterType
<1>7. CASE ReadGoesOn BY <1>3, <1>7 DEF ReadGoesOn, TypeInv, MasterType
<1>8. CASE Ends BY <1>3, <1>8, <1>2 DEF Ends, NoOp
<1> QED
  BY <1>4, <1>5, <1>6, <1>7, <1>8, MasterMoves DEF WriteGoesOn

LEMMA HiWriting ==
  ASSUME TypeInv, ChannelsInv, HiChannels, ~FPGA_TARGET, kind' = kind, HiWrites,
         m.op = "write", WriteGoesOn
  PROVE  ChannelsInv' /\ HiChannels'
<1>1. wr \in Write BY DEF TypeInv, PortType
<1>2. m \in [op : {"none", "write", "read"}, order : {"both", "aw", "w"},
            addr : Addresses, data : Words]
  BY DEF TypeInv, MasterType
<1>3. bus \in [awvalid : BOOLEAN, awaddr : Wires, wvalid : BOOLEAN,
              wdata : DataWires, bready : {TRUE},
              arvalid : BOOLEAN, araddr : Wires, rready : {TRUE}]
  BY DEF TypeInv, MasterType
<1>4. CASE wr.state = "WR_IDLE"
  <2>1. Unexecuted /\ m.order \in {"both", "aw"} /\ (m.order = "aw" <=> ~bus.wvalid)
        /\ (AwTaken <=> bus.awvalid) /\ (WTaken <=> bus.wvalid)
    BY <1>4 DEF HiChannels, Unexecuted, AwTaken, WTaken
  <2>2. HiWriteIdle BY <1>4 DEF HiWrites, HiWriteData, WriteResponse
  <2>3. wr'.addr = m.addr /\ wr'.bvalid = wr.bvalid /\ ~wr.bvalid
        /\ wr'.awready = ~AwTaken /\ wr'.wready = ~WTaken
        /\ wr'.state = (IF WTaken THEN "WR_DATA" ELSE "WR_IDLE")
    BY <1>1, <1>4, <2>1, <2>2 DEF HiWriteIdle, Write, HiChannels, ChannelsInv
  <2>4. CASE m.order = "aw"
    <3>1. /\ m' = [m EXCEPT !.order = "both"]
          /\ bus'.awvalid = FALSE /\ bus'.wvalid /\ bus'.wdata = m.data
      <4>1. bus.awvalid /\ AwTaken /\ ~bus.wvalid /\ ~WTaken
        BY <1>4, <2>1, <2>4 DEF HiChannels
      <4> QED BY <4>1, <2>4, <1>3 DEF WriteGoesOn
    <3>2. m'.op = "write" /\ m'.order = "both" /\ m'.addr = m.addr /\ m'.data = m.data
      BY <3>1, <1>2
    <3> QED BY <2>1, <2>3, <2>4, <3>1, <3>2 DEF ChannelsInv, HiChannels, Unexecuted
  <2>5. CASE m.order = "both"
    <3>1. /\ m' = m /\ bus'.awvalid = FALSE /\ bus'.wvalid = FALSE
          /\ bus'.wdata = bus.wdata
      BY <2>1, <2>5, <1>3 DEF WriteGoesOn, After
    <3> QED BY <2>1, <2>3, <2>5, <3>1 DEF ChannelsInv, HiChannels, Unexecuted
  <2> QED BY <2>1, <2>4, <2>5
<1>5. CASE wr.state # "WR_IDLE"
  <2>1. ~bus.awvalid /\ ~bus.wvalid /\ m.order = "both"
    BY <1>1, <1>5 DEF Write, ChannelsInv, HiChannels, Unexecuted
  <2>2. m' = m /\ ~bus'.awvalid /\ ~bus'.wvalid
    BY <2>1, <1>3 DEF WriteGoesOn, AwTaken, WTaken
  <2>3. wr'.state = "WR_RESP"
    BY <1>1, <1>5 DEF HiWrites, HiWriteIdle, HiWriteData, WriteResponse, WriteGoesOn,
       WriteDone, Write
  <2> QED BY <1>5, <2>1, <2>2, <2>3 DEF ChannelsInv, HiChannels, Unexecuted
<1> QED BY <1>4, <1>5

LEMMA HiResponded ==
  ASSUME TypeInv, ChannelsInv, HiChannels, ~FPGA_TARGET, kind' = kind, HiWrites,
         m.op = "write", Ends
  PROVE  ChannelsInv' /\ HiChannels'
<1>1. wr \in Write /\ wr.state = "WR_RESP" /\ wr.bvalid /\ bus.bready
  BY DEF TypeInv, PortType, ChannelsInv, Ends, WriteDone, ReadDone
<1>2. wr'.state = "WR_IDLE" /\ ~wr'.bvalid
  BY <1>1 DEF HiWrites, HiWriteIdle, HiWriteData, WriteResponse, Write
<1>3. ~bus'.awvalid /\ ~bus'.wvalid /\ m'.op = "none" /\ m'.order = "both"
  BY <1>1 DEF ChannelsInv, Unexecuted, Ends, NoOp
<1> QED BY <1>2, <1>3 DEF ChannelsInv, HiChannels, Unexecuted

LEMMA HiChannelsStep ==
  ASSUME TypeInv, ChannelsInv, HiChannels, ~FPGA_TARGET, kind' = kind, HiWrites, Host
  PROVE  ChannelsInv' /\ HiChannels'
<1>1. CASE m.op # "write" BY <1>1, HiOther
<1>2. CASE m.op = "write"
  <2>1. WriteGoesOn \/ Ends
    BY <1>2, MasterMoves DEF Quiet, Writes, Reads, ReadGoesOn
  <2> QED BY <1>2, <2>1, HiWriting, HiResponded
<1> QED BY <1>1, <1>2

-----------------------------------------------------------------------------
(* The write channels of the FPGA build.                                   *)

VcWrites == VcWriteIdle \/ VcWriteExec \/ WriteResponse

LEMMA VcWriteTypes == TypeInv /\ FPGA_TARGET /\ VcWrites => wr' \in VcWrite
<1> SUFFICES ASSUME TypeInv, FPGA_TARGET, VcWrites PROVE wr' \in VcWrite
  OBVIOUS
<1>1. wr \in VcWrite BY DEF TypeInv, PortType
<1>2. bus.awaddr \in Wires /\ bus.wdata \in DataWires
      /\ bus.awvalid \in BOOLEAN /\ bus.wvalid \in BOOLEAN
  BY DEF TypeInv, MasterType
<1>3. CASE VcWriteIdle
  <2>1. (IF AwTaken THEN bus.awaddr ELSE wr.addr) \in Wires BY <1>1, <1>2 DEF VcWrite
  <2>2. DataLatch \in DataWires BY <1>1, <1>2 DEF VcWrite, DataLatch
  <2>3. (IF BothCaptured THEN "WR_EXEC" ELSE wr.state) \in {"WR_IDLE", "WR_EXEC", "WR_RESP"}
    BY <1>1 DEF VcWrite
  <2>4. (wr.aw_done \/ AwTaken) \in BOOLEAN /\ (wr.w_done \/ WTaken) \in BOOLEAN
        /\ (~BothCaptured /\ ~AwTaken /\ (wr.awready \/ ~wr.aw_done)) \in BOOLEAN
        /\ (~BothCaptured /\ ~WTaken /\ (wr.wready \/ ~wr.w_done)) \in BOOLEAN
    OBVIOUS
  <2> DEFINE taken == [wr EXCEPT !.addr = IF AwTaken THEN bus.awaddr ELSE @,
                                 !.data = DataLatch,
                                 !.state = IF BothCaptured THEN "WR_EXEC" ELSE @]
             flags == [taken EXCEPT !.aw_done = wr.aw_done \/ AwTaken,
                                    !.w_done = wr.w_done \/ WTaken]
             ready == [flags EXCEPT
                !.awready = ~BothCaptured /\ ~AwTaken /\ (wr.awready \/ ~wr.aw_done),
                !.wready = ~BothCaptured /\ ~WTaken /\ (wr.wready \/ ~wr.w_done)]
  <2>5. taken \in VcWrite BY <1>1, <2>1, <2>2, <2>3 DEF VcWrite
  <2>6. wr' = ready BY <1>1, <1>3 DEF VcWriteIdle, VcWrite
  <2> HIDE DEF taken
  <2>7. flags \in VcWrite BY <2>4, <2>5 DEF VcWrite
  <2> HIDE DEF flags
  <2>8. ready \in VcWrite BY <2>4, <2>7 DEF VcWrite
  <2> QED BY <2>6, <2>8
<1>4. CASE VcWriteExec BY <1>1, <1>4 DEF VcWriteExec, VcWrite
<1>5. CASE WriteResponse BY <1>1, <1>5 DEF WriteResponse, VcWrite
<1> QED BY <1>3, <1>4, <1>5 DEF VcWrites

LEMMA VcOther ==
  ASSUME TypeInv, ChannelsInv, VcChannels, FPGA_TARGET, kind' = kind, VcWrites,
         m.op # "write", Host
  PROVE  ChannelsInv' /\ VcChannels'
<1>1. wr \in VcWrite BY DEF TypeInv, PortType
<1>2. /\ wr.state = "WR_IDLE" /\ ~bus.wvalid /\ ~bus.awvalid /\ ~wr.bvalid
      /\ m.order = "both" /\ ~wr.aw_done /\ ~wr.w_done
  BY DEF ChannelsInv, VcChannels, Unexecuted
<1>3. VcWriteIdle BY <1>2 DEF VcWrites, VcWriteExec, WriteResponse
<1>4. ~AwTaken /\ ~WTaken /\ ~BothCaptured BY <1>2 DEF AwTaken, WTaken, BothCaptured
<1>5. wr'.state = "WR_IDLE" /\ ~wr'.bvalid /\ ~wr'.aw_done /\ ~wr'.w_done
  BY <1>1, <1>2, <1>3, <1>4 DEF VcWriteIdle, VcWrite
<1>6. CASE UNCHANGED <<bus.awvalid, bus.wvalid, m.order>> /\ m'.op # "write"
  BY <1>2, <1>5, <1>6 DEF ChannelsInv, VcChannels, Unexecuted
<1>7. ASSUME NEW addr \in Addresses, NEW data \in Words, Writes(addr, data)
      PROVE  ChannelsInv' /\ VcChannels'
  <2>1. PICK order \in {"both", "aw", "w"} :
          /\ m' = [op |-> "write", order |-> order, addr |-> addr, data |-> data]
          /\ bus' = [bus EXCEPT
                !.awvalid = order # "w", !.awaddr = IF order # "w" THEN addr ELSE @,
                !.wvalid = order # "aw", !.wdata = IF order # "aw" THEN data ELSE @]
    BY <1>7 DEF Writes, WriteBegins, Orders
  <2>2. /\ bus'.awvalid = (order # "w") /\ (order # "w" => bus'.awaddr = addr)
        /\ bus'.wvalid = (order # "aw") /\ (order # "aw" => bus'.wdata = data)
    BY <2>1 DEF TypeInv, MasterType
  <2> QED BY <2>1, <2>2, <1>5 DEF ChannelsInv, VcChannels, Unexecuted
<1>8. CASE Quiet BY <1>6, <1>8 DEF Quiet
<1>9. CASE Reads BY <1>6, <1>9, <1>2 DEF Reads, ReadBegins, NoOp, TypeInv, MasterType
<1>10. CASE ReadGoesOn BY <1>6, <1>10 DEF ReadGoesOn, TypeInv, MasterType
<1>11. CASE Ends BY <1>6, <1>11, <1>2 DEF Ends, NoOp
<1> QED
  BY <1>7, <1>8, <1>9, <1>10, <1>11, MasterMoves DEF WriteGoesOn

LEMMA VcWriting ==
  ASSUME TypeInv, ChannelsInv, VcChannels, FPGA_TARGET, kind' = kind, VcWrites,
         m.op = "write", WriteGoesOn
  PROVE  ChannelsInv' /\ VcChannels'
<1>1. wr \in VcWrite BY DEF TypeInv, PortType
<1>2. m \in [op : {"none", "write", "read"}, order : {"both", "aw", "w"},
            addr : Addresses, data : Words]
  BY DEF TypeInv, MasterType
<1>3. bus \in [awvalid : BOOLEAN, awaddr : Wires, wvalid : BOOLEAN,
              wdata : DataWires, bready : {TRUE},
              arvalid : BOOLEAN, araddr : Wires, rready : {TRUE}]
  BY DEF TypeInv, MasterType
<1>4. CASE wr.state = "WR_IDLE"
  <2>1. Unexecuted BY <1>4 DEF Unexecuted
  <2>2. VcWriteIdle BY <1>4 DEF VcWrites, VcWriteExec, WriteResponse
  <2>3. /\ wr'.addr = (IF AwTaken THEN bus.awaddr ELSE wr.addr)
        /\ wr'.data = (IF WTaken THEN bus.wdata ELSE wr.data)
        /\ wr'.aw_done = (wr.aw_done \/ AwTaken) /\ wr'.w_done = (wr.w_done \/ WTaken)
        /\ wr'.bvalid = wr.bvalid /\ ~wr.bvalid
        /\ wr'.state = (IF wr'.aw_done /\ wr'.w_done THEN "WR_EXEC" ELSE "WR_IDLE")
    BY <1>1, <1>4, <2>2 DEF VcWriteIdle, VcWrite, ChannelsInv, DataLatch, BothCaptured
  <2>4. (AwTaken => bus.awvalid) /\ (WTaken => bus.wvalid) BY DEF AwTaken, WTaken
  <2>5. CASE m.order = "both"
    <3>1. /\ m' = m /\ bus'.awvalid = (bus.awvalid /\ ~AwTaken)
          /\ bus'.wvalid = (bus.wvalid /\ ~WTaken)
          /\ ~AwTaken => bus'.awaddr = bus.awaddr
          /\ ~WTaken => bus'.wdata = bus.wdata
      BY <2>5, <1>3 DEF WriteGoesOn, After
    <3> QED BY <1>4, <2>1, <2>3, <2>4, <2>5, <3>1 DEF ChannelsInv, VcChannels, Unexecuted
  <2>6. CASE m.order = "aw"
    <3>1. /\ m'.op = "write" /\ m'.addr = m.addr /\ m'.data = m.data
          /\ m'.order = (IF AwTaken THEN "both" ELSE "aw")
          /\ (bus'.awvalid <=> ~AwTaken) /\ (bus'.wvalid <=> AwTaken) /\ ~WTaken
          /\ ~AwTaken => bus'.awaddr = bus.awaddr
          /\ AwTaken => bus'.wdata = m.data
      <4>1. bus.awvalid /\ ~bus.wvalid /\ ~WTaken
        BY <2>1, <2>6 DEF VcChannels, WTaken
      <4>2. CASE AwTaken
        <5>1. /\ m' = [m EXCEPT !.order = "both"]
              /\ bus'.awvalid = FALSE /\ bus'.wvalid = TRUE /\ bus'.wdata = m.data
          BY <4>1, <4>2, <2>6, <1>3 DEF WriteGoesOn
        <5> QED BY <4>1, <4>2, <5>1, <1>2
      <4>3. CASE ~AwTaken
        <5>1. /\ m' = m /\ bus'.awvalid = TRUE /\ bus'.wvalid = FALSE
              /\ bus'.awaddr = bus.awaddr
          BY <4>1, <4>3, <2>6, <1>3 DEF WriteGoesOn, After
        <5> QED BY <4>1, <4>3, <5>1, <2>6
      <4> QED BY <4>2, <4>3
    <3> QED BY <1>4, <2>1, <2>3, <2>4, <2>6, <3>1 DEF ChannelsInv, VcChannels, Unexecuted
  <2>7. CASE m.order = "w"
    <3>1. /\ m'.op = "write" /\ m'.addr = m.addr /\ m'.data = m.data
          /\ m'.order = (IF WTaken THEN "both" ELSE "w")
          /\ (bus'.wvalid <=> ~WTaken) /\ (bus'.awvalid <=> WTaken) /\ ~AwTaken
          /\ ~WTaken => bus'.wdata = bus.wdata
          /\ WTaken => bus'.awaddr = m.addr
      <4>1. bus.wvalid /\ ~bus.awvalid /\ ~AwTaken
        BY <2>1, <2>7 DEF VcChannels, AwTaken
      <4>2. CASE WTaken
        <5>1. /\ m' = [m EXCEPT !.order = "both"]
              /\ bus'.wvalid = FALSE /\ bus'.awvalid = TRUE /\ bus'.awaddr = m.addr
          BY <4>1, <4>2, <2>7, <1>3 DEF WriteGoesOn
        <5> QED BY <4>1, <4>2, <5>1, <1>2
      <4>3. CASE ~WTaken
        <5>1. /\ m' = m /\ bus'.wvalid = TRUE /\ bus'.awvalid = FALSE
              /\ bus'.wdata = bus.wdata
          BY <4>1, <4>3, <2>7, <1>3 DEF WriteGoesOn, After
        <5> QED BY <4>1, <4>3, <5>1, <2>7
      <4> QED BY <4>2, <4>3
    <3> QED BY <1>4, <2>1, <2>3, <2>4, <2>7, <3>1 DEF ChannelsInv, VcChannels, Unexecuted
  <2> QED BY <1>2, <2>5, <2>6, <2>7
<1>5. CASE wr.state # "WR_IDLE"
  <2>1. ~bus.awvalid /\ ~bus.wvalid /\ m.order = "both"
    BY <1>1, <1>2, <1>5 DEF VcWrite, ChannelsInv, VcChannels, Unexecuted
  <2>2. m' = m /\ ~bus'.awvalid /\ ~bus'.wvalid
    BY <2>1, <1>3 DEF WriteGoesOn, AwTaken, WTaken
  <2>3. wr'.state = "WR_RESP" /\ ~wr'.aw_done /\ ~wr'.w_done
    BY <1>1, <1>5 DEF VcWrites, VcWriteIdle, VcWriteExec, WriteResponse, WriteGoesOn,
       WriteDone, VcWrite, VcChannels, Unexecuted
  <2> QED BY <1>5, <2>1, <2>2, <2>3 DEF ChannelsInv, VcChannels, Unexecuted
<1> QED BY <1>4, <1>5

LEMMA VcResponded ==
  ASSUME TypeInv, ChannelsInv, VcChannels, FPGA_TARGET, kind' = kind, VcWrites,
         m.op = "write", Ends
  PROVE  ChannelsInv' /\ VcChannels'
<1>1. wr \in VcWrite /\ wr.state = "WR_RESP" /\ wr.bvalid /\ bus.bready
      /\ ~wr.aw_done /\ ~wr.w_done
  BY DEF TypeInv, PortType, ChannelsInv, VcChannels, Unexecuted, Ends, WriteDone, ReadDone
<1>2. wr'.state = "WR_IDLE" /\ ~wr'.bvalid /\ ~wr'.aw_done /\ ~wr'.w_done
  BY <1>1 DEF VcWrites, VcWriteIdle, VcWriteExec, WriteResponse, VcWrite
<1>3. ~bus'.awvalid /\ ~bus'.wvalid /\ m'.op = "none" /\ m'.order = "both"
  BY <1>1 DEF ChannelsInv, Unexecuted, Ends, NoOp
<1> QED BY <1>2, <1>3 DEF ChannelsInv, VcChannels, Unexecuted

LEMMA VcChannelsStep ==
  ASSUME TypeInv, ChannelsInv, VcChannels, FPGA_TARGET, kind' = kind, VcWrites, Host
  PROVE  ChannelsInv' /\ VcChannels'
<1>1. CASE m.op # "write" BY <1>1, VcOther
<1>2. CASE m.op = "write"
  <2>1. WriteGoesOn \/ Ends
    BY <1>2, MasterMoves DEF Quiet, Writes, Reads, ReadGoesOn
  <2> QED BY <1>2, <2>1, VcWriting, VcResponded
<1> QED BY <1>1, <1>2

-----------------------------------------------------------------------------
(* What either build makes of a write.                                     *)

Port == \/ ~FPGA_TARGET /\ HostInterface
        \/ FPGA_TARGET /\ VitisControl

\* The register is loaded in this cycle, and with what.
Executing == IF FPGA_TARGET THEN wr.state = "WR_EXEC" ELSE wr.state = "WR_DATA"
Carried == IF FPGA_TARGET THEN wr.data ELSE bus.wdata

WriteStep ==
  /\ Executing =>
       /\ Unexecuted /\ m' = m /\ wr'.state = "WR_RESP" /\ ~wr'.bvalid
       /\ wr.addr = m.addr /\ Carried = m.data
  /\ Unexecuted /\ ~Executing =>
       m'.op = "write" /\ wr'.state # "WR_RESP" /\ m'.addr = m.addr /\ m'.data = m.data
  /\ m.op = "write" /\ ~Unexecuted =>
       \/ ~wr.bvalid /\ m' = m /\ wr'.state = "WR_RESP" /\ wr'.bvalid
       \/ wr.bvalid /\ m' = NoOp /\ UNCHANGED bus /\ wr'.state = "WR_IDLE"
  /\ m.op # "write" => wr'.state = "WR_IDLE" /\ ~Executing

LEMMA Writing ==
  ASSUME TypeInv, ChannelsInv, Host, m.op = "write"
  PROVE  \/ ~wr.bvalid /\ WriteGoesOn
         \/ wr.bvalid /\ Ends
<1>1. WriteGoesOn \/ Ends
  BY MasterMoves DEF Quiet, Writes, Reads, ReadGoesOn
<1>2. bus.bready BY DEF TypeInv, MasterType
<1> QED BY <1>1, <1>2 DEF WriteGoesOn, Ends, WriteDone, ReadDone

LEMMA GoesOn ==
  ASSUME TypeInv, WriteGoesOn
  PROVE  m'.op = "write" /\ m'.addr = m.addr /\ m'.data = m.data
BY DEF WriteGoesOn, TypeInv, MasterType

LEMMA HiWriteStep ==
  ASSUME TypeInv, ChannelsInv, HiChannels, ~FPGA_TARGET, HiWrites, Host
  PROVE  WriteStep
<1>1. wr \in Write BY DEF TypeInv, PortType
<1>2. CASE Executing
  <2>1. wr.state = "WR_DATA" /\ Unexecuted
    BY <1>2 DEF Executing, ChannelsInv, Unexecuted
  <2>2. WriteGoesOn BY <2>1, Writing DEF ChannelsInv, Unexecuted
  <2>3. m' = m
    BY <2>1, <2>2 DEF WriteGoesOn, HiChannels, AwTaken, WTaken
  <2>4. wr'.state = "WR_RESP" /\ ~wr'.bvalid
    BY <1>1, <2>1 DEF HiWrites, HiWriteIdle, HiWriteData, WriteResponse, Write, ChannelsInv
  <2> QED BY <2>1, <2>3, <2>4 DEF WriteStep, Executing, Carried, Unexecuted, HiChannels
<1>3. CASE Unexecuted /\ ~Executing
  <2>1. wr.state = "WR_IDLE" /\ ~wr.bvalid
    BY <1>1, <1>3 DEF Unexecuted, Executing, Write, ChannelsInv
  <2>2. WriteGoesOn BY <1>3, <2>1, Writing DEF Unexecuted
  <2>3. wr'.state # "WR_RESP"
    BY <1>1, <2>1 DEF HiWrites, HiWriteIdle, HiWriteData, WriteResponse, Write
  <2> QED BY <1>3, <2>2, <2>3, GoesOn DEF WriteStep, Unexecuted
<1>4. CASE m.op = "write" /\ ~Unexecuted
  <2>1. wr.state = "WR_RESP" /\ ~bus.awvalid /\ ~bus.wvalid /\ bus.bready
    BY <1>4 DEF ChannelsInv, Unexecuted, TypeInv, MasterType
  <2>2. IF wr.bvalid THEN wr'.state = "WR_IDLE" ELSE wr'.state = "WR_RESP" /\ wr'.bvalid
    BY <1>1, <2>1 DEF HiWrites, HiWriteIdle, HiWriteData, WriteResponse, Write
  <2>3. CASE wr.bvalid
    BY <1>4, <2>1, <2>2, <2>3, Writing DEF Ends, WriteStep, Executing
  <2>4. CASE ~wr.bvalid
    <3>1. m' = m BY <1>4, <2>1, <2>4, Writing DEF WriteGoesOn, AwTaken, WTaken
    <3> QED BY <1>4, <2>1, <2>2, <2>4, <3>1 DEF WriteStep, Executing
  <2> QED BY <2>3, <2>4
<1>5. CASE m.op # "write"
  BY <1>5, HiNoWrite DEF WriteStep, ChannelsInv, Executing, Unexecuted
<1> QED BY <1>2, <1>3, <1>4, <1>5 DEF Unexecuted

LEMMA VcWriteStep ==
  ASSUME TypeInv, ChannelsInv, VcChannels, FPGA_TARGET, VcWrites, Host
  PROVE  WriteStep
<1>1. wr \in VcWrite BY DEF TypeInv, PortType
<1>2. CASE Executing
  <2>1. wr.state = "WR_EXEC" /\ Unexecuted /\ ~wr.bvalid
    BY <1>2 DEF Executing, ChannelsInv, Unexecuted
  <2>2. WriteGoesOn BY <2>1, Writing DEF Unexecuted
  <2>3. wr.aw_done /\ wr.w_done /\ wr.addr = m.addr /\ wr.data = m.data
    BY <2>1 DEF VcChannels
  <2>4. ~bus.awvalid /\ ~bus.wvalid BY <2>1, <2>3 DEF VcChannels
  <2>5. m' = m BY <2>2, <2>4 DEF WriteGoesOn, AwTaken, WTaken
  <2>6. wr'.state = "WR_RESP" /\ ~wr'.bvalid
    BY <1>1, <2>1 DEF VcWrites, VcWriteIdle, VcWriteExec, WriteResponse, VcWrite
  <2> QED BY <2>1, <2>3, <2>5, <2>6 DEF WriteStep, Executing, Carried, Unexecuted
<1>3. CASE Unexecuted /\ ~Executing
  <2>1. wr.state = "WR_IDLE" /\ ~wr.bvalid
    BY <1>1, <1>3 DEF Unexecuted, Executing, VcWrite, ChannelsInv
  <2>2. WriteGoesOn BY <1>3, <2>1, Writing DEF Unexecuted
  <2>3. wr'.state # "WR_RESP"
    BY <1>1, <2>1 DEF VcWrites, VcWriteIdle, VcWriteExec, WriteResponse, VcWrite
  <2> QED BY <1>3, <2>2, <2>3, GoesOn DEF WriteStep, Unexecuted
<1>4. CASE m.op = "write" /\ ~Unexecuted
  <2>1. wr.state = "WR_RESP" /\ ~bus.awvalid /\ ~bus.wvalid /\ bus.bready
    BY <1>4 DEF ChannelsInv, Unexecuted, TypeInv, MasterType
  <2>2. IF wr.bvalid THEN wr'.state = "WR_IDLE" ELSE wr'.state = "WR_RESP" /\ wr'.bvalid
    BY <1>1, <2>1 DEF VcWrites, VcWriteIdle, VcWriteExec, WriteResponse, VcWrite
  <2>3. CASE wr.bvalid
    BY <1>4, <2>1, <2>2, <2>3, Writing DEF Ends, WriteStep, Executing
  <2>4. CASE ~wr.bvalid
    <3>1. m' = m BY <1>4, <2>1, <2>4, Writing DEF WriteGoesOn, AwTaken, WTaken
    <3> QED BY <1>4, <2>1, <2>2, <2>4, <3>1 DEF WriteStep, Executing
  <2> QED BY <2>3, <2>4
<1>5. CASE m.op # "write"
  <2>1. wr.state = "WR_IDLE" /\ ~wr.aw_done /\ ~bus.awvalid
    BY <1>5 DEF ChannelsInv, VcChannels, Unexecuted
  <2>2. wr'.state = "WR_IDLE"
    BY <1>1, <2>1 DEF VcWrites, VcWriteIdle, VcWriteExec, WriteResponse, VcWrite,
       BothCaptured, AwTaken
  <2> QED BY <1>5, <2>1, <2>2 DEF WriteStep, Executing, Unexecuted
<1> QED BY <1>2, <1>3, <1>4, <1>5 DEF Unexecuted

LEMMA WritingStep ==
  ASSUME TypeInv, ChannelsInv, BuildInv, Port, Host, kind' = kind
  PROVE  WriteStep /\ ChannelsInv' /\ BuildInv'
<1>1. FPGA_TARGET' = FPGA_TARGET BY DEF FPGA_TARGET
<1>2. CASE FPGA_TARGET
  BY <1>1, <1>2, VcWriteStep, VcChannelsStep DEF Port, VitisControl, VcWrites, BuildInv
<1>3. CASE ~FPGA_TARGET
  BY <1>1, <1>3, HiWriteStep, HiChannelsStep DEF Port, HostInterface, HiWrites, BuildInv
<1> QED BY <1>2, <1>3

-----------------------------------------------------------------------------
(* What either build makes of a read.                                      *)

Heard == IF FPGA_TARGET THEN VcAnswer(Status) ELSE HiAnswer(Status)

ReadStep ==
  /\ m.op # "read" => rd'.state = "RD_IDLE" /\ ~rd'.rvalid /\ rd'.ctrl_fired = FALSE
  /\ m.op = "read" /\ rd.state = "RD_IDLE" =>
       /\ m' = m
       /\ \/ rd'.state = "RD_IDLE" /\ bus'.arvalid /\ bus'.araddr = m.addr
             /\ ~rd'.rvalid /\ rd'.ctrl_fired = FALSE
          \/ /\ rd'.state = "RD_DATA" /\ ~bus'.arvalid /\ ~rd'.rvalid
             /\ rd'.data = Heard /\ rd'.ctrl_fired = (Status = "CTRL")
  /\ rd.state = "RD_DATA" /\ ~rd.rvalid =>
       /\ m' = m /\ ~bus'.arvalid /\ rd'.state = "RD_DATA"
       /\ rd'.rvalid = TRUE /\ rd'.ctrl_fired = FALSE /\ rd'.data = rd.data
  /\ rd.state = "RD_DATA" /\ rd.rvalid =>
       /\ m' = NoOp /\ ~bus'.arvalid /\ rd'.state = "RD_IDLE"
       /\ rd'.rvalid = FALSE /\ rd'.ctrl_fired = FALSE

ReadDomain == DOMAIN rd = {"state", "arready", "rvalid", "data", "ctrl_fired"}

LEMMA Reading ==
  ASSUME TypeInv, ReadInv, ChannelsInv, Host, m.op = "read"
  PROVE  /\ ~rd.rvalid => ReadGoesOn
         /\ rd.rvalid => Ends
<1>1. ReadGoesOn \/ Ends
  BY MasterMoves DEF Quiet, Writes, Reads, WriteGoesOn
<1>2. bus.rready BY DEF TypeInv, MasterType
<1> QED BY <1>1, <1>2 DEF ReadGoesOn, Ends, WriteDone, ReadDone

LEMMA ReadStepHolds ==
  ASSUME TypeInv, ChannelsInv, ReadInv, Port, Host
  PROVE  ReadStep /\ ReadDomain'
<1>1. ReadData \/ ReadAddress(HiAnswer) \/ ReadAddress(VcAnswer)
  BY DEF Port, HostInterface, VitisControl
<1>2. CASE m.op # "read"
  <2>1. rd.state = "RD_IDLE" /\ ~bus.arvalid /\ ~rd.rvalid BY <1>2 DEF ReadInv
  <2>2. rd' = [rd EXCEPT !.arready = TRUE, !.ctrl_fired = FALSE]
    BY <1>1, <2>1 DEF ReadData, ReadAddress, ArTaken
  <2> QED BY <1>2, <2>1, <2>2 DEF ReadInv, ReadStep, ReadDomain
<1>3. CASE m.op = "read" /\ rd.state = "RD_IDLE"
  <2>1. ReadGoesOn /\ m' = m /\ bus.arvalid /\ bus.araddr = Status /\ ~rd.rvalid
    BY <1>3, Reading DEF ReadInv, ReadGoesOn
  <2>2. CASE ArTaken
    <3>1. rd' = [state |-> "RD_DATA", arready |-> FALSE, rvalid |-> FALSE,
                 data |-> Heard, ctrl_fired |-> Status = "CTRL"]
      <4>1. CASE FPGA_TARGET
        BY <1>3, <2>1, <2>2, <4>1
        DEF Port, VitisControl, ReadData, ReadAddress, Heard
      <4>2. CASE ~FPGA_TARGET
        BY <1>3, <2>1, <2>2, <4>2
        DEF Port, HostInterface, ReadData, ReadAddress, Heard
      <4> QED BY <4>1, <4>2
    <3>2. bus'.arvalid = FALSE BY <2>1, <2>2 DEF ReadGoesOn, TypeInv, MasterType
    <3> QED BY <1>3, <2>1, <3>1, <3>2 DEF ReadStep, ReadDomain
  <2>3. CASE ~ArTaken
    <3>1. rd' = [rd EXCEPT !.arready = TRUE, !.ctrl_fired = FALSE]
      BY <1>1, <1>3, <2>3 DEF ReadData, ReadAddress
    <3>2. bus'.arvalid /\ bus'.araddr = m.addr
      BY <2>1, <2>3 DEF ReadGoesOn, TypeInv, MasterType, After, ReadInv
    <3> QED BY <1>3, <2>1, <3>1, <3>2 DEF ReadStep, ReadDomain, ReadInv
  <2> QED BY <2>2, <2>3
<1>4. CASE rd.state = "RD_DATA"
  <2>1. m.op = "read" /\ ~bus.arvalid /\ bus.rready
    BY <1>4 DEF ReadInv, TypeInv, MasterType
  <2>2. ReadData BY <1>1, <1>4 DEF ReadAddress
  <2>3. CASE rd.rvalid
    <3>1. rd' = [rd EXCEPT !.rvalid = FALSE, !.state = "RD_IDLE", !.ctrl_fired = FALSE]
      BY <2>1, <2>2, <2>3 DEF ReadData
    <3>2. m' = NoOp /\ ~bus'.arvalid BY <2>1, <2>3, Reading DEF Ends
    <3> QED BY <1>4, <2>1, <2>3, <3>1, <3>2 DEF ReadInv, ReadStep, ReadDomain
  <2>4. CASE ~rd.rvalid
    <3>1. rd' = [rd EXCEPT !.rvalid = TRUE, !.ctrl_fired = FALSE]
      BY <2>1, <2>2, <2>4 DEF ReadData
    <3>2. m' = m /\ ~bus'.arvalid
      BY <2>1, <2>4, Reading DEF ReadGoesOn, TypeInv, MasterType
    <3> QED BY <1>4, <2>1, <2>4, <3>1, <3>2 DEF ReadInv, ReadStep, ReadDomain
  <2> QED BY <2>3, <2>4
<1> QED BY <1>2, <1>3, <1>4 DEF ReadInv

LEMMA ReadInvStep ==
  ASSUME TypeInv, ChannelsInv, ReadInv, Port, Host, kind' = kind
  PROVE  ReadInv'
<1>1. ReadStep /\ ReadDomain' BY ReadStepHolds
<1>2. Status' = Status BY DEF Status
<1>3. CASE m.op = "read"
  <2>1. rd'.state \in {"RD_IDLE", "RD_DATA"} /\ rd'.ctrl_fired \in BOOLEAN
    BY <1>1, <1>3 DEF ReadStep, ReadInv
  <2> QED BY <1>1, <1>2, <1>3, <2>1 DEF ReadStep, ReadInv, ReadDomain, NoOp
<1>4. CASE m.op # "read"
  <2> DEFINE Asks == /\ m'.op = "read" => bus'.arvalid /\ m'.addr = Status /\ kind # "irq"
                     /\ bus'.arvalid => m'.op = "read" /\ bus'.araddr = m'.addr
  <2>1. /\ rd'.state = "RD_IDLE" /\ ~rd'.rvalid /\ rd'.ctrl_fired = FALSE
        /\ ~bus.arvalid /\ ~rd.rvalid
    BY <1>1, <1>4 DEF ReadInv, ReadStep
  <2>2. Asks
    <3>1. CASE Quiet BY <1>4, <2>1, <3>1 DEF Quiet
    <3>2. ASSUME NEW addr \in Addresses, NEW data \in Words, Writes(addr, data)
          PROVE  Asks
      BY <2>1, <3>2 DEF Writes, WriteBegins, TypeInv, MasterType
    <3>3. CASE Reads
      BY <3>3 DEF Reads, ReadBegins, NoOp, TypeInv, MasterType
    <3>4. CASE WriteGoesOn
      BY <2>1, <3>4, GoesOn DEF WriteGoesOn, TypeInv, MasterType
    <3>5. CASE Ends BY <2>1, <3>5 DEF Ends, NoOp
    <3> QED BY <1>4, <3>1, <3>2, <3>3, <3>4, <3>5, MasterMoves DEF ReadGoesOn
  <2> QED BY <1>1, <1>2, <2>1, <2>2 DEF ReadInv, ReadDomain
<1> QED BY <1>3, <1>4

-----------------------------------------------------------------------------
(* The registers.                                                          *)

LEMMA RegistersStep ==
  ASSUME Port
  PROVE  regs' = [p \in Params |-> IF Executing /\ wr.addr = p THEN Carried ELSE regs[p]]
<1>1. CASE FPGA_TARGET
  BY <1>1 DEF Port, VitisControl, VcControl, Fires, Executing, Carried
<1>2. CASE ~FPGA_TARGET
  BY <1>2 DEF Port, HostInterface, HiControl, Executes, Executing, Carried
<1> QED BY <1>1, <1>2

\* What the host wants changes only as it starts to write it.
Keeps == host'.want = host.want
         /\ (m.op # "write" /\ m'.op = "write" => m'.addr \notin Params)
Changes == /\ m.op = "none" /\ m'.op = "write"
           /\ \E p \in Params, v \in Values :
                m'.addr = p /\ m'.data = v /\ host'.want = [host.want EXCEPT ![p] = v]

LEMMA WantStep ==
  ASSUME TypeInv, Host
  PROVE  Keeps \/ Changes
<1>1. ASSUME NEW pc \in {"gie", "ier", "config", "poll"}, Goto(pc)
      PROVE  host'.want = host.want
  BY <1>1 DEF Goto, TypeInv, HostType
<1>2. CASE HostWaits BY <1>2 DEF HostWaits, Keeps, TypeInv, HostType
<1>3. CASE EnableInterrupt
  BY <1>1, <1>3, PortAssumption DEF EnableInterrupt, WriteBegins, Keeps
<1>4. CASE EnableDone BY <1>1, <1>4, PortAssumption DEF EnableDone, WriteBegins, Keeps
<1>5. CASE WriteParameter
  <2>1. PICK p \in Params, v \in Values, gap \in Gaps :
          WriteBegins(p, v) /\ host' = [host EXCEPT !.want[p] = v, !.gap = gap]
    BY <1>5 DEF WriteParameter
  <2>2. host'.want = [host.want EXCEPT ![p] = v] BY <2>1 DEF TypeInv, HostType
  <2>3. m'.op = "write" /\ m'.addr = p /\ m'.data = v BY <2>1 DEF WriteBegins
  <2> QED BY <1>5, <2>2, <2>3 DEF WriteParameter, HostMay, Changes
<1>6. CASE WriteStart BY <1>1, <1>6, PortAssumption DEF WriteStart, WriteBegins, Keeps
<1>7. CASE Poll BY <1>7 DEF Poll, ReadBegins, NoOp, Keeps
<1>8. CASE AwaitInterrupt
  <2>1. CASE interrupt
    <3>1. WriteBegins("ISR", 1) /\ Goto("config") BY <1>8, <2>1 DEF AwaitInterrupt
    <3> QED BY <1>1, <3>1, PortAssumption DEF WriteBegins, Keeps
  <2>2. CASE ~interrupt
    BY <1>8, <2>2 DEF AwaitInterrupt, HostMay, Keeps
  <2> QED BY <2>1, <2>2
<1>9. CASE Answered BY <1>1, <1>9 DEF Answered, Ends, NoOp, Keeps
<1>10. CASE Written BY <1>10 DEF Written, Ends, NoOp, Keeps
<1>11. CASE Pending
  BY <1>11 DEF Pending, WriteGoesOn, ReadGoesOn, Keeps
<1> QED
  BY <1>2, <1>3, <1>4, <1>5, <1>6, <1>7, <1>8, <1>9, <1>10, <1>11 DEF Host

LEMMA RegInvStep ==
  ASSUME TypeInv, ChannelsInv, RegInv, Port, Host, WriteStep
  PROVE  RegInv'
<1>1. regs' = [p \in Params |-> IF Executing /\ wr.addr = p THEN Carried ELSE regs[p]]
  BY RegistersStep
<1>2. Keeps \/ Changes BY WantStep
<1>3. CASE Executing
  <2>1. ~Unexecuted' /\ Unexecuted /\ wr.addr = m.addr /\ Carried = m.data
    BY <1>3 DEF WriteStep, Unexecuted
  <2>2. host'.want = host.want BY <1>2, <2>1 DEF Keeps, Changes, Unexecuted
  <2> QED BY <1>1, <1>3, <2>1, <2>2 DEF RegInv
<1>4. CASE ~Executing /\ Unexecuted
  <2>1. Unexecuted' /\ m'.addr = m.addr /\ m'.data = m.data
    BY <1>4 DEF WriteStep, Unexecuted
  <2>2. host'.want = host.want BY <1>2, <1>4 DEF Keeps, Changes, Unexecuted
  <2>3. \A p \in Params : regs'[p] = regs[p] BY <1>1, <1>4
  <2> QED BY <1>4, <2>1, <2>2, <2>3 DEF RegInv
<1>5. CASE ~Executing /\ ~Unexecuted
  <2>1. \A p \in Params : regs'[p] = host.want[p] BY <1>1, <1>5 DEF RegInv
  <2>2. CASE Changes
    <3>1. PICK p \in Params, v \in Values :
            m'.addr = p /\ m'.data = v /\ host'.want = [host.want EXCEPT ![p] = v]
      BY <2>2 DEF Changes
    <3>2. Unexecuted' BY <2>2 DEF Changes, WriteStep, Unexecuted
    <3> QED BY <2>1, <3>1, <3>2 DEF RegInv, TypeInv, HostType
  <2>3. CASE Keeps
    <3>1. m.op = "write" => ~Unexecuted'
      BY <1>5 DEF WriteStep, Unexecuted, NoOp
    <3> QED BY <2>1, <2>3, <3>1 DEF RegInv, Keeps, Unexecuted
  <2> QED BY <1>2, <2>2, <2>3
<1> QED BY <1>3, <1>4, <1>5

LEMMA PortTypes ==
  ASSUME TypeInv, ChannelsInv, RegInv, Port, Host, WriteStep, kind' = kind
  PROVE  PortType'
<1>1. FPGA_TARGET' = FPGA_TARGET BY DEF FPGA_TARGET
<1>2. wr' \in IF FPGA_TARGET THEN VcWrite ELSE Write
  BY VcWriteTypes, HiWriteTypes DEF Port, VitisControl, HostInterface, VcWrites, HiWrites
<1>3. regs' \in [Params -> Values]
  <2>1. ASSUME NEW p \in Params, Executing, wr.addr = p PROVE Carried \in Values
    <3>1. Unexecuted /\ m.addr = p /\ Carried = m.data
      BY <2>1 DEF WriteStep
    <3>2. host.want[p] \in Values BY DEF TypeInv, HostType
    <3> QED BY <3>1, <3>2 DEF RegInv
  <2>2. regs \in [Params -> Values] BY DEF TypeInv, PortType
  <2> QED BY <2>1, <2>2, RegistersStep
<1>4. start' \in BOOLEAN
  BY DEF Port, VitisControl, VcControl, HostInterface, HiControl, Starting
<1> QED BY <1>1, <1>2, <1>3, <1>4 DEF PortType

-----------------------------------------------------------------------------
(* The controller, the control registers and the host's polling.           *)

FsmStep ==
  /\ fsm.state = "S_IDLE" /\ ~start => Idle'
  /\ fsm.state = "S_IDLE" /\ start => fsm'.state = "run" /\ fsm'.job = regs /\ ~fsm'.done
  /\ fsm.state = "run" /\ ~fsm.done =>
       \/ fsm'.state = "run" /\ fsm'.job = fsm.job /\ ~fsm'.done
       \/ fsm'.state = "S_IDLE" /\ fsm'.done /\ ~fsm'.busy

LEMMA FsmStepHolds == TypeInv /\ (FsmIdle \/ FsmRun) => FsmStep
<1> SUFFICES ASSUME TypeInv, FsmIdle \/ FsmRun PROVE FsmStep
  OBVIOUS
<1>1. CASE FsmIdle
  <2>1. CASE start BY <1>1, <2>1 DEF FsmIdle, FsmStep
  <2>2. CASE ~start BY <1>1, <2>2 DEF FsmIdle, FsmStep, Idle, TypeInv, FsmType
  <2> QED BY <2>1, <2>2
<1>2. CASE FsmRun BY <1>2 DEF FsmRun, FsmStep, TypeInv, FsmType
<1> QED BY <1>1, <1>2

\* A start is executed.
Starts == Executing /\ wr.addr = "CTRL"

ControlStep ==
  /\ ControlDomain'
  /\ FPGA_TARGET => ~ctl'.auto_restart
  /\ ~Asked => ~start' /\ (Asked' <=> Starts)
  /\ Asked /\ ~Starts /\ ~fsm.busy /\ (FPGA_TARGET => ctl.ap_idle) => start' /\ ~Asked'
  /\ FPGA_TARGET =>
       /\ ctl'.ap_idle <=> (fsm.done /\ ~ctl.done_r) \/ (ctl.ap_idle /\ ~ctl.ap_start)
       /\ ctl'.done_r <=> fsm.done
  /\ ~fsm.done /\ ~Over => ~Over'
  /\ ~fsm.done /\ Asked /\ kind \in {"sticky", "idle"} => ~Over'
  /\ ~fsm.done /\ Executing /\ wr.addr = "ISR" /\ Carried = 1 /\ kind = "irq" => ~Over'
  /\ kind = "done" /\ rd.ctrl_fired => ~Over'

LEMMA Bits == Bit0(1) /\ ~Bit7(1)
BY DEF Bit0, Bit7

LEMMA ControlStepHolds ==
  ASSUME Port, kind \in {"sticky", "idle", "done", "irq"}, kind' = kind, ControlDomain,
         FPGA_TARGET => ~ctl.auto_restart, Starts => Carried = 1
  PROVE  ControlStep
<1>1. FPGA_TARGET' = FPGA_TARGET BY DEF FPGA_TARGET
<1>2. CASE FPGA_TARGET
  <2>1. VcControl BY <1>2 DEF Port, VitisControl
  <2>2. /\ start' = Starting
        /\ DOMAIN ctl' = {"ap_start", "ap_done", "ap_idle", "auto_restart",
                          "gie", "ier", "isr", "done_r"}
        /\ ctl'.auto_restart <=> ctl.auto_restart \/ (Fires("CTRL") /\ Bit7(wr.data))
        /\ ctl'.ap_start <=> \/ done_pulse /\ ctl.auto_restart
                             \/ ~Starting /\ (ctl.ap_start \/ (Fires("CTRL") /\ Bit0(wr.data)))
        /\ ctl'.ap_idle <=> (done_pulse \/ (ctl.ap_idle /\ ~Starting))
        /\ ctl'.ap_done <=> ~rd.ctrl_fired /\ (done_pulse \/ ctl.ap_done)
        /\ ctl'.isr <=> done_pulse \/ (ctl.isr /\ ~(Fires("ISR") /\ Bit0(wr.data)))
        /\ ctl'.done_r = fsm.done
    BY <2>1 DEF VcControl, NextIdle, NextDone
  <2>3. /\ Fires("CTRL") <=> Starts
        /\ Starts => wr.data = 1
        /\ Fires("ISR") <=> Executing /\ wr.addr = "ISR"
        /\ Carried = wr.data
        /\ Asked <=> ctl.ap_start
        /\ Asked' <=> ctl'.ap_start
    BY <1>1, <1>2 DEF Fires, Starts, Executing, Carried, Asked
  <2>4. /\ start' <=> ctl.ap_start /\ ctl.ap_idle
        /\ Starting <=> ctl.ap_start /\ ctl.ap_idle
        /\ done_pulse <=> fsm.done /\ ~ctl.done_r
    BY <2>2 DEF Starting, done_pulse
  <2>5. /\ ControlDomain'
        /\ ~ctl'.auto_restart
        /\ ctl'.ap_start <=> /\ ~(ctl.ap_start /\ ctl.ap_idle)
                             /\ ctl.ap_start \/ Starts
    BY <1>1, <1>2, <2>2, <2>3, <2>4, Bits DEF ControlDomain
  <2>6. CASE kind = "idle"
    <3>1. (Over <=> ctl.ap_idle) /\ (Over' <=> ctl'.ap_idle)
      BY <2>6 DEF Over
    <3> QED BY <1>2, <2>2, <2>3, <2>4, <2>5, <2>6, <3>1 DEF ControlStep
  <2>7. CASE kind = "done"
    <3>1. (Over <=> ctl.ap_done) /\ (Over' <=> ctl'.ap_done)
      BY <2>7 DEF Over
    <3> QED BY <1>2, <2>2, <2>3, <2>4, <2>5, <2>7, <3>1 DEF ControlStep
  <2>8. CASE kind = "irq"
    <3>1. (Over <=> ctl.isr) /\ (Over' <=> ctl'.isr)
      BY <2>8 DEF Over
    <3> QED BY <1>2, <2>2, <2>3, <2>4, <2>5, <2>8, <3>1, Bits DEF ControlStep
  <2> QED BY <1>2, <2>6, <2>7, <2>8 DEF FPGA_TARGET
<1>3. CASE ~FPGA_TARGET
  <2>1. HiControl /\ kind = "sticky" BY <1>3 DEF Port, HostInterface, FPGA_TARGET
  <2>2. /\ start' <=> ctl.start_pulse /\ ~fsm.busy
        /\ DOMAIN ctl' = {"start_pulse", "done_sticky"}
        /\ ctl'.start_pulse <=> Starts /\ Bit0(Carried)
        /\ ctl'.done_sticky <=> fsm.done \/ (ctl.done_sticky /\ ~ctl.start_pulse)
    BY <1>3, <2>1 DEF HiControl, Sticky, Executes, Starts, Executing, Carried
  <2>3. /\ Asked <=> ctl.start_pulse
        /\ Asked' <=> ctl'.start_pulse
        /\ Over <=> ctl.done_sticky
        /\ Over' <=> ctl'.done_sticky
    BY <1>1, <1>3, <2>1 DEF Asked, Over
  <2>4. ctl'.start_pulse <=> Starts BY <2>2, Bits
  <2>5. ControlDomain' BY <1>1, <1>3, <2>2 DEF ControlDomain
  <2> QED BY <1>3, <2>1, <2>2, <2>3, <2>4, <2>5 DEF ControlStep
<1> QED BY <1>2, <1>3

-----------------------------------------------------------------------------
(* The job.                                                                *)

\* What a host that polls does.
PollStep ==
  /\ m.op = "write" => host'.pc = "poll"
  /\ m.op = "read" /\ rd.rvalid =>
       \/ Polled \in rd.data /\ host'.pc = "config"
       \/ Polled \notin rd.data /\ host'.pc = "poll"
  /\ m.op = "read" /\ ~rd.rvalid => host'.pc = "poll"
  /\ m.op = "none" =>
       \/ host'.pc = "poll" /\ m'.op # "write"
       \/ /\ host'.pc = "config" /\ kind = "irq" /\ interrupt
          /\ m'.op = "write" /\ m'.addr = "ISR" /\ m'.data = 1

LEMMA PollStepHolds ==
  ASSUME TypeInv, ChannelsInv, ReadInv, Host, host.pc = "poll"
  PROVE  PollStep
<1>1. ASSUME NEW pc \in {"gie", "ier", "config", "poll"}, Goto(pc)
      PROVE  host'.pc = pc
  BY <1>1 DEF Goto, TypeInv, HostType
<1>2. CASE HostWaits BY <1>2 DEF HostWaits, PollStep, TypeInv, HostType
<1>3. CASE EnableInterrupt \/ EnableDone \/ WriteParameter \/ WriteStart
  BY <1>3 DEF EnableInterrupt, EnableDone, WriteParameter, WriteStart, HostMay
<1>4. CASE Poll BY <1>4 DEF Poll, HostMay, ReadBegins, NoOp, PollStep
<1>5. CASE AwaitInterrupt
  <2>1. CASE interrupt
    <3>1. WriteBegins("ISR", 1) /\ Goto("config") BY <1>5, <2>1 DEF AwaitInterrupt
    <3>2. m'.op = "write" /\ m'.addr = "ISR" /\ m'.data = 1 BY <3>1 DEF WriteBegins
    <3> QED BY <1>1, <1>5, <2>1, <3>1, <3>2 DEF AwaitInterrupt, HostMay, PollStep
  <2>2. CASE ~interrupt
    BY <1>5, <2>2 DEF AwaitInterrupt, HostMay, PollStep
  <2> QED BY <2>1, <2>2
<1>6. CASE Answered
  <2>1. m.op = "read" /\ rd.rvalid BY <1>6 DEF Answered, Ends, WriteDone, ReadDone
  <2> QED BY <1>1, <1>6, <2>1 DEF Answered, PollStep
<1>7. CASE Written BY <1>7 DEF Written, PollStep
<1>8. CASE Pending
  BY <1>8, Reading DEF Pending, PollStep, WriteGoesOn, ReadGoesOn, ReadDone, TypeInv,
     MasterType
<1> QED BY <1>2, <1>3, <1>4, <1>5, <1>6, <1>7, <1>8 DEF Host

\* What a host that does not poll does.
ConfigStep ==
  /\ m.op = "write" => host'.pc # "poll"
  /\ m.op = "none" =>
       \/ host'.pc # "poll" /\ m'.op # "read" /\ (m'.op = "write" => m'.addr # "CTRL")
       \/ host'.pc = "poll" /\ m'.op = "write" /\ m'.addr = "CTRL" /\ m'.data = 1

LEMMA ConfigStepHolds ==
  ASSUME TypeInv, Host, host.pc # "poll"
  PROVE  ConfigStep
<1>1. ASSUME NEW pc \in {"gie", "ier", "config", "poll"}, Goto(pc)
      PROVE  host'.pc = pc
  BY <1>1 DEF Goto, TypeInv, HostType
<1>2. CASE HostWaits BY <1>2 DEF HostWaits, ConfigStep, TypeInv, HostType
<1>3. CASE EnableInterrupt
  BY <1>1, <1>3 DEF EnableInterrupt, HostMay, WriteBegins, ConfigStep
<1>4. CASE EnableDone
  BY <1>1, <1>4 DEF EnableDone, HostMay, WriteBegins, ConfigStep
<1>5. CASE WriteParameter
  <2>1. PICK p \in Params, v \in Values, gap \in Gaps :
          WriteBegins(p, v) /\ host' = [host EXCEPT !.want[p] = v, !.gap = gap]
    BY <1>5 DEF WriteParameter
  <2>2. host'.pc = host.pc BY <2>1 DEF TypeInv, HostType
  <2>3. m'.op = "write" /\ m'.addr # "CTRL" BY <2>1, PortAssumption DEF WriteBegins
  <2> QED BY <1>5, <2>2, <2>3 DEF WriteParameter, HostMay, ConfigStep
<1>6. CASE WriteStart BY <1>1, <1>6 DEF WriteStart, HostMay, WriteBegins, ConfigStep
<1>7. CASE Poll \/ AwaitInterrupt BY <1>7 DEF Poll, AwaitInterrupt, HostMay
<1>8. CASE Answered BY <1>8 DEF Answered, ConfigStep
<1>9. CASE Written BY <1>9 DEF Written, ConfigStep
<1>10. CASE Pending
  BY <1>10 DEF Pending, ConfigStep, WriteGoesOn, ReadGoesOn
<1> QED
  BY <1>2, <1>3, <1>4, <1>5, <1>6, <1>7, <1>8, <1>9, <1>10 DEF Host

LEMMA HeardIsTrue ==
  ASSUME kind \in {"sticky", "idle", "done"}, Polled \in Heard
  PROVE  Over
<1>1. CASE kind = "sticky"
  <2>1. "done_sticky" \in HiAnswer("STATUS")
    BY <1>1 DEF Polled, Heard, Status, FPGA_TARGET
  <2>2. HiAnswer("STATUS") = {b \in {"done_sticky", "done", "busy"} :
                                \/ b = "done_sticky" /\ ctl.done_sticky
                                \/ b = "done" /\ fsm.done
                                \/ b = "busy" /\ fsm.busy}
    BY PortAssumption DEF HiAnswer
  <2> QED BY <1>1, <2>1, <2>2 DEF Over
<1>2. CASE kind \in {"idle", "done"}
  <2>1. Polled \in VcAnswer("CTRL") /\ Polled = (IF kind = "idle" THEN "ap_idle" ELSE "ap_done")
    BY <1>2 DEF Polled, Heard, Status, FPGA_TARGET
  <2>2. VcAnswer("CTRL") = {b \in {"ap_start", "ap_done", "ap_idle", "auto_restart",
                                   "gie", "ier", "isr"} :
            /\ ctl[b]
            /\ "CTRL" = CASE b = "gie" -> "GIE" [] b = "ier" -> "IER" [] b = "isr" -> "ISR"
                          [] OTHER -> "CTRL"}
    BY PortAssumption DEF VcAnswer
  <2>3. ctl[Polled] BY <2>1, <2>2
  <2> QED BY <1>2, <2>1, <2>3 DEF Over
<1> QED BY <1>1, <1>2

\* All that one clock edge does.
Edge == /\ WriteStep /\ ReadStep /\ FsmStep /\ ControlStep
        /\ FPGA_TARGET' = FPGA_TARGET /\ kind' = kind /\ Polled' = Polled
        /\ ~Executing => regs' = regs

LEMMA AtRest ==
  ASSUME Resting, FsmStep, ControlStep, FPGA_TARGET' = FPGA_TARGET
  PROVE  /\ ~Starts => Resting'
         /\ Starts => Idle' /\ ~start' /\ Asked' /\ (FPGA_TARGET => ctl'.ap_idle)
         /\ ~Over => ~Over'
<1>1. ~Asked /\ ~fsm.done /\ ~start /\ fsm.state = "S_IDLE" BY DEF Resting, Idle
<1>2. Idle' /\ ~start' /\ (Asked' <=> Starts) /\ (~Over => ~Over')
  BY <1>1 DEF FsmStep, ControlStep
<1>3. FPGA_TARGET => ctl'.ap_idle
  BY <1>1 DEF ControlStep, Resting, Asked
<1> QED BY <1>2, <1>3 DEF Resting

LEMMA ConfigJob ==
  ASSUME Edge, ConfigStep, Configuring, host.pc # "poll", TypeInv
  PROVE  IF host'.pc = "poll" THEN Polling' ELSE Configuring'
<1>1. Resting /\ m.op # "read" /\ ~Starts
  BY DEF Configuring, Edge, WriteStep, Starts, Unexecuted
<1>2. Resting' /\ (~Over => ~Over') BY <1>1, AtRest DEF Edge
<1>3. CASE m.op = "write"
  <2>1. m'.op = "none" \/ (m'.op = "write" /\ m'.addr = m.addr /\ m'.data = m.data)
    BY <1>3 DEF Edge, WriteStep, NoOp
  <2>2. kind = "irq" /\ Over' => Unexecuted' /\ m'.addr = "ISR" /\ m'.data = 1
    <3>1. SUFFICES ASSUME kind = "irq", Over' PROVE Unexecuted' /\ m'.addr = "ISR" /\ m'.data = 1
      OBVIOUS
    <3>2. Unexecuted /\ m.addr = "ISR" /\ m.data = 1 BY <1>2, <3>1 DEF Configuring
    <3>3. ~Executing
      BY <3>1, <3>2, <1>1 DEF Edge, WriteStep, ControlStep, Resting, Idle
    <3> QED BY <3>2, <3>3 DEF Edge, WriteStep, Unexecuted
  <2>3. kind' = "done" => ~Over' BY <1>2 DEF Configuring, Edge
  <2>4. kind' = "irq" => kind = "irq" BY DEF Edge
  <2>5. host'.pc # "poll" BY <1>3 DEF ConfigStep
  <2>6. m'.op # "read" /\ (m'.op = "write" => m'.addr # "CTRL")
    BY <1>1, <1>3, <2>1 DEF Configuring
  <2> QED BY <1>2, <2>2, <2>3, <2>4, <2>5, <2>6 DEF Configuring
<1>4. CASE m.op = "none"
  <2>1. ~Over' \/ kind \notin {"done", "irq"} BY <1>2, <1>4 DEF Configuring, Unexecuted
  <2>2. wr'.state = "WR_IDLE" /\ rd'.state = "RD_IDLE"
    BY <1>4 DEF Edge, WriteStep, ReadStep
  <2>3. CASE host'.pc # "poll"
    <3>1. m'.op # "read" /\ (m'.op = "write" => m'.addr # "CTRL")
      BY <1>4, <2>3 DEF ConfigStep
    <3> QED BY <1>2, <2>1, <2>3, <3>1 DEF Configuring, Edge
  <2>4. CASE host'.pc = "poll"
    <3>1. m'.op = "write" /\ m'.addr = "CTRL" /\ m'.data = 1
      BY <1>4, <2>4 DEF ConfigStep
    <3>2. Unasked'
      BY <1>2, <2>1, <2>2, <3>1 DEF Unasked, Unexecuted, Edge
    <3>3. ~Answer' BY <3>1 DEF Answer
    <3> QED BY <2>4, <3>1, <3>2, <3>3 DEF Polling
  <2> QED BY <2>3, <2>4
<1> QED BY <1>1, <1>3, <1>4 DEF TypeInv, MasterType

Kinds == kind \in {"sticky", "idle", "done", "irq"}

\* The write of a start, until its response.
LEMMA StartIsWritten ==
  ASSUME Edge, Polling, Unasked, Kinds
  PROVE  Unasked' \/ Asking'
<1>1. Resting /\ Unexecuted /\ m.op = "write" /\ m.addr = "CTRL"
  BY DEF Unasked, Polling, Unexecuted
<1>2. kind' \in {"done", "irq"} => ~Over' BY <1>1, AtRest DEF Edge, Unasked
<1>3. CASE Executing
  <2>1. Starts /\ m' = m /\ wr'.state = "WR_RESP" /\ ~wr'.bvalid
    BY <1>1, <1>3 DEF Edge, WriteStep, Starts
  <2>2. Idle' /\ ~start' /\ Asked' /\ (FPGA_TARGET => ctl'.ap_idle)
    BY <1>1, <2>1, AtRest DEF Edge
  <2> QED BY <1>1, <1>2, <2>1, <2>2 DEF Asking, Edge
<1>4. CASE ~Executing
  <2>1. Resting' BY <1>1, <1>4, AtRest DEF Edge, Starts
  <2> QED BY <1>1, <1>2, <1>4, <2>1 DEF Unasked, Edge, WriteStep, Unexecuted
<1> QED BY <1>3, <1>4

LEMMA StartIsAsked ==
  ASSUME Edge, Asking, Kinds
  PROVE  Given'
<1>1. ~Executing /\ ~Starts BY DEF Asking, Executing, Starts
<1>2. m' = m /\ wr'.state = "WR_RESP" /\ wr'.bvalid
  BY DEF Asking, Edge, WriteStep, Unexecuted
<1>3. Idle' /\ ~fsm.done /\ ~fsm.busy BY DEF Asking, Idle, Edge, FsmStep
<1>4. start' /\ ~Asked' BY <1>1, <1>3 DEF Asking, Edge, ControlStep
<1>5. ~Over' BY <1>3 DEF Asking, Edge, ControlStep, Kinds
<1>6. FPGA_TARGET => ~ctl'.ap_idle BY <1>3 DEF Asking, Asked, Edge, ControlStep
<1> QED BY <1>2, <1>3, <1>4, <1>5, <1>6 DEF Given, Asking, Edge

LEMMA StartIsGiven ==
  ASSUME Edge, Given
  PROVE  Running'
<1>1. ~Executing /\ ~Starts BY DEF Given, Executing, Starts
<1>2. m'.op = "none" BY DEF Given, Edge, WriteStep, Unexecuted, NoOp
<1>3. fsm'.state = "run" /\ fsm'.job = regs' /\ ~fsm'.done
  BY <1>1 DEF Given, Idle, Edge, FsmStep
<1>4. ~start' /\ ~Asked' /\ ~Over' /\ (FPGA_TARGET => ~ctl'.ap_idle)
  BY <1>1 DEF Given, Idle, Edge, ControlStep
<1> QED BY <1>2, <1>3, <1>4 DEF Running, Edge

\* A job that has not ended is not taken for over, and nothing is written meanwhile.
LEMMA StillPolls ==
  ASSUME Edge, PollStep, Polling, ReadInv, TypeInv, Running \/ Ending
  PROVE  host'.pc = "poll" /\ m'.op # "write" /\ ~Executing
<1>1. ~Over /\ m.op # "write" /\ ~Ended BY DEF Running, Ending, Ended, Resting, Idle
<1>2. ~(kind = "irq" /\ interrupt) BY <1>1 DEF Over, interrupt
<1>3. ~Answer BY <1>1 DEF Polling
<1>4. ~Executing BY <1>1 DEF Edge, WriteStep
<1>5. CASE m.op = "none" BY <1>2, <1>4, <1>5 DEF PollStep
<1>6. CASE m.op = "read"
  <2>1. host'.pc = "poll" BY <1>3, <1>6 DEF PollStep, Answer, ReadInv
  <2>2. m'.op # "write" BY <1>6 DEF Edge, ReadStep, ReadInv, NoOp
  <2> QED BY <1>4, <2>1, <2>2
<1> QED BY <1>1, <1>5, <1>6 DEF TypeInv, MasterType

LEMMA JobRuns ==
  ASSUME Edge, PollStep, Polling, ReadInv, TypeInv, Running
  PROVE  Running' \/ Ending'
<1>1. m'.op # "write" /\ ~Executing /\ ~Starts BY StillPolls DEF Starts
<1>2. ~start' /\ ~Asked' /\ ~Over' /\ (FPGA_TARGET => ~ctl'.ap_idle /\ ~ctl'.done_r)
  BY <1>1 DEF Running, Edge, ControlStep
<1>3. regs' = regs BY <1>1 DEF Edge
<1> QED BY <1>1, <1>2, <1>3 DEF Running, Ending, Edge, FsmStep

LEMMA JobEnds ==
  ASSUME Edge, PollStep, Polling, ReadInv, TypeInv, Ending
  PROVE  Ended'
<1>1. m'.op # "write" /\ ~Executing /\ ~Starts BY StillPolls DEF Starts
<1>2. Idle' BY DEF Ending, Edge, FsmStep
<1>3. ~start' /\ ~Asked' /\ (FPGA_TARGET => ctl'.ap_idle)
  BY <1>1 DEF Ending, Edge, ControlStep
<1> QED BY <1>1, <1>2, <1>3 DEF Ended, Resting, Edge

LEMMA JobIsOver ==
  ASSUME Edge, PollStep, Polling, ReadInv, ChannelsInv, TypeInv, Ended
  PROVE  /\ Resting'
         /\ host'.pc = "poll" => Ended'
         /\ host'.pc # "poll" => Configuring'
<1>1. ~Executing /\ ~Starts BY DEF Ended, Edge, WriteStep, Starts
<1>2. Resting' /\ (~Over => ~Over') BY <1>1, AtRest DEF Edge, Ended
<1>3. CASE m.op = "none"
  <2>1. CASE host'.pc = "poll"
    BY <1>2, <1>3, <2>1 DEF PollStep, Ended
  <2>2. CASE host'.pc # "poll"
    <3>1. kind = "irq" /\ m'.op = "write" /\ m'.addr = "ISR" /\ m'.data = 1
      BY <1>3, <2>2 DEF PollStep
    <3>2. wr'.state = "WR_IDLE" BY <1>3 DEF Edge, WriteStep
    <3> QED BY <1>2, <2>2, <3>1, <3>2 DEF Configuring, Unexecuted, Edge
  <2> QED BY <2>1, <2>2
<1>4. CASE m.op = "read"
  <2>1. m'.op # "write" BY <1>4 DEF Edge, ReadStep, ReadInv, NoOp
  <2>2. CASE host'.pc = "poll" BY <1>2, <2>1, <2>2 DEF Ended
  <2>3. CASE host'.pc # "poll"
    <3>1. rd.rvalid /\ Polled \in rd.data /\ rd.state = "RD_DATA" /\ ~rd.ctrl_fired
          /\ kind # "irq"
      BY <1>4, <2>3 DEF PollStep, ReadInv
    <3>2. m'.op = "none" BY <3>1 DEF Edge, ReadStep, NoOp
    <3>3. kind = "done" => ~Over BY <1>4, <3>1 DEF Polling, Answer
    <3> QED BY <1>2, <2>3, <3>1, <3>2, <3>3 DEF Configuring, Edge
  <2> QED BY <2>2, <2>3
<1> QED BY <1>3, <1>4 DEF TypeInv, MasterType, Ended

LEMMA PollJob ==
  ASSUME Edge, PollStep, Polling, ReadInv, ChannelsInv, TypeInv, Kinds
  PROVE  IF host'.pc = "poll" THEN Polling' ELSE Configuring'
<1>1. CASE host'.pc # "poll"
  <2>1. m.op # "write" BY <1>1 DEF PollStep
  <2>2. Ended
    BY <1>1, <2>1, StillPolls DEF Polling, Unasked, Unexecuted, Asking, Given
  <2> QED BY <1>1, <2>2, JobIsOver
<1>2. CASE host'.pc = "poll"
  <2>1. (Unasked \/ Asking \/ Given \/ Running \/ Ending \/ Ended)'
    BY <1>2, StartIsWritten, StartIsAsked, StartIsGiven, JobRuns, JobEnds, JobIsOver
    DEF Polling
  <2>2. m'.op = "write" => m'.addr = "CTRL" /\ m'.data = 1
    <3>1. CASE m.op = "write" BY <3>1 DEF Edge, WriteStep, Polling, NoOp
    <3>2. CASE m.op = "none" BY <1>2, <3>2 DEF PollStep
    <3>3. CASE m.op = "read" BY <3>3 DEF Edge, ReadStep, ReadInv, NoOp
    <3> QED BY <3>1, <3>2, <3>3 DEF TypeInv, MasterType
  <2>3. Answer' => Ended' /\ (kind' = "done" => rd'.ctrl_fired \/ ~Over')
    <3>1. SUFFICES ASSUME Answer'
                   PROVE  Ended' /\ (kind' = "done" => rd'.ctrl_fired \/ ~Over')
      OBVIOUS
    <3>2. m.op = "read" BY <3>1 DEF Answer, Edge, ReadStep
    <3>3. CASE rd.state = "RD_IDLE"
      <4>1. Polled \in Heard /\ kind # "irq" /\ (rd'.ctrl_fired = (Status = "CTRL"))
        BY <3>1, <3>2, <3>3 DEF Answer, Edge, ReadStep, ReadInv
      <4>2. Over BY <4>1, HeardIsTrue DEF Kinds
      <4>3. Ended
        BY <3>2, <4>2 DEF Polling, Unasked, Unexecuted, Asking, Given, Running, Ending
      <4> QED BY <1>2, <4>1, <4>3, JobIsOver DEF Status, Edge
    <3>4. CASE rd.state = "RD_DATA"
      <4>1. ~rd.rvalid /\ rd'.data = rd.data
        BY <3>1, <3>4 DEF Answer, Edge, ReadStep
      <4>2. Answer BY <3>1, <3>2, <3>4, <4>1 DEF Answer, Edge
      <4>3. Ended BY <4>2 DEF Polling
      <4>4. kind = "done" => ~Over'
        BY <4>2, <4>3 DEF Polling, Edge, ControlStep, Ended, Resting, Idle
      <4> QED BY <1>2, <4>3, <4>4, JobIsOver DEF Edge
    <3> QED BY <3>3, <3>4 DEF ReadInv
  <2> QED BY <1>2, <2>1, <2>2, <2>3 DEF Polling
<1> QED BY <1>1, <1>2

-----------------------------------------------------------------------------
(* The invariant is inductive.                                             *)

LEMMA InitIInv == Init => IInv
<1> SUFFICES ASSUME Init PROVE IInv
  OBVIOUS
<1>1. TypeInv
  <2>1. MasterType
    BY DEF Init, MasterType, NoOp, Addresses, Words, Wires, DataWires
  <2>2. regs \in [Params -> Values] BY DEF Init
  <2>3. HostType /\ FsmType BY <2>2 DEF Init, HostType, FsmType
  <2>4. PortType
    <3>1. CASE FPGA_TARGET
      <4>1. wr = [state |-> "WR_IDLE", addr |-> "CTRL", data |-> 0, aw_done |-> FALSE,
                  w_done |-> FALSE, awready |-> FALSE, wready |-> FALSE, bvalid |-> FALSE]
            /\ start = FALSE
        BY <3>1 DEF Init, VcInit
      <4>2. "CTRL" \in Wires /\ 0 \in DataWires BY DEF Wires, DataWires, Addresses, Words
      <4> QED BY <2>2, <3>1, <4>1, <4>2 DEF PortType, VcWrite
    <3>2. CASE ~FPGA_TARGET
      <4>1. PICK a \in Addresses :
              wr = [state |-> "WR_IDLE", addr |-> a, awready |-> FALSE, wready |-> FALSE,
                    bvalid |-> FALSE]
        BY <3>2 DEF Init, HiInit
      <4>2. a \in Wires /\ start = FALSE BY <3>2 DEF Init, HiInit, Wires
      <4> QED BY <2>2, <3>2, <4>1, <4>2 DEF PortType, Write
    <3> QED BY <3>1, <3>2
  <2> QED BY <2>1, <2>3, <2>4 DEF TypeInv, Init
<1>2. ReadInv
  <2>1. ReadInit BY DEF Init, VcInit, HiInit
  <2>2. m.op = "none" /\ ~bus.arvalid BY DEF Init, NoOp
  <2> QED BY <2>1, <2>2 DEF ReadInit, ReadInv
<1>3. wr.state = "WR_IDLE" /\ ~wr.bvalid BY DEF Init, VcInit, HiInit
<1>4. ChannelsInv BY <1>3 DEF Init, ChannelsInv, Unexecuted, NoOp
<1>5. BuildInv
  BY <1>3 DEF Init, VcInit, HiInit, BuildInv, VcChannels, HiChannels, Unexecuted, NoOp
<1>6. RegInv BY DEF Init, RegInv, Unexecuted, NoOp
<1>7. JobInv
  <2>1. host.pc # "poll" /\ m.op = "none" /\ kind \in {"sticky", "idle", "done", "irq"}
    <3>1. host.pc = (IF kind = "irq" THEN "gie" ELSE "config") /\ m.op = "none" /\ kind \in Hosts
      BY DEF Init, NoOp
    <3> QED BY <3>1, HostAssumption
  <2>2. ControlDomain /\ (FPGA_TARGET => ~ctl.auto_restart /\ ctl.ap_idle)
        /\ ~Asked /\ ~start
    BY DEF Init, VcInit, HiInit, ControlDomain, Asked
  <2>3. Resting BY <2>2 DEF Init, Resting, Idle
  <2>4. ~Over \/ kind = "idle"
    <3>1. CASE kind = "sticky"
      <4>1. ctl = [start_pulse |-> FALSE, done_sticky |-> FALSE]
        BY <3>1 DEF Init, HiInit, FPGA_TARGET
      <4> QED BY <3>1, <4>1 DEF Over
    <3>2. CASE kind \in {"done", "irq"}
      <4>1. ctl.ap_done = FALSE /\ ctl.isr = FALSE
        BY <3>2 DEF Init, VcInit, FPGA_TARGET
      <4> QED BY <3>2, <4>1 DEF Over
    <3> QED BY <2>1, <3>1, <3>2
  <2> QED BY <2>1, <2>2, <2>3, <2>4 DEF JobInv, Configuring
<1> QED BY <1>1, <1>2, <1>4, <1>5, <1>6, <1>7 DEF IInv

LEMMA EdgeHolds ==
  ASSUME IInv, Next
  PROVE  Edge
<1> USE DEF IInv
<1>1. Port /\ Host /\ kind' = kind /\ (FsmIdle \/ FsmRun) BY DEF Next, Port
<1>2. WriteStep BY <1>1, WritingStep
<1>3. ReadStep BY <1>1, ReadStepHolds
<1>4. FsmStep BY <1>1, FsmStepHolds
<1>5. kind \in {"sticky", "idle", "done", "irq"} BY HostAssumption DEF TypeInv
<1>6. Starts => Carried = 1
  BY <1>2 DEF Starts, WriteStep, Unexecuted, JobInv, Polling, Configuring
<1>7. ControlStep BY <1>1, <1>5, <1>6, ControlStepHolds DEF JobInv
<1>8. ~Executing => regs' = regs
  BY <1>1, RegistersStep DEF TypeInv, PortType
<1> QED
  BY <1>1, <1>2, <1>3, <1>4, <1>7, <1>8 DEF Edge, FPGA_TARGET, Polled

LEMMA NextIInv ==
  ASSUME IInv, Next
  PROVE  IInv'
<1> USE DEF IInv
<1>1. Port /\ Host /\ kind' = kind /\ (FsmIdle \/ FsmRun) BY DEF Next, Port
<1>2. Edge BY EdgeHolds
<1>3. ChannelsInv' /\ BuildInv' BY <1>1, WritingStep
<1>4. ReadInv' BY <1>1, ReadInvStep
<1>5. RegInv' BY <1>1, <1>2, RegInvStep DEF Edge
<1>6. TypeInv'
  <2>1. PortType' BY <1>1, <1>2, PortTypes DEF Edge
  <2> QED
    BY <1>1, <2>1, MasterTypes, HostTypes, FsmTypes DEF TypeInv
<1>7. JobInv'
  <2>1. Kinds BY HostAssumption DEF TypeInv, Kinds
  <2>2. ControlDomain' /\ (FPGA_TARGET' => ~ctl'.auto_restart)
    BY <1>2 DEF Edge, ControlStep
  <2>3. CASE host.pc = "poll"
    BY <1>1, <1>2, <2>1, <2>2, <2>3, PollStepHolds, PollJob DEF JobInv
  <2>4. CASE host.pc # "poll"
    BY <1>1, <1>2, <2>2, <2>4, ConfigStepHolds, ConfigJob DEF JobInv
  <2> QED BY <2>3, <2>4
<1> QED BY <1>3, <1>4, <1>5, <1>6, <1>7

LEMMA Invariance == Spec => []IInv
<1>1. IInv /\ UNCHANGED vars => IInv'
  <2> SUFFICES ASSUME IInv, UNCHANGED vars PROVE IInv'
    OBVIOUS
  <2>1. /\ kind' = kind /\ m' = m /\ host' = host /\ bus' = bus /\ wr' = wr /\ rd' = rd
        /\ regs' = regs /\ ctl' = ctl /\ start' = start /\ fsm' = fsm
    BY DEF vars
  <2>2. TypeInv'
    <3>1. FPGA_TARGET' = FPGA_TARGET BY <2>1 DEF FPGA_TARGET
    <3>2. PortType' BY <2>1, <3>1 DEF IInv, TypeInv, PortType
    <3>3. MasterType' /\ HostType' /\ FsmType'
      BY ZenonT(60), <2>1 DEF IInv, TypeInv, MasterType, HostType, FsmType
    <3> QED BY <2>1, <3>2, <3>3 DEF IInv, TypeInv
  <2>3. ChannelsInv' /\ ReadInv' /\ RegInv'
    BY <2>1 DEF IInv, ChannelsInv, ReadInv, RegInv, Unexecuted, Status
  <2>4. BuildInv'
    BY <2>1 DEF IInv, BuildInv, VcChannels, HiChannels, Unexecuted, FPGA_TARGET
  <2>5. JobInv'
    BY ZenonT(60), <2>1
           DEF IInv, JobInv, ControlDomain, Polling, Configuring, Unasked, Asking, Given,
           Running, Ending, Ended, Resting, Idle, Asked, Over, Answer, Polled, Unexecuted,
       FPGA_TARGET
  <2> QED BY <2>2, <2>3, <2>4, <2>5 DEF IInv
<1>2. IInv /\ [Next]_vars => IInv' BY <1>1, NextIInv
<1> QED BY <1>2, InitIInv, PTL DEF Spec

-----------------------------------------------------------------------------
(* A host that is not waiting for a job finds the accelerator at rest, and *)
(* no start under way: each start it wrote made one job, which is over,    *)
(* and the end it learnt of was that job's (the status and control         *)
(* registers of rtl/host_interface.v and fpga/rtl/vitis_control.v).        *)
THEOREM RestAfterEveryJob == Spec => []RestsBetweenJobs
<1>1. IInv => RestsBetweenJobs
  BY DEF IInv, JobInv, Configuring, Resting, Idle, Asked, RestsBetweenJobs
<1> QED BY <1>1, Invariance, PTL

\* A job runs on the parameters that were written before its start, whichever of a
\* write's address and data came first and however long the host and the jobs take.
THEOREM JobsAreConfigured == Spec => []JobAsConfigured
<1>1. ASSUME IInv, fsm.state = "run" PROVE fsm.job = host.want /\ regs = host.want
  <2>1. host.pc = "poll" BY <1>1 DEF IInv, JobInv, Configuring, Resting, Idle
  <2>2. Running
    BY <1>1, <2>1 DEF IInv, JobInv, Polling, Unasked, Asking, Given, Ending, Ended, Resting, Idle
  <2>3. fsm.job = regs /\ ~Unexecuted BY <2>2 DEF Running, Unexecuted
  <2>4. regs \in [Params -> Values] /\ host.want \in [Params -> Values]
    BY <1>1 DEF IInv, TypeInv, PortType, HostType
  <2>5. \A p \in Params : regs[p] = host.want[p]
    BY <1>1, <2>3 DEF IInv, RegInv
  <2> QED BY <2>3, <2>4, <2>5
<1>2. IInv => JobAsConfigured BY <1>1 DEF JobAsConfigured
<1> QED BY <1>2, Invariance, PTL
=============================================================================
