------------------------------- MODULE AxiLite -------------------------------
(***************************************************************************)
(* The AXI-Lite port of the accelerator: what rtl/host_interface.v and     *)
(* fpga/rtl/vitis_control.v have in common.  Every action is one clock     *)
(* edge of one part.                                                       *)
(***************************************************************************)
EXTENDS Integers

CONSTANTS
  Params,     \* the job's parameter registers, by name
  Values,     \* words the host writes into them
  JUNK        \* what a wire carries when nobody drives it

Words == Values \cup {0, 1}
Addresses == Params \cup {"CTRL", "STATUS", "GIE", "IER", "ISR"}

ASSUME PortAssumption ==
  /\ Values \subseteq Nat /\ JUNK \notin Nat
  /\ Params \cap {"CTRL", "STATUS", "GIE", "IER", "ISR"} = {}

VARIABLES
  bus,        \* the master's side: awvalid, awaddr, wvalid, wdata, bready, arvalid, araddr, rready
  wr, rd,     \* the two channel state machines with their outputs
  regs,       \* the parameter registers
  ctl,        \* the control and status registers of the build
  start,      \* the start output
  fsm         \* the controller: state, left, busy, done, job

Bit0(word) == word % 2 = 1
Bit7(word) == (word \div 128) % 2 = 1

AwTaken == bus.awvalid /\ wr.awready
WTaken == bus.wvalid /\ wr.wready
ArTaken == bus.arvalid /\ rd.arready

\* bvalid stays until bready has met it.
WriteResponse ==
  /\ wr.state = "WR_RESP"
  /\ wr' = IF bus.bready /\ wr.bvalid THEN [wr EXCEPT !.bvalid = FALSE, !.state = "WR_IDLE"]
           ELSE [wr EXCEPT !.bvalid = TRUE]

\* The answer is the registers in the cycle the address is taken.
ReadAddress(Answer(_)) ==
  /\ rd.state = "RD_IDLE"
  /\ rd' = IF ArTaken THEN [state |-> "RD_DATA", arready |-> FALSE, rvalid |-> FALSE,
                            data |-> Answer(bus.araddr),
                            ctrl_fired |-> bus.araddr = "CTRL"]
           ELSE [rd EXCEPT !.arready = TRUE, !.ctrl_fired = FALSE]

ReadData ==
  /\ rd.state = "RD_DATA"
  /\ rd' = IF bus.rready /\ rd.rvalid
             THEN [rd EXCEPT !.rvalid = FALSE, !.state = "RD_IDLE", !.ctrl_fired = FALSE]
           ELSE [rd EXCEPT !.rvalid = TRUE, !.ctrl_fired = FALSE]

ReadInit == rd = [state |-> "RD_IDLE", arready |-> FALSE, rvalid |-> FALSE,
                  data |-> {}, ctrl_fired |-> FALSE]
=============================================================================
