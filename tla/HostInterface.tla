---------------------------- MODULE HostInterface ----------------------------
(***************************************************************************)
(* rtl/host_interface.v, the register file of the simulation build.        *)
(***************************************************************************)
EXTENDS AxiLite

\* wr_addr_latch is not reset.
HiInit ==
  /\ wr \in {[state |-> "WR_IDLE", addr |-> a, awready |-> FALSE, wready |-> FALSE,
              bvalid |-> FALSE] : a \in Addresses}
  /\ ctl = [start_pulse |-> FALSE, done_sticky |-> FALSE]
  /\ start = FALSE /\ ReadInit

\* Data that is taken moves on at once, whether an address was taken or not.
HiWriteIdle ==
  /\ wr.state = "WR_IDLE"
  /\ wr' = [wr EXCEPT !.awready = ~AwTaken, !.wready = ~WTaken,
                      !.addr = IF AwTaken THEN bus.awaddr ELSE @,
                      !.state = IF WTaken THEN "WR_DATA" ELSE @]

HiWriteData == wr.state = "WR_DATA" /\ wr' = [wr EXCEPT !.state = "WR_RESP"]

\* The register is loaded from the bus, one cycle after the handshake.
Executes(addr) == wr.state = "WR_DATA" /\ wr.addr = addr

\* Mutant of Sticky: a start does not clear it.
Sticky_NoClear == fsm.done \/ ctl.done_sticky
Sticky == fsm.done \/ (ctl.done_sticky /\ ~ctl.start_pulse)

HiControl ==
  /\ regs' = [p \in Params |-> IF Executes(p) THEN bus.wdata ELSE regs[p]]
  /\ ctl' = [start_pulse |-> Executes("CTRL") /\ Bit0(bus.wdata), done_sticky |-> Sticky]
  /\ start' = (ctl.start_pulse /\ ~fsm.busy)

\* A register's word, or the set of the status bits that are 1.
HiAnswer(addr) ==
  CASE addr = "STATUS" -> {b \in {"done_sticky", "done", "busy"} :
                             \/ b = "done_sticky" /\ ctl.done_sticky
                             \/ b = "done" /\ fsm.done
                             \/ b = "busy" /\ fsm.busy}
    [] addr \in Params -> regs[addr]
    [] OTHER -> {}

HostInterface ==
  /\ HiWriteIdle \/ HiWriteData \/ WriteResponse
  /\ ReadAddress(HiAnswer) \/ ReadData
  /\ HiControl
=============================================================================
