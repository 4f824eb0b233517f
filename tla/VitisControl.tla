----------------------------- MODULE VitisControl -----------------------------
(***************************************************************************)
(* fpga/rtl/vitis_control.v, the register file of the FPGA build: start    *)
(* and done as XRT knows them, and an interrupt.                           *)
(***************************************************************************)
EXTENDS AxiLite

VcInit ==
  /\ wr = [state |-> "WR_IDLE", addr |-> "CTRL", data |-> 0, aw_done |-> FALSE,
           w_done |-> FALSE, awready |-> FALSE, wready |-> FALSE, bvalid |-> FALSE]
  /\ ctl = [ap_start |-> FALSE, ap_done |-> FALSE, ap_idle |-> TRUE,
            auto_restart |-> FALSE, gie |-> FALSE, ier |-> FALSE, isr |-> FALSE,
            done_r |-> FALSE]
  /\ start = FALSE /\ ReadInit

\* Mutant of BothCaptured: the data alone sets off the write.
BothCaptured_Data == wr.w_done \/ WTaken
BothCaptured == (wr.aw_done \/ AwTaken) /\ (wr.w_done \/ WTaken)

DataLatch == IF WTaken THEN bus.wdata ELSE wr.data

\* The two handshakes are captured in either order.
VcWriteIdle ==
  /\ wr.state = "WR_IDLE"
  /\ wr' = [wr EXCEPT
       !.addr = IF AwTaken THEN bus.awaddr ELSE @, !.aw_done = @ \/ AwTaken,
       !.data = DataLatch, !.w_done = @ \/ WTaken,
       !.awready = ~BothCaptured /\ ~AwTaken /\ (@ \/ ~wr.aw_done),
       !.wready = ~BothCaptured /\ ~WTaken /\ (@ \/ ~wr.w_done),
       !.state = IF BothCaptured THEN "WR_EXEC" ELSE @]

VcWriteExec ==
  /\ wr.state = "WR_EXEC"
  /\ wr' = [wr EXCEPT !.aw_done = FALSE, !.w_done = FALSE, !.state = "WR_RESP"]

Fires(addr) == wr.state = "WR_EXEC" /\ wr.addr = addr
Starting == ctl.ap_start /\ ctl.ap_idle
done_pulse == fsm.done /\ ~ctl.done_r

\* Mutant of NextIdle: the end of a job does not bring ap_idle back.
NextIdle_Lost == ctl.ap_idle /\ ~Starting
NextIdle == done_pulse \/ (ctl.ap_idle /\ ~Starting)

\* ap_done is cleared in the cycle after the one in which the control register was
\* read, whatever is set in either of them.
NextDone == ~rd.ctrl_fired /\ (done_pulse \/ ctl.ap_done)

VcControl ==
  /\ regs' = [p \in Params |-> IF Fires(p) THEN wr.data ELSE regs[p]]
  /\ start' = Starting
  /\ ctl' = [ap_start |-> \/ done_pulse /\ ctl.auto_restart
                          \/ ~Starting /\ (ctl.ap_start \/ (Fires("CTRL") /\ Bit0(wr.data))),
             ap_idle |-> NextIdle,
             ap_done |-> NextDone,
             auto_restart |-> ctl.auto_restart \/ (Fires("CTRL") /\ Bit7(wr.data)),
             gie |-> IF Fires("GIE") THEN Bit0(wr.data) ELSE ctl.gie,
             ier |-> IF Fires("IER") THEN Bit0(wr.data) ELSE ctl.ier,
             isr |-> done_pulse \/ (ctl.isr /\ ~(Fires("ISR") /\ Bit0(wr.data))),
             done_r |-> fsm.done]

interrupt == ctl.gie /\ ctl.ier /\ ctl.isr

\* A register's word, or the set of the bits that are 1.
VcAnswer(addr) ==
  CASE addr \in {"CTRL", "GIE", "IER", "ISR"} ->
         {b \in {"ap_start", "ap_done", "ap_idle", "auto_restart", "gie", "ier", "isr"} :
            /\ ctl[b]
            /\ addr = CASE b = "gie" -> "GIE" [] b = "ier" -> "IER" [] b = "isr" -> "ISR"
                        [] OTHER -> "CTRL"}
    [] addr \in Params -> regs[addr]
    [] OTHER -> {}

VitisControl ==
  /\ VcWriteIdle \/ VcWriteExec \/ WriteResponse
  /\ ReadAddress(VcAnswer) \/ ReadData
  /\ VcControl
=============================================================================
