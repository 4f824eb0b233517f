--------------------------- MODULE UramFlush_proofs ---------------------------
(***************************************************************************)
(* Theorems about UramFlush, for every size of the URAM, every latency of  *)
(* its read pipe and every set of requests.                                *)
(***************************************************************************)
EXTENDS UramFlush, TLAPS

-----------------------------------------------------------------------------
(* The inductive invariant.                                                *)

Streaming == fl_state = "FL_RD_URAM"
Inflight == IF rd_inflight THEN 1 ELSE 0
Empty == \A s \in 1 .. RD_LATENCY : rd_pipe[s] = NONE
\* The words of the row asked of the URAM: written, queued or on their way.
Issued == wr_beat_cnt + fifo.count + Inflight

\* A column counted round the end of the row.
Column(n) == IF n < COL_MAX THEN n ELSE n - COL_MAX

\* At most one read is on its way, and rd_inflight says whether there is one.
FlightInv ==
  /\ ~Streaming => uram_rd = NONE /\ Empty
  /\ Streaming => (rd_inflight <=> uram_rd # NONE \/ ~Empty)
  /\ uram_rd # NONE => Empty
  /\ \A s, t \in 1 .. RD_LATENCY : rd_pipe[s] # NONE /\ rd_pipe[t] # NONE => s = t

\* The queue holds what was pushed and not popped, with room for the read.
QueueInv ==
  /\ fifo.count <= 2 /\ fifo.count = (fifo.wr_ptr - fifo.rd_ptr) % 4
  /\ rd_inflight => fifo.count <= 1
  /\ ~Streaming => fifo.count = 0

\* Reads and beats are counted alike, to the end of the row and no further.
CountInv ==
  Streaming => /\ wr_beat_cnt <= req.cols /\ Issued <= req.cols + 1
               /\ rd_col_cnt = Column(req.start_col + Issued)
               /\ rd_done <=> Issued = req.cols + 1

\* Where the mover is tells where the slave is.
BurstInv ==
  /\ fl_state \in {"FL_IDLE", "FL_AW", "FL_DONE"} => burst = NONE
  /\ Streaming => burst # NONE /\ burst.len = req.cols /\ burst.beat = wr_beat_cnt
  /\ awvalid => fl_state = "FL_AW"
  /\ w.valid => Streaming /\ fifo.count >= 1 /\ (w.last <=> wr_beat_cnt = req.cols)

IInv == TypeOK /\ FlightInv /\ QueueInv /\ CountInv /\ BurstInv

-----------------------------------------------------------------------------
(* Counting.                                                               *)

LEMMA Sizes == /\ ROW_MAX \in Nat \ {0} /\ COL_MAX \in Nat \ {0}
               /\ RD_LATENCY \in Nat \ {0} /\ LEN_MAX \in Nat \ {0}
  BY FlushAssumption

\* A counter cut to its width counts round the end of the row.
LEMMA ModStep ==
  ASSUME NEW m \in Nat \ {0}, NEW n \in 0 .. m + m - 1
  PROVE  n % m = IF n < m THEN n ELSE n - m
<1>1. n % m \in 0 .. m - 1 /\ n = m * (n \div m) + (n % m) /\ n \div m \in Int
  BY SMTT(30)
<1>2. CASE n < m
  <2>1. n \div m = 0
    BY <1>1, <1>2, SMTT(30)
  <2>2. QED
    BY <1>1, <1>2, <2>1
<1>3. CASE n >= m
  <2>1. n \div m = 1
    BY <1>1, <1>3, SMTT(30)
  <2>2. QED
    BY <1>1, <1>3, <2>1
<1>4. QED
  BY <1>2, <1>3

LEMMA ColumnMod ==
  ASSUME NEW n \in 0 .. COL_MAX + COL_MAX - 1
  PROVE  n % COL_MAX = Column(n) /\ Column(n) \in 0 .. COL_MAX - 1
<1>1. COL_MAX \in Nat \ {0}
  BY Sizes
<1>2. n % COL_MAX = IF n < COL_MAX THEN n ELSE n - COL_MAX
  BY <1>1, ModStep
<1>3. QED
  BY <1>1, <1>2 DEF Column

LEMMA RowMod ==
  ASSUME NEW n \in 0 .. ROW_MAX - 1 PROVE (n + 1) % ROW_MAX \in 0 .. ROW_MAX - 1
<1>1. ROW_MAX \in Nat \ {0} /\ n + 1 \in 0 .. ROW_MAX + ROW_MAX - 1
  BY Sizes
<1>2. ASSUME NEW k \in 0 .. ROW_MAX + ROW_MAX - 1
      PROVE  k % ROW_MAX \in 0 .. ROW_MAX - 1
  <2>1. k % ROW_MAX = IF k < ROW_MAX THEN k ELSE k - ROW_MAX
    BY <1>1, ModStep
  <2>2. QED
    BY <1>1, <2>1
<1>3. QED
  BY <1>1, <1>2

\* The queue's two-bit registers.
LEMMA WrapTwo ==
  ASSUME NEW n \in -3 .. 7
  PROVE  n % 4 = IF n < 0 THEN n + 4 ELSE IF n < 4 THEN n ELSE n - 4
<1>1. \/ n = -3 \/ n = -2 \/ n = -1 \/ n = 0 \/ n = 1 \/ n = 2
      \/ n = 3 \/ n = 4 \/ n = 5 \/ n = 6 \/ n = 7
  OBVIOUS
<1>2. QED
  BY <1>1, SMTT(30)

\* Pointers that move with the counter stay as far apart as it says.
LEMMA PointersMove ==
  ASSUME NEW a \in 0 .. 3, NEW b \in 0 .. 3, NEW k \in 0 .. 1, NEW q \in 0 .. 1,
         ((a - b) % 4) + k - q \in 0 .. 2
  PROVE  /\ (a + k) % 4 \in 0 .. 3 /\ (b + q) % 4 \in 0 .. 3
         /\ (((a + k) % 4) - ((b + q) % 4)) % 4 = ((a - b) % 4) + k - q
<1>1. /\ (a + k) % 4 = IF a + k < 4 THEN a + k ELSE a + k - 4
      /\ (b + q) % 4 = IF b + q < 4 THEN b + q ELSE b + q - 4
      /\ (a - b) % 4 = IF a - b < 0 THEN a - b + 4 ELSE a - b
  <2>1. ASSUME NEW n \in -3 .. 7
        PROVE  n % 4 = IF n < 0 THEN n + 4 ELSE IF n < 4 THEN n ELSE n - 4
    BY WrapTwo
  <2>2. a + k \in -3 .. 7 /\ b + q \in -3 .. 7 /\ a - b \in -3 .. 7
    OBVIOUS
  <2>3. QED
    BY <2>1, <2>2
<1>2. (a + k) % 4 \in 0 .. 3 /\ (b + q) % 4 \in 0 .. 3
  BY <1>1
<1>3. ASSUME NEW x \in 0 .. 3, NEW y \in 0 .. 3
      PROVE  (x - y) % 4 = IF x < y THEN x - y + 4 ELSE x - y
  <2>1. x - y \in -3 .. 7
    OBVIOUS
  <2>2. QED
    BY <2>1, WrapTwo
<1>4. QED
  BY <1>1, <1>2, <1>3

-----------------------------------------------------------------------------
(* What happens at every edge beside the mover.                            *)

\* The read pipe moves on by one stage.
LEMMA PipeStep ==
  ASSUME TypeOK, FlightInv, UramPort
  PROVE  /\ rd_pipe' \in [1 .. RD_LATENCY -> Cell]
         /\ Empty' <=> uram_rd = NONE /\ (uram_rd_valid \/ Empty)
         /\ \A s, t \in 1 .. RD_LATENCY :
              rd_pipe[s]' # NONE /\ rd_pipe[t]' # NONE => s = t
<1>1. RD_LATENCY \in Nat \ {0}
  BY Sizes
<1>2. rd_pipe \in [1 .. RD_LATENCY -> Cell] /\ uram_gen \in {0, 1}
      /\ uram_rd \in ((0 .. ROW_MAX - 1) \X (0 .. COL_MAX - 1)) \cup {NONE}
  BY DEF TypeOK
<1>3. rd_pipe' = [s \in 1 .. RD_LATENCY |->
                    IF s > 1 THEN rd_pipe[s - 1]
                    ELSE IF uram_rd = NONE THEN NONE ELSE uram[uram_rd]]
  BY DEF UramPort
<1>4. uram_rd # NONE => uram[uram_rd] \in Word /\ uram[uram_rd] # NONE
  BY <1>2, NoneAssumption DEF uram, Word
<1>5. /\ rd_pipe'[1] = IF uram_rd = NONE THEN NONE ELSE uram[uram_rd]
      /\ \A s \in 2 .. RD_LATENCY : rd_pipe'[s] = rd_pipe[s - 1]
  BY <1>1, <1>3
<1>6. rd_pipe' \in [1 .. RD_LATENCY -> Cell]
  <2>1. \A s \in 1 .. RD_LATENCY :
          (IF s > 1 THEN rd_pipe[s - 1]
           ELSE IF uram_rd = NONE THEN NONE ELSE uram[uram_rd]) \in Cell
    BY <1>1, <1>2, <1>4 DEF Cell
  <2>2. QED
    BY <1>3, <2>1
<1>7. Empty' <=> uram_rd = NONE /\ \A s \in 1 .. RD_LATENCY - 1 : rd_pipe[s] = NONE
  <2>1. ASSUME Empty' PROVE uram_rd = NONE /\ \A s \in 1 .. RD_LATENCY - 1 : rd_pipe[s] = NONE
    <3>1. uram_rd = NONE
      BY <2>1, <1>1, <1>4, <1>5 DEF Empty
    <3>2. ASSUME NEW s \in 1 .. RD_LATENCY - 1 PROVE rd_pipe[s] = NONE
      <4>1. s + 1 \in 2 .. RD_LATENCY /\ (s + 1) - 1 = s /\ s + 1 \in 1 .. RD_LATENCY
        BY <1>1
      <4>2. rd_pipe'[s + 1] = rd_pipe[s]
        BY <4>1, <1>5
      <4>3. QED
        BY <2>1, <4>1, <4>2 DEF Empty
    <3>3. QED
      BY <3>1, <3>2
  <2>2. ASSUME uram_rd = NONE, \A s \in 1 .. RD_LATENCY - 1 : rd_pipe[s] = NONE
        PROVE  Empty'
    <3>1. ASSUME NEW s \in 1 .. RD_LATENCY PROVE rd_pipe'[s] = NONE
      <4>1. s = 1 \/ (s \in 2 .. RD_LATENCY /\ s - 1 \in 1 .. RD_LATENCY - 1)
        BY <1>1
      <4>2. QED
        BY <4>1, <1>5, <2>2
    <3>2. QED
      BY <3>1 DEF Empty
  <2>3. QED
    BY <2>1, <2>2
<1>8. (\A s \in 1 .. RD_LATENCY - 1 : rd_pipe[s] = NONE) <=> uram_rd_valid \/ Empty
  <2>1. \A s \in 1 .. RD_LATENCY : s = RD_LATENCY \/ s \in 1 .. RD_LATENCY - 1
    BY <1>1
  <2>2. \A s \in 1 .. RD_LATENCY - 1 : s \in 1 .. RD_LATENCY /\ s # RD_LATENCY
    BY <1>1
  <2>3. RD_LATENCY \in 1 .. RD_LATENCY
    BY <1>1
  <2>4. QED
    BY <2>1, <2>2, <2>3 DEF FlightInv, Empty, uram_rd_valid
<1>9. ASSUME NEW s \in 1 .. RD_LATENCY, NEW t \in 1 .. RD_LATENCY,
             rd_pipe'[s] # NONE, rd_pipe'[t] # NONE
      PROVE  s = t
  <2>1. ASSUME NEW r \in 1 .. RD_LATENCY, r # 1, rd_pipe'[r] # NONE
        PROVE  r - 1 \in 1 .. RD_LATENCY /\ rd_pipe[r - 1] # NONE /\ uram_rd = NONE
    <3>1. r \in 2 .. RD_LATENCY /\ r - 1 \in 1 .. RD_LATENCY
      BY <2>1, <1>1
    <3>2. QED
      BY <3>1, <2>1, <1>5 DEF FlightInv, Empty
  <2>2. rd_pipe'[1] # NONE => uram_rd # NONE
    BY <1>5
  <2>3. CASE s # 1 /\ t # 1
    <3>1. s - 1 = t - 1
      BY <2>1, <2>3, <1>9 DEF FlightInv
    <3>2. QED
      BY <3>1, <1>1
  <2>4. QED
    BY <2>1, <2>2, <2>3, <1>9
<1>10. QED
  BY <1>6, <1>7, <1>8, <1>9

\* The controller's registers and the slave's burst keep their types.
LEMMA EdgeTypes ==
  ASSUME TypeOK, NEW awready \in BOOLEAN, NEW wready \in BOOLEAN, NEW bvalid \in BOOLEAN,
         Edge(awready, wready, bvalid)
  PROVE  /\ start' \in Requests \cup {NONE} /\ uram_gen' \in {0, 1}
         /\ burst' \in Burst \cup {NONE}
<1>1. start' \in Requests \cup {NONE} /\ uram_gen' \in {0, 1}
  BY DEF TypeOK, Edge, Controller
<1>2. burst' \in Burst \cup {NONE}
  <2>1. req.cols \in Nat /\ hbm_addr \in Nat /\ burst \in Burst \cup {NONE}
    BY Sizes DEF TypeOK, Request
  <2>2. WHandshake(wready) => burst # NONE
    BY DEF Edge, Slave, WHandshake
  <2>3. QED
    BY <2>1, <2>2 DEF Edge, Slave, Burst
<1>3. QED
  BY <1>1, <1>2

-----------------------------------------------------------------------------
(* The invariant holds at reset and at every edge.                         *)

LEMMA InitInv == Init => IInv
<1> SUFFICES ASSUME Init PROVE IInv
  OBVIOUS
<1>1. TypeOK
  <2>1. /\ 0 \in 0 .. ROW_MAX - 1 /\ 0 \in 0 .. COL_MAX - 1
        /\ rd_pipe \in [1 .. RD_LATENCY -> Cell]
    BY Sizes DEF Init, Cell
  <2>2. req \in Request
    BY <2>1 DEF Init, Request
  <2>3. fifo \in [data : [{0, 1} -> Cell], wr_ptr : 0 .. 3, rd_ptr : 0 .. 3, count : 0 .. 3]
    <3>1. [i \in {0, 1} |-> NONE] \in [{0, 1} -> Cell]
      BY DEF Cell
    <3>2. QED
      BY <3>1 DEF Init, EmptyFifo
  <2>4. w \in [valid : BOOLEAN, data : Cell, last : BOOLEAN]
    BY DEF Init, Cell
  <2>5. QED
    BY <2>1, <2>2, <2>3, <2>4 DEF Init, TypeOK
<1>2. FlightInv
  BY DEF Init, FlightInv, Streaming, Empty
<1>3. QueueInv
  BY DEF Init, QueueInv, Streaming, EmptyFifo
<1>4. CountInv /\ BurstInv
  BY DEF Init, CountInv, BurstInv, Streaming
<1>5. QED
  BY <1>1, <1>2, <1>3, <1>4 DEF IInv

\* Outside the stream nothing is read and the pipe stays empty.
LEMMA StaysQuiet ==
  ASSUME TypeOK, FlightInv, UramPort, ~Streaming, uram_rd' = NONE,
         Streaming' => rd_inflight' = FALSE
  PROVE  FlightInv'
<1>1. uram_rd = NONE /\ Empty
  BY DEF FlightInv
<1>2. Empty'
  BY <1>1, PipeStep
<1>3. \A s, t \in 1 .. RD_LATENCY : rd_pipe[s]' # NONE /\ rd_pipe[t]' # NONE => s = t
  BY PipeStep
<1>4. QED
  BY <1>2, <1>3 DEF FlightInv

\* Between bursts the slave takes and sends nothing.
LEMMA NoTransfer ==
  ASSUME BurstInv, burst = NONE, awvalid = FALSE, NEW awready \in BOOLEAN, NEW wready \in BOOLEAN,
         NEW bvalid \in BOOLEAN, Edge(awready, wready, bvalid)
  PROVE  burst' = NONE /\ hbm' = hbm
  BY DEF BurstInv, Edge, Slave, AwHandshake, WHandshake, BHandshake, Complete

LEMMA IdleWaitStep ==
  ASSUME IInv, NEW awready \in BOOLEAN, NEW wready \in BOOLEAN, NEW bvalid \in BOOLEAN,
         IdleWait, Edge(awready, wready, bvalid)
  PROVE  IInv'
<1> USE DEF IInv
<1>1. UramPort /\ ~Streaming /\ ~Streaming' /\ burst = NONE /\ ~awvalid
  BY DEF IdleWait, Edge, Streaming, BurstInv
<1>2. TypeOK'
  BY EdgeTypes, PipeStep, <1>1 DEF TypeOK, IdleWait, counters
<1>3. FlightInv'
  BY <1>1, StaysQuiet DEF IdleWait
<1>4. QueueInv' /\ CountInv'
  BY <1>1 DEF QueueInv, CountInv, IdleWait, counters, Streaming
<1>5. BurstInv'
  BY <1>1, NoTransfer DEF BurstInv, IdleWait, TypeOK, Streaming
<1>6. QED
  BY <1>2, <1>3, <1>4, <1>5

LEMMA IdleStartStep ==
  ASSUME IInv, NEW awready \in BOOLEAN, NEW wready \in BOOLEAN, NEW bvalid \in BOOLEAN,
         IdleStart, Edge(awready, wready, bvalid)
  PROVE  IInv'
<1> USE DEF IInv
<1>1. UramPort /\ ~Streaming /\ ~Streaming' /\ burst = NONE /\ ~awvalid
  BY DEF IdleStart, Edge, Streaming, BurstInv
<1>2. TypeOK'
  <2>1. start \in Request /\ 0 \in 0 .. ROW_MAX - 1
    BY FlushAssumption, Sizes DEF IdleStart, TypeOK
  <2>2. QED
    BY EdgeTypes, PipeStep, <1>1, <2>1 DEF TypeOK, IdleStart, Request, counters
<1>3. FlightInv'
  BY <1>1, StaysQuiet DEF IdleStart
<1>4. QueueInv' /\ CountInv'
  BY <1>1 DEF QueueInv, CountInv, IdleStart, counters, Streaming
<1>5. BurstInv'
  BY <1>1, NoTransfer DEF BurstInv, IdleStart, TypeOK, Streaming
<1>6. QED
  BY <1>2, <1>3, <1>4, <1>5

LEMMA FinishStep ==
  ASSUME IInv, NEW awready \in BOOLEAN, NEW wready \in BOOLEAN, NEW bvalid \in BOOLEAN,
         Finish, Edge(awready, wready, bvalid)
  PROVE  IInv'
<1> USE DEF IInv
<1>1. UramPort /\ ~Streaming /\ ~Streaming' /\ burst = NONE /\ ~awvalid
  BY DEF Finish, Edge, Streaming, BurstInv, TypeOK
<1>2. TypeOK'
  BY EdgeTypes, PipeStep, <1>1 DEF TypeOK, Finish, counters
<1>3. FlightInv'
  BY <1>1, StaysQuiet DEF Finish
<1>4. QueueInv' /\ CountInv'
  BY <1>1 DEF QueueInv, CountInv, Finish, counters, Streaming
<1>5. BurstInv'
  BY <1>1, NoTransfer DEF BurstInv, Finish, TypeOK, Streaming
<1>6. QED
  BY <1>2, <1>3, <1>4, <1>5

\* The address is taken and the row begins, or it is shown for another cycle.
LEMMA AddressStep ==
  ASSUME IInv, NEW awready \in BOOLEAN, NEW wready \in BOOLEAN, NEW bvalid \in BOOLEAN,
         Address(awready), Edge(awready, wready, bvalid)
  PROVE  IInv'
<1> USE DEF IInv
<1>1. UramPort /\ ~Streaming /\ burst = NONE /\ w.valid = FALSE
  BY DEF Address, Edge, Streaming, BurstInv, TypeOK
<1>2. TypeOK'
  <2>1. req.start_col \in 0 .. COL_MAX - 1 /\ 0 \in 0 .. COL_MAX - 1
    BY Sizes DEF TypeOK, Request
  <2>2. fifo' \in [data : [{0, 1} -> Cell], wr_ptr : 0 .. 3, rd_ptr : 0 .. 3, count : 0 .. 3]
    BY DEF TypeOK, Address
  <2>3. QED
    BY ZenonT(60), EdgeTypes, PipeStep, <1>1, <2>1, <2>2 DEF TypeOK, Address, counters
<1>3. FlightInv'
  BY <1>1, StaysQuiet DEF Address, TypeOK, Streaming
<1>4. QueueInv'
  <2>1. fifo.count = 0 /\ (fifo.count = (fifo.wr_ptr - fifo.rd_ptr) % 4)
    BY <1>1 DEF QueueInv
  <2>2. \/ fifo' = fifo /\ fl_state' = "FL_AW"
        \/ /\ fifo' = [data |-> fifo.data, wr_ptr |-> 0, rd_ptr |-> 0, count |-> 0]
           /\ rd_inflight' = FALSE
    BY DEF Address
  <2>3. (0 - 0) % 4 = 0
    OBVIOUS
  <2>4. QED
    BY <2>1, <2>2, <2>3 DEF QueueInv, Streaming
<1>5. CASE AwHandshake(awready)
  <2>1. /\ fl_state' = "FL_RD_URAM" /\ wr_beat_cnt' = 0 /\ fifo'.count = 0
        /\ rd_inflight' = FALSE /\ rd_done' = FALSE /\ rd_col_cnt' = req.start_col
        /\ req' = req /\ awvalid' = FALSE /\ w' = w
    BY <1>5 DEF Address, TypeOK
  <2>2. req.start_col \in 0 .. COL_MAX - 1 /\ req.cols \in 0 .. COL_MAX - 1
    BY DEF TypeOK, Request
  <2>3. Issued' = 0 /\ Column(req.start_col) = req.start_col
    BY <2>1, <2>2, Sizes DEF Issued, Inflight, Column
  <2>4. CountInv'
    BY <2>1, <2>2, <2>3, Sizes DEF CountInv
  <2>5. burst' = [addr |-> hbm_addr, len |-> req.cols, beat |-> 0] /\ burst' # NONE
    BY <1>5, NoneAssumption, <2>2, Sizes DEF Edge, Slave, Burst, TypeOK
  <2>6. BurstInv'
    BY <1>1, <2>1, <2>5 DEF BurstInv, Streaming
  <2>7. QED
    BY <1>2, <1>3, <1>4, <2>4, <2>6
<1>6. CASE ~AwHandshake(awready)
  <2>1. fl_state' = "FL_AW" /\ w' = w /\ burst' = NONE
    BY <1>1, <1>6 DEF Address, Edge, Slave, WHandshake, BHandshake, Complete
  <2>2. CountInv' /\ BurstInv'
    BY <1>1, <2>1 DEF CountInv, BurstInv, Streaming
  <2>3. QED
    BY <1>2, <1>3, <1>4, <2>2
<1>7. QED
  BY <1>5, <1>6

\* A response ends a row: the next address, or the end of the flush.
LEMMA RespondStep ==
  ASSUME IInv, NEW awready \in BOOLEAN, NEW wready \in BOOLEAN, NEW bvalid \in BOOLEAN,
         Respond(bvalid), Edge(awready, wready, bvalid)
  PROVE  IInv'
<1> USE DEF IInv
<1>1. UramPort /\ ~Streaming /\ ~Streaming' /\ ~awvalid /\ w.valid = FALSE
  BY DEF Respond, Edge, Streaming, BurstInv, TypeOK
<1>2. TypeOK'
  <2>1. (cur_row + 1) % ROW_MAX \in 0 .. ROW_MAX - 1
    BY RowMod DEF TypeOK
  <2>2. hbm_addr + req.stride \in Nat
    BY DEF TypeOK, Request
  <2>3. QED
    BY EdgeTypes, PipeStep, <1>1, <2>1, <2>2 DEF TypeOK, Respond, NextRowAddr, counters
<1>3. FlightInv'
  BY <1>1, StaysQuiet DEF Respond
<1>4. QueueInv' /\ CountInv'
  BY <1>1 DEF QueueInv, CountInv, Respond, counters, Streaming
<1>5. BurstInv'
  <2>1. BHandshake(bvalid) => burst' = NONE
    BY <1>1 DEF Edge, Slave, AwHandshake, WHandshake
  <2>2. ~BHandshake(bvalid) => fl_state' = "FL_WR_RESP"
    BY DEF Respond
  <2>3. QED
    BY <1>1, <2>1, <2>2 DEF BurstInv, Respond, Streaming
<1>6. QED
  BY <1>2, <1>3, <1>4, <1>5

-----------------------------------------------------------------------------
(* The edges of a stream, where four things happen at once.                *)

Popped(wready) == IF WHandshake(wready) THEN 1 ELSE 0
Pushed == IF uram_rd_valid THEN 1 ELSE 0

\* What the pipe delivers was asked for, and nothing else is asked for meanwhile.
LEMMA StreamFlight ==
  ASSUME TypeOK, FlightInv, Streaming
  PROVE  /\ uram_rd_valid => rd_inflight /\ ~Empty /\ uram_rd = NONE
         /\ MayRead => ~rd_inflight /\ ~uram_rd_valid /\ uram_rd = NONE /\ Empty
<1>1. RD_LATENCY \in 1 .. RD_LATENCY
  BY Sizes
<1>2. uram_rd_valid => ~Empty
  BY <1>1 DEF uram_rd_valid, Empty
<1>3. QED
  BY <1>2 DEF FlightInv, MayRead

\* The queue's counter is exact: no push finds it full, no pop finds it empty.
LEMMA StreamQueue ==
  ASSUME IInv, NEW wready \in BOOLEAN, Streaming, Queue(wready)
  PROVE  /\ fifo'.count = fifo.count + Pushed - Popped(wready) /\ fifo'.count \in 0 .. 2
         /\ fifo'.count = (fifo'.wr_ptr - fifo'.rd_ptr) % 4
         /\ fifo' \in [data : [{0, 1} -> Cell], wr_ptr : 0 .. 3, rd_ptr : 0 .. 3, count : 0 .. 3]
<1>1. /\ fifo.wr_ptr \in 0 .. 3 /\ fifo.rd_ptr \in 0 .. 3 /\ fifo.count \in 0 .. 2
      /\ fifo.count = (fifo.wr_ptr - fifo.rd_ptr) % 4 /\ fifo.data \in [{0, 1} -> Cell]
  BY DEF IInv, TypeOK, QueueInv
<1>2. Pushed \in {0, 1} /\ (Pushed = 1 => fifo.count <= 1)
  BY <1>1, StreamFlight DEF Pushed, IInv, QueueInv
<1>3. Popped(wready) \in {0, 1} /\ (Popped(wready) = 1 => fifo.count >= 1)
  BY <1>1 DEF Popped, WHandshake, IInv, BurstInv
<1>4. /\ fifo'.wr_ptr = (fifo.wr_ptr + Pushed) % 4
      /\ fifo'.rd_ptr = (fifo.rd_ptr + Popped(wready)) % 4
      /\ fifo'.count = (fifo.count + Pushed - Popped(wready)) % 4
      /\ fifo'.data = IF uram_rd_valid
                        THEN [fifo.data EXCEPT ![fifo.wr_ptr % 2] = uram_rd_data]
                        ELSE fifo.data
  BY DEF Queue, Wrap2, Pushed, Popped
<1>5. fifo'.count = fifo.count + Pushed - Popped(wready) /\ fifo'.count \in 0 .. 2
  BY <1>1, <1>2, <1>3, <1>4, SMTT(30)
<1>6. /\ fifo'.wr_ptr \in 0 .. 3 /\ fifo'.rd_ptr \in 0 .. 3
      /\ fifo'.count = (fifo'.wr_ptr - fifo'.rd_ptr) % 4
  <2>1. ASSUME NEW a \in 0 .. 3, NEW b \in 0 .. 3, NEW k \in 0 .. 1, NEW q \in 0 .. 1,
               ((a - b) % 4) + k - q \in 0 .. 2
        PROVE  /\ (a + k) % 4 \in 0 .. 3 /\ (b + q) % 4 \in 0 .. 3
               /\ (((a + k) % 4) - ((b + q) % 4)) % 4 = ((a - b) % 4) + k - q
    BY <2>1, PointersMove
  <2>2. ((fifo.wr_ptr - fifo.rd_ptr) % 4) + Pushed - Popped(wready) \in 0 .. 2
    BY <1>1, <1>5
  <2>3. Pushed \in 0 .. 1 /\ Popped(wready) \in 0 .. 1
    BY <1>2, <1>3
  <2>4. QED
    BY <1>1, <1>4, <1>5, <2>1, <2>2, <2>3
<1>7. fifo'.data \in [{0, 1} -> Cell]
  <2>1. uram_rd_data \in Cell
    BY Sizes DEF IInv, TypeOK, uram_rd_data
  <2>2. QED
    BY <1>1, <1>4, <2>1
<1>8. fifo' \in [data : [{0, 1} -> Cell], wr_ptr : 0 .. 3, rd_ptr : 0 .. 3, count : 0 .. 3]
  <2>1. fifo' = [data |-> fifo'.data, wr_ptr |-> fifo'.wr_ptr,
                 rd_ptr |-> fifo'.rd_ptr, count |-> fifo'.count]
    BY DEF Queue
  <2>2. fifo'.count \in 0 .. 3
    BY <1>5
  <2>3. \A d \in [{0, 1} -> Cell] : \A x, y, z \in 0 .. 3 :
          [data |-> d, wr_ptr |-> x, rd_ptr |-> y, count |-> z]
            \in [data : [{0, 1} -> Cell], wr_ptr : 0 .. 3, rd_ptr : 0 .. 3, count : 0 .. 3]
    OBVIOUS
  <2>4. QED
    BY <1>6, <1>7, <2>1, <2>2, <2>3
<1>9. QED
  BY <1>5, <1>6, <1>8

\* A read counts a word as issued at the column that follows the last one, and
\* rd_done is set with the last word of the row.
LEMMA StreamReads ==
  ASSUME IInv, Streaming, IssueRead
  PROVE  LET n == IF MayRead THEN Issued + 1 ELSE Issued
         IN  /\ Issued \in Nat /\ n <= req.cols + 1
             /\ rd_col_cnt' = Column(req.start_col + n) /\ rd_col_cnt' \in 0 .. COL_MAX - 1
             /\ rd_done' <=> n = req.cols + 1
             /\ rd_done' \in BOOLEAN
             /\ uram_rd' \in ((0 .. ROW_MAX - 1) \X (0 .. COL_MAX - 1)) \cup {NONE}
             /\ uram_rd' # NONE <=> MayRead
<1>1. /\ COL_MAX \in Nat \ {0} /\ req.cols \in 0 .. COL_MAX - 1
      /\ req.start_col \in 0 .. COL_MAX - 1 /\ cur_row \in 0 .. ROW_MAX - 1
      /\ rd_col_cnt \in 0 .. COL_MAX - 1 /\ rd_done \in BOOLEAN
  BY Sizes DEF IInv, TypeOK, Request
<1>2. Issued \in Nat
  BY DEF IInv, TypeOK, Issued, Inflight
<1>3. /\ Issued <= req.cols + 1 /\ rd_col_cnt = Column(req.start_col + Issued)
      /\ rd_done <=> Issued = req.cols + 1
  BY DEF IInv, CountInv
<1>4. CASE MayRead
  <2>1. /\ uram_rd' = <<cur_row, rd_col_cnt>> /\ rd_col_cnt' = (rd_col_cnt + 1) % COL_MAX
        /\ rd_done' = (rd_col_cnt = (req.start_col + req.cols) % COL_MAX)
    BY <1>4 DEF IssueRead
  <2>2. Issued <= req.cols
    BY <1>1, <1>2, <1>3, <1>4 DEF MayRead
  <2>3. (req.start_col + req.cols) % COL_MAX = Column(req.start_col + req.cols)
    <3>1. req.start_col + req.cols \in 0 .. COL_MAX + COL_MAX - 1
      BY <1>1
    <3>2. QED
      BY <3>1, ColumnMod
  <2>4. rd_col_cnt' = Column(rd_col_cnt + 1) /\ rd_col_cnt' \in 0 .. COL_MAX - 1
    <3>1. rd_col_cnt + 1 \in 0 .. COL_MAX + COL_MAX - 1
      BY <1>1
    <3>2. QED
      BY <2>1, <3>1, ColumnMod
  <2>5. Column(rd_col_cnt + 1) = Column(req.start_col + (Issued + 1))
    <3>1. ASSUME NEW n \in Nat, NEW s \in 0 .. COL_MAX - 1, s + n < COL_MAX + COL_MAX - 1
          PROVE  Column(Column(s + n) + 1) = Column(s + (n + 1))
      BY <1>1, <3>1 DEF Column
    <3>2. req.start_col + Issued < COL_MAX + COL_MAX - 1
      BY <1>1, <1>2, <2>2
    <3>3. QED
      BY <1>1, <1>2, <1>3, <3>1, <3>2
  <2>6. rd_done' <=> Issued = req.cols
    <3>1. ASSUME NEW s \in 0 .. COL_MAX - 1, NEW c \in 0 .. COL_MAX - 1,
                 NEW n \in Nat, n <= c
          PROVE  Column(s + n) = Column(s + c) <=> n = c
      BY <1>1, <3>1 DEF Column
    <3>2. Column(req.start_col + Issued) = Column(req.start_col + req.cols) <=> Issued = req.cols
      BY <1>1, <1>2, <2>2, <3>1
    <3>3. QED
      BY <1>3, <2>1, <2>3, <3>2
  <2>7. uram_rd' \in (0 .. ROW_MAX - 1) \X (0 .. COL_MAX - 1) /\ uram_rd' # NONE
    BY <1>1, <2>1, NoneAssumption
  <2>8. rd_done' \in BOOLEAN
    BY <2>1
  <2>9. Issued + 1 <= req.cols + 1 /\ (Issued = req.cols <=> Issued + 1 = req.cols + 1)
    BY <1>1, <1>2, <2>2
  <2>10. QED
    BY <1>2, <1>4, <2>4, <2>5, <2>6, <2>7, <2>8, <2>9
<1>5. CASE ~MayRead
  BY <1>1, <1>2, <1>3, <1>5 DEF IssueRead
<1>6. QED
  BY <1>4, <1>5

\* A beat leaves with the queue's oldest word, and wlast with the row's last.
LEMMA StreamBeats ==
  ASSUME IInv, NEW wready \in BOOLEAN, Streaming, Beat(wready)
  PROVE  /\ w' \in [valid : BOOLEAN, data : Cell, last : BOOLEAN] /\ bready' \in BOOLEAN
         /\ WHandshake(wready) =>
              /\ w'.valid = FALSE
              /\ fl_state' = IF LastBeat THEN "FL_WR_RESP" ELSE fl_state
              /\ wr_beat_cnt' \in 0 .. COL_MAX - 1
              /\ ~LastBeat => wr_beat_cnt' = wr_beat_cnt + 1 /\ wr_beat_cnt' <= req.cols
         /\ ~WHandshake(wready) =>
              /\ wr_beat_cnt' = wr_beat_cnt /\ fl_state' = fl_state
              /\ w'.valid => fifo.count >= 1 /\ (w'.last <=> wr_beat_cnt = req.cols)
              /\ w.valid => w' = w
<1>1. /\ COL_MAX \in Nat \ {0} /\ req.cols \in 0 .. COL_MAX - 1
      /\ wr_beat_cnt \in 0 .. COL_MAX - 1 /\ wr_beat_cnt <= req.cols
      /\ fifo.data \in [{0, 1} -> Cell] /\ fifo.rd_ptr \in 0 .. 3
      /\ fifo.count \in 0 .. 3
      /\ w \in [valid : BOOLEAN, data : Cell, last : BOOLEAN] /\ bready \in BOOLEAN
  BY Sizes DEF IInv, TypeOK, Request, CountInv
<1>2. fifo.data[fifo.rd_ptr % 2] \in Cell
  <2>1. fifo.rd_ptr % 2 \in {0, 1}
    BY <1>1
  <2>2. QED
    BY <1>1, <2>1
<1>3. LastBeat \in BOOLEAN /\ (LastBeat <=> wr_beat_cnt = req.cols)
  BY DEF LastBeat
<1>4. CASE WHandshake(wready)
  <2>1. /\ wr_beat_cnt' = (wr_beat_cnt + 1) % COL_MAX
        /\ IF LastBeat THEN bready' = TRUE /\ fl_state' = "FL_WR_RESP"
                       ELSE bready' = bready /\ fl_state' = fl_state
        /\ w' = IF fifo.count # 0
                  THEN [valid |-> FALSE, data |-> fifo.data[fifo.rd_ptr % 2],
                        last |-> LastBeat]
                  ELSE [w EXCEPT !.valid = FALSE]
    BY <1>4 DEF Beat
  <2>2. w' \in [valid : BOOLEAN, data : Cell, last : BOOLEAN] /\ w'.valid = FALSE
    <3>1. CASE fifo.count # 0
      BY <1>2, <1>3, <2>1, <3>1
    <3>2. CASE fifo.count = 0
      BY <1>1, <2>1, <3>2
    <3>3. QED
      BY <3>1, <3>2
  <2>3. wr_beat_cnt' = Column(wr_beat_cnt + 1) /\ wr_beat_cnt' \in 0 .. COL_MAX - 1
    <3>1. wr_beat_cnt + 1 \in 0 .. COL_MAX + COL_MAX - 1
      BY <1>1
    <3>2. QED
      BY <2>1, <3>1, ColumnMod
  <2>4. ~LastBeat => wr_beat_cnt' = wr_beat_cnt + 1 /\ wr_beat_cnt' <= req.cols
    BY <1>1, <1>3, <2>3 DEF Column
  <2>5. QED
    BY <1>1, <1>4, <2>1, <2>2, <2>3, <2>4
<1>5. CASE ~WHandshake(wready)
  <2>1. /\ w' = IF fifo.count # 0 /\ ~w.valid
                  THEN [valid |-> TRUE, data |-> fifo.data[fifo.rd_ptr % 2],
                        last |-> LastBeat]
                  ELSE w
        /\ wr_beat_cnt' = wr_beat_cnt /\ bready' = bready /\ fl_state' = fl_state
    BY <1>5 DEF Beat, Unaccepted
  <2>2. CASE fifo.count # 0 /\ ~w.valid
    <3>1. w' = [valid |-> TRUE, data |-> fifo.data[fifo.rd_ptr % 2], last |-> LastBeat]
      BY <2>1, <2>2
    <3>2. fifo.count >= 1
      BY <1>1, <2>2
    <3>3. QED
      BY <1>1, <1>2, <1>3, <1>5, <2>1, <2>2, <3>1, <3>2
  <2>3. CASE ~(fifo.count # 0 /\ ~w.valid)
    <3>1. w' = w
      BY <2>1, <2>3
    <3>2. w.valid => fifo.count >= 1 /\ (w.last <=> wr_beat_cnt = req.cols)
      BY DEF IInv, BurstInv
    <3>3. QED
      BY <1>1, <1>5, <2>1, <3>1, <3>2
  <2>4. QED
    BY <2>2, <2>3
<1>6. QED
  BY <1>4, <1>5

\* The burst follows the beats: one more with each, none answered before its end.
LEMMA StreamBurst ==
  ASSUME IInv, Streaming, NEW awready \in BOOLEAN, NEW wready \in BOOLEAN,
         NEW bvalid \in BOOLEAN, Edge(awready, wready, bvalid)
  PROVE  /\ WHandshake(wready) => /\ burst' # NONE /\ burst'.len = req.cols
                                  /\ burst'.beat = wr_beat_cnt + 1
         /\ ~WHandshake(wready) => burst' = burst
<1>1. /\ burst # NONE /\ burst \in Burst /\ burst.len = req.cols /\ burst.beat = wr_beat_cnt
      /\ awvalid = FALSE /\ wr_beat_cnt <= req.cols
  BY DEF IInv, TypeOK, BurstInv, CountInv, Streaming
<1>2. ~Complete
  <2>1. wr_beat_cnt \in Int /\ req.cols \in Int
    BY Sizes DEF IInv, TypeOK, Request
  <2>2. QED
    BY <1>1, <2>1 DEF Complete
<1>3. ~AwHandshake(awready) /\ ~BHandshake(bvalid)
  BY <1>1, <1>2 DEF AwHandshake, BHandshake, Edge, Slave
<1>4. CASE WHandshake(wready)
  <2>1. burst' = [burst EXCEPT !.beat = @ + 1]
    BY <1>3, <1>4 DEF Edge, Slave
  <2>2. burst' \in Burst /\ burst'.len = req.cols /\ burst'.beat = wr_beat_cnt + 1
    BY <1>1, <2>1 DEF Burst
  <2>3. QED
    BY <1>4, <2>2, NoneAssumption
<1>5. CASE ~WHandshake(wready)
  BY <1>3, <1>5 DEF Edge, Slave
<1>6. QED
  BY <1>4, <1>5

\* After the last beat nothing is queued, asked for or on its way.
LEMMA StreamEnds ==
  ASSUME IInv, Streaming, w.valid, LastBeat
  PROVE  /\ fifo.count = 1 /\ ~rd_inflight /\ rd_done /\ ~MayRead
         /\ uram_rd = NONE /\ Empty
<1>1. wr_beat_cnt = req.cols /\ fifo.count >= 1 /\ fifo.count \in 0 .. 3 /\ req.cols \in Nat
  BY Sizes DEF LastBeat, IInv, BurstInv, TypeOK, Request
<1>2. Issued <= req.cols + 1 /\ (rd_done <=> Issued = req.cols + 1)
  BY DEF IInv, CountInv
<1>3. fifo.count = 1 /\ Inflight = 0 /\ Issued = req.cols + 1
  BY <1>1, <1>2 DEF Issued, Inflight
<1>4. ~rd_inflight /\ rd_done
  BY <1>2, <1>3 DEF Inflight
<1>5. QED
  BY <1>3, <1>4 DEF MayRead, IInv, FlightInv

LEMMA StreamStep ==
  ASSUME IInv, NEW awready \in BOOLEAN, NEW wready \in BOOLEAN, NEW bvalid \in BOOLEAN,
         Stream(wready), Edge(awready, wready, bvalid)
  PROVE  IInv'
<1>1. /\ Streaming /\ IssueRead /\ Reading /\ Queue(wready) /\ Beat(wready) /\ UramPort
      /\ TypeOK /\ FlightInv /\ QueueInv /\ CountInv /\ BurstInv
      /\ done' = FALSE /\ req' = req /\ cur_row' = cur_row /\ hbm_addr' = hbm_addr
      /\ awvalid' = awvalid
  BY DEF Stream, Streaming, Edge, IInv
<1>2. PICK n : /\ n = (IF MayRead THEN Issued + 1 ELSE Issued) /\ n \in Nat
               /\ n <= req.cols + 1
               /\ rd_col_cnt' = Column(req.start_col + n) /\ rd_col_cnt' \in 0 .. COL_MAX - 1
               /\ rd_done' <=> n = req.cols + 1
               /\ rd_done' \in BOOLEAN
               /\ uram_rd' \in ((0 .. ROW_MAX - 1) \X (0 .. COL_MAX - 1)) \cup {NONE}
               /\ uram_rd' # NONE <=> MayRead
  BY <1>1, StreamReads
<1>3. rd_inflight' = (IF uram_rd_valid THEN FALSE ELSE rd_inflight \/ MayRead)
      /\ rd_inflight' \in BOOLEAN
  BY <1>1, <1>2 DEF Reading, TypeOK
<1>4. /\ fifo'.count = fifo.count + Pushed - Popped(wready) /\ fifo'.count \in 0 .. 2
      /\ fifo'.count = (fifo'.wr_ptr - fifo'.rd_ptr) % 4
      /\ fifo' \in [data : [{0, 1} -> Cell], wr_ptr : 0 .. 3, rd_ptr : 0 .. 3, count : 0 .. 3]
  BY <1>1, StreamQueue
<1>5. /\ uram_rd_valid => rd_inflight /\ ~Empty /\ uram_rd = NONE
      /\ MayRead => ~rd_inflight /\ ~uram_rd_valid /\ uram_rd = NONE /\ Empty
  BY <1>1, StreamFlight
<1>6. /\ Empty' <=> uram_rd = NONE /\ (uram_rd_valid \/ Empty)
      /\ \A s, t \in 1 .. RD_LATENCY : rd_pipe[s]' # NONE /\ rd_pipe[t]' # NONE => s = t
      /\ rd_pipe' \in [1 .. RD_LATENCY -> Cell]
  BY <1>1, PipeStep
<1>7. wr_beat_cnt' \in 0 .. COL_MAX - 1 /\ fl_state' \in {"FL_RD_URAM", "FL_WR_RESP"}
  BY <1>1, StreamBeats DEF TypeOK, Streaming
<1>8. TypeOK'
  BY <1>1, <1>2, <1>3, <1>4, <1>6, <1>7, StreamBeats, EdgeTypes DEF TypeOK
<1>9. CASE WHandshake(wready) /\ LastBeat
  <2>1. /\ fifo.count = 1 /\ ~rd_inflight /\ ~MayRead /\ uram_rd = NONE /\ Empty
        /\ fl_state' = "FL_WR_RESP" /\ w'.valid = FALSE
    BY <1>1, <1>9, StreamEnds, StreamBeats DEF WHandshake
  <2>2. ~uram_rd_valid /\ uram_rd' = NONE /\ Empty' /\ ~rd_inflight'
    BY <1>2, <1>3, <1>5, <1>6, <2>1
  <2>3. fifo'.count = 0
    BY <1>4, <1>9, <2>1, <2>2 DEF Pushed, Popped
  <2>4. ~Streaming'
    BY <2>1 DEF Streaming
  <2>5. FlightInv'
    BY <1>6, <2>2, <2>4 DEF FlightInv
  <2>6. QueueInv' /\ CountInv'
    BY <1>4, <2>2, <2>3, <2>4 DEF QueueInv, CountInv
  <2>7. BurstInv'
    BY <1>1, <2>1, <2>4 DEF BurstInv, Streaming
  <2>8. QED
    BY <1>8, <2>5, <2>6, <2>7 DEF IInv
<1>10. CASE ~(WHandshake(wready) /\ LastBeat)
  <2>1. fl_state' = "FL_RD_URAM" /\ Streaming'
    BY <1>1, <1>10, StreamBeats DEF Streaming
  <2>2. FlightInv'
    <3>1. rd_inflight' <=> uram_rd' # NONE \/ ~Empty'
      <4>1. rd_inflight <=> uram_rd # NONE \/ ~Empty
        BY <1>1 DEF FlightInv
      <4>2. CASE uram_rd_valid
        BY <1>2, <1>3, <1>5, <1>6, <4>2
      <4>3. CASE ~uram_rd_valid
        BY <1>2, <1>3, <1>6, <4>1, <4>3
      <4>4. QED
        BY <4>2, <4>3
    <3>2. uram_rd' # NONE => Empty'
      BY <1>2, <1>5, <1>6
    <3>3. QED
      BY <1>6, <2>1, <3>1, <3>2 DEF FlightInv
  <2>3. QueueInv'
    <3>1. rd_inflight' => fifo'.count <= 1
      <4>1. fifo.count \in 0 .. 2 /\ (rd_inflight \/ MayRead => fifo.count <= 1)
        BY <1>1 DEF QueueInv, TypeOK, MayRead
      <4>2. rd_inflight' => Pushed = 0 /\ fifo.count <= 1
        BY <1>3, <4>1 DEF Pushed
      <4>3. Popped(wready) \in {0, 1}
        BY DEF Popped
      <4>4. QED
        BY <1>4, <4>1, <4>2, <4>3
    <3>2. QED
      BY <1>4, <2>1, <3>1 DEF QueueInv
  <2>4. /\ wr_beat_cnt' = wr_beat_cnt + Popped(wready) /\ wr_beat_cnt' <= req.cols
    <3>1. wr_beat_cnt \in Nat /\ wr_beat_cnt <= req.cols
      BY <1>1 DEF TypeOK, CountInv
    <3>2. CASE WHandshake(wready)
      <4>1. Popped(wready) = 1 /\ ~LastBeat
        BY <1>10, <3>2 DEF Popped
      <4>2. wr_beat_cnt' = wr_beat_cnt + 1 /\ wr_beat_cnt' <= req.cols
        BY <1>1, <3>2, <4>1, StreamBeats
      <4>3. QED
        BY <4>1, <4>2
    <3>3. CASE ~WHandshake(wready)
      <4>1. Popped(wready) = 0 /\ wr_beat_cnt' = wr_beat_cnt
        BY <1>1, <3>3, StreamBeats DEF Popped
      <4>2. QED
        BY <3>1, <4>1
    <3>4. QED
      BY <3>2, <3>3
  <2>5. Issued' = n
    <3>1. fifo.count \in Nat /\ wr_beat_cnt \in Nat /\ Popped(wready) \in {0, 1}
      BY <1>1 DEF TypeOK, Popped
    <3>2. Inflight' = IF uram_rd_valid THEN 0 ELSE IF MayRead THEN 1 ELSE Inflight
      BY <1>3 DEF Inflight
    <3>3. uram_rd_valid => Inflight = 1 /\ ~MayRead
      BY <1>5 DEF Inflight
    <3>4. MayRead => Inflight = 0
      BY <1>5 DEF Inflight
    <3>5. Issued' = wr_beat_cnt' + fifo'.count + Inflight'
      BY DEF Issued
    <3>6. Pushed = IF uram_rd_valid THEN 1 ELSE 0
      BY DEF Pushed
    <3>7. Inflight \in {0, 1} /\ Issued = wr_beat_cnt + fifo.count + Inflight
      BY DEF Inflight, Issued
    <3>8. QED
      BY <1>2, <1>4, <2>4, <3>1, <3>2, <3>3, <3>4, <3>5, <3>6, <3>7
  <2>6. CountInv'
    BY <1>1, <1>2, <2>4, <2>5 DEF CountInv
  <2>7. BurstInv'
    <3>1. awvalid' = FALSE
      BY <1>1 DEF BurstInv, TypeOK, Streaming
    <3>2. burst' # NONE /\ burst'.len = req'.cols /\ burst'.beat = wr_beat_cnt'
      <4>1. CASE WHandshake(wready)
        BY <1>1, <2>4, <4>1, StreamBurst DEF Popped
      <4>2. CASE ~WHandshake(wready)
        <5>1. wr_beat_cnt' = wr_beat_cnt
          BY <1>1, <4>2, StreamBeats
        <5>2. QED
          BY <1>1, <4>2, <5>1, StreamBurst DEF BurstInv
      <4>3. QED
        BY <4>1, <4>2
    <3>3. w'.valid => fifo'.count >= 1 /\ (w'.last <=> wr_beat_cnt' = req'.cols)
      <4>1. w'.valid => ~WHandshake(wready)
        BY <1>1, StreamBeats
      <4>2. w'.valid => /\ wr_beat_cnt' = wr_beat_cnt /\ fifo.count >= 1
                        /\ w'.last <=> wr_beat_cnt = req.cols
        BY <1>1, <4>1, StreamBeats
      <4>3. fifo.count \in Nat /\ Pushed \in {0, 1}
        BY <1>1 DEF TypeOK, Pushed
      <4>4. w'.valid => fifo'.count >= 1
        BY <1>4, <4>1, <4>2, <4>3 DEF Popped
      <4>5. QED
        BY <1>1, <4>2, <4>4
    <3>4. QED
      BY <2>1, <3>1, <3>2, <3>3 DEF BurstInv
  <2>8. QED
    BY <1>8, <2>2, <2>3, <2>6, <2>7 DEF IInv
<1>11. QED
  BY <1>9, <1>10

LEMMA NextInv == IInv /\ [Next]_flushVars => IInv'
<1> SUFFICES ASSUME IInv, [Next]_flushVars PROVE IInv'
  OBVIOUS
<1>1. CASE Next
  <2>1. PICK awready, wready, bvalid \in BOOLEAN :
          \/ IdleWait /\ Edge(awready, wready, bvalid)
          \/ IdleStart /\ Edge(awready, wready, bvalid)
          \/ Address(awready) /\ Edge(awready, wready, bvalid)
          \/ Stream(wready) /\ Edge(awready, wready, bvalid)
          \/ Respond(bvalid) /\ Edge(awready, wready, bvalid)
          \/ Finish /\ Edge(awready, wready, bvalid)
    BY <1>1 DEF Next
  <2>2. QED
    BY <2>1, IdleWaitStep, IdleStartStep, AddressStep, StreamStep, RespondStep, FinishStep
<1>2. CASE UNCHANGED flushVars
  BY <1>2 DEF flushVars, counters, IInv, TypeOK, FlightInv, QueueInv, CountInv, BurstInv,
              Streaming, Empty, Issued, Inflight
<1>3. QED
  BY <1>1, <1>2

LEMMA Invariance == Spec => []IInv
  BY InitInv, NextInv, PTL DEF Spec

-----------------------------------------------------------------------------
(* The theorems.                                                           *)

\* Every register of the mover keeps a value of its width.
THEOREM TypeCorrect == Spec => []TypeOK
<1>1. IInv => TypeOK
  BY DEF IInv
<1>2. QED
  BY <1>1, Invariance, PTL

\* The two-entry queue of uram_flush.v holds what was pushed and not popped and
\* never overflows, whatever the read latency and however long the slave stalls.
THEOREM QueueExact == Spec => []FifoExact
<1>1. IInv => FifoExact
  <2>1. ASSUME IInv, fifo.count = 2 PROVE ~rd_inflight
    BY <2>1 DEF IInv, QueueInv
  <2>2. QED
    BY <2>1 DEF IInv, QueueInv, FifoExact
<1>2. QED
  BY <1>1, Invariance, PTL

\* wlast marks the last beat of the burst announced with awlen, and no other:
\* the mover counts beats in wr_beat_cnt, the slave from the handshakes.
THEOREM BurstsExact == Spec => []LastIsLast
<1>1. IInv => LastIsLast
  BY DEF IInv, BurstInv, LastIsLast, Streaming
<1>2. QED
  BY <1>1, Invariance, PTL

\* An address or a beat that was shown stays as it is until the slave takes it.
THEOREM WriteChannelStable == Spec => AxiStable
<1>1. ASSUME IInv, [Next]_flushVars
      PROVE  [/\ awvalid /\ awvalid' => hbm_addr' = hbm_addr
              /\ awvalid /\ ~awvalid' => burst' # NONE
              /\ w.valid /\ w'.valid => w' = w /\ hbm' = hbm
              /\ w.valid /\ ~w'.valid => burst' # burst]_flushVars
  <2>1. CASE Next
    <3>1. PICK awready, wready, bvalid \in BOOLEAN :
            /\ Edge(awready, wready, bvalid)
            /\ \/ IdleWait \/ IdleStart \/ Address(awready)
               \/ Stream(wready) \/ Respond(bvalid) \/ Finish
      BY <2>1 DEF Next
    <3>2. CASE awvalid
      <4>1. fl_state = "FL_AW" /\ ~w.valid
        BY <1>1, <3>2 DEF IInv, BurstInv, Streaming
      <4>2. Address(awready)
        BY <3>1, <4>1 DEF IdleWait, IdleStart, Stream, Respond, Finish
      <4>3. hbm_addr' = hbm_addr
        BY <4>2 DEF Address
      <4>4. ASSUME ~awvalid' PROVE burst' # NONE
        <5>1. AwHandshake(awready)
          BY <4>2, <4>4 DEF Address
        <5>2. burst' = [addr |-> hbm_addr, len |-> req.cols, beat |-> 0]
          BY <3>1, <5>1 DEF Edge, Slave
        <5>3. hbm_addr \in Nat /\ req.cols \in Nat
          BY <1>1, Sizes DEF IInv, TypeOK, Request
        <5>4. QED
          BY <5>2, <5>3, NoneAssumption DEF Burst
      <4>5. QED
        BY <3>2, <4>1, <4>3, <4>4
    <3>3. CASE ~awvalid /\ w.valid
      <4>1. Streaming
        BY <1>1, <3>3 DEF IInv, BurstInv
      <4>2. Stream(wready)
        BY <3>1, <4>1 DEF IdleWait, IdleStart, Address, Respond, Finish, Streaming
      <4>3. Beat(wready)
        BY <4>2 DEF Stream
      <4>4. CASE WHandshake(wready)
        <5>1. w'.valid = FALSE
          BY <1>1, <4>1, <4>3, <4>4, StreamBeats
        <5>2. burst'.beat = wr_beat_cnt + 1 /\ burst.beat = wr_beat_cnt /\ wr_beat_cnt \in Nat
          BY <1>1, <3>1, <4>1, <4>4, StreamBurst DEF IInv, BurstInv, TypeOK
        <5>3. burst' # burst
          BY <5>2
        <5>4. QED
          BY <3>3, <5>1, <5>3
      <4>5. CASE ~WHandshake(wready)
        <5>1. w' = w
          BY <1>1, <3>3, <4>1, <4>3, <4>5, StreamBeats
        <5>2. hbm' = hbm
          BY <3>1, <4>5 DEF Edge, Slave
        <5>3. QED
          BY <3>3, <5>1, <5>2
      <4>6. QED
        BY <4>4, <4>5
    <3>4. QED
      BY <3>2, <3>3
  <2>2. CASE UNCHANGED flushVars
    BY <2>2
  <2>3. QED
    BY <1>1, <2>1, <2>2
<1>2. QED
  BY <1>1, Invariance, PTL DEF Spec, AxiStable

-----------------------------------------------------------------------------
(* The words on their way.                                                 *)

\* Word n of the row being flushed.
RowWord(n) == <<cur_row, Column(req.start_col + n), uram_gen>>

\* A flush stays with the request it began with, and walks its rows.
RowInv ==
  /\ fl_state # "FL_IDLE" =>
       /\ start = NONE /\ ~done /\ req \in Requests
       /\ cur_row <= req.rows /\ hbm_addr = req.base + cur_row * req.stride
  /\ fl_state = "FL_DONE" => cur_row = req.rows

\* The queue, the pipe behind it and the beat shown hold the words of the row in
\* their order, from the one that is to be written next.
WordInv ==
  Streaming =>
    /\ burst.addr = hbm_addr
    /\ fifo.count >= 1 => fifo.data[fifo.rd_ptr % 2] = RowWord(wr_beat_cnt)
    /\ fifo.count = 2 => fifo.data[(fifo.rd_ptr + 1) % 2] = RowWord(wr_beat_cnt + 1)
    /\ uram_rd # NONE =>
         uram_rd = <<cur_row, Column(req.start_col + (wr_beat_cnt + fifo.count))>>
    /\ \A s \in 1 .. RD_LATENCY :
         rd_pipe[s] # NONE => rd_pipe[s] = RowWord(wr_beat_cnt + fifo.count)
    /\ w.valid => w.data = RowWord(wr_beat_cnt)

CopyInv == IInv /\ RowInv /\ WordInv

\* The row's registers and the URAM stay as they are while a flush works.
LEMMA RowStays ==
  ASSUME IInv, RowInv, NEW awready \in BOOLEAN, NEW wready \in BOOLEAN, NEW bvalid \in BOOLEAN,
         Edge(awready, wready, bvalid), fl_state # "FL_IDLE"
  PROVE  start' = NONE /\ uram_gen' = uram_gen
BY DEF RowInv, Edge, Controller

LEMMA InitCopyInv == Init => CopyInv
<1> SUFFICES ASSUME Init PROVE CopyInv
  OBVIOUS
<1>1. RowInv /\ WordInv
  BY DEF Init, RowInv, WordInv, Streaming
<1> QED BY <1>1, InitInv DEF CopyInv

\* The word the pipe delivers goes behind those queued.
LEMMA QueueWords ==
  ASSUME IInv, WordInv, Streaming, NEW wready \in BOOLEAN, Queue(wready)
  PROVE  /\ fifo'.count >= 1 =>
              fifo'.data[fifo'.rd_ptr % 2] = RowWord(wr_beat_cnt + Popped(wready))
         /\ fifo'.count = 2 =>
              fifo'.data[(fifo'.rd_ptr + 1) % 2] = RowWord(wr_beat_cnt + Popped(wready) + 1)
<1>1. /\ fifo.wr_ptr \in 0 .. 3 /\ fifo.rd_ptr \in 0 .. 3 /\ fifo.count \in 0 .. 2
      /\ fifo.count = (fifo.wr_ptr - fifo.rd_ptr) % 4 /\ fifo.data \in [{0, 1} -> Cell]
      /\ wr_beat_cnt \in Nat
  BY Sizes DEF IInv, TypeOK, QueueInv
<1>2. Pushed \in {0, 1} /\ (Pushed = 1 => fifo.count <= 1)
  BY <1>1, StreamFlight DEF Pushed, IInv, QueueInv
<1>3. Popped(wready) \in {0, 1} /\ (Popped(wready) = 1 => fifo.count >= 1)
  BY <1>1 DEF Popped, WHandshake, IInv, BurstInv
<1>4. /\ fifo'.rd_ptr = (fifo.rd_ptr + Popped(wready)) % 4
      /\ Pushed = 0 => fifo'.data = fifo.data
      /\ Pushed = 1 => fifo'.data = [fifo.data EXCEPT ![fifo.wr_ptr % 2] = uram_rd_data]
  BY DEF Queue, Wrap2, Pushed, Popped
<1>5. fifo'.count = fifo.count + Pushed - Popped(wready)
  BY StreamQueue
<1>6. Pushed = 1 => uram_rd_data = RowWord(wr_beat_cnt + fifo.count)
  BY Sizes DEF WordInv, Pushed, uram_rd_valid, uram_rd_data
<1>7. /\ fifo.count >= 1 => fifo.data[fifo.rd_ptr % 2] = RowWord(wr_beat_cnt)
      /\ fifo.count = 2 => fifo.data[(fifo.rd_ptr + 1) % 2] = RowWord(wr_beat_cnt + 1)
  BY DEF WordInv
<1>8. /\ fifo.rd_ptr % 2 \in {0, 1} /\ (fifo.rd_ptr + 1) % 2 \in {0, 1}
      /\ fifo.rd_ptr % 2 # (fifo.rd_ptr + 1) % 2
      /\ (fifo.rd_ptr + 2) % 2 = fifo.rd_ptr % 2
      /\ ((fifo.rd_ptr + 1) % 4) % 2 = (fifo.rd_ptr + 1) % 2
      /\ (((fifo.rd_ptr + 1) % 4) + 1) % 2 = fifo.rd_ptr % 2
      /\ fifo.rd_ptr % 4 = fifo.rd_ptr
  BY <1>1, SMTT(30)
<1>9. fifo.wr_ptr % 2 = (fifo.rd_ptr + fifo.count) % 2
  BY <1>1, SMTT(30)
<1>10. CASE Popped(wready) = 0
  BY <1>1, <1>2, <1>4, <1>5, <1>6, <1>7, <1>8, <1>9, <1>10
<1>11. CASE Popped(wready) = 1
  BY <1>1, <1>2, <1>3, <1>4, <1>5, <1>6, <1>7, <1>8, <1>9, <1>11
<1> QED BY <1>3, <1>10, <1>11

\* A word asked for is the next one after those queued, and stays so in the pipe.
LEMMA PipeWords ==
  ASSUME IInv, WordInv, Streaming, IssueRead, UramPort
  PROVE  LET n == wr_beat_cnt + fifo.count + Pushed
         IN  /\ uram_rd' # NONE => uram_rd' = <<cur_row, Column(req.start_col + n)>>
             /\ \A s \in 1 .. RD_LATENCY : rd_pipe'[s] # NONE => rd_pipe'[s] = RowWord(n)
<1> DEFINE k == wr_beat_cnt + fifo.count
<1>1. wr_beat_cnt \in Nat /\ fifo.count \in Nat /\ k \in Nat
  BY Sizes DEF IInv, TypeOK
<1>2. /\ uram_rd_valid => rd_inflight /\ ~Empty /\ uram_rd = NONE
      /\ MayRead => ~rd_inflight /\ ~uram_rd_valid /\ uram_rd = NONE /\ Empty
  BY StreamFlight DEF IInv
<1>3. uram_rd' # NONE =>
        Pushed = 0 /\ uram_rd' = <<cur_row, Column(req.start_col + (k + Pushed))>>
  <2> SUFFICES ASSUME uram_rd' # NONE
               PROVE  Pushed = 0
                      /\ uram_rd' = <<cur_row, Column(req.start_col + (k + Pushed))>>
    OBVIOUS
  <2>1. MayRead /\ uram_rd' = <<cur_row, rd_col_cnt>>
    BY DEF IssueRead
  <2>2. Pushed = 0 /\ Inflight = 0
    BY <1>2, <2>1 DEF Pushed, Inflight
  <2>3. Issued = k + Pushed
    BY <1>1, <2>2 DEF Issued
  <2>4. rd_col_cnt = Column(req.start_col + Issued)
    BY DEF IInv, CountInv
  <2> QED BY <2>1, <2>2, <2>3, <2>4
<1>4. ASSUME NEW s \in 1 .. RD_LATENCY, rd_pipe'[s] # NONE
      PROVE  rd_pipe'[s] = RowWord(k + Pushed)
  <2>1. CASE s = 1
    <3>1. uram_rd # NONE /\ rd_pipe'[1] = uram[uram_rd]
      BY <1>4, <2>1 DEF UramPort
    <3>2. Pushed = 0
      BY <1>2, <3>1 DEF Pushed
    <3>3. uram_rd = <<cur_row, Column(req.start_col + k)>>
          /\ uram_rd \in (0 .. ROW_MAX - 1) \X (0 .. COL_MAX - 1)
      BY <3>1 DEF WordInv, IInv, TypeOK
    <3>4. rd_pipe'[1] = <<cur_row, Column(req.start_col + k), uram_gen>>
      BY <3>1, <3>3 DEF uram
    <3> QED BY <1>1, <2>1, <3>2, <3>4 DEF RowWord
  <2>2. CASE s # 1
    <3>1. s - 1 \in 1 .. RD_LATENCY /\ s - 1 # RD_LATENCY /\ RD_LATENCY \in 1 .. RD_LATENCY
      BY <2>2, Sizes
    <3>2. rd_pipe'[s] = rd_pipe[s - 1]
      BY <2>2 DEF UramPort
    <3>3. ~uram_rd_valid
      BY <1>4, <3>1, <3>2 DEF IInv, FlightInv, uram_rd_valid
    <3>4. rd_pipe[s - 1] = RowWord(k)
      BY <1>4, <3>1, <3>2 DEF WordInv
    <3> QED BY <1>1, <3>2, <3>3, <3>4 DEF Pushed
  <2> QED BY <2>1, <2>2
<1> QED BY <1>3, <1>4

\* The beat shown is the queue's oldest word.
LEMMA BeatWord ==
  ASSUME IInv, WordInv, Streaming, NEW wready \in BOOLEAN, Beat(wready), w'.valid
  PROVE  ~WHandshake(wready) /\ w'.data = RowWord(wr_beat_cnt)
<1>1. ~WHandshake(wready)
  BY StreamBeats
<1>2. CASE w.valid
  BY <1>1, <1>2, StreamBeats DEF WordInv
<1>3. CASE ~w.valid
  <2>1. w' = IF fifo.count # 0 THEN [valid |-> TRUE, data |-> fifo.data[fifo.rd_ptr % 2],
                                     last |-> LastBeat]
             ELSE w
    BY <1>1, <1>3 DEF Beat, Unaccepted
  <2>2. fifo.count # 0 /\ fifo.count \in 0 .. 3
    BY <1>3, <2>1 DEF IInv, TypeOK
  <2> QED BY <1>1, <2>1, <2>2 DEF WordInv
<1> QED BY <1>2, <1>3

LEMMA StreamWords ==
  ASSUME CopyInv, NEW awready \in BOOLEAN, NEW wready \in BOOLEAN, NEW bvalid \in BOOLEAN,
         Stream(wready), Edge(awready, wready, bvalid)
  PROVE  RowInv' /\ WordInv'
<1>1. /\ Streaming /\ IssueRead /\ Queue(wready) /\ Beat(wready) /\ UramPort
      /\ IInv /\ RowInv /\ WordInv /\ done' = FALSE /\ req' = req /\ cur_row' = cur_row
      /\ hbm_addr' = hbm_addr
  BY DEF Stream, Streaming, Edge, CopyInv
<1>2. start' = NONE /\ uram_gen' = uram_gen
  BY <1>1, RowStays DEF Streaming
<1>3. fl_state' \in {"FL_RD_URAM", "FL_WR_RESP"}
  BY <1>1, StreamBeats DEF Streaming
<1>4. RowInv'
  BY <1>1, <1>2, <1>3 DEF RowInv, Streaming
<1>5. ASSUME Streaming' PROVE WordInv'
  <2>1. /\ wr_beat_cnt' = wr_beat_cnt + Popped(wready)
        /\ fifo'.count = fifo.count + Pushed - Popped(wready)
        /\ wr_beat_cnt \in Nat /\ fifo.count \in Nat /\ Pushed \in Nat /\ Popped(wready) \in Nat
    <3>1. WHandshake(wready) => ~LastBeat
      BY <1>1, <1>5, StreamBeats DEF Streaming
    <3>2. wr_beat_cnt' = wr_beat_cnt + Popped(wready)
      <4>1. wr_beat_cnt \in Nat
        BY <1>1, Sizes DEF IInv, TypeOK
      <4>2. CASE WHandshake(wready)
        BY <1>1, <3>1, <4>2, StreamBeats DEF Popped
      <4>3. CASE ~WHandshake(wready)
        <5>1. wr_beat_cnt' = wr_beat_cnt /\ Popped(wready) = 0
          BY <1>1, <4>3, StreamBeats DEF Popped
        <5> QED BY <4>1, <5>1
      <4> QED BY <4>2, <4>3
    <3> QED BY <1>1, <3>2, StreamQueue, Sizes DEF Pushed, Popped, IInv, TypeOK
  <2>2. wr_beat_cnt' + fifo'.count = wr_beat_cnt + fifo.count + Pushed
    BY <2>1
  <2>3. burst'.addr = hbm_addr'
    <3>1. burst \in Burst /\ burst.addr = hbm_addr
      BY <1>1 DEF WordInv, IInv, TypeOK, BurstInv
    <3>2. burst' = burst \/ burst' = [burst EXCEPT !.beat = @ + 1]
      <4>1. ~awvalid /\ burst.beat = wr_beat_cnt /\ burst.len = req.cols
            /\ wr_beat_cnt <= req.cols
        BY <1>1 DEF IInv, BurstInv, CountInv, Streaming
      <4>2. ~Complete
        BY <1>1, <4>1, Sizes DEF Complete, IInv, TypeOK, Request
      <4> QED BY <1>1, <4>1, <4>2 DEF Edge, Slave, AwHandshake, BHandshake
    <3> QED BY <1>1, <3>1, <3>2 DEF Burst
  <2>4. /\ fifo'.count >= 1 => fifo'.data[fifo'.rd_ptr % 2] = RowWord(wr_beat_cnt)'
        /\ fifo'.count = 2 => fifo'.data[(fifo'.rd_ptr + 1) % 2] = RowWord(wr_beat_cnt + 1)'
    BY <1>1, <1>2, <2>1, QueueWords DEF RowWord
  <2>5. /\ uram_rd' # NONE =>
             uram_rd' = <<cur_row', Column(req'.start_col + (wr_beat_cnt' + fifo'.count))>>
        /\ \A s \in 1 .. RD_LATENCY :
             rd_pipe'[s] # NONE => rd_pipe'[s] = RowWord(wr_beat_cnt + fifo.count)'
    BY <1>1, <1>2, <2>2, PipeWords DEF RowWord
  <2>6. w'.valid => w'.data = RowWord(wr_beat_cnt)'
    BY <1>1, <1>2, BeatWord, StreamBeats DEF RowWord
  <2> QED BY <2>3, <2>4, <2>5, <2>6 DEF WordInv
<1> QED BY <1>4, <1>5 DEF WordInv

LEMMA QuietWords ==
  ASSUME CopyInv, NEW awready \in BOOLEAN, NEW wready \in BOOLEAN, NEW bvalid \in BOOLEAN,
         Edge(awready, wready, bvalid),
         \/ IdleWait \/ IdleStart \/ Address(awready) \/ Respond(bvalid) \/ Finish
  PROVE  RowInv' /\ WordInv'
<1>1. IInv /\ RowInv /\ UramPort
  BY DEF CopyInv, Edge
<1>2. CASE IdleWait
  BY <1>2 DEF IdleWait, RowInv, WordInv, Streaming
<1>3. CASE IdleStart
  <2>1. start \in Requests /\ start # NONE
    BY <1>1, <1>3 DEF IdleStart, IInv, TypeOK
  <2>2. start.base \in Nat /\ start.stride \in Nat /\ start.rows \in Nat
    BY <2>1, FlushAssumption, Sizes DEF Request
  <2>3. start.base = start.base + 0 * start.stride /\ 0 <= start.rows
    BY <2>2
  <2>4. start' = NONE
    BY <1>3, <2>1 DEF Edge, Controller
  <2> QED BY <1>3, <2>1, <2>3, <2>4 DEF IdleStart, RowInv, WordInv, Streaming
<1>4. CASE Address(awready)
  <2>1. fl_state = "FL_AW" /\ done' = FALSE /\ req' = req /\ cur_row' = cur_row
        /\ hbm_addr' = hbm_addr /\ uram_rd' = NONE /\ w.valid = FALSE /\ w' = w
        /\ fl_state' \in {"FL_AW", "FL_RD_URAM"}
    BY <1>1, <1>4 DEF Address, IInv, BurstInv, TypeOK, Streaming
  <2>2. start' = NONE
    BY <1>1, <2>1, RowStays
  <2>3. RowInv'
    BY <1>1, <2>1, <2>2 DEF RowInv
  <2>4. ASSUME Streaming' PROVE WordInv'
    <3>1. AwHandshake(awready) /\ fifo'.count = 0
      BY <1>4, <2>1, <2>4 DEF Address, Streaming
    <3>2. burst'.addr = hbm_addr'
      BY <2>1, <3>1 DEF Edge, Slave
    <3>3. Empty'
      BY <1>1, <2>1, PipeStep DEF IInv, FlightInv, Streaming
    <3> QED BY <2>1, <3>1, <3>2, <3>3 DEF WordInv, Empty
  <2> QED BY <2>3, <2>4 DEF WordInv
<1>5. CASE Respond(bvalid)
  <2>1. /\ fl_state = "FL_WR_RESP" /\ done' = FALSE /\ req' = req
        /\ \/ fl_state' = "FL_WR_RESP" /\ cur_row' = cur_row /\ hbm_addr' = hbm_addr
           \/ /\ fl_state' = "FL_DONE" /\ cur_row' = cur_row /\ hbm_addr' = hbm_addr
              /\ cur_row = req.rows
           \/ /\ fl_state' = "FL_AW" /\ cur_row # req.rows
              /\ cur_row' = (cur_row + 1) % ROW_MAX /\ hbm_addr' = hbm_addr + req.stride
    BY <1>5 DEF Respond, NextRowAddr
  <2>2. start' = NONE
    BY <1>1, <2>1, RowStays
  <2>3. /\ cur_row \in 0 .. ROW_MAX - 1 /\ req.rows \in 0 .. ROW_MAX - 1
        /\ req.base \in Nat /\ req.stride \in Nat /\ ROW_MAX \in Nat
        /\ cur_row <= req.rows
        /\ hbm_addr = req.base + cur_row * req.stride
    BY <1>1, <2>1, Sizes DEF IInv, TypeOK, Request, RowInv
  <2>4. cur_row' <= req.rows /\ hbm_addr' = req.base + cur_row' * req.stride
    <3>1. CASE cur_row' = cur_row /\ hbm_addr' = hbm_addr
      BY <2>3, <3>1
    <3>2. CASE /\ cur_row # req.rows
               /\ cur_row' = (cur_row + 1) % ROW_MAX /\ hbm_addr' = hbm_addr + req.stride
      <4>1. cur_row + 1 < ROW_MAX /\ cur_row + 1 <= req.rows
        <5>1. /\ cur_row \in Nat /\ req.rows \in 0 .. ROW_MAX - 1 /\ ROW_MAX \in Nat
              /\ cur_row <= req.rows /\ cur_row # req.rows
          BY <2>3, <3>2
        <5> QED BY <5>1
      <4>2. cur_row' = cur_row + 1
        <5>1. cur_row + 1 \in 0 .. ROW_MAX + ROW_MAX - 1 /\ ROW_MAX \in Nat \ {0}
          BY <2>3
        <5> QED BY <3>2, <4>1, <5>1, ModStep
      <4>3. (cur_row + 1) * req.stride = cur_row * req.stride + req.stride
            /\ cur_row * req.stride \in Nat
        BY <2>3
      <4> QED BY <2>3, <3>2, <4>1, <4>2, <4>3
    <3> QED BY <2>1, <3>1, <3>2
  <2>5. RowInv'
    BY <1>1, <2>1, <2>2, <2>4 DEF RowInv
  <2> QED BY <2>1, <2>5 DEF WordInv, Streaming
<1>6. CASE Finish
  BY <1>6 DEF Finish, RowInv, WordInv, Streaming
<1> QED BY <1>2, <1>3, <1>4, <1>5, <1>6

LEMMA CopyNext == CopyInv /\ [Next]_flushVars => CopyInv'
<1> SUFFICES ASSUME CopyInv, [Next]_flushVars PROVE CopyInv'
  OBVIOUS
<1>1. IInv'
  BY NextInv DEF CopyInv
<1>2. CASE UNCHANGED flushVars
  BY <1>1, <1>2 DEF flushVars, counters, CopyInv, RowInv, WordInv, RowWord, Streaming
<1>3. CASE Next
  BY <1>1, <1>3, StreamWords, QuietWords DEF Next, CopyInv
<1> QED BY <1>2, <1>3

LEMMA CopyInvariance == Spec => []CopyInv
  BY InitCopyInv, CopyNext, PTL DEF Spec

-----------------------------------------------------------------------------
(* Every step of the mover is a step of RectCopy or a stutter.             *)

\* A move is its place in the rectangle.
LEMMA MovesByPlace ==
  ASSUME NEW r \in Requests
  PROVE  /\ \A m \in Moves(r) : \E i \in 0 .. r.rows, j \in 0 .. r.cols :
              m = [from |-> <<i, (r.start_col + j) % COL_MAX>>,
                   to |-> r.base + i * r.stride + j]
         /\ \A i \in 0 .. r.rows, j \in 0 .. r.cols :
              [from |-> <<i, (r.start_col + j) % COL_MAX>>,
               to |-> r.base + i * r.stride + j] \in Moves(r)
         /\ r \in Request
BY FlushAssumption DEF Moves

\* Where a move lies against the row under way.
LEMMA Rows ==
  ASSUME CopyInv, fl_state # "FL_IDLE", NEW m \in Moves(req)
  PROVE  \E j \in 0 .. req.cols :
           /\ m.from[1] \in 0 .. req.rows
           /\ m.from[1] = cur_row =>
                /\ m.to = hbm_addr + j
                /\ m.from = <<cur_row, (req.start_col + j) % COL_MAX>>
                /\ m = [from |-> <<cur_row, (req.start_col + j) % COL_MAX>>,
                        to |-> hbm_addr + j]
<1>1. req \in Requests /\ hbm_addr = req.base + cur_row * req.stride
  BY DEF CopyInv, RowInv
<1>2. PICK i \in 0 .. req.rows, j \in 0 .. req.cols :
        m = [from |-> <<i, (req.start_col + j) % COL_MAX>>,
             to |-> req.base + i * req.stride + j]
  BY <1>1, MovesByPlace
<1>3. m.from[1] = i
  BY <1>2
<1>4. i = cur_row => m = [from |-> <<cur_row, (req.start_col + j) % COL_MAX>>,
                          to |-> hbm_addr + j]
  BY <1>1, <1>2
<1>5. i = cur_row => /\ m.from = <<cur_row, (req.start_col + j) % COL_MAX>>
                     /\ m.to = hbm_addr + j
  BY <1>4
<1> QED BY <1>3, <1>4, <1>5

LEMMA InitCopies == Init => Copy!Init
BY DEF Init, Copy!Init

\* Outside the stream the slave's memory stays as it is.
LEMMA MemoryStays ==
  ASSUME IInv, NEW awready \in BOOLEAN, NEW wready \in BOOLEAN, NEW bvalid \in BOOLEAN,
         Edge(awready, wready, bvalid), ~WHandshake(wready)
  PROVE  hbm' = hbm
BY DEF Edge, Slave

LEMMA IdleWaitCopies ==
  ASSUME CopyInv, NEW awready \in BOOLEAN, NEW wready \in BOOLEAN, NEW bvalid \in BOOLEAN,
         IdleWait, Edge(awready, wready, bvalid)
  PROVE  [Copy!Next]_(Copy!copyVars)
<1>1. /\ fl_state = "FL_IDLE" /\ fl_state' = "FL_IDLE" /\ start = NONE /\ done' = FALSE
      /\ done \in BOOLEAN
  BY DEF IdleWait, CopyInv, IInv, TypeOK
<1>2. hbm' = hbm
  BY <1>1, MemoryStays DEF CopyInv, IInv, BurstInv, WHandshake, Streaming
<1>3. CASE start' # NONE
  BY <1>1, <1>2, <1>3 DEF Copy!Next, Copy!Show
<1>4. CASE start' = NONE
  <2>1. uram' = uram
    BY <1>4 DEF Edge, Controller, uram
  <2>2. CASE done
    BY <1>1, <1>2, <1>4, <2>1, <2>2 DEF Copy!Next, Copy!Rest
  <2>3. CASE ~done
    BY <1>1, <1>2, <1>4, <2>1, <2>3 DEF Copy!copyVars
  <2> QED BY <2>2, <2>3
<1> QED BY <1>3, <1>4

LEMMA IdleStartCopies ==
  ASSUME CopyInv, NEW awready \in BOOLEAN, NEW wready \in BOOLEAN, NEW bvalid \in BOOLEAN,
         IdleStart, Edge(awready, wready, bvalid)
  PROVE  Copy!Begin
<1>1. /\ fl_state = "FL_IDLE" /\ fl_state' = "FL_AW" /\ start # NONE /\ req' = start
      /\ cur_row' = 0 /\ hbm_addr' = start.base /\ done' = FALSE
  BY DEF IdleStart
<1>2. hbm' = hbm
  BY <1>1, MemoryStays DEF CopyInv, IInv, BurstInv, WHandshake, Streaming
<1>3. start' = NONE /\ uram' = uram
  BY <1>1 DEF Edge, Controller, uram
<1>4. Beats' = 0
  BY <1>1 DEF Beats
<1>5. \A m \in Moves(start) : ~(m.from[1] < 0) /\ ~(m.from[1] = 0 /\ m.to < start.base + 0)
  <2> TAKE m \in Moves(start)
  <2>1. start \in Requests
    BY <1>1 DEF CopyInv, IInv, TypeOK
  <2>2. PICK i \in 0 .. start.rows, j \in 0 .. start.cols :
          m = [from |-> <<i, (start.start_col + j) % COL_MAX>>,
               to |-> start.base + i * start.stride + j]
    BY <2>1, MovesByPlace
  <2>3. start.base \in Nat /\ start.stride \in Nat /\ i \in Nat /\ j \in Nat
    BY <2>1, MovesByPlace, Sizes DEF Request
  <2>4. m.from[1] = i /\ m.to = start.base + i * start.stride + j
    BY <2>2
  <2>5. i = 0 => m.to = start.base + j
    BY <2>3, <2>4
  <2> QED BY <2>3, <2>4, <2>5
<1>6. (Moves(req) \ Landed)' = Moves(start)
  BY <1>1, <1>4, <1>5 DEF Landed
<1> QED BY <1>1, <1>2, <1>3, <1>6 DEF Copy!Begin

\* An edge that transfers no beat changes nothing that RectCopy sees.
LEMMA Stutters ==
  ASSUME CopyInv, NEW awready \in BOOLEAN, NEW wready \in BOOLEAN, NEW bvalid \in BOOLEAN,
         Edge(awready, wready, bvalid), ~WHandshake(wready),
         fl_state # "FL_IDLE", fl_state' # "FL_IDLE", done' = FALSE, req' = req,
         \A m \in Moves(req) : (m \in Landed)' <=> m \in Landed
  PROVE  UNCHANGED Copy!copyVars
<1>1. done = FALSE /\ start = NONE
  BY DEF CopyInv, RowInv, IInv, TypeOK
<1>2. hbm' = hbm
  BY MemoryStays DEF CopyInv
<1>3. start' = NONE /\ uram' = uram
  BY RowStays DEF CopyInv, uram
<1>4. Moves(req)' = Moves(req)
  OBVIOUS
<1>5. (Moves(req) \ Landed)' = Moves(req) \ Landed
  BY <1>4
<1> QED BY <1>1, <1>2, <1>3, <1>5 DEF Copy!copyVars

LEMMA AddressCopies ==
  ASSUME CopyInv, NEW awready \in BOOLEAN, NEW wready \in BOOLEAN, NEW bvalid \in BOOLEAN,
         Address(awready), Edge(awready, wready, bvalid)
  PROVE  UNCHANGED Copy!copyVars
<1>1. /\ fl_state = "FL_AW" /\ fl_state' \in {"FL_AW", "FL_RD_URAM"} /\ req' = req
      /\ cur_row' = cur_row /\ hbm_addr' = hbm_addr /\ done' = FALSE
      /\ fl_state' = "FL_RD_URAM" => wr_beat_cnt' = 0
  BY DEF Address
<1>2. ~WHandshake(wready)
  BY <1>1 DEF CopyInv, IInv, BurstInv, WHandshake, Streaming
<1>3. Beats' = Beats
  BY <1>1 DEF Beats
<1>4. \A m \in Moves(req) : (m \in Landed)' <=> m \in Landed
  BY <1>1, <1>3 DEF Landed
<1> QED BY <1>1, <1>2, <1>4, Stutters

LEMMA RespondCopies ==
  ASSUME CopyInv, NEW awready \in BOOLEAN, NEW wready \in BOOLEAN, NEW bvalid \in BOOLEAN,
         Respond(bvalid), Edge(awready, wready, bvalid)
  PROVE  UNCHANGED Copy!copyVars
<1>1. /\ fl_state = "FL_WR_RESP" /\ fl_state' \in {"FL_WR_RESP", "FL_DONE", "FL_AW"}
      /\ req' = req /\ done' = FALSE
  BY DEF Respond
<1>2. ~WHandshake(wready)
  BY <1>1 DEF CopyInv, IInv, BurstInv, WHandshake, Streaming
<1>3. Beats = req.cols + 1
  BY <1>1 DEF Beats
<1>4. /\ req \in Requests /\ cur_row \in Nat /\ hbm_addr \in Nat /\ req.cols \in Nat
      /\ req.stride \in Nat /\ req.rows \in Nat /\ req.base \in Nat /\ cur_row' \in Nat
  <2>1. CopyInv'
    BY StreamWords, QuietWords, RespondStep DEF CopyInv
  <2> QED BY <1>1, <2>1, Sizes DEF CopyInv, IInv, TypeOK, RowInv, Request
<1>5. CASE fl_state' # "FL_AW"
  <2>1. cur_row' = cur_row /\ hbm_addr' = hbm_addr /\ Beats' = Beats
    BY <1>1, <1>3, <1>5 DEF Respond, Beats
  <2>2. \A m \in Moves(req) : (m \in Landed)' <=> m \in Landed
    BY <1>1, <2>1 DEF Landed
  <2> QED BY <1>1, <1>2, <2>2, Stutters
<1>6. CASE fl_state' = "FL_AW"
  <2>1. cur_row' = (cur_row + 1) % ROW_MAX /\ hbm_addr' = hbm_addr + req.stride
        /\ cur_row # req.rows /\ Beats' = 0
    BY <1>1, <1>6 DEF Respond, NextRowAddr, Beats
  <2>2. cur_row' = cur_row + 1
    <3>1. cur_row <= req.rows /\ req.rows \in 0 .. ROW_MAX - 1 /\ ROW_MAX \in Nat \ {0}
      BY <1>1, <1>4, Sizes, MovesByPlace DEF CopyInv, RowInv, Request
    <3>2. cur_row + 1 < ROW_MAX /\ cur_row + 1 \in 0 .. ROW_MAX + ROW_MAX - 1
      BY <1>4, <2>1, <3>1
    <3> QED BY <2>1, <3>1, <3>2, ModStep
  <2>3. ASSUME NEW m \in Moves(req) PROVE (m \in Landed)' <=> m \in Landed
    <3>1. PICK i \in 0 .. req.rows, j \in 0 .. req.cols :
            m = [from |-> <<i, (req.start_col + j) % COL_MAX>>,
                 to |-> req.base + i * req.stride + j]
      BY <1>4, MovesByPlace
    <3>2. m.from[1] = i /\ m.to = req.base + i * req.stride + j
      BY <3>1
    <3>3. m \in Landed <=> i <= cur_row
      <4>1. m \in Landed <=> \/ i < cur_row
                             \/ i = cur_row /\ m.to < hbm_addr + (req.cols + 1)
        BY <1>3, <3>2 DEF Landed
      <4>2. i = cur_row => m.to = hbm_addr + j
        BY <1>1, <3>2 DEF CopyInv, RowInv
      <4> QED BY <1>4, <4>1, <4>2
    <3>4. (m \in Landed)' <=> i <= cur_row
      <4>1. (m \in Landed)' <=> \/ i < cur_row'
                                \/ i = cur_row' /\ m.to < hbm_addr' + 0
        BY <1>1, <2>1, <3>2 DEF Landed
      <4>2. hbm_addr' = req.base + cur_row' * req.stride
        BY <1>1, QuietWords DEF RowInv
      <4>3. i = cur_row' => m.to = hbm_addr' + j
        BY <3>2, <4>2
      <4>4. hbm_addr' \in Nat
        BY <1>4, <2>1
      <4> QED BY <1>4, <2>2, <4>1, <4>3, <4>4
    <3> QED BY <3>3, <3>4
  <2> QED BY <1>1, <1>2, <2>3, Stutters
<1> QED BY <1>5, <1>6

\* A beat that is taken makes the next move of the row.
LEMMA StreamCopies ==
  ASSUME CopyInv, NEW awready \in BOOLEAN, NEW wready \in BOOLEAN, NEW bvalid \in BOOLEAN,
         Stream(wready), Edge(awready, wready, bvalid)
  PROVE  [Copy!Next]_(Copy!copyVars)
<1>1. /\ IInv /\ RowInv /\ WordInv /\ Streaming /\ fl_state # "FL_IDLE" /\ Beat(wready)
      /\ done' = FALSE /\ req' = req /\ cur_row' = cur_row /\ hbm_addr' = hbm_addr
  BY DEF Stream, Streaming, CopyInv
<1>2. /\ req \in Requests /\ cur_row \in Nat /\ cur_row <= req.rows /\ hbm_addr \in Nat
      /\ req.cols \in 0 .. COL_MAX - 1 /\ req.rows \in Nat /\ wr_beat_cnt \in Nat
      /\ wr_beat_cnt <= req.cols /\ req.start_col \in 0 .. COL_MAX - 1
      /\ hbm_addr = req.base + cur_row * req.stride /\ cur_row \in 0 .. ROW_MAX - 1
  BY <1>1, Sizes DEF RowInv, IInv, TypeOK, CountInv, Request
<1>3. Beats = wr_beat_cnt
  BY <1>1 DEF Beats, Streaming
<1>4. CASE ~WHandshake(wready)
  <2>1. fl_state' = fl_state /\ wr_beat_cnt' = wr_beat_cnt
    BY <1>1, <1>4, StreamBeats
  <2>2. \A m \in Moves(req) : (m \in Landed)' <=> m \in Landed
    BY <1>1, <2>1 DEF Landed, Beats
  <2>3. UNCHANGED Copy!copyVars
    BY <1>1, <1>4, <2>1, <2>2, Stutters
  <2> QED BY <2>3
<1>5. CASE WHandshake(wready)
  <2> DEFINE m == [from |-> <<cur_row, (req.start_col + wr_beat_cnt) % COL_MAX>>,
                   to |-> hbm_addr + wr_beat_cnt]
             todo == Moves(req) \ Landed
  <2>1. Beats' = wr_beat_cnt + 1 /\ fl_state' # "FL_IDLE"
    <3>1. CASE LastBeat
      BY <1>1, <1>5, <3>1, StreamBeats DEF Beats, LastBeat
    <3>2. CASE ~LastBeat
      BY <1>1, <1>5, <3>2, StreamBeats DEF Beats, Streaming
    <3> QED BY <3>1, <3>2
  <2>2. m \in Moves(req)
    <3>1. cur_row \in 0 .. req.rows /\ wr_beat_cnt \in 0 .. req.cols
      BY <1>2
    <3> QED BY <1>2, <3>1, MovesByPlace
  <2>3. m.from[1] = cur_row /\ m.to = hbm_addr + wr_beat_cnt
        /\ m.from = <<cur_row, (req.start_col + wr_beat_cnt) % COL_MAX>>
    OBVIOUS
  <2>4. m \in todo
    BY <1>2, <1>3, <2>2, <2>3 DEF Landed
  <2>5. \A n \in Moves(req) : (n \in Landed)' <=> n \in Landed \/ n = m
    <3> TAKE n \in Moves(req)
    <3>1. PICK j \in 0 .. req.cols :
            /\ n.from[1] \in 0 .. req.rows
            /\ n.from[1] = cur_row =>
                 /\ n.to = hbm_addr + j
                 /\ n = [from |-> <<cur_row, (req.start_col + j) % COL_MAX>>,
                         to |-> hbm_addr + j]
      BY <1>1, Rows
    <3>2. (n \in Landed)' <=> \/ n.from[1] < cur_row
                              \/ n.from[1] = cur_row /\ n.to < hbm_addr + (wr_beat_cnt + 1)
      BY <1>1, <2>1 DEF Landed
    <3>3. n \in Landed <=> \/ n.from[1] < cur_row
                           \/ n.from[1] = cur_row /\ n.to < hbm_addr + wr_beat_cnt
      BY <1>3 DEF Landed
    <3>4. CASE n.from[1] = cur_row
      <4>1. n = m <=> j = wr_beat_cnt
        <5>1. j = wr_beat_cnt => n = m
          BY <3>1, <3>4
        <5>2. n = m => j = wr_beat_cnt
          BY <1>2, <2>3, <3>1, <3>4
        <5> QED BY <5>1, <5>2
      <4>2. n.to = hbm_addr + j
        BY <3>1, <3>4
      <4> HIDE DEF m
      <4> QED BY <1>2, <3>2, <3>3, <3>4, <4>1, <4>2
    <3>5. CASE n.from[1] # cur_row
      <4>1. n # m
        BY <2>3, <3>5
      <4> HIDE DEF m
      <4> QED BY <3>2, <3>3, <3>5, <4>1
    <3> QED BY <3>4, <3>5
  <2>6. (Moves(req) \ Landed)' = todo \ {m}
    <3>1. Moves(req)' = Moves(req)
      BY <1>1
    <3> HIDE DEF m
    <3> QED BY <2>5, <3>1
  <2>7. hbm' = [hbm EXCEPT ![m.to] = uram[m.from]]
    <3>1. hbm' = [hbm EXCEPT ![burst.addr + burst.beat] = w.data]
      BY <1>5 DEF Edge, Slave
    <3>2. burst.addr = hbm_addr /\ burst.beat = wr_beat_cnt /\ w.data = RowWord(wr_beat_cnt)
      BY <1>1, <1>5 DEF WordInv, IInv, BurstInv, WHandshake, Streaming
    <3>3. (req.start_col + wr_beat_cnt) % COL_MAX = Column(req.start_col + wr_beat_cnt)
          /\ Column(req.start_col + wr_beat_cnt) \in 0 .. COL_MAX - 1
      <4>1. req.start_col + wr_beat_cnt \in 0 .. COL_MAX + COL_MAX - 1
        BY <1>2, Sizes
      <4> QED BY <4>1, ColumnMod
    <3>4. uram[m.from] = RowWord(wr_beat_cnt)
      BY <1>2, <2>3, <3>3 DEF uram, RowWord
    <3> QED BY <2>3, <3>1, <3>2, <3>4
  <2>8. start = NONE /\ start' = NONE /\ uram' = uram /\ done' = done
    <3>1. start = NONE /\ done = FALSE
      BY <1>1 DEF RowInv, IInv, TypeOK
    <3> QED BY <1>1, <3>1, RowStays DEF uram
  <2>9. Copy!Move
    <3> HIDE DEF m
    <3> QED BY <1>1, <2>1, <2>4, <2>6, <2>7, <2>8 DEF Copy!Move, Copy!Land
  <2> QED BY <2>9 DEF Copy!Next
<1> QED BY <1>4, <1>5

\* done is raised when no move is left.
LEMMA FinishCopies ==
  ASSUME CopyInv, NEW awready \in BOOLEAN, NEW wready \in BOOLEAN, NEW bvalid \in BOOLEAN,
         Finish, Edge(awready, wready, bvalid)
  PROVE  Copy!Finish
<1>1. /\ fl_state = "FL_DONE" /\ fl_state' = "FL_IDLE" /\ done' = TRUE
      /\ start = NONE /\ req \in Requests /\ cur_row = req.rows
  BY DEF Finish, CopyInv, RowInv
<1>2. start' = NONE /\ uram' = uram
  BY <1>1, RowStays DEF CopyInv, uram
<1>3. hbm' = hbm
  BY <1>1, MemoryStays DEF CopyInv, IInv, BurstInv, WHandshake, Streaming
<1>4. Moves(req) \ Landed = {}
  <2> SUFFICES ASSUME NEW n \in Moves(req) PROVE n \in Landed
    OBVIOUS
  <2>1. PICK j \in 0 .. req.cols :
          /\ n.from[1] \in 0 .. req.rows
          /\ n.from[1] = cur_row => n.to = hbm_addr + j
    BY <1>1, Rows
  <2>2. hbm_addr \in Nat /\ req.cols \in Nat /\ cur_row \in Nat
    BY <1>1, Sizes DEF CopyInv, IInv, TypeOK, Request
  <2>3. Beats = req.cols + 1
    BY <1>1 DEF Beats
  <2> QED BY <1>1, <2>1, <2>2, <2>3 DEF Landed
<1> QED BY <1>1, <1>2, <1>3, <1>4 DEF Copy!Finish

\* Every flush copies its rectangle of the URAM to HBM, each word once and no
\* other, and reports done after the last one: the safety part of CopiesRectangle.
THEOREM CopiesEachWordOnce == Spec => Copy!Spec
<1>1. CopyInv /\ [Next]_flushVars => [Copy!Next]_(Copy!copyVars)
  <2> SUFFICES ASSUME CopyInv, [Next]_flushVars PROVE [Copy!Next]_(Copy!copyVars)
    OBVIOUS
  <2>1. CASE UNCHANGED flushVars
    BY <2>1 DEF flushVars, counters, Copy!copyVars, uram, Landed, Beats
  <2>2. CASE Next
    BY <2>2, IdleWaitCopies, IdleStartCopies, AddressCopies, StreamCopies, RespondCopies,
       FinishCopies DEF Next, Copy!Next
  <2> QED BY <2>1, <2>2
<1> QED BY <1>1, InitCopies, CopyInvariance, PTL DEF Spec, Copy!Spec
=============================================================================
