------------------------------ MODULE UramFlush ------------------------------
(***************************************************************************)
(* The URAM-to-HBM block mover, rtl/uram_flush.v, between the read pipe of *)
(* rtl/uram_accum_buf.v and an AXI write slave.  Next is one clock edge.   *)
(* A word of the URAM is <<row, column, generation>>: the generation       *)
(* changes from one request to the next, as the URAM's contents do.        *)
(***************************************************************************)
EXTENDS Integers, Sequences, NoValue

CONSTANTS
  ROW_MAX, COL_MAX,   \* 2^ROW_W, 2^COL_W: the size of the URAM
  LEN_MAX,            \* 2^LEN_W
  RD_LATENCY,         \* stages of the URAM read pipe
  HBM_WORDS,
  Requests            \* the flushes the controller may ask for

Request == [rows : 0 .. ROW_MAX - 1, cols : 0 .. COL_MAX - 1,
            start_col : 0 .. COL_MAX - 1, base : Nat, stride : Nat]

ASSUME FlushAssumption ==
  /\ {ROW_MAX, COL_MAX, LEN_MAX, RD_LATENCY, HBM_WORDS} \subseteq Nat \ {0}
  /\ COL_MAX <= LEN_MAX
  /\ Requests \subseteq Request /\ NONE \notin Requests
  /\ \A r \in Requests : r.base + r.rows * r.stride + r.cols < HBM_WORDS

\* A word of the URAM, and a burst of the slave.
Word == (0 .. ROW_MAX - 1) \X (0 .. COL_MAX - 1) \X {0, 1}
Burst == [addr : Nat, len : Nat, beat : Nat]
Cell == Word \cup {NONE}

ASSUME NoneAssumption ==
  NONE \notin Word /\ NONE \notin Burst /\ NONE \notin (0 .. ROW_MAX - 1) \X (0 .. COL_MAX - 1)

VARIABLES
  start,                         \* input: the request shown with start, or NONE
  fl_state, done,
  req,                           \* num_rows_r, num_col_words_r, start_col_r, stride
  cur_row, hbm_addr,
  uram_rd,                       \* the address read when uram_rd_en is high, or NONE
  rd_col_cnt, wr_beat_cnt, rd_done, rd_inflight,
  fifo,                          \* [data, wr_ptr, rd_ptr, count]
  awvalid,
  w,                             \* [valid, data, last]
  bready,
  uram_gen, rd_pipe,             \* the URAM's contents, and its read pipe
  burst, hbm                     \* the slave: the burst it is receiving; its memory

counters == <<rd_col_cnt, wr_beat_cnt, rd_done, rd_inflight>>
flushVars == <<start, fl_state, done, req, cur_row, hbm_addr, uram_rd, counters,
               fifo, awvalid, w, bready, uram_gen, rd_pipe, burst, hbm>>

-----------------------------------------------------------------------------
(* The URAM read pipe and the AXI slave.                                   *)

uram == [x \in (0 .. ROW_MAX - 1) \X (0 .. COL_MAX - 1) |-> <<x[1], x[2], uram_gen>>]

uram_rd_valid == rd_pipe[RD_LATENCY] # NONE
uram_rd_data == rd_pipe[RD_LATENCY]

UramPort == rd_pipe' = [s \in 1 .. RD_LATENCY |->
                          IF s > 1 THEN rd_pipe[s - 1]
                          ELSE IF uram_rd = NONE THEN NONE ELSE uram[uram_rd]]

AwHandshake(awready) == awvalid /\ awready
WHandshake(wready) == w.valid /\ wready
BHandshake(bvalid) == bvalid /\ bready

\* The slave takes a burst of awlen + 1 beats and responds when it is complete.
Complete == burst # NONE /\ burst.beat > burst.len
Slave(awready, wready, bvalid) ==
  /\ awready => burst = NONE
  /\ wready => burst # NONE /\ ~Complete
  /\ bvalid => Complete
  /\ burst' = IF AwHandshake(awready) THEN [addr |-> hbm_addr, len |-> req.cols, beat |-> 0]
              ELSE IF WHandshake(wready) THEN [burst EXCEPT !.beat = @ + 1]
              ELSE IF BHandshake(bvalid) THEN NONE
              ELSE burst
  /\ hbm' = IF WHandshake(wready)
              THEN [hbm EXCEPT ![burst.addr + burst.beat] = w.data]
              ELSE hbm

-----------------------------------------------------------------------------
(* The mover, one action per branch.                                       *)

EmptyFifo == [data |-> [i \in {0, 1} |-> NONE], wr_ptr |-> 0, rd_ptr |-> 0, count |-> 0]

IdleWait == /\ fl_state = "FL_IDLE" /\ start = NONE
            /\ awvalid' = FALSE /\ w' = [w EXCEPT !.valid = FALSE] /\ bready' = FALSE
            /\ done' = FALSE /\ uram_rd' = NONE
            /\ UNCHANGED <<fl_state, req, cur_row, hbm_addr, counters, fifo>>

IdleStart == /\ fl_state = "FL_IDLE" /\ start # NONE
             /\ fl_state' = "FL_AW" /\ req' = start /\ hbm_addr' = start.base
             /\ cur_row' = 0
             /\ awvalid' = FALSE /\ w' = [w EXCEPT !.valid = FALSE] /\ bready' = FALSE
             /\ done' = FALSE /\ uram_rd' = NONE
             /\ UNCHANGED <<counters, fifo>>

Address(awready) ==
  /\ fl_state = "FL_AW" /\ done' = FALSE /\ uram_rd' = NONE
  /\ IF AwHandshake(awready)
       THEN /\ awvalid' = FALSE /\ fl_state' = "FL_RD_URAM"
            /\ rd_col_cnt' = req.start_col /\ wr_beat_cnt' = 0
            /\ rd_done' = FALSE /\ rd_inflight' = FALSE
            /\ fifo' = [data |-> fifo.data, wr_ptr |-> 0, rd_ptr |-> 0, count |-> 0]
       ELSE awvalid' = TRUE /\ UNCHANGED <<fl_state, counters, fifo>>
  /\ UNCHANGED <<req, cur_row, hbm_addr, w, bready>>

\* Mutant of MayRead: a read is issued while another is in the pipe.
MayRead_Pipelined == ~rd_done /\ fifo.count # 2
MayRead == ~rd_done /\ fifo.count # 2 /\ ~rd_inflight

\* FL_RD_URAM does four things at every edge.
IssueRead ==
  IF MayRead
    THEN /\ uram_rd' = <<cur_row, rd_col_cnt>>
         /\ rd_col_cnt' = (rd_col_cnt + 1) % COL_MAX
         /\ rd_done' = (rd_col_cnt = (req.start_col + req.cols) % COL_MAX)
    ELSE uram_rd' = NONE /\ UNCHANGED <<rd_col_cnt, rd_done>>

Reading == rd_inflight' = IF uram_rd_valid THEN FALSE
                          ELSE rd_inflight \/ uram_rd' # NONE

Wrap2(x) == x % 4

Queue(wready) ==
  LET popped == IF WHandshake(wready) THEN 1 ELSE 0
      pushed == IF uram_rd_valid THEN 1 ELSE 0
  IN fifo' = [data |-> IF uram_rd_valid
                         THEN [fifo.data EXCEPT ![fifo.wr_ptr % 2] = uram_rd_data]
                         ELSE fifo.data,
              wr_ptr |-> Wrap2(fifo.wr_ptr + pushed),
              rd_ptr |-> Wrap2(fifo.rd_ptr + popped),
              count |-> Wrap2(fifo.count + pushed - popped)]

\* Mutant of LastBeat: wlast on the beat before the last.
LastBeat_Early == wr_beat_cnt + 1 = req.cols
LastBeat == wr_beat_cnt = req.cols

\* Mutant of Unaccepted: wvalid is a pulse, whether or not the slave is ready.
Unaccepted_Pulse == [w EXCEPT !.valid = FALSE]
Unaccepted == w

Beat(wready) ==
  LET last == LastBeat
  IN IF WHandshake(wready)
       THEN /\ wr_beat_cnt' = (wr_beat_cnt + 1) % COL_MAX
            /\ IF last THEN bready' = TRUE /\ fl_state' = "FL_WR_RESP"
                       ELSE UNCHANGED <<bready, fl_state>>
            /\ w' = IF fifo.count # 0
                      THEN [valid |-> FALSE, data |-> fifo.data[fifo.rd_ptr % 2],
                            last |-> last]
                      ELSE [w EXCEPT !.valid = FALSE]
       ELSE /\ w' = IF fifo.count # 0 /\ ~w.valid
                      THEN [valid |-> TRUE, data |-> fifo.data[fifo.rd_ptr % 2],
                            last |-> last]
                      ELSE Unaccepted
            /\ UNCHANGED <<wr_beat_cnt, bready, fl_state>>

Stream(wready) ==
  /\ fl_state = "FL_RD_URAM" /\ done' = FALSE
  /\ IssueRead /\ Reading /\ Queue(wready) /\ Beat(wready)
  /\ UNCHANGED <<req, cur_row, hbm_addr, awvalid>>

\* Mutant of NextRowAddr: the rows are taken to be packed, whatever the stride.
NextRowAddr_Packed == hbm_addr + req.cols + 1
NextRowAddr == hbm_addr + req.stride

Respond(bvalid) ==
  /\ fl_state = "FL_WR_RESP" /\ done' = FALSE /\ uram_rd' = NONE
  /\ bready' = ~BHandshake(bvalid)
  /\ IF ~BHandshake(bvalid) THEN UNCHANGED <<fl_state, cur_row, hbm_addr>>
     ELSE IF cur_row = req.rows
       THEN fl_state' = "FL_DONE" /\ UNCHANGED <<cur_row, hbm_addr>>
       ELSE /\ fl_state' = "FL_AW" /\ cur_row' = (cur_row + 1) % ROW_MAX
            /\ hbm_addr' = NextRowAddr
  /\ UNCHANGED <<req, counters, fifo, awvalid, w>>

Finish == /\ fl_state = "FL_DONE" /\ fl_state' = "FL_IDLE" /\ done' = TRUE
          /\ uram_rd' = NONE
          /\ UNCHANGED <<req, cur_row, hbm_addr, counters, fifo, awvalid, w, bready>>

-----------------------------------------------------------------------------
\* The controller shows a request for one cycle, none while one is under way,
\* and the URAM is written only between two requests.
Controller ==
  /\ start' \in IF fl_state = "FL_IDLE" /\ start = NONE /\ ~done
                  THEN Requests \cup {NONE} ELSE {NONE}
  /\ uram_gen' = IF start' # NONE THEN 1 - uram_gen ELSE uram_gen

Edge(awready, wready, bvalid) ==
  Slave(awready, wready, bvalid) /\ UramPort /\ Controller

Init ==
  /\ start = NONE /\ fl_state = "FL_IDLE" /\ done = FALSE
  /\ req = [rows |-> 0, cols |-> 0, start_col |-> 0, base |-> 0, stride |-> 0]
  /\ cur_row = 0 /\ hbm_addr = 0 /\ uram_rd = NONE
  /\ rd_col_cnt = 0 /\ wr_beat_cnt = 0 /\ rd_done = FALSE /\ rd_inflight = FALSE
  /\ fifo = EmptyFifo
  /\ awvalid = FALSE /\ w = [valid |-> FALSE, data |-> NONE, last |-> FALSE]
  /\ bready = FALSE
  /\ uram_gen = 0 /\ rd_pipe = [s \in 1 .. RD_LATENCY |-> NONE]
  /\ burst = NONE /\ hbm = [a \in 0 .. HBM_WORDS - 1 |-> NONE]

Next ==
  \E awready, wready, bvalid \in BOOLEAN :
    \/ IdleWait /\ Edge(awready, wready, bvalid)
    \/ IdleStart /\ Edge(awready, wready, bvalid)
    \/ Address(awready) /\ Edge(awready, wready, bvalid)
    \/ Stream(wready) /\ Edge(awready, wready, bvalid)
    \/ Respond(bvalid) /\ Edge(awready, wready, bvalid)
    \/ Finish /\ Edge(awready, wready, bvalid)

Spec == Init /\ [][Next]_flushVars

\* The clock runs, and the slave takes every address and beat it is shown and
\* answers every burst.
FairSpec ==
  /\ Spec /\ WF_flushVars(Next)
  /\ WF_flushVars(Next /\ awvalid /\ burst' # burst)
  /\ WF_flushVars(Next /\ w.valid /\ burst' # burst)
  /\ WF_flushVars(Next /\ bready /\ burst' # burst)

-----------------------------------------------------------------------------
(* Properties.                                                             *)

\* Every register holds a value of its width.
TypeOK ==
  /\ start \in Requests \cup {NONE} /\ req \in Request
  /\ fl_state \in {"FL_IDLE", "FL_AW", "FL_RD_URAM", "FL_WR_RESP", "FL_DONE"}
  /\ done \in BOOLEAN /\ rd_done \in BOOLEAN /\ rd_inflight \in BOOLEAN
  /\ awvalid \in BOOLEAN /\ bready \in BOOLEAN
  /\ cur_row \in 0 .. ROW_MAX - 1 /\ hbm_addr \in Nat
  /\ uram_rd \in ((0 .. ROW_MAX - 1) \X (0 .. COL_MAX - 1)) \cup {NONE}
  /\ rd_col_cnt \in 0 .. COL_MAX - 1 /\ wr_beat_cnt \in 0 .. COL_MAX - 1
  /\ fifo \in [data : [{0, 1} -> Cell], wr_ptr : 0 .. 3, rd_ptr : 0 .. 3, count : 0 .. 3]
  /\ w \in [valid : BOOLEAN, data : Cell, last : BOOLEAN]
  /\ uram_gen \in {0, 1} /\ rd_pipe \in [1 .. RD_LATENCY -> Cell]
  /\ burst \in Burst \cup {NONE}

\* The two-entry queue holds what was pushed and not popped and never
\* overflows, whatever the read latency and however long the slave stalls.
FifoExact == /\ fifo.count <= 2
             /\ fifo.count = (fifo.wr_ptr - fifo.rd_ptr) % 4
             /\ fifo.count = 2 => ~rd_inflight

\* wlast marks the last beat of the burst that was announced, and no other.
LastIsLast == w.valid => burst # NONE /\ (w.last <=> burst.beat = burst.len)

\* An address or a beat that was shown stays as it is until it is taken.
AxiStable ==
  [][/\ awvalid /\ awvalid' => hbm_addr' = hbm_addr
     /\ awvalid /\ ~awvalid' => burst' # NONE
     /\ w.valid /\ w'.valid => w' = w /\ hbm' = hbm
     /\ w.valid /\ ~w'.valid => burst' # burst]_flushVars

\* The words of a request, and those of them that have reached HBM.
Moves(r) == {[from |-> <<i, (r.start_col + j) % COL_MAX>>,
              to |-> r.base + i * r.stride + j] :
              i \in 0 .. r.rows, j \in 0 .. r.cols}
Beats == IF fl_state = "FL_RD_URAM" THEN wr_beat_cnt
         ELSE IF fl_state = "FL_AW" THEN 0 ELSE req.cols + 1
Landed == {m \in Moves(req) : \/ m.from[1] < cur_row
                              \/ m.from[1] = cur_row /\ m.to < hbm_addr + Beats}

Copy == INSTANCE RectCopy
  WITH request <- start, source <- uram, dest <- hbm,
       busy <- fl_state # "FL_IDLE",
       todo <- IF fl_state = "FL_IDLE" THEN {} ELSE Moves(req) \ Landed

\* Every flush copies its rectangle of the URAM, each word once and no other,
\* and reports done after the last response.
CopiesRectangle == Copy!FairSpec
=============================================================================
