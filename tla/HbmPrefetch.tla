----------------------------- MODULE HbmPrefetch -----------------------------
(***************************************************************************)
(* The HBM-to-buffer block mover, rtl/hbm_prefetch.v, between an AXI read  *)
(* slave and the write port of rtl/uram_prefetch_buf.v.  Next is one clock *)
(* edge.  A word of HBM is <<address, generation>>: the generation changes *)
(* from one request to the next, as the HBM's contents do.                 *)
(***************************************************************************)
EXTENDS Integers

CONSTANTS
  ROW_MAX, COL_MAX,   \* 2^ROW_W, 2^COL_W: the size of the buffer
  LEN_MAX,            \* 2^LEN_W
  HBM_WORDS,
  Requests,           \* the rectangles the tiling engine may ask for
  NONE

Request == [rows : Nat \ {0}, words : Nat, base : Nat, stride : Nat]

\* A burst of the slave, and a write of the buffer.
Burst == [addr : Nat, beat : Nat, len : Nat]
BufferWrite == [row : 0 .. ROW_MAX - 1, col : 0 .. COL_MAX - 1, data : Nat \X {0, 1}]

\* What the theorems assume of the constants.
PrefetchAssumption ==
  /\ {ROW_MAX, COL_MAX, LEN_MAX, HBM_WORDS} \subseteq Nat \ {0}
  /\ Requests \subseteq Request
  /\ NONE \notin Requests /\ NONE \notin Burst /\ NONE \notin BufferWrite

VARIABLES
  cmd,              \* input: the command shown with cmd_valid, or NONE
  pf_state, cmd_ready, cmd_done,
  req,              \* num_rows_r, num_col_words_r, stride_r
  cur_row, hbm_addr, beat_cnt,
  arvalid, rready,
  uram_wr,          \* the write shown to the buffer, or NONE
  buf,              \* the buffer
  hbm_gen, burst    \* the slave: HBM's contents; the burst it is sending

prefetchVars == <<cmd, pf_state, cmd_ready, cmd_done, req, cur_row, hbm_addr,
                  beat_cnt, arvalid, rready, uram_wr, buf, hbm_gen, burst>>

-----------------------------------------------------------------------------
(* The AXI slave and the buffer's write port.                              *)

hbm == [a \in 0 .. HBM_WORDS - 1 |-> <<a, hbm_gen>>]

ArHandshake(arready) == arvalid /\ arready
RHandshake(rvalid) == rvalid /\ rready
rdata == hbm[burst.addr + burst.beat]
rlast == burst.beat = burst.len

Slave(arready, rvalid) ==
  /\ arready => burst = NONE
  /\ rvalid => burst # NONE
  /\ burst' = IF ArHandshake(arready)
                THEN [addr |-> hbm_addr, beat |-> 0,
                      len |-> (req.words - 1) % LEN_MAX]
              ELSE IF RHandshake(rvalid)
                THEN IF rlast THEN NONE ELSE [burst EXCEPT !.beat = @ + 1]
              ELSE burst

BufferPort ==
  buf' = IF uram_wr = NONE THEN buf
         ELSE [buf EXCEPT ![<<uram_wr.row, uram_wr.col>>] = uram_wr.data]

-----------------------------------------------------------------------------
(* The mover, one action per branch.                                       *)

IdleWait == /\ pf_state = "PF_IDLE" /\ (cmd = NONE \/ ~cmd_ready)
            /\ cmd_ready' = TRUE /\ arvalid' = FALSE /\ rready' = FALSE
            /\ cmd_done' = FALSE /\ uram_wr' = NONE
            /\ UNCHANGED <<pf_state, req, cur_row, hbm_addr, beat_cnt>>

Accept == /\ pf_state = "PF_IDLE" /\ cmd # NONE /\ cmd_ready
          /\ cmd_ready' = FALSE /\ arvalid' = FALSE /\ rready' = FALSE
          /\ pf_state' = "PF_AR" /\ req' = cmd /\ hbm_addr' = cmd.base
          /\ cur_row' = 0 /\ beat_cnt' = 0
          /\ cmd_done' = FALSE /\ uram_wr' = NONE

\* Mutant of Address: the beat counter runs on from row to row.
Address_NoReset(arready) ==
  /\ pf_state = "PF_AR" /\ cmd_done' = FALSE /\ uram_wr' = NONE
  /\ IF ArHandshake(arready)
       THEN arvalid' = FALSE /\ rready' = TRUE /\ pf_state' = "PF_DATA"
       ELSE arvalid' = TRUE /\ rready' = FALSE /\ UNCHANGED pf_state
  /\ UNCHANGED <<cmd_ready, req, cur_row, hbm_addr, beat_cnt>>

Address(arready) ==
  /\ pf_state = "PF_AR" /\ cmd_done' = FALSE /\ uram_wr' = NONE
  /\ IF ArHandshake(arready)
       THEN /\ arvalid' = FALSE /\ rready' = TRUE /\ beat_cnt' = 0
            /\ pf_state' = "PF_DATA"
       ELSE arvalid' = TRUE /\ rready' = FALSE /\ UNCHANGED <<beat_cnt, pf_state>>
  /\ UNCHANGED <<cmd_ready, req, cur_row, hbm_addr>>

DataWait(rvalid) ==
  /\ pf_state = "PF_DATA" /\ ~RHandshake(rvalid)
  /\ cmd_done' = FALSE /\ uram_wr' = NONE
  /\ UNCHANGED <<pf_state, cmd_ready, req, cur_row, hbm_addr, beat_cnt, arvalid,
                 rready>>

\* Where a beat is stored: cur_row and beat_cnt, both cut to the buffer's size.
Slot == <<cur_row % ROW_MAX, beat_cnt % COL_MAX>>

\* Mutant of NextRowAddr: the rows are taken to be packed, whatever the stride.
NextRowAddr_Packed == hbm_addr + req.words
NextRowAddr == hbm_addr + req.stride

Data(rvalid) ==
  /\ pf_state = "PF_DATA" /\ RHandshake(rvalid)
  /\ uram_wr' = [row |-> Slot[1], col |-> Slot[2], data |-> rdata]
  /\ beat_cnt' = beat_cnt + 1 /\ cmd_done' = FALSE
  /\ IF ~rlast THEN UNCHANGED <<pf_state, rready, cur_row, hbm_addr>>
     ELSE /\ rready' = FALSE
          /\ IF cur_row = req.rows - 1
               THEN pf_state' = "PF_DONE" /\ UNCHANGED <<cur_row, hbm_addr>>
               ELSE /\ pf_state' = "PF_AR" /\ cur_row' = cur_row + 1
                    /\ hbm_addr' = NextRowAddr
  /\ UNCHANGED <<cmd_ready, req, arvalid>>

Finish == /\ pf_state = "PF_DONE" /\ pf_state' = "PF_IDLE" /\ cmd_done' = TRUE
          /\ uram_wr' = NONE
          /\ UNCHANGED <<cmd_ready, req, cur_row, hbm_addr, beat_cnt, arvalid, rready>>

-----------------------------------------------------------------------------
\* The tiling engine shows a command until the edge after it is taken, and the
\* next one after it saw cmd_done; HBM is written only between two commands.
Engine ==
  /\ IF cmd # NONE THEN cmd' = IF pf_state = "PF_IDLE" THEN cmd ELSE NONE
     ELSE cmd' \in IF pf_state = "PF_IDLE" /\ ~cmd_done THEN Requests \cup {NONE}
                   ELSE {NONE}
  /\ hbm_gen' = IF cmd = NONE /\ cmd' # NONE THEN 1 - hbm_gen ELSE hbm_gen

Edge(arready, rvalid) == Slave(arready, rvalid) /\ BufferPort /\ Engine

Init ==
  /\ cmd = NONE /\ pf_state = "PF_IDLE" /\ cmd_ready = TRUE /\ cmd_done = FALSE
  /\ req = [rows |-> 0, words |-> 0, base |-> 0, stride |-> 0]
  /\ cur_row = 0 /\ hbm_addr = 0 /\ beat_cnt = 0 /\ arvalid = FALSE /\ rready = FALSE
  /\ uram_wr = NONE /\ hbm_gen = 0 /\ burst = NONE
  /\ buf = [x \in (0 .. ROW_MAX - 1) \X (0 .. COL_MAX - 1) |-> NONE]

Next ==
  \E arready, rvalid \in BOOLEAN :
    \/ IdleWait /\ Edge(arready, rvalid)
    \/ Accept /\ Edge(arready, rvalid)
    \/ Address(arready) /\ Edge(arready, rvalid)
    \/ DataWait(rvalid) /\ Edge(arready, rvalid)
    \/ Data(rvalid) /\ Edge(arready, rvalid)
    \/ Finish /\ Edge(arready, rvalid)

Spec == Init /\ [][Next]_prefetchVars

\* The clock runs, and the slave takes every address and sends every beat.
FairSpec ==
  /\ Spec /\ WF_prefetchVars(Next)
  /\ WF_prefetchVars(Next /\ arvalid /\ burst' # burst)
  /\ WF_prefetchVars(Next /\ rready /\ burst' # burst)

-----------------------------------------------------------------------------
(* Properties.                                                             *)

\* The mover is ready for a beat only while the slave has one to send, and the
\* two count the beats of a row alike.
BeatsAgree == rready => burst # NONE /\ burst.beat = beat_cnt

\* The words of a request, and those that have reached the buffer.
Moves(r) == {[from |-> r.base + i * r.stride + j, to |-> <<i, j>>] :
              i \in 0 .. r.rows - 1, j \in 0 .. r.words - 1}
Stored(m) == /\ \/ m.to[1] < cur_row \/ pf_state = "PF_DONE"
                \/ m.to[1] = cur_row /\ pf_state = "PF_DATA" /\ m.to[2] < beat_cnt
             /\ uram_wr # NONE => m.to # <<uram_wr.row, uram_wr.col>>

Copy == INSTANCE RectCopy
  WITH request <- IF pf_state = "PF_IDLE" THEN cmd ELSE NONE,
       source <- hbm, dest <- buf,
       busy <- pf_state # "PF_IDLE", done <- cmd_done,
       todo <- IF pf_state = "PF_IDLE" THEN {} ELSE {m \in Moves(req) : ~Stored(m)}

\* Every prefetch copies its rectangle of HBM, each word once and no other, and
\* reports done when the last word is in the buffer.
CopiesRectangle == Copy!FairSpec
=============================================================================
