----------------------------- MODULE AccumBuffer -----------------------------
(***************************************************************************)
(* The write side of the output buffer: the output serializers and held    *)
(* beats of the engines (rtl/matmul_engine.v), and the round-robin write   *)
(* arbiter and memory of rtl/uram_accum_buf.v.  AccumNext is one clock     *)
(* edge.  Of rtl/tiling_engine.v it keeps what the buffer depends on: the  *)
(* tiles of a chunk are handed out one by one, and a chunk is begun when   *)
(* every tile of the last one was reported done.                           *)
(*                                                                         *)
(* A beat is named by its tile and its place in it; a word of the memory   *)
(* is the sequence of the beats summed in it, for saturating sums depend   *)
(* on their order.                                                         *)
(***************************************************************************)
EXTENDS Integers, Sequences, FiniteSets, NoValue

CONSTANTS
  N_ENG,
  TILE,            \* rows of a tile; each is written in two words
  ROWS, WORDS,     \* the size of the memory
  Walk,            \* the tiles of a chunk in the order they are handed out
  NUM_CHUNKS,      \* K chunks of a job
  AdapterCells     \* where rtl/uram_nm_adapter.v may write

Engines == 0 .. N_ENG - 1
Cells == (0 .. ROWS - 1) \X (0 .. WORDS - 1)

\* A tile: its first cell, and the K chunk and job its products are of.  A beat:
\* a word of a tile.  A write: a beat, and what is done with it.
Tile == [cell : Cells, chunk : 0 .. NUM_CHUNKS - 1, job : {0, 1}]
TileBeat == Tile \X (0 .. TILE - 1) \X {0, 1}
WriteSet == [cell : Cells, data : TileBeat, accum : BOOLEAN]

ASSUME AccumAssumption ==
  /\ {N_ENG, TILE, ROWS, WORDS, NUM_CHUNKS} \subseteq Nat \ {0}
  /\ Walk \in Seq(Cells) /\ AdapterCells \subseteq Cells

ASSUME NoValueAssumption ==
  /\ NONE \notin Cells /\ NONE \notin Tile /\ NONE \notin TileBeat /\ NONE \notin WriteSet
  /\ NONE \notin [eng : Engines, tile : Tile]

VARIABLES
  job, chunk,      \* the job under way, and its K chunk; NUM_CHUNKS when it is over
  sent,            \* the tiles of the chunk handed out
  outstanding,     \* those of them not seen done
  cmd,             \* the command shown: [eng, tile], or NONE
  ctl,             \* engine -> the controller: state, ready, done, tile, mm_done_r
  ser,             \* engine -> the serializer: start_pending, outputting,
                   \*   out_row_cnt, out_sub_col, done, and the beat out or NONE
  wr,              \* engine -> the write held for the arbiter or NONE, and sub_col
  arb_ptr,
  nm,              \* input: the cell the adapter writes, or NONE
  mem,
  passed           \* history: engine -> those served while its beat waited

dispatchVars == <<job, chunk, sent, outstanding, cmd>>
accumVars == <<dispatchVars, ctl, ser, wr, arb_ptr, nm, mem, passed>>

-----------------------------------------------------------------------------
(* The arbiter and the memory.                                             *)

Asking == {e \in Engines : wr[e].held # NONE}

\* How many engines come before e, counted from the pointer: e is pri_idx[Turn(e)].
Turn(e) == IF e >= arb_ptr THEN e - arb_ptr ELSE e + N_ENG - arb_ptr

\* eng_wr_accept, one-hot: the engine whose beat is written at this edge.  The
\* adapter comes first.
Accepted == {e \in Asking : nm = NONE /\ \A f \in Asking : Turn(e) <= Turn(f)}

\* Mutant of NextPtr: a fixed order, the engine of the lowest index first.
NextPtr_Fixed(e) == 0
NextPtr(e) == IF e = N_ENG - 1 THEN 0 ELSE e + 1

Foreign == <<>>   \* a word that holds no products: at reset, or the adapter's

Put(h) == [mem EXCEPT ![h.cell] = IF h.accum THEN Append(@, h.data) ELSE <<h.data>>]

WritePort ==
  IF Accepted = {}
    THEN /\ mem' = IF nm = NONE THEN mem ELSE [mem EXCEPT ![nm] = Foreign]
         /\ UNCHANGED arb_ptr
    ELSE \E e \in Accepted : mem' = Put(wr[e].held) /\ arb_ptr' = NextPtr(e)

-----------------------------------------------------------------------------
(* An engine: its controller, its serializer and its held beat.            *)

Stall(e) == wr[e].held # NONE /\ e \notin Accepted

\* History: the engines accepted since the beat e is waiting with was shown.
Passed == passed' = [e \in Engines |-> IF Stall(e) THEN passed[e] \cup Accepted ELSE {}]

\* The cell of a tile's beat.
CellOf(t, row, half) == <<(t.cell[1] + row) % ROWS, (t.cell[2] + half) % WORDS>>
Overwrites(t) == t.chunk = 0    \* cmd_first_k_chunk

\* The held beat was accepted, and the last one was given out before it.
\* Mutant of TileWritten: the beat still held is not waited for.
TileWritten_Given(e) == ctl[e].mm_done_r
TileWritten(e) == ctl[e].mm_done_r /\ wr[e].held = NONE

\* COMPUTE stands for the states from ST_TILE_START to ST_NEXT_K and for the
\* delay chain tile_done goes through before start_pending.
Computed(e, moves) == ctl[e].state = "COMPUTE" /\ moves

CtlNext(e, moves) ==
  LET c == ctl[e]
      mine == cmd # NONE /\ cmd.eng = e /\ c.ready
  IN CASE c.state = "IDLE" /\ mine ->
            [state |-> "COMPUTE", ready |-> FALSE, done |-> FALSE,
             tile |-> cmd.tile, mm_done_r |-> FALSE]
       [] c.state = "IDLE" /\ ~mine -> [c EXCEPT !.ready = TRUE, !.done = FALSE]
       [] c.state = "COMPUTE" -> IF moves THEN [c EXCEPT !.state = "FLUSH"] ELSE c
       [] c.state = "FLUSH" -> [c EXCEPT !.mm_done_r = @ \/ ser[e].done,
                                         !.state = IF TileWritten(e) THEN "DONE" ELSE @]
       [] c.state = "DONE" -> [c EXCEPT !.state = "IDLE", !.done = TRUE, !.tile = NONE]

LastOfTile(e) == ser[e].out_row_cnt = TILE - 1 /\ ser[e].out_sub_col = 1

\* Mutant of Denied: out_valid is a pulse, whether or not the beat is taken.
Denied_Pulse(e) == NONE
Denied(e) == IF Stall(e) THEN ser[e].out ELSE NONE

\* The serializer gives out a beat at each edge it is not stalled.
SerNext(e, moves) ==
  LET s == ser[e]
      begins == s.start_pending /\ ~s.outputting
      gives == s.outputting /\ ~Stall(e)
      ends == gives /\ LastOfTile(e)
  IN [start_pending |-> Computed(e, moves) \/ (s.start_pending /\ ~begins),
      outputting |-> begins \/ (s.outputting /\ ~ends),
      out_row_cnt |-> IF begins THEN 0
                      ELSE IF gives /\ s.out_sub_col = 1 /\ ~ends
                        THEN s.out_row_cnt + 1
                      ELSE s.out_row_cnt,
      out_sub_col |-> IF begins THEN 0
                      ELSE IF gives THEN 1 - s.out_sub_col ELSE s.out_sub_col,
      out |-> IF begins THEN NONE
              ELSE IF gives THEN <<ctl[e].tile, s.out_row_cnt, s.out_sub_col>>
              ELSE Denied(e),
      done |-> ends]

\* The held beat: mm_out_new replaces it, and an accept alone clears it.
WrNext(e) ==
  LET t == ctl[e].tile
      h == wr[e]
      out == ser[e].out
  IN IF out # NONE /\ ~Stall(e)
       THEN [held |-> [cell |-> CellOf(t, out[2], h.sub_col), data |-> out,
                       accum |-> ~Overwrites(t)],
             sub_col |-> 1 - h.sub_col]
     ELSE IF Stall(e) THEN h ELSE [h EXCEPT !.held = NONE]

EngineStep(moving) ==
  /\ ctl' = [e \in Engines |-> CtlNext(e, e \in moving)]
  /\ ser' = [e \in Engines |-> SerNext(e, e \in moving)]
  /\ wr' = [e \in Engines |-> WrNext(e)]

-----------------------------------------------------------------------------
(* The dispatcher, one action per thing it may do at an edge.              *)

Reported == {e \in Engines : ctl[e].done}
Ready == {e \in Engines : ctl[e].ready /\ (cmd # NONE => cmd.eng # e)}
AtRest == chunk = NUM_CHUNKS

Wait == /\ cmd' = NONE /\ outstanding' = outstanding - Cardinality(Reported)
        /\ UNCHANGED <<job, chunk, sent>>

Dispatch ==
  /\ ~AtRest /\ sent < Len(Walk) /\ Ready # {}
  /\ cmd' = [eng |-> CHOOSE e \in Ready : \A f \in Ready : e <= f,
             tile |-> [cell |-> Walk[sent + 1], chunk |-> chunk, job |-> job]]
  /\ sent' = sent + 1
  /\ outstanding' = outstanding + 1 - Cardinality(Reported)
  /\ UNCHANGED <<job, chunk>>

EndChunk == /\ ~AtRest /\ sent = Len(Walk) /\ outstanding = Cardinality(Reported)
            /\ chunk' = chunk + 1 /\ sent' = 0 /\ cmd' = NONE /\ outstanding' = 0
            /\ UNCHANGED job

BeginJob == /\ AtRest /\ job' = 1 - job /\ chunk' = 0
            /\ sent' = 0 /\ cmd' = NONE /\ outstanding' = 0

AccumEdge(moving) == /\ WritePort /\ EngineStep(moving) /\ Passed
                     /\ nm' \in AdapterCells \cup {NONE}

AccumInit ==
  /\ job = 0 /\ chunk = 0 /\ sent = 0 /\ outstanding = 0 /\ cmd = NONE
  /\ ctl = [e \in Engines |-> [state |-> "IDLE", ready |-> TRUE, done |-> FALSE,
                               tile |-> NONE, mm_done_r |-> FALSE]]
  /\ ser = [e \in Engines |->
              [start_pending |-> FALSE, outputting |-> FALSE, out_row_cnt |-> 0,
               out_sub_col |-> 0, out |-> NONE, done |-> FALSE]]
  /\ wr = [e \in Engines |-> [held |-> NONE, sub_col |-> 0]]
  /\ arb_ptr = 0 /\ nm = NONE /\ mem = [x \in Cells |-> Foreign]
  /\ passed = [e \in Engines |-> {}]

Computing == {e \in Engines : ctl[e].state = "COMPUTE"}

AccumNext ==
  \E moving \in SUBSET Computing :
    \/ Wait /\ AccumEdge(moving)
    \/ Dispatch /\ AccumEdge(moving)
    \/ EndChunk /\ AccumEdge(moving)
    \/ BeginJob /\ AccumEdge(moving)

AccumSpec == AccumInit /\ [][AccumNext]_accumVars

\* The clock runs, an engine finishes its k-tiles, and the adapter leaves the
\* port free again and again.
Finishes(e) == AccumNext /\ ctl[e].state = "COMPUTE" /\ ctl'[e].state # "COMPUTE"
AccumFairSpec ==
  /\ AccumSpec /\ WF_accumVars(AccumNext) /\ WF_accumVars(AccumNext /\ nm' = NONE)
  /\ \A e \in Engines : WF_accumVars(Finishes(e))

-----------------------------------------------------------------------------
(* Properties.                                                             *)

\* The writes of a tile, and those of them that an engine has still to make.
Write(t, r, h) == [cell |-> CellOf(t, r, h), data |-> <<t, r, h>>, accum |-> ~Overwrites(t)]
Writes(t) == {Write(t, x[1], x[2]) : x \in (0 .. TILE - 1) \X {0, 1}}

ToGive(e) ==
  {x \in (0 .. TILE - 1) \X {0, 1} :
     \/ ctl[e].state = "COMPUTE" \/ ser[e].start_pending
     \/ /\ ser[e].outputting
        /\ \/ x[1] > ser[e].out_row_cnt
           \/ x[1] = ser[e].out_row_cnt /\ x[2] >= ser[e].out_sub_col}
Given(e) == IF ser[e].out = NONE THEN {}
            ELSE {Write(ser[e].out[1], ser[e].out[2], ser[e].out[3])}
Held(e) == IF wr[e].held = NONE THEN {} ELSE {wr[e].held}
Owed(e) == {Write(ctl[e].tile, x[1], x[2]) : x \in ToGive(e)} \cup Given(e) \cup Held(e)

Contract == INSTANCE AccumContract
  WITH Tiles <- Tile,
       taken <- [e \in Engines |-> ctl[e].tile],
       owed <- [e \in Engines |-> Owed(e)]

\* Every beat of every tile is written once, in its own cell, as an overwrite or
\* as an addition, however often the arbiter denies it; the tile is reported done
\* after the last of them; and no tile waits for ever.
WritesOnce == Contract!FairSpec

\* The arbiter is fair at every write: no engine is accepted a second time while
\* the beat of another one has been waiting since its first.
NoneOvertaken == \A e \in Asking : Accepted \cap passed[e] = {}

\* The sum a cell of the job's product has to hold, the K chunks in their order.
Sum(x, j) ==
  LET b == CHOOSE b \in (1 .. Len(Walk)) \X (0 .. TILE - 1) \X {0, 1} :
             CellOf([cell |-> Walk[b[1]]], b[2], b[3]) = x
  IN [k \in 1 .. NUM_CHUNKS |->
        <<[cell |-> Walk[b[1]], chunk |-> k - 1, job |-> j], b[2], b[3]>>]
=============================================================================
