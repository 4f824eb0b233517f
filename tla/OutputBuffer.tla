----------------------------- MODULE OutputBuffer -----------------------------
(***************************************************************************)
(* The output buffer and the flush on one clock: the engines of            *)
(* AccumBuffer write a product into the memory, and UramFlush drains       *)
(* rectangles of it.  fsm_controller takes them in turns: a flush is asked *)
(* for when a product is over, and the next product, and the adapter, wait *)
(* for the flush (AtMostOneExecutor of ControlLoop).                       *)
(***************************************************************************)
EXTENDS UramFlush, AccumBuffer

outputVars == <<flushVars, accumVars>>

InTurns ==
  /\ start' # NONE \/ nm' # NONE => AtRest /\ chunk' = chunk
  /\ chunk' # chunk \/ nm' # NONE => fl_state = "FL_IDLE" /\ start = NONE
  /\ start' = NONE \/ nm' = NONE

\* The beats of the walk, and the cell of each.
WalkBeats == (1 .. Len(Walk)) \X (0 .. TILE - 1) \X {0, 1}
BeatCell(b) == CellOf([cell |-> Walk[b[1]]], b[2], b[3])

\* A request asks for words of the product (fsm_controller flushes the rectangle it
\* had computed), and the tiles of a product do not overlap.
ASSUME OutputAssumption ==
  /\ \A b, c \in WalkBeats : BeatCell(b) = BeatCell(c) => b = c
  /\ \A q \in Requests : \A r \in 0 .. q.rows, c \in 0 .. q.cols :
       \E b \in WalkBeats : BeatCell(b) = <<r, (q.start_col + c) % COL_MAX>>

OutputInit == Init /\ AccumInit
OutputNext == Next /\ AccumNext /\ InTurns
OutputSpec == OutputInit /\ [][OutputNext]_outputVars

\* What the flush shows to HBM are the sums of all the K chunks of the product
\* just computed, each in its order: no beat of an engine was still on its way.
FlushSeesSums ==
  LET x == <<w.data[1], w.data[2]>>
  IN w.valid /\ x \notin AdapterCells => mem[x] = Sum(x, job)
=============================================================================
