---------------------------- MODULE MCTilingEngine ----------------------------
\* Commands for TilingEngine, and what it implements.
EXTENDS TilingEngine

MM(op, m, k, n, a, b, stride, off) ==
  [op |-> op, m |-> m, k |-> k, n |-> n, a_base |-> a, a_stride |-> k \div BUS_EL,
   b_base |-> b, b_stride |-> stride, out_col_offset |-> off]

\* With TILE = 2, one element per word and chunks of 4: several K chunks and N
\* chunks, a last tile that is partly outside the matrix, a column offset.
MCCommands ==
  { MM("OP_MATMUL", 3, 6, 2, 0, 100, 2, 0),
    MM("OP_MATMUL_AA", 3, 2, 6, 200, 300, 8, 0),
    MM("OP_MATMUL_T", 3, 2, 2, 400, 500, 2, 2) }

-----------------------------------------------------------------------------
(* The unit with N_ENG engines, for the dispatcher, and the same unit with  *)
(* the one engine whose reads are connected, for the product.  A behaviour  *)
(* is of one of the two.                                                    *)

One == INSTANCE TilingEngine WITH N_ENG <- 1
Alone == DOMAIN eng = One!Engines

MCInit == Init \/ One!Init
MCNext == (~Alone /\ Next) \/ (Alone /\ One!Next)

\* The fairness of FairSpec, for the one engine.
MCFairSpec ==
  /\ MCInit /\ [][MCNext]_tilingVars /\ WF_tilingVars(MCNext)
  /\ \A b \in Buffers : WF_tilingVars(Alone /\ One!DmaProgress(b))
  /\ WF_tilingVars(Alone /\ One!EngProgress(READER))

\* A unit with other engines is not asked for its products.
Answers == INSTANCE MatmulContract
  WITH cmd <- IF Alone THEN cmd ELSE NONE,
       pending <- IF Alone /\ state # "ST_IDLE" THEN cmd_r ELSE NONE,
       answer <- IF Alone /\ cmd_done THEN Region(cmd_r) ELSE NONE

\* The unit answers every command it takes, once, with its whole product: the
\* tile walk visits every output tile and every k-tile of every chunk, in the
\* buffers as they were filled for that chunk, and overwrites or accumulates
\* each time it should (rtl/tiling_engine.v and rtl/matmul_engine.v together).
Implements == Answers!FairSpec

\* The scores of one row against the keys of a head that is two tiles wide, as
\* HEAD_DIM = 64 is in production.
MCScores == { MM("OP_MATMUL_T", 1, 4, 2, 400, 500, 4, 0) }
=============================================================================
