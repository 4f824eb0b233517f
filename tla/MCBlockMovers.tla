---------------------------- MODULE MCBlockMovers ----------------------------
(* The output buffer with its flush, and the prefetch DMA, each in behaviours *)
(* of its own.                                                                *)
EXTENDS OutputBuffer

CONSTANTS PF_ROW_MAX, PF_LEN_MAX, PF_HBM_WORDS, PrefetchRequests

VARIABLES pf_cmd, pf_state, cmd_ready, cmd_done, pf_req, pf_row, pf_addr, beat_cnt,
          arvalid, rready, uram_wr, buf, hbm_gen, pf_burst
VARIABLE mover         \* "flush" or "prefetch"

Prefetch == INSTANCE HbmPrefetch
  WITH ROW_MAX <- PF_ROW_MAX, LEN_MAX <- PF_LEN_MAX, HBM_WORDS <- PF_HBM_WORDS,
       Requests <- PrefetchRequests, cmd <- pf_cmd, req <- pf_req, cur_row <- pf_row,
       hbm_addr <- pf_addr, burst <- pf_burst

ASSUME Prefetch!PrefetchAssumption

pfVars == <<pf_cmd, pf_state, cmd_ready, cmd_done, pf_req, pf_row, pf_addr, beat_cnt,
            arvalid, rready, uram_wr, buf, hbm_gen, pf_burst>>

-----------------------------------------------------------------------------
(* Three engines write a product of three tiles and two K chunks, and the   *)
(* flush drains rectangles of it: one word of three rows; words from the    *)
(* middle of two rows, with gaps between them; two full rows, on whose last *)
(* word the column counters wrap.                                           *)

Rect(rows, cols, start_col, base, stride) ==
  [rows |-> rows, cols |-> cols, start_col |-> start_col, base |-> base,
   stride |-> stride]

MCRequests == { Rect(2, 0, 1, 3, 2), Rect(1, 1, 2, 0, 3), Rect(1, 3, 0, 2, 4) }
MCWalk == << <<0, 0>>, <<0, 2>>, <<2, 0>> >>
MCAdapterCells == { <<3, 3>> }

\* A bound: two products, the second of them before the first flush.
Bounded == job' # job => job = 0 /\ \A a \in DOMAIN hbm : hbm[a] = NONE

FlushNext == mover = "flush" /\ OutputNext /\ Bounded

\* The DMA copies one word; rows with gaps; the whole buffer.
Block(rows, words, base, stride) ==
  [rows |-> rows, words |-> words, base |-> base, stride |-> stride]

MCPrefetchRequests == { Block(1, 1, 5, 1), Block(2, 2, 0, 3), Block(3, 4, 1, 4) }

PrefetchNext == mover = "prefetch" /\ Prefetch!Next

-----------------------------------------------------------------------------
moverVars == <<outputVars, pfVars, mover>>

MCInit == OutputInit /\ Prefetch!Init /\ mover \in {"flush", "prefetch"}
MCNext == \/ FlushNext /\ UNCHANGED <<pfVars, mover>>
          \/ PrefetchNext /\ UNCHANGED <<outputVars, mover>>

\* The fairness of UramFlush's FairSpec and of AccumBuffer's, on one clock, where the
\* adapter leaves the port free while engines write; and of HbmPrefetch's.
MCFairSpec ==
  /\ MCInit /\ [][MCNext]_moverVars /\ WF_moverVars(MCNext)
  /\ WF_moverVars(awvalid /\ MCNext /\ burst' # burst)
  /\ WF_moverVars(w.valid /\ MCNext /\ burst' # burst)
  /\ WF_moverVars(bready /\ MCNext /\ burst' # burst)
  /\ \A e \in Engines :
       WF_moverVars(e \in Computing /\ MCNext /\ ctl'[e].state # "COMPUTE")
  /\ WF_moverVars(arvalid /\ MCNext /\ pf_burst' # pf_burst)
  /\ WF_moverVars(rready /\ MCNext /\ pf_burst' # pf_burst)

\* The DMA and its slave count the beats of each row alike.
BeatsAgree == Prefetch!BeatsAgree

\* Every prefetch fills its rectangle of the buffer, each word once and no other, and
\* reports done when the last word is there.
FillsRectangle == Prefetch!CopiesRectangle
=============================================================================
