------------------------------- MODULE RectCopy -------------------------------
(***************************************************************************)
(* What the two block movers promise (rtl/uram_flush.v, URAM to HBM;       *)
(* rtl/hbm_prefetch.v, HBM to a prefetch buffer): a request is a rectangle *)
(* of words, each word is moved to its place exactly once, no other word   *)
(* of the destination changes, and done comes after the last one landed.   *)
(***************************************************************************)
CONSTANTS NONE,
          Moves(_)    \* request -> its set of [from, to] word moves

VARIABLES request,    \* the request being shown, or NONE
          source,     \* the memory read
          dest,       \* the memory written
          todo,       \* the moves not yet made
          busy, done

copyVars == <<request, source, dest, todo, busy, done>>

Init == request = NONE /\ todo = {} /\ ~busy /\ ~done

Show == /\ ~busy /\ request = NONE /\ request' # NONE
        /\ done' = FALSE /\ UNCHANGED <<dest, todo, busy>>

Begin == /\ ~busy /\ request # NONE /\ request' = NONE
         /\ busy' = TRUE /\ todo' = Moves(request) /\ done' = FALSE
         /\ UNCHANGED <<source, dest>>

Land(m) == m \in todo /\ todo' = todo \ {m}
           /\ dest' = [dest EXCEPT ![m.to] = source[m.from]]

Move == busy /\ (\E m \in todo : Land(m)) /\ UNCHANGED <<request, source, busy, done>>

\* The last word may land at the edge that raises done.
Finish == /\ busy /\ busy' = FALSE /\ done' = TRUE /\ todo' = {}
          /\ IF todo = {} THEN UNCHANGED dest ELSE \E m \in todo : Land(m)
          /\ UNCHANGED <<request, source>>

Rest == done /\ done' = FALSE /\ UNCHANGED <<request, source, dest, todo, busy>>

Next == Show \/ Begin \/ Move \/ Finish \/ Rest

Spec == Init /\ [][Next]_copyVars

FairSpec == Spec /\ WF_copyVars(Begin) /\ WF_copyVars(Move) /\ WF_copyVars(Finish)
=============================================================================
