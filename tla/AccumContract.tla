---------------------------- MODULE AccumContract ----------------------------
(***************************************************************************)
(* What the output buffer promises the dispatcher: an engine that takes a  *)
(* tile owes a write for each of its words; each is made once, whole, no   *)
(* two of them at one edge; an engine gives its tile back when it owes     *)
(* nothing, and always does.  The adapter's writes are made as shown.      *)
(***************************************************************************)
EXTENDS Sequences

CONSTANTS NONE,
          Engines,
          Tiles,        \* the tiles that may be taken
          Writes(_),    \* tile -> its writes, [cell, data, accum]
          Foreign       \* a word written by the adapter

VARIABLES taken,        \* engine -> the tile it took, or NONE
          owed,         \* engine -> the writes it has not made yet
          nm,           \* the cell the adapter writes, or NONE
          mem

contractVars == <<taken, owed, nm, mem>>

Init == /\ taken = [e \in Engines |-> NONE] /\ owed = [e \in Engines |-> {}]
        /\ nm = NONE

Take(e) == /\ taken[e] = NONE /\ taken'[e] \in Tiles
           /\ owed'[e] = Writes(taken'[e])

Return(e) == /\ taken[e] # NONE /\ owed[e] = {}
             /\ taken'[e] = NONE /\ owed'[e] = {}

Keep(e) == taken'[e] = taken[e] /\ owed'[e] = owed[e]

\* What the engines that write nothing may do.
Others(S) == \A e \in S : Take(e) \/ Return(e) \/ Keep(e)

Adapter == nm # NONE /\ mem' = [mem EXCEPT ![nm] = Foreign] /\ Others(Engines)

Make(e, w) == /\ nm = NONE
              /\ mem' = [mem EXCEPT ![w.cell] = IF w.accum THEN Append(@, w.data)
                                                           ELSE <<w.data>>]
              /\ taken'[e] = taken[e] /\ owed'[e] = owed[e] \ {w}
              /\ Others(Engines \ {e})

Idle == nm = NONE /\ UNCHANGED mem /\ Others(Engines)

Next == Adapter \/ Idle \/ \E e \in Engines : \E w \in owed[e] : Make(e, w)

Spec == Init /\ [][Next]_contractVars

\* No engine keeps its tile for ever.
FairSpec == Spec /\ \A e \in Engines : []<>(taken[e] = NONE)
=============================================================================
