------------------------- MODULE TilingEngine_proofs -------------------------
(***************************************************************************)
(* Theorems about TilingEngine, for every size, number of engines and set  *)
(* of commands: the count of outstanding tiles is exact, a prefetch buffer *)
(* is filled only while no engine reads it, and no two engines work on the *)
(* same output tile; and, from these, that the unit implements             *)
(* MatmulContract: for the shapes it supports, each command it takes is    *)
(* answered once, and with its whole product.                              *)
(***************************************************************************)
EXTENDS TilingEngine, FiniteSetTheorems, TLAPS

-----------------------------------------------------------------------------
(* The inductive invariant.                                                *)

DoneSet == {e \in Engines : eng[e].done}

\* The engines whose tile the dispatcher has handed out and not seen done.
Working == Busy \cup DoneSet

\* An engine is ready only at rest; it is commanded only when ready; and its done
\* is seen at the one edge it lasts.
EngineInv(e) ==
  /\ e \in DOMAIN eng
  /\ {"st", "ready", "done", "tile", "kt", "acc"} = DOMAIN eng[e]
  /\ eng[e].st \in {"IDLE", "K_TILE", "FLUSH", "DONE"}
  /\ eng[e].ready \in BOOLEAN /\ eng[e].done \in BOOLEAN
  /\ eng[e].ready => eng[e].st = "IDLE" /\ ~eng[e].done
  /\ eng[e].done => eng[e].st = "IDLE" /\ e \notin eng_done_prev
  /\ eng_cmd_valid = e => eng[e].ready

\* Where a DMA and its flags are between the command and done_r.
Flags == [valid : BOOLEAN, launched : BOOLEAN, done_r : BOOLEAN]
Resting(b) == dma[b].st = "IDLE" /\ ~dma[b].done
Unlaunched(b) == ~pf[b].launched /\ ~pf[b].done_r /\ Resting(b)
Taken(b) == /\ pf[b].launched /\ ~pf[b].done_r /\ pf[b].valid
            /\ dma[b].st = "RUN" /\ ~dma[b].ready /\ ~dma[b].done
Running(b) == /\ pf[b].launched /\ ~pf[b].done_r /\ ~pf[b].valid
              /\ dma[b].st \in {"RUN", "DONE"} /\ ~dma[b].ready /\ ~dma[b].done
Finishing(b) == /\ pf[b].launched /\ ~pf[b].done_r /\ ~pf[b].valid
                /\ dma[b].st = "IDLE" /\ dma[b].done
Loaded(b) == pf[b].launched /\ pf[b].done_r /\ ~pf[b].valid /\ Resting(b)

PrefetchInv(b) ==
  /\ {"st", "ready", "done", "cmd"} = DOMAIN dma[b]
  /\ dma[b].st \in {"IDLE", "RUN", "DONE"}
  /\ dma[b].ready \in BOOLEAN /\ dma[b].done \in BOOLEAN
  /\ CASE state = "ST_PREFETCH_CMD" ->
            Unlaunched(b) \/ Taken(b) \/ Running(b) \/ Finishing(b) \/ Loaded(b)
       [] state = "ST_WAIT_PREFETCH" -> Running(b) \/ Finishing(b) \/ Loaded(b)
       [] OTHER -> Resting(b) /\ ~pf[b].valid

IInv ==
  /\ DOMAIN eng = Engines
  /\ eng_cmd_valid \in Engines \cup {NONE} /\ pf \in [Buffers -> Flags]
  /\ \A e \in Engines : EngineInv(e)
  /\ \A b \in Buffers : PrefetchInv(b)
  /\ OutstandingExact
  /\ state \notin {"ST_DISPATCH", "ST_WAIT"} => Working = {}

-----------------------------------------------------------------------------
(* One engine at one edge.                                                 *)

LEMMA Least ==
  ASSUME NEW S \in SUBSET Nat, S # {}
  PROVE  \E x \in S : \A y \in S : x <= y
<1> DEFINE R == OpToRel(<, Nat)
<1>1. \A x, y \in Nat : y < x => <<y, x>> \in R
  BY Zenon DEF OpToRel
<1>2. IsWellFoundedOn(R, Nat)
  BY NatLessThanWellFounded
<1> HIDE DEF R
<1>3. PICK x \in S : \A y \in S : ~(<<y, x>> \in R)
  BY <1>2, WFMin
<1>4. ASSUME NEW y \in S  PROVE x <= y
  <2>1. x \in Nat /\ y \in Nat
    OBVIOUS
  <2>2. ~(y < x)
    BY <1>1, <1>3, <2>1
  <2> QED BY <2>1, <2>2
<1> QED BY <1>4

\* The dispatcher commands an idle engine or none.
LEMMA Commanded ==
  ASSUME Next
  PROVE  \/ eng_cmd_valid' = NONE /\ ~Dispatch
         \/ eng_cmd_valid' \in Idle /\ Dispatch
<1>1. CASE Dispatch
  <2>1. \E e \in Idle : \A f \in Idle : e <= f
    <3>1. Idle \in SUBSET Nat /\ Idle # {}
      BY <1>1, TilingAssumption DEF Dispatch, Idle, Engines
    <3> QED BY <3>1, Least
  <2> QED BY <1>1, <2>1 DEF Dispatch
<1>2. CASE ~Dispatch
  BY <1>2 DEF Next, NoTile, Await, Accept, Setup, KChunkSetup, NChunkSetup, PrefetchCmd,
              WaitPrefetch, DispatchWait, Wait, NextNChunk, NextKChunk, Done
<1> QED BY <1>1, <1>2

\* An engine leaves the working set as its done falls, and enters it as it is
\* commanded.
LEMMA EngineEdge ==
  ASSUME NEW e \in Engines, EngineInv(e), NEW moves \in BOOLEAN,
         e \in DOMAIN eng',
         eng'[e] = EngNext(e, moves), EveryEdge, eng_cmd_valid' = NONE \/ eng_cmd_valid' \in Idle
  PROVE  /\ EngineInv(e)'
         /\ e \in Working' <=> e \in Working \ done_rising \/ eng_cmd_valid' = e
<1> USE DEF EngineInv, EveryEdge, done_rising, Working, Busy, DoneSet
<1>1. eng_cmd_valid' = e => eng[e].ready /\ eng_cmd_valid # e
  BY TilingAssumption DEF Idle
<1>2. CASE eng[e].st = "IDLE" /\ eng_cmd_valid = e /\ eng[e].ready
  <2>1. eng'[e] = [eng[e] EXCEPT !.st = "K_TILE", !.ready = FALSE, !.done = FALSE,
                                 !.tile = eng_cmd, !.kt = 0]
    BY <1>2 DEF EngNext
  <2>2. /\ eng'[e].st = "K_TILE" /\ eng'[e].ready = FALSE /\ eng'[e].done = FALSE
        /\ DOMAIN eng'[e] = DOMAIN eng[e]
    BY <2>1
  <2>3. ~eng[e].done /\ eng_cmd_valid' # e
    BY <1>1, <1>2
  <2>4. EngineInv(e)'
    BY <2>2, <2>3
  <2> QED BY <1>2, <2>2, <2>3, <2>4
<1>3. CASE eng[e].st = "IDLE" /\ ~(eng_cmd_valid = e /\ eng[e].ready)
  BY <1>1, <1>3 DEF EngNext
<1>4. CASE eng[e].st = "K_TILE"
  BY <1>1, <1>4 DEF EngNext
<1>5. CASE eng[e].st = "FLUSH"
  BY <1>1, <1>5 DEF EngNext
<1>6. CASE eng[e].st = "DONE"
  BY <1>1, <1>6 DEF EngNext
<1> QED BY <1>2, <1>3, <1>4, <1>5, <1>6

LEMMA EnginesEdge ==
  ASSUME IInv, NEW engs \in SUBSET Engines, EngineStep(engs), EveryEdge,
         eng_cmd_valid' = NONE \/ eng_cmd_valid' \in Idle
  PROVE  /\ \A e \in Engines : EngineInv(e)'
         /\ Working' = (Working \ done_rising)
                         \cup (IF eng_cmd_valid' = NONE THEN {} ELSE {eng_cmd_valid'})
<1>0. DOMAIN eng = Engines /\ DOMAIN eng' = Engines
  BY DEF IInv, EngineStep
<1>1. ASSUME NEW e \in Engines
      PROVE  /\ EngineInv(e)'
             /\ e \in Working' <=> e \in Working \ done_rising \/ eng_cmd_valid' = e
  <2>1. EngineInv(e)
    BY DEF IInv
  <2>2. eng'[e] = EngNext(e, e \in engs)
    BY DEF EngineStep
  <2>3. (e \in engs) \in BOOLEAN
    OBVIOUS
  <2> QED BY <1>0, <2>1, <2>2, <2>3, EngineEdge
<1>2. Working \subseteq Engines /\ Working' \subseteq Engines
  BY <1>0 DEF Working, Busy, DoneSet
<1>3. eng_cmd_valid' # NONE => eng_cmd_valid' \in Engines
  BY DEF Idle
<1>4. NONE \notin Engines
  BY TilingAssumption
<1> QED BY <1>1, <1>2, <1>3, <1>4

-----------------------------------------------------------------------------
(* The count.                                                              *)

\* tiles_outstanding has 16 bits.
FewEngines == N_ENG < 65536

LEMMA EnginesFinite == IsFiniteSet(Engines) /\ Cardinality(Engines) = N_ENG
<1>1. N_ENG \in Nat \ {0}
  BY TilingAssumption
<1>2. 0 \in Int /\ N_ENG - 1 \in Int /\ 0 <= N_ENG - 1 /\ N_ENG - 1 - 0 + 1 = N_ENG
  BY <1>1
<1> QED BY <1>2, FS_Interval DEF Engines

\* What is left after the tiles seen done at this edge; all of those worked.
LEMMA Counted ==
  ASSUME IInv, FewEngines
  PROVE  /\ done_rising = DoneSet /\ DoneSet \cap Busy = {}
         /\ IsFiniteSet(Working \ done_rising)
         /\ Remaining = Cardinality(Working \ done_rising)
         /\ Remaining \in 0 .. N_ENG
         /\ Remaining < N_ENG \/ Working \ done_rising = Engines
<1>1. done_rising = DoneSet
  BY DEF IInv, EngineInv, done_rising, DoneSet
<1>2. DoneSet \cap Busy = {}
  BY DEF IInv, EngineInv, DoneSet, Busy
<1>3. IsFiniteSet(Engines) /\ Cardinality(Engines) = N_ENG
  BY EnginesFinite
<1>4. Working \in SUBSET Engines /\ done_rising \in SUBSET Engines
      /\ Working \ done_rising \in SUBSET Engines
  BY DEF Working, Busy, DoneSet, done_rising, IInv
<1>5. /\ IsFiniteSet(Working) /\ IsFiniteSet(Working \ done_rising)
      /\ IsFiniteSet(done_rising)
      /\ Cardinality(Working \ done_rising) <= N_ENG
      /\ Cardinality(Working \ done_rising) = N_ENG => Working \ done_rising = Engines
  BY <1>3, <1>4, FS_Subset
<1>6. /\ Cardinality(Working) \in Nat /\ Cardinality(done_rising) \in Nat
      /\ Cardinality(Working \ done_rising) \in Nat
  BY <1>5, FS_CardinalityType
<1>7. Working \cap done_rising = done_rising
  BY <1>1 DEF Working
<1>8. Cardinality(Working \ done_rising) = Cardinality(Working) - Cardinality(done_rising)
  BY <1>5, <1>7, FS_Difference
<1>9. tiles_outstanding = Cardinality(Working)
  BY DEF IInv, OutstandingExact, Working, DoneSet
<1>10. Remaining = Cardinality(Working \ done_rising)
  BY <1>5, <1>6, <1>8, <1>9, TilingAssumption DEF Remaining, FewEngines
<1> QED BY <1>1, <1>2, <1>5, <1>6, <1>10, TilingAssumption

-----------------------------------------------------------------------------
(* One prefetch at one edge.                                               *)

PrefetchStates == {"ST_PREFETCH_CMD", "ST_WAIT_PREFETCH"}

\* What a branch of the dispatcher does to the flags of the prefetches.
LEMMA Branches ==
  ASSUME Next
  PROVE  \/ PrefetchCmd
         \/ WaitPrefetch
         \/ NChunkSetup
         \/ /\ {state, state'} \cap PrefetchStates = {}
            /\ NoPrefetch
BY DEF Next, Await, Accept, Setup, KChunkSetup, Dispatch, DispatchWait, Wait, NextNChunk,
       NextKChunk, Done, Goto, PrefetchStates

LEMMA PrefetchEdge ==
  ASSUME NEW b \in Buffers, NEW moves \in BOOLEAN, dma'[b] = DmaNext(b, moves),
         PrefetchInv(b), pf \in [Buffers -> Flags],
         Next
  PROVE  PrefetchInv(b)' /\ pf'[b] \in Flags
<1> DEFINE p == pf[b]  d == dma[b]
<1> USE DEF Resting, Unlaunched, Taken, Running, Finishing, Loaded, Goto
<1>1. p.valid \in BOOLEAN /\ p.launched \in BOOLEAN /\ p.done_r \in BOOLEAN
  BY DEF Flags
<1>2. d.ready \in BOOLEAN /\ d.done \in BOOLEAN /\ d.st \in {"IDLE", "RUN", "DONE"}
  BY DEF PrefetchInv
<1>3. /\ {"st", "ready", "done", "cmd"} = DOMAIN dma'[b]
      /\ dma'[b].st \in {"IDLE", "RUN", "DONE"}
      /\ dma'[b].ready \in BOOLEAN /\ dma'[b].done \in BOOLEAN
      /\ d.st = "IDLE" /\ p.valid /\ d.ready =>
           dma'[b].st = "RUN" /\ ~dma'[b].ready /\ ~dma'[b].done
      /\ d.st = "IDLE" /\ ~(p.valid /\ d.ready) =>
           dma'[b].st = "IDLE" /\ ~dma'[b].done
      /\ d.st = "RUN" => /\ dma'[b].st \in {"RUN", "DONE"}
                         /\ dma'[b].ready = d.ready /\ dma'[b].done = d.done
      /\ d.st = "DONE" => /\ dma'[b].st = "IDLE" /\ dma'[b].done
  <2>1. CASE d.st = "IDLE" /\ p.valid /\ d.ready
    <3>1. dma'[b] = [st |-> "RUN", ready |-> FALSE, done |-> FALSE, cmd |-> Prefetch(b)]
      BY <2>1 DEF DmaNext
    <3>2. DOMAIN dma'[b] = {"st", "ready", "done", "cmd"}
      BY <3>1
    <3> QED BY <2>1, <3>1, <3>2
  <2>2. CASE d.st = "IDLE" /\ ~(p.valid /\ d.ready)
    BY <1>2, <2>2 DEF DmaNext, PrefetchInv
  <2>3. CASE d.st = "RUN"
    BY <1>2, <2>3 DEF DmaNext, PrefetchInv
  <2>4. CASE d.st = "DONE"
    BY <1>2, <2>4 DEF DmaNext, PrefetchInv
  <2> QED BY <1>2, <2>1, <2>2, <2>3, <2>4
<1>4. Latched[b].valid = FALSE /\ Latched[b].launched = p.launched
      /\ Latched[b].done_r = (p.done_r \/ d.done) /\ Latched[b] \in Flags
  BY <1>1, <1>2 DEF Latched, Flags
<1>5. CASE PrefetchCmd
  <2>1. /\ state = "ST_PREFETCH_CMD"
        /\ \/ state' = "ST_PREFETCH_CMD"
           \/ state' = "ST_WAIT_PREFETCH" /\ p.launched
    BY <1>5 DEF PrefetchCmd
  <2>2. Unlaunched(b) \/ Taken(b) \/ Running(b) \/ Finishing(b) \/ Loaded(b)
    BY <2>1 DEF PrefetchInv
  <2>3. CASE p.launched
    <3>1. pf'[b] = Latched[b]
      BY <1>5, <2>3 DEF PrefetchCmd
    <3>2. Running(b)' \/ Finishing(b)' \/ Loaded(b)'
      BY <1>1, <1>2, <1>3, <1>4, <2>2, <2>3, <3>1
    <3> QED BY <1>3, <1>4, <2>1, <3>1, <3>2 DEF PrefetchInv
  <2>4. CASE ~p.launched
    <3>1. pf'[b] = [Latched[b] EXCEPT !.valid = TRUE, !.launched = p.valid /\ d.ready]
      BY <1>5, <2>4 DEF PrefetchCmd
    <3>2. pf'[b].valid /\ pf'[b].launched = (p.valid /\ d.ready)
          /\ pf'[b].done_r = (p.done_r \/ d.done) /\ pf'[b] \in Flags
      BY <1>1, <1>2, <1>4, <3>1 DEF Flags
    <3>3. Unlaunched(b)' \/ Taken(b)'
      BY <1>1, <1>2, <1>3, <2>2, <2>4, <3>2
    <3> QED BY <1>3, <2>1, <2>4, <3>2, <3>3 DEF PrefetchInv
  <2> QED BY <2>3, <2>4
<1>6. CASE WaitPrefetch
  <2>1. /\ state = "ST_WAIT_PREFETCH" /\ pf'[b] = Latched[b]
        /\ \/ state' = "ST_WAIT_PREFETCH"
           \/ state' = "ST_DISPATCH" /\ p.done_r
    BY <1>6 DEF WaitPrefetch, NoPrefetch
  <2>2. Running(b) \/ Finishing(b) \/ Loaded(b)
    BY <2>1 DEF PrefetchInv
  <2>3. Running(b)' \/ Finishing(b)' \/ Loaded(b)'
    BY <1>1, <1>2, <1>3, <1>4, <2>1, <2>2
  <2>4. p.done_r => Loaded(b)'
    BY <1>1, <1>2, <1>3, <1>4, <2>1, <2>2
  <2> QED BY <1>3, <1>4, <2>1, <2>3, <2>4 DEF PrefetchInv
<1>7. CASE NChunkSetup
  <2>1. /\ state = "ST_N_CHUNK_SETUP" /\ state' = "ST_PREFETCH_CMD"
        /\ pf'[b] = [valid |-> FALSE, launched |-> FALSE, done_r |-> FALSE]
    BY <1>7 DEF NChunkSetup, NoFlags
  <2>2. Resting(b) /\ ~p.valid
    BY <2>1 DEF PrefetchInv
  <2>3. Unlaunched(b)' /\ pf'[b] \in Flags
    BY <1>3, <2>1, <2>2 DEF Flags
  <2> QED BY <1>3, <2>1, <2>3 DEF PrefetchInv
<1>8. CASE {state, state'} \cap PrefetchStates = {} /\ NoPrefetch
  <2>1. /\ state \notin {"ST_PREFETCH_CMD", "ST_WAIT_PREFETCH"}
        /\ state' \notin {"ST_PREFETCH_CMD", "ST_WAIT_PREFETCH"}
    BY <1>8 DEF PrefetchStates
  <2>2. Resting(b) /\ ~p.valid
    BY <2>1 DEF PrefetchInv
  <2>3. pf'[b] = Latched[b]
    BY <1>8 DEF NoPrefetch
  <2>4. Resting(b)' /\ ~pf'[b].valid
    BY <1>2, <1>3, <1>4, <2>2, <2>3
  <2> QED BY <1>3, <1>4, <2>1, <2>3, <2>4 DEF PrefetchInv
<1> QED BY <1>5, <1>6, <1>7, <1>8, Branches

-----------------------------------------------------------------------------
(* Invariance.                                                             *)

DispatchStates == {"ST_DISPATCH", "ST_WAIT"}

\* What a branch of the dispatcher does to the count.
LEMMA CountBranches ==
  ASSUME Next
  PROVE  \/ /\ Dispatch /\ state' \in DispatchStates
            /\ tiles_outstanding' = (Remaining + 1) % 65536
         \/ /\ ~Dispatch /\ NoTile
            /\ state' \in DispatchStates \/ state \notin DispatchStates \/ AllTilesDone
         \/ /\ ~Dispatch /\ state = "ST_WAIT_PREFETCH" /\ tiles_outstanding' = 0
<1> USE DEF Goto, DispatchStates
<1>1. CASE Dispatch
  BY <1>1 DEF Dispatch
<1>2. CASE WaitPrefetch
  BY <1>2 DEF WaitPrefetch, Dispatch
<1>3. CASE Wait
  BY <1>3 DEF Wait, Dispatch
<1>4. CASE DispatchWait /\ ~Dispatch
  BY <1>4 DEF DispatchWait
<1>5. CASE Await \/ Accept \/ Setup \/ KChunkSetup \/ NChunkSetup \/ Done
  BY <1>5 DEF Await, Accept, Setup, KChunkSetup, NChunkSetup, Done, Dispatch
<1>6. CASE PrefetchCmd
  <2>1. state = "ST_PREFETCH_CMD" /\ NoTile
    BY <1>6 DEF PrefetchCmd
  <2> QED BY <2>1 DEF Dispatch
<1>7. CASE NextNChunk
  BY <1>7 DEF NextNChunk, Dispatch
<1>8. CASE NextKChunk
  BY <1>8 DEF NextKChunk, Dispatch
<1> QED BY <1>1, <1>2, <1>3, <1>4, <1>5, <1>6, <1>7, <1>8 DEF Next

LEMMA Initially == Init => IInv
<1> SUFFICES ASSUME Init  PROVE IInv
  OBVIOUS
<1>1. Working = {} /\ DoneSet = {} /\ Busy = {}
  BY TilingAssumption DEF Init, Working, Busy, DoneSet
<1>2. OutstandingExact
  BY <1>1, FS_EmptySet DEF Init, OutstandingExact, DoneSet
<1>3. \A e \in Engines : EngineInv(e)
  BY TilingAssumption DEF Init, EngineInv
<1>4. \A b \in Buffers : PrefetchInv(b)
  BY DEF Init, PrefetchInv, Resting, NoFlags
<1>5. /\ eng_cmd_valid \in Engines \cup {NONE} /\ pf \in [Buffers -> Flags]
      /\ DOMAIN eng = Engines
  BY DEF Init, NoFlags, Flags
<1> QED BY <1>1, <1>2, <1>3, <1>4, <1>5 DEF IInv

LEMMA Inductive == IInv /\ [Next]_tilingVars /\ FewEngines => IInv'
<1> SUFFICES ASSUME IInv, [Next]_tilingVars, FewEngines  PROVE IInv'
  OBVIOUS
<1>1. CASE UNCHANGED tilingVars
  BY <1>1 DEF tilingVars, fsm, command, cursor, IInv, EngineInv, PrefetchInv, Resting,
              Unlaunched, Taken, Running, Finishing, Loaded, OutstandingExact, Working,
              Busy, DoneSet
<1>2. CASE Next
  <2>1. PICK dmas \in SUBSET Buffers, engs \in SUBSET Engines : Edge(dmas, engs)
    BY <1>2 DEF Next
  <2>2. \/ eng_cmd_valid' = NONE /\ ~Dispatch
        \/ eng_cmd_valid' \in Idle /\ Dispatch
    BY <1>2, Commanded
  <2>3. /\ \A e \in Engines : EngineInv(e)'
        /\ Working' = (Working \ done_rising)
                        \cup (IF eng_cmd_valid' = NONE THEN {} ELSE {eng_cmd_valid'})
    BY <2>1, <2>2, EnginesEdge DEF Edge
  <2>4. /\ \A b \in Buffers : PrefetchInv(b)'
        /\ pf' \in [Buffers -> Flags]
    <3>1. ASSUME NEW b \in Buffers  PROVE PrefetchInv(b)' /\ pf'[b] \in Flags
      <4>1. dma'[b] = DmaNext(b, b \in dmas) /\ (b \in dmas) \in BOOLEAN
        BY <2>1 DEF Edge, Dmas
      <4>2. PrefetchInv(b) /\ pf \in [Buffers -> Flags]
        BY DEF IInv
      <4> QED BY <1>2, <2>1, <4>1, <4>2, PrefetchEdge
    <3>2. pf' = [b \in Buffers |-> pf'[b]]
      BY <1>2, Branches DEF PrefetchCmd, WaitPrefetch, NoPrefetch, NChunkSetup, NoFlags,
                            Latched
    <3> QED BY <3>1, <3>2
  <2>5. /\ IsFiniteSet(Working \ done_rising)
        /\ Remaining = Cardinality(Working \ done_rising)
        /\ Remaining \in 0 .. N_ENG
        /\ Remaining < N_ENG \/ Working \ done_rising = Engines
    BY Counted
  <2>6. /\ tiles_outstanding' = Cardinality(Working')
        /\ state' \notin DispatchStates => Working' = {}
    <3>1. CASE /\ Dispatch /\ state' \in DispatchStates
               /\ tiles_outstanding' = (Remaining + 1) % 65536
      <4>1. eng_cmd_valid' \in Idle /\ eng_cmd_valid' # NONE
        BY <2>2, <3>1, TilingAssumption DEF Idle
      <4>2. eng_cmd_valid' \in Engines /\ eng_cmd_valid' \notin Working
        BY <4>1 DEF Idle, Working, Busy, DoneSet, IInv, EngineInv
      <4>3. Cardinality(Working') = Remaining + 1
        BY <2>3, <2>5, <4>1, <4>2, FS_AddElement
      <4>4. Working \ done_rising # Engines
        BY <4>2
      <4>5. Remaining + 1 \in Nat /\ Remaining + 1 < 65536
        <5>1. N_ENG \in Nat
          BY TilingAssumption
        <5>2. Remaining \in Nat /\ Remaining < N_ENG
          BY <2>5, <4>4, <5>1
        <5>3. N_ENG < 65536
          BY DEF FewEngines
        <5> QED BY <5>1, <5>2, <5>3
      <4> QED BY <3>1, <4>3, <4>5
    <3>2. CASE /\ ~Dispatch /\ NoTile
               /\ state' \in DispatchStates \/ state \notin DispatchStates \/ AllTilesDone
      <4>1. Working' = Working \ done_rising /\ tiles_outstanding' = Remaining
        BY <2>3, <3>2 DEF NoTile
      <4>2. state \notin DispatchStates => Working = {}
        BY DEF IInv, DispatchStates
      <4>3. ASSUME AllTilesDone  PROVE Working \ done_rising = {}
        <5>1. Cardinality(done_rising) \in Nat
          <6>1. done_rising \in SUBSET Engines
            BY DEF done_rising
          <6>2. IsFiniteSet(Engines)
            BY EnginesFinite
          <6> QED BY <6>1, <6>2, FS_Subset, FS_CardinalityType
        <5>2. Remaining = 0
          BY <4>3, <5>1 DEF AllTilesDone, Remaining
        <5> QED BY <2>5, <5>2, FS_EmptySet
      <4> QED BY <2>5, <3>2, <4>1, <4>2, <4>3
    <3>3. CASE ~Dispatch /\ state = "ST_WAIT_PREFETCH" /\ tiles_outstanding' = 0
      <4>1. Working' = {}
        BY <2>2, <2>3, <3>3 DEF IInv
      <4>2. Cardinality(Working') = 0
        BY <4>1, FS_EmptySet
      <4> QED BY <3>3, <4>1, <4>2
    <3> QED BY <1>2, <3>1, <3>2, <3>3, CountBranches
  <2>7. OutstandingExact'
    <3>1. DOMAIN eng' = Engines
      BY <2>1 DEF Edge, EngineStep
    <3> QED BY <2>6, <3>1 DEF OutstandingExact, Working, DoneSet
  <2>8. eng_cmd_valid' \in Engines \cup {NONE} /\ DOMAIN eng' = Engines
    BY <2>1, <2>2 DEF Idle, Edge, EngineStep
  <2> QED BY <2>3, <2>4, <2>6, <2>7, <2>8 DEF IInv, DispatchStates
<1> QED BY <1>1, <1>2

LEMMA Invariance == ASSUME FewEngines  PROVE Spec => []IInv
BY Initially, Inductive, PTL DEF Spec

\* tiles_outstanding of rtl/tiling_engine.v is the number of tiles handed out and
\* not seen the end of, in whatever order the engines end their tiles, several of
\* them at the edge of a dispatch included.
THEOREM CountExact == ASSUME FewEngines  PROVE Spec => []OutstandingExact
<1>1. IInv => OutstandingExact
  BY DEF IInv
<1> QED BY <1>1, Invariance, PTL

\* A prefetch buffer is filled only while no engine is at work: the done_r flags
\* of one chunk are never mistaken for those of the next, and no chunk is left
\* with a tile being computed.
THEOREM FillsWhileQuiet == ASSUME FewEngines  PROVE Spec => []BuffersQuiet
<1>1. IInv => BuffersQuiet
  <2> SUFFICES ASSUME IInv, NEW b \in Buffers, dma[b].st # "IDLE"  PROVE Busy = {}
    BY DEF BuffersQuiet
  <2>1. state \in PrefetchStates
    BY DEF IInv, PrefetchInv, Resting, PrefetchStates
  <2>2. Working = {}
    BY <2>1 DEF IInv, PrefetchStates
  <2> QED BY <2>2 DEF Working
<1> QED BY <1>1, Invariance, PTL

-----------------------------------------------------------------------------
(* The arithmetic of the tile walk.                                        *)

LEMMA Division ==
  ASSUME NEW a \in Int, NEW b \in Nat \ {0}
  PROVE  /\ a \div b \in Int /\ a % b \in 0 .. b - 1
         /\ a = (a \div b) * b + (a % b)
OBVIOUS

LEMMA Cancel ==
  ASSUME NEW x \in Int, NEW y \in Int, NEW n \in Nat \ {0}, x * n = y * n
  PROVE  x = y
OBVIOUS

LEMMA BelowCeil ==
  ASSUME NEW a \in Nat \ {0}, NEW b \in Nat \ {0}
  PROVE  /\ CeilDiv(a, b) \in Nat \ {0}
         /\ \A i \in Int : i < CeilDiv(a, b) => i * b < a
<1> DEFINE q == (a + b - 1) \div b
<1>1. q \in Int /\ q * b <= a + b - 1 /\ a + b - 1 < q * b + b
  BY Division
<1> HIDE DEF q
<1>2. q >= 1
  <2>1. ASSUME q <= 0  PROVE FALSE
    <3>1. q * b <= 0
      BY <1>1, <2>1
    <3> QED BY <1>1, <3>1
  <2> QED BY <1>1, <2>1
<1>3. ASSUME NEW i \in Int, i < q  PROVE i * b < a
  <2>1. i + 1 \in Int /\ i + 1 <= q
    BY <1>1, <1>3
  <2>2. (i + 1) * b <= q * b
    BY <1>1, <2>1
  <2>3. (i + 1) * b = i * b + b /\ i * b \in Int /\ q * b \in Int
    BY <1>1
  <2> QED BY <1>1, <2>2, <2>3
<1> QED BY <1>1, <1>2, <1>3 DEF CeilDiv, q

LEMMA ModApart ==
  ASSUME NEW x \in Int, NEW y \in Int, NEW n \in Nat \ {0},
         x % n = y % n, x - y < n, y - x < n
  PROVE  x = y
<1> DEFINE p == x \div n  q == y \div n  r == x % n
<1>1. p \in Int /\ q \in Int /\ r \in Int /\ x = p * n + r /\ y = q * n + r
  BY Division
<1> HIDE DEF p, q, r
<1>2. x - y = (p - q) * n /\ y - x = (q - p) * n
  BY <1>1
<1>3. ~(p - q >= 1) /\ ~(q - p >= 1)
  <2>1. \A d \in Int : d >= 1 => d * n >= n
    OBVIOUS
  <2> QED BY <1>1, <1>2, <2>1
<1>4. p = q
  BY <1>1, <1>3
<1> QED BY <1>1, <1>4

-----------------------------------------------------------------------------
(* The walk: the tiles at work lie before the cursor.                      *)

\* The products of the commands fit in the URAM.
TilesFit ==
  /\ \A c \in MatmulCommands : c.m <= URAM_ROWS
  /\ PREFETCH_DIM <= URAM_COL_WORDS * BUS_EL

ChunkStates == {"ST_N_CHUNK_SETUP", "ST_PREFETCH_CMD", "ST_WAIT_PREFETCH", "ST_DISPATCH",
                "ST_WAIT", "ST_NEXT_N_CHUNK"}

ChunkInv ==
  /\ cmd \in MatmulCommands \cup {NONE}
  /\ state # "ST_IDLE" => cmd_r \in MatmulCommands
  /\ n_chunk_idx \in Nat
  /\ state \in ChunkStates => n_chunk_idx < num_n_chunks

\* The indices of a tile in its chunk, its place, and those handed out before it.
Index == (0 .. num_m_tiles - 1) \X (0 .. num_n_tiles_chunk - 1)
Placed(t, x) ==
  /\ t.out_row = (x[1] * TILE) % URAM_ROWS
  /\ t.out_col = (n_chunk_idx * CHUNK_WORDS + x[2] * TILE_COL_WORDS
                    + cmd_r.out_col_offset) % URAM_COL_WORDS
  /\ t.first = FirstKChunk
Before(x) == x[1] < cur_m \/ (x[1] = cur_m /\ x[2] < cur_n)

CursorInv ==
  state = "ST_DISPATCH" =>
    /\ ~all_dispatched /\ <<cur_m, cur_n>> \in Index
    /\ \A e \in Busy : \E x \in Index : Before(x) /\ Placed(TileOf(e), x)

WalkInv == ChunkInv /\ CursorInv /\ TilesDisjoint

\* The sizes of a chunk, for the command under way.
LEMMA ChunkSizes ==
  ASSUME ChunkInv, state \in ChunkStates
  PROVE  /\ num_m_tiles \in Nat \ {0} /\ num_n_tiles_chunk \in Nat \ {0}
         /\ \A x \in Index : x[1] * TILE < cmd_r.m /\ x[2] * TILE < PREFETCH_DIM
<1>1. TILE \in Nat \ {0} /\ PREFETCH_DIM \in Nat \ {0}
  BY TilingAssumption
<1>2. cmd_r.m \in Nat \ {0} /\ cmd_r.n \in Nat \ {0}
  BY CommandAssumption DEF ChunkInv, ChunkStates, Command
<1>3. n_chunk_idx \in Nat /\ n_chunk_idx < num_n_chunks
  BY DEF ChunkInv
<1>4. n_chunk_idx * PREFETCH_DIM < cmd_r.n
  BY <1>1, <1>2, <1>3, BelowCeil DEF num_n_chunks
<1>5. n_chunk_size \in Nat \ {0} /\ n_chunk_size <= PREFETCH_DIM
  <2>1. n_chunk_idx * PREFETCH_DIM \in Nat
    BY <1>1, <1>3
  <2> QED BY <1>1, <1>2, <1>4, <2>1 DEF n_chunk_size, min_dim
<1>6. num_m_tiles \in Nat \ {0} /\ num_n_tiles_chunk \in Nat \ {0}
  BY <1>1, <1>2, <1>5, BelowCeil DEF num_m_tiles, num_n_tiles_chunk
<1>7. ASSUME NEW x \in Index  PROVE x[1] * TILE < cmd_r.m /\ x[2] * TILE < PREFETCH_DIM
  <2>1. /\ x[1] \in Int /\ x[1] < CeilDiv(cmd_r.m, TILE)
        /\ x[2] \in Int /\ x[2] < CeilDiv(n_chunk_size, TILE)
    BY <1>6 DEF Index, num_m_tiles, num_n_tiles_chunk
  <2>2. x[1] * TILE < cmd_r.m /\ x[2] * TILE < n_chunk_size
    BY <1>1, <1>2, <1>5, <2>1, BelowCeil
  <2>3. x[2] * TILE \in Int
    BY <1>1, <2>1
  <2> QED BY <1>1, <1>5, <2>2, <2>3
<1> QED BY <1>6, <1>7

\* Two tiles of a chunk are never in the same place.
LEMMA PlacesApart ==
  ASSUME ChunkInv, state \in ChunkStates, TilesFit, NEW x \in Index, NEW y \in Index,
         NEW t, NEW u, Placed(t, x), Placed(u, y),
         <<t.out_row, t.out_col>> = <<u.out_row, u.out_col>>
  PROVE  x = y
<1>1. TILE \in Nat \ {0} /\ BUS_EL \in Nat \ {0} /\ TILE % BUS_EL = 0
      /\ URAM_ROWS \in Nat \ {0} /\ URAM_COL_WORDS \in Nat \ {0}
      /\ PREFETCH_DIM \in Nat \ {0} /\ CHUNK_WORDS \in Int
  BY TilingAssumption DEF CHUNK_WORDS
<1>2. TILE_COL_WORDS \in Nat \ {0} /\ TILE = TILE_COL_WORDS * BUS_EL
  <2>1. TILE_COL_WORDS \in Int /\ TILE = TILE_COL_WORDS * BUS_EL
    BY <1>1, Division DEF TILE_COL_WORDS
  <2>2. ASSUME TILE_COL_WORDS <= 0  PROVE FALSE
    <3>1. TILE_COL_WORDS * BUS_EL <= 0
      BY <1>1, <2>1, <2>2
    <3> QED BY <1>1, <2>1, <3>1
  <2> QED BY <2>1, <2>2
<1>3. /\ x[1] \in Nat /\ x[2] \in Nat /\ y[1] \in Nat /\ y[2] \in Nat
      /\ x = <<x[1], x[2]>> /\ y = <<y[1], y[2]>>
  BY ChunkSizes DEF Index
<1>4. /\ x[1] * TILE < URAM_ROWS /\ y[1] * TILE < URAM_ROWS
      /\ x[2] * TILE < PREFETCH_DIM /\ y[2] * TILE < PREFETCH_DIM
  <2>1. cmd_r.m \in Nat /\ cmd_r.m <= URAM_ROWS
    BY CommandAssumption DEF ChunkInv, ChunkStates, Command, TilesFit
  <2>2. x[1] * TILE \in Int /\ y[1] * TILE \in Int
    BY <1>1, <1>3
  <2> QED BY <1>1, <2>1, <2>2, ChunkSizes
<1>5. x[1] = y[1]
  <2>1. x[1] * TILE \in Nat /\ y[1] * TILE \in Nat
    BY <1>1, <1>3
  <2>2. (x[1] * TILE) % URAM_ROWS = (y[1] * TILE) % URAM_ROWS
    BY DEF Placed
  <2>3. x[1] * TILE = y[1] * TILE
    BY <1>1, <1>4, <2>1, <2>2, ModApart
  <2> QED BY <1>1, <1>3, <2>3, Cancel
<1>6. x[2] = y[2]
  <2> DEFINE base == n_chunk_idx * CHUNK_WORDS + cmd_r.out_col_offset
             xc == x[2] * TILE_COL_WORDS
             yc == y[2] * TILE_COL_WORDS
  <2>1. base \in Int /\ xc \in Nat /\ yc \in Nat
    <3>1. cmd_r.out_col_offset \in Nat /\ n_chunk_idx \in Nat
      BY CommandAssumption DEF ChunkInv, ChunkStates, Command
    <3> QED BY <1>1, <1>2, <1>3, <3>1
  <2>2. xc < URAM_COL_WORDS /\ yc < URAM_COL_WORDS
    <3>1. xc * BUS_EL = x[2] * TILE /\ yc * BUS_EL = y[2] * TILE
      BY <1>1, <1>2, <1>3
    <3>2. URAM_COL_WORDS * BUS_EL \in Int /\ x[2] * TILE \in Int /\ y[2] * TILE \in Int
      BY <1>1, <1>3
    <3>3. xc * BUS_EL < URAM_COL_WORDS * BUS_EL /\ yc * BUS_EL < URAM_COL_WORDS * BUS_EL
      BY <1>1, <1>4, <3>1, <3>2 DEF TilesFit
    <3> QED BY <1>1, <2>1, <3>3
  <2>3. (base + xc) % URAM_COL_WORDS = (base + yc) % URAM_COL_WORDS
    <3>1. /\ n_chunk_idx * CHUNK_WORDS + xc + cmd_r.out_col_offset = base + xc
          /\ n_chunk_idx * CHUNK_WORDS + yc + cmd_r.out_col_offset = base + yc
      <4>1. cmd_r.out_col_offset \in Nat /\ n_chunk_idx * CHUNK_WORDS \in Int
        BY <1>1, CommandAssumption DEF ChunkInv, ChunkStates, Command
      <4> QED BY <2>1, <4>1
    <3> QED BY <3>1 DEF Placed
  <2> HIDE DEF base, xc, yc
  <2>4. base + xc = base + yc
    <3>1. /\ base + xc \in Int /\ base + yc \in Int
          /\ (base + xc) - (base + yc) < URAM_COL_WORDS
          /\ (base + yc) - (base + xc) < URAM_COL_WORDS
      BY <1>1, <2>1, <2>2
    <3> QED BY <1>1, <2>3, <3>1, ModApart
  <2>5. x[2] * TILE_COL_WORDS = y[2] * TILE_COL_WORDS
    BY <2>1, <2>4 DEF xc, yc
  <2> QED BY <1>2, <1>3, <2>5, Cancel
<1> QED BY <1>3, <1>5, <1>6

\* An engine at work keeps its tile; a new one gets the tile under the cursor.
LEMMA TilesStay ==
  ASSUME NEW e \in Engines, EngineInv(e), NEW moves \in BOOLEAN,
         eng'[e] = EngNext(e, moves), eng_cmd_valid' # e, e \in Busy'
  PROVE  e \in Busy /\ TileOf(e)' = TileOf(e)
<1>1. eng'[e].st # "IDLE" /\ TileOf(e)' = eng'[e].tile
  BY DEF Busy, TileOf
<1>2. DOMAIN eng[e] = {"st", "ready", "done", "tile", "kt", "acc"}
  BY DEF EngineInv
<1>3. CASE eng[e].st = "IDLE" /\ eng_cmd_valid = e /\ eng[e].ready
  <2>1. eng'[e].tile = eng_cmd
    BY <1>2, <1>3 DEF EngNext
  <2> QED BY <1>1, <1>3, <2>1 DEF Busy, TileOf, EngineInv
<1>4. CASE eng[e].st = "IDLE" /\ ~(eng_cmd_valid = e /\ eng[e].ready)
  BY <1>1, <1>2, <1>4 DEF EngNext
<1>5. CASE eng[e].st # "IDLE"
  <2>1. eng_cmd_valid # e
    BY <1>5 DEF EngineInv
  <2>2. eng'[e].tile = eng[e].tile
    BY <1>2, <1>5 DEF EngNext, EngineInv
  <2> QED BY <1>1, <1>5, <2>1, <2>2 DEF Busy, TileOf, EngineInv
<1> QED BY <1>3, <1>4, <1>5

LEMMA ChunkStep ==
  ASSUME ChunkInv, Next
  PROVE  ChunkInv'
<1>1. PICK dmas \in SUBSET Buffers, engs \in SUBSET Engines : Edge(dmas, engs)
  BY DEF Next
<1>2. cmd' \in MatmulCommands \cup {NONE}
  BY <1>1 DEF Edge, Client
<1>3. \A c \in MatmulCommands : c.n \in Nat \ {0}
  BY CommandAssumption DEF Command
<1>4. cmd \in MatmulCommands \cup {NONE} /\ n_chunk_idx \in Nat
  BY DEF ChunkInv
<1>5. CASE Await \/ Accept
  BY <1>2, <1>4, <1>5 DEF Await, Accept, ChunkInv, Goto, ChunkStates, command
<1>6. CASE KChunkSetup
  <2>1. /\ state = "ST_K_CHUNK_SETUP" /\ state' = "ST_N_CHUNK_SETUP"
        /\ n_chunk_idx' = 0 /\ cmd_r' = cmd_r
    BY <1>6 DEF KChunkSetup, Goto
  <2>2. cmd_r \in MatmulCommands /\ PREFETCH_DIM \in Nat \ {0}
    BY <2>1, TilingAssumption DEF ChunkInv
  <2>3. num_n_chunks' \in Nat \ {0}
    BY <1>3, <2>1, <2>2, BelowCeil DEF num_n_chunks
  <2> QED BY <1>2, <2>1, <2>2, <2>3 DEF ChunkInv
<1>7. CASE NextNChunk
  <2>1. /\ state = "ST_NEXT_N_CHUNK" /\ cmd_r' = cmd_r
        /\ \/ state' = "ST_NEXT_K_CHUNK" /\ n_chunk_idx' = n_chunk_idx
           \/ /\ state' = "ST_N_CHUNK_SETUP" /\ n_chunk_idx' = n_chunk_idx + 1
              /\ n_chunk_idx # num_n_chunks - 1
    BY <1>7 DEF NextNChunk, LastNChunk, Goto
  <2>2. cmd_r \in MatmulCommands /\ PREFETCH_DIM \in Nat \ {0}
        /\ n_chunk_idx < num_n_chunks
    BY <2>1, TilingAssumption DEF ChunkInv, ChunkStates
  <2>3. num_n_chunks' = num_n_chunks /\ num_n_chunks \in Nat \ {0}
    BY <1>3, <2>1, <2>2, BelowCeil DEF num_n_chunks
  <2> QED BY <1>2, <1>4, <2>1, <2>2, <2>3 DEF ChunkInv, ChunkStates
<1>8. CASE /\ cmd_r' = cmd_r /\ n_chunk_idx' = n_chunk_idx /\ state # "ST_IDLE"
           /\ state' \in ChunkStates => state \in ChunkStates
  <2>1. num_n_chunks' = num_n_chunks
    BY <1>8 DEF num_n_chunks
  <2> QED BY <1>2, <1>8, <2>1 DEF ChunkInv
<1>9. Next => \/ Await \/ Accept \/ KChunkSetup \/ NextNChunk
              \/ /\ cmd_r' = cmd_r /\ n_chunk_idx' = n_chunk_idx /\ state # "ST_IDLE"
                 /\ state' \in ChunkStates => state \in ChunkStates
  <2> USE DEF Goto, command, ChunkStates
  <2>1. Setup \/ NChunkSetup \/ WaitPrefetch \/ Dispatch =>
          /\ cmd_r' = cmd_r /\ n_chunk_idx' = n_chunk_idx /\ state # "ST_IDLE"
          /\ state' \in ChunkStates => state \in ChunkStates
    BY DEF Setup, NChunkSetup, WaitPrefetch, Dispatch
  <2>2. DispatchWait \/ Wait \/ NextKChunk \/ Done =>
          /\ cmd_r' = cmd_r /\ n_chunk_idx' = n_chunk_idx /\ state # "ST_IDLE"
          /\ state' \in ChunkStates => state \in ChunkStates
    BY DEF DispatchWait, Wait, NextKChunk, Done
  <2>3. PrefetchCmd =>
          /\ cmd_r' = cmd_r /\ n_chunk_idx' = n_chunk_idx /\ state # "ST_IDLE"
          /\ state' \in ChunkStates => state \in ChunkStates
    BY DEF PrefetchCmd
  <2> QED BY <2>1, <2>2, <2>3 DEF Next
<1> QED BY <1>5, <1>6, <1>7, <1>8, <1>9

\* Outside the two dispatching states no engine is at work, before or after.
LEMMA QuietWalk ==
  ASSUME IInv, Next, state \notin DispatchStates
  PROVE  Busy' = {}
<1>1. PICK dmas \in SUBSET Buffers, engs \in SUBSET Engines : Edge(dmas, engs)
  BY DEF Next
<1>2. Working = {} /\ Busy = {}
  BY DEF IInv, DispatchStates, Working
<1>3. eng_cmd_valid' = NONE
  BY Commanded DEF Dispatch, DispatchStates
<1>4. ASSUME NEW e \in Busy'  PROVE FALSE
  <2>1. e \in Engines /\ EngineInv(e)
    BY <1>1 DEF Busy, IInv, Edge, EngineStep
  <2>2. eng'[e] = EngNext(e, e \in engs) /\ (e \in engs) \in BOOLEAN
    BY <1>1, <2>1 DEF Edge, EngineStep
  <2>3. eng_cmd_valid' # e
    BY <1>3, <2>1, TilingAssumption
  <2> QED BY <1>2, <2>1, <2>2, <2>3, TilesStay
<1> QED BY <1>4

\* The branches, by what they do to the walk.
LEMMA WalkBranches ==
  ASSUME Next
  PROVE  \/ Dispatch
         \/ WaitPrefetch
         \/ /\ state \notin DispatchStates /\ state' # "ST_DISPATCH"
         \/ /\ state = "ST_DISPATCH" \/ state' # "ST_DISPATCH"
            /\ UNCHANGED <<command, cursor>> /\ eng_cmd_valid' = NONE
<1> USE DEF Goto, DispatchStates, NoTile
<1>1. Await \/ Accept \/ Setup \/ KChunkSetup \/ NChunkSetup \/ NextKChunk \/ Done =>
        state \notin DispatchStates /\ state' # "ST_DISPATCH"
  BY DEF Await, Accept, Setup, KChunkSetup, NChunkSetup, NextKChunk, Done
<1>2. PrefetchCmd \/ NextNChunk => state \notin DispatchStates /\ state' # "ST_DISPATCH"
  BY DEF PrefetchCmd, NextNChunk
<1>3. DispatchWait \/ Wait =>
        /\ state = "ST_DISPATCH" \/ state' # "ST_DISPATCH"
        /\ UNCHANGED <<command, cursor>> /\ eng_cmd_valid' = NONE
  BY DEF DispatchWait, Wait
<1> QED BY <1>1, <1>2, <1>3 DEF Next

LEMMA DispatchWalk ==
  ASSUME IInv, WalkInv, TilesFit, Next, Dispatch
  PROVE  CursorInv' /\ TilesDisjoint'
<1> DEFINE here == <<cur_m, cur_n>>
<1>1. PICK dmas \in SUBSET Buffers, engs \in SUBSET Engines : Edge(dmas, engs)
  BY DEF Next
<1>2. /\ state = "ST_DISPATCH" /\ state \in ChunkStates /\ ~all_dispatched
      /\ here \in Index /\ ChunkInv
      /\ \A e \in Busy : \E x \in Index : Before(x) /\ Placed(TileOf(e), x)
  BY DEF Dispatch, WalkInv, CursorInv, ChunkStates
<1>3. cmd_r' = cmd_r /\ n_chunk_idx' = n_chunk_idx /\ k_chunk_idx' = k_chunk_idx
      /\ eng_cmd' = Tile
  BY DEF Dispatch, command
<1>4. Index' = Index /\ FirstKChunk' = FirstKChunk
      /\ num_m_tiles' = num_m_tiles /\ num_n_tiles_chunk' = num_n_tiles_chunk
  BY <1>3 DEF Index, num_m_tiles, num_n_tiles_chunk, n_chunk_size, FirstKChunk
<1>5. \A t, x : Placed(t, x)' <=> Placed(t, x)
  BY <1>3, <1>4 DEF Placed
<1>6. Placed(Tile, here)
  BY DEF Placed, Tile, OutCol
<1>7. ~Before(here) /\ \A x \in Index : Before(x) => x # here
  BY <1>2, ChunkSizes DEF Before, Index
<1>8. \A e \in Busy' :
        \/ e \in Busy /\ TileOf(e)' = TileOf(e) /\ eng_cmd_valid' # e
        \/ eng_cmd_valid' = e /\ TileOf(e)' = Tile
  <2> SUFFICES ASSUME NEW e \in Busy', eng_cmd_valid' # e
               PROVE  e \in Busy /\ TileOf(e)' = TileOf(e)
    BY <1>3 DEF TileOf
  <2>1. e \in Engines /\ EngineInv(e)
    BY <1>1 DEF Busy, IInv, Edge, EngineStep
  <2>2. eng'[e] = EngNext(e, e \in engs) /\ (e \in engs) \in BOOLEAN
    BY <1>1, <2>1 DEF Edge, EngineStep
  <2> QED BY <2>1, <2>2, TilesStay
<1>9. \A e \in Busy :
        /\ <<TileOf(e).out_row, TileOf(e).out_col>> # <<Tile.out_row, Tile.out_col>>
        /\ TileOf(e).first = Tile.first
  <2> SUFFICES ASSUME NEW e \in Busy
               PROVE  /\ <<TileOf(e).out_row, TileOf(e).out_col>>
                           # <<Tile.out_row, Tile.out_col>>
                      /\ TileOf(e).first = Tile.first
    OBVIOUS
  <2>1. PICK x \in Index : Before(x) /\ Placed(TileOf(e), x)
    BY <1>2
  <2>2. x # here
    BY <1>7, <2>1
  <2>3. TileOf(e).first = Tile.first
    BY <1>6, <2>1 DEF Placed
  <2> QED BY <1>2, <1>6, <2>1, <2>2, <2>3, PlacesApart
<1>10. TilesDisjoint'
  <2> SUFFICES ASSUME NEW e \in Busy', NEW f \in Busy', e # f
               PROVE  /\ <<TileOf(e).out_row, TileOf(e).out_col>>'
                            # <<TileOf(f).out_row, TileOf(f).out_col>>'
                      /\ TileOf(e)'.first = TileOf(f)'.first
    BY DEF TilesDisjoint
  <2>1. CASE eng_cmd_valid' # e /\ eng_cmd_valid' # f
    BY <1>8, <2>1 DEF WalkInv, TilesDisjoint
  <2>2. CASE eng_cmd_valid' = e /\ eng_cmd_valid' # f
    BY <1>8, <1>9, <2>2
  <2>3. CASE eng_cmd_valid' # e /\ eng_cmd_valid' = f
    BY <1>8, <1>9, <2>3
  <2> QED BY <2>1, <2>2, <2>3
<1>11. CursorInv'
  <2> SUFFICES ASSUME state' = "ST_DISPATCH"
               PROVE  /\ ~all_dispatched' /\ <<cur_m', cur_n'>> \in Index
                      /\ \A e \in Busy' : \E x \in Index :
                           Before(x)' /\ Placed(TileOf(e)', x)
    BY <1>4, <1>5 DEF CursorInv, Placed
  <2>1. cur_m \in Nat /\ cur_n \in Nat /\ cur_m < num_m_tiles /\ cur_n < num_n_tiles_chunk
        /\ num_m_tiles \in Nat /\ num_n_tiles_chunk \in Nat
    BY <1>2, ChunkSizes DEF Index
  <2>2. \/ /\ cur_n # num_n_tiles_chunk - 1 /\ cur_n' = cur_n + 1 /\ cur_m' = cur_m
           /\ ~all_dispatched'
        \/ /\ cur_m # num_m_tiles - 1 /\ cur_n' = 0 /\ cur_m' = cur_m + 1
           /\ ~all_dispatched'
    <3> DEFINE last_n == cur_n = num_n_tiles_chunk - 1
               last_m == cur_m = num_m_tiles - 1
    <3>1. /\ cur_n' = IF last_n THEN 0 ELSE cur_n + 1
          /\ cur_m' = IF last_n /\ ~last_m THEN cur_m + 1 ELSE cur_m
          /\ state' = IF last_n /\ last_m THEN "ST_WAIT" ELSE state
      BY DEF Dispatch, Goto
    <3>2. ~(last_n /\ last_m)
      BY <1>2, <3>1
    <3>3. all_dispatched' = (last_n /\ last_m)
      BY DEF Dispatch
    <3>4. ~all_dispatched'
      <4> HIDE DEF last_n, last_m
      <4> QED BY Zenon, <3>2, <3>3
    <3> QED BY <3>1, <3>2, <3>4
  <2>3. <<cur_m', cur_n'>> \in Index
    BY <2>1, <2>2 DEF Index
  <2>4. /\ here[1] < cur_m' \/ (here[1] = cur_m' /\ here[2] < cur_n')
        /\ \A x \in Index : Before(x) => Before(x)'
    <3>1. \A x \in Index : x[1] \in Nat /\ x[2] \in Nat /\ x[2] < num_n_tiles_chunk
      BY <2>1 DEF Index
    <3> QED BY <2>1, <2>2, <3>1 DEF Before
  <2>5. ASSUME NEW e \in Busy'
        PROVE  \E x \in Index : Before(x)' /\ Placed(TileOf(e)', x)
    <3>1. CASE e \in Busy /\ TileOf(e)' = TileOf(e)
      BY <1>2, <2>4, <3>1
    <3>2. CASE TileOf(e)' = Tile
      <4>1. Placed(TileOf(e)', here)
        BY <1>6, <3>2
      <4> QED BY <1>2, <2>4, <4>1 DEF Before
    <3> QED BY <1>8, <3>1, <3>2
  <2> QED BY <2>2, <2>3, <2>5
<1> QED BY <1>10, <1>11

LEMMA WalkInductive == IInv /\ WalkInv /\ TilesFit /\ [Next]_tilingVars => WalkInv'
<1> SUFFICES ASSUME IInv, WalkInv, TilesFit, [Next]_tilingVars  PROVE WalkInv'
  OBVIOUS
<1>1. CASE UNCHANGED tilingVars
  <2> USE <1>1 DEF tilingVars, fsm, command, cursor
  <2>1. ChunkInv'
    BY DEF WalkInv, ChunkInv, num_n_chunks
  <2>2. Busy' = Busy /\ \A e : TileOf(e)' = TileOf(e)
    BY DEF Busy, TileOf
  <2>3. CursorInv' /\ TilesDisjoint'
    BY <2>2 DEF WalkInv, CursorInv, TilesDisjoint, Index, Before, Placed, FirstKChunk,
                num_m_tiles, num_n_tiles_chunk, n_chunk_size
  <2> QED BY <2>1, <2>3 DEF WalkInv
<1>2. CASE Next
  <2>1. ChunkInv'
    BY <1>2, ChunkStep DEF WalkInv
  <2>2. CASE Dispatch
    BY <1>2, <2>1, <2>2, DispatchWalk DEF WalkInv
  <2>3. CASE WaitPrefetch
    <3>1. Busy' = {} /\ state = "ST_WAIT_PREFETCH"
      BY <1>2, <2>3, QuietWalk DEF WaitPrefetch, DispatchStates
    <3>2. Index' = Index
      BY <2>3 DEF WaitPrefetch, command, Index, num_m_tiles, num_n_tiles_chunk, n_chunk_size
    <3>3. <<0, 0>> \in Index
      BY <3>1, ChunkSizes DEF WalkInv, ChunkStates, Index
    <3>4. state' = "ST_DISPATCH" => cur_m' = 0 /\ cur_n' = 0 /\ ~all_dispatched'
      BY <2>3, <3>1 DEF WaitPrefetch, Goto
    <3> QED BY <2>1, <3>1, <3>2, <3>3, <3>4 DEF WalkInv, CursorInv, TilesDisjoint
  <2>4. CASE state \notin DispatchStates /\ state' # "ST_DISPATCH"
    BY <1>2, <2>1, <2>4, QuietWalk DEF WalkInv, CursorInv, TilesDisjoint
  <2>5. CASE /\ state = "ST_DISPATCH" \/ state' # "ST_DISPATCH"
             /\ UNCHANGED <<command, cursor>> /\ eng_cmd_valid' = NONE
    <3>1. PICK dmas \in SUBSET Buffers, engs \in SUBSET Engines : Edge(dmas, engs)
      BY <1>2 DEF Next
    <3>2. ASSUME NEW e \in Busy'  PROVE e \in Busy /\ TileOf(e)' = TileOf(e)
      <4>1. e \in Engines /\ EngineInv(e)
        BY <3>1 DEF Busy, IInv, Edge, EngineStep
      <4>2. eng'[e] = EngNext(e, e \in engs) /\ (e \in engs) \in BOOLEAN
        BY <3>1, <4>1 DEF Edge, EngineStep
      <4>3. eng_cmd_valid' # e
        BY <2>5, <4>1, TilingAssumption
      <4> QED BY <4>1, <4>2, <4>3, TilesStay
    <3>3. TilesDisjoint'
      BY <3>2 DEF WalkInv, TilesDisjoint
    <3>4. /\ Index' = Index /\ FirstKChunk' = FirstKChunk
          /\ \A x : Before(x)' <=> Before(x)
      BY <2>5 DEF command, cursor, Index, num_m_tiles, num_n_tiles_chunk, n_chunk_size,
                  FirstKChunk, Before
    <3>5. \A t, x : Placed(t, x)' <=> Placed(t, x)
      BY <2>5, <3>4 DEF command, Placed
    <3>6. CursorInv'
      <4> SUFFICES ASSUME state' = "ST_DISPATCH"
                   PROVE  /\ ~all_dispatched' /\ <<cur_m', cur_n'>> \in Index
                          /\ \A e \in Busy' : \E x \in Index :
                               Before(x) /\ Placed(TileOf(e)', x)
        BY <3>4, <3>5 DEF CursorInv, Placed
      <4> QED BY <2>5, <3>2 DEF WalkInv, CursorInv, cursor
    <3> QED BY <2>1, <3>3, <3>6 DEF WalkInv
  <2> QED BY <1>2, <2>2, <2>3, <2>4, <2>5, WalkBranches
<1> QED BY <1>1, <1>2

LEMMA WalkInitially == Init => WalkInv
<1> SUFFICES ASSUME Init  PROVE WalkInv
  OBVIOUS
<1>1. Busy = {}
  BY TilingAssumption DEF Init, Busy
<1> QED BY <1>1 DEF Init, WalkInv, ChunkInv, CursorInv, TilesDisjoint, ChunkStates

\* Two engines never work on the same output tile, nor on tiles of two K chunks,
\* of commands whose products fit in the URAM: the cursor of rtl/tiling_engine.v
\* visits each tile of a chunk once.
THEOREM TilesApart ==
  ASSUME FewEngines, TilesFit  PROVE Spec => []TilesDisjoint
<1>1. WalkInv => TilesDisjoint
  BY DEF WalkInv
<1>2. TilesFit
  OBVIOUS
<1> QED BY <1>1, <1>2, WalkInitially, WalkInductive, Invariance, PTL DEF Spec

-----------------------------------------------------------------------------
(* Division, once more.                                                    *)

\* Quotient and remainder are unique.
LEMMA DivMod ==
  ASSUME NEW q \in Int, NEW b \in Nat \ {0}, NEW r \in 0 .. b - 1
  PROVE  (q * b + r) \div b = q /\ (q * b + r) % b = r
<1> DEFINE a == q * b + r  p == a \div b  s == a % b
<1>1. a \in Int
  OBVIOUS
<1>2. p \in Int /\ s \in 0 .. b - 1 /\ a = p * b + s
  BY <1>1, Division
<1>3. a = q * b + r
  OBVIOUS
<1> HIDE DEF a, p, s
<1>4. (p - q) * b = r - s
  BY <1>1, <1>2, <1>3
<1>5. ~(p - q >= 1) /\ ~(q - p >= 1)
  <2>1. ASSUME p - q >= 1  PROVE FALSE
    <3>1. (p - q) * b >= b
      BY <1>2, <2>1
    <3> QED BY <1>2, <1>4, <3>1
  <2>2. ASSUME q - p >= 1  PROVE FALSE
    <3>1. (q - p) * b >= b /\ (q - p) * b = 0 - (p - q) * b
      BY <1>2, <2>2
    <3> QED BY <1>2, <1>4, <3>1
  <2> QED BY <2>1, <2>2
<1>6. p = q
  BY <1>2, <1>5
<1>7. s = r
  BY <1>2, <1>3, <1>6
<1> QED BY <1>6, <1>7 DEF a, p, s

\* Whole words before an element change its word, not its lane.
LEMMA WholeWords ==
  ASSUME NEW q \in Int, NEW b \in Nat \ {0}, NEW r \in Int
  PROVE  (q * b + r) \div b = q + r \div b /\ (q * b + r) % b = r % b
<1> DEFINE p == r \div b  s == r % b
<1>1. p \in Int /\ s \in 0 .. b - 1 /\ r = p * b + s
  BY Division
<1> HIDE DEF p, s
<1>2. q * b + r = (q + p) * b + s /\ q + p \in Int
  BY <1>1
<1>3. ((q + p) * b + s) \div b = q + p /\ ((q + p) * b + s) % b = s
  BY <1>1, <1>2, DivMod
<1>4. (q * b + r) \div b = q + p /\ (q * b + r) % b = s
  BY <1>2, <1>3
<1> QED BY <1>4 DEF p, s

\* Tiles of b that cover a: one that begins below a is among them.
LEMMA Cover ==
  ASSUME NEW a \in Nat \ {0}, NEW b \in Nat \ {0}
  PROVE  /\ a <= CeilDiv(a, b) * b
         /\ \A i \in Int : i * b < a => i < CeilDiv(a, b) /\ i * b + b <= CeilDiv(a, b) * b
<1> DEFINE q == CeilDiv(a, b)
<1>1. q \in Int /\ q * b \in Int /\ a + b - 1 < q * b + b
  BY Division DEF CeilDiv
<1> HIDE DEF q
<1>2. ASSUME NEW i \in Int, i * b < a  PROVE i < q /\ i * b + b <= q * b
  <2>1. ~(i >= q)
    <3>1. ASSUME i >= q  PROVE FALSE
      <4>1. i * b >= q * b
        BY <1>1, <3>1
      <4> QED BY <1>1, <1>2, <4>1
    <3> QED BY <3>1
  <2>2. (i + 1) * b <= q * b
    BY <1>1, <2>1
  <2>3. (i + 1) * b = i * b + b
    OBVIOUS
  <2> QED BY <1>1, <2>1, <2>2, <2>3
<1> QED BY <1>1, <1>2 DEF q

\* Of whole tiles there are as many as there fit.
LEMMA ExactCover ==
  ASSUME NEW q \in Nat \ {0}, NEW b \in Nat \ {0}
  PROVE  CeilDiv(q * b, b) = q
<1>1. q * b + b - 1 = q * b + (b - 1) /\ b - 1 \in 0 .. b - 1
  OBVIOUS
<1> QED BY <1>1, DivMod DEF CeilDiv

\* Smaller multiples.
LEMMA Multiples ==
  ASSUME NEW x \in Int, NEW y \in Int, NEW b \in Nat \ {0}, x * b < y * b
  PROVE  x < y /\ x * b + b <= y * b
<1>1. ~(x >= y)
  <2>1. ASSUME x >= y  PROVE FALSE
    <3>1. x * b >= y * b
      BY <2>1
    <3> QED BY <3>1
  <2> QED BY <2>1
<1>2. (x + 1) * b <= y * b
  BY <1>1
<1>3. (x + 1) * b = x * b + b
  OBVIOUS
<1> QED BY <1>1, <1>2, <1>3

\* A number without remainder is a multiple.
LEMMA Multiple ==
  ASSUME NEW a \in Nat, NEW b \in Nat \ {0}, a % b = 0
  PROVE  \E q \in Int : a = q * b
<1>1. a \div b \in Int /\ a = (a \div b) * b
  BY Division
<1> QED BY <1>1

\* A product of positive numbers is positive.
LEMMA Positive == \A x, y \in Nat \ {0} : x * y \in Nat \ {0}
OBVIOUS

\* The tiles of a chunk, the words of a tile and of a chunk, fit exactly.
TilesPerChunk == PREFETCH_DIM \div TILE

LEMMA Sizes == TILE \in Nat \ {0} /\ BUS_EL \in Nat \ {0} /\ PREFETCH_DIM \in Nat \ {0}
BY TilingAssumption

LEMMA Widths ==
  /\ TILE_COL_WORDS \in Nat \ {0} /\ CHUNK_WORDS \in Nat \ {0} /\ TilesPerChunk \in Nat \ {0}
  /\ TILE = TILE_COL_WORDS * BUS_EL
  /\ PREFETCH_DIM = CHUNK_WORDS * BUS_EL
  /\ PREFETCH_DIM = TilesPerChunk * TILE
<1>1. /\ TILE \in Nat \ {0} /\ BUS_EL \in Nat \ {0} /\ PREFETCH_DIM \in Nat \ {0}
      /\ TILE % BUS_EL = 0 /\ PREFETCH_DIM % TILE = 0
  BY TilingAssumption
<1>2. ASSUME NEW a \in Nat \ {0}, NEW b \in Nat \ {0}, a % b = 0
      PROVE  a \div b \in Nat \ {0} /\ a = (a \div b) * b
  <2> DEFINE q == a \div b
  <2>1. q \in Int /\ a = q * b
    BY <1>2, Division
  <2> HIDE DEF q
  <2>2. ASSUME q <= 0  PROVE FALSE
    <3>1. q * b <= 0
      BY <2>1, <2>2
    <3> QED BY <2>1, <3>1
  <2>3. q \in Nat \ {0}
    BY <2>1, <2>2
  <2> QED BY <2>1, <2>3 DEF q
<1>3. TILE_COL_WORDS \in Nat \ {0} /\ TILE = TILE_COL_WORDS * BUS_EL
  BY <1>1, <1>2 DEF TILE_COL_WORDS
<1>4. TilesPerChunk \in Nat \ {0} /\ PREFETCH_DIM = TilesPerChunk * TILE
  BY <1>1, <1>2 DEF TilesPerChunk
<1>5. PREFETCH_DIM = (TilesPerChunk * TILE_COL_WORDS) * BUS_EL + 0
      /\ TilesPerChunk * TILE_COL_WORDS \in Nat \ {0} /\ 0 \in 0 .. BUS_EL - 1
  BY <1>1, <1>3, <1>4, Positive
<1>6. CHUNK_WORDS = TilesPerChunk * TILE_COL_WORDS
  <2> DEFINE w == TilesPerChunk * TILE_COL_WORDS
  <2>1. w \in Int /\ PREFETCH_DIM = w * BUS_EL + 0
    BY <1>5
  <2> HIDE DEF w
  <2>2. (w * BUS_EL + 0) \div BUS_EL = w
    BY <1>1, <1>5, <2>1, DivMod
  <2>3. CHUNK_WORDS = w
    BY <2>1, <2>2 DEF CHUNK_WORDS
  <2> QED BY <2>3 DEF w
<1> QED BY <1>1, <1>3, <1>4, <1>5, <1>6

-----------------------------------------------------------------------------
(* The products of the command under way.                                  *)

\* What the unit supports: whole tiles in K and whole words in N, a transposed operand
\* of one tile, and buffers, bursts and URAM that hold a chunk and the product.
ShapesFit ==
  /\ PREFETCH_DIM <= PF_ROWS /\ CHUNK_WORDS <= PF_COL_WORDS /\ CHUNK_WORDS <= BURST_MAX
  /\ \A c \in MatmulCommands :
       /\ c.k % TILE = 0 /\ c.n % BUS_EL = 0
       /\ c.op = "OP_MATMUL_T" => c.k = TILE /\ c.n = TILE
       /\ c.m <= PF_ROWS
       /\ CeilDiv(c.m, TILE) * TILE <= URAM_ROWS
       /\ c.out_col_offset * BUS_EL + CeilDiv(c.n, TILE) * TILE <= URAM_COL_WORDS * BUS_EL

\* The rows and columns of the product, and the columns and depths of the chunk.
Rows == 0 .. cmd_r.m - 1
Cols == 0 .. cmd_r.n - 1
N0 == n_chunk_idx * PREFETCH_DIM
K0 == k_chunk_idx * PREFETCH_DIM
K1 == K0 + k_chunk_size

\* The products that belong in row i and column j, and those of depths lo .. hi - 1.
Term(i, j, kk) ==
  <<Contract!At(cmd_r.a_base, cmd_r.a_stride, i, kk),
    IF cmd_r.op = "OP_MATMUL_T" THEN Contract!At(cmd_r.b_base, cmd_r.b_stride, j, kk)
                                ELSE Contract!At(cmd_r.b_base, cmd_r.b_stride, kk, j)>>
Slice(i, j, lo, hi) == {Term(i, j, kk) : kk \in lo .. hi - 1}

\* The command, and the chunk in K and in N, are the walk's.
KContext == /\ cmd_r \in MatmulCommands
            /\ k_chunk_idx \in Nat /\ k_chunk_idx < num_k_chunks
Context == KContext /\ n_chunk_idx \in Nat /\ n_chunk_idx < num_n_chunks

LEMMA CommandTypes ==
  ASSUME cmd_r \in MatmulCommands
  PROVE  /\ cmd_r.m \in Nat \ {0} /\ cmd_r.k \in Nat \ {0} /\ cmd_r.n \in Nat \ {0}
         /\ cmd_r.a_base \in Nat /\ cmd_r.a_stride \in Nat
         /\ cmd_r.b_base \in Nat /\ cmd_r.b_stride \in Nat /\ cmd_r.out_col_offset \in Nat
         /\ cmd_r # NONE
BY CommandAssumption DEF Command

\* No two depths have the same product.
LEMMA TermApart ==
  ASSUME cmd_r \in MatmulCommands, NEW i \in Nat, NEW j, NEW x \in Nat, NEW y \in Nat,
         Term(i, j, x) = Term(i, j, y)
  PROVE  x = y
<1> DEFINE b == cmd_r.a_base + i * cmd_r.a_stride
<1>1. b \in Int /\ BUS_EL \in Nat \ {0}
  BY CommandTypes, Sizes
<1>2. <<b + x \div BUS_EL, x % BUS_EL>> = <<b + y \div BUS_EL, y % BUS_EL>>
  BY DEF Term, Contract!At
<1> HIDE DEF b
<1>3. x \div BUS_EL = y \div BUS_EL /\ x % BUS_EL = y % BUS_EL
  <2>1. x \div BUS_EL \in Int /\ y \div BUS_EL \in Int
    BY <1>1, Division
  <2> QED BY <1>1, <1>2, <2>1
<1>4. ASSUME NEW z \in Int  PROVE z = (z \div BUS_EL) * BUS_EL + (z % BUS_EL)
  BY <1>1, Division, Zenon
<1> QED BY <1>3, <1>4

\* An accumulator that gets the next depths holds one more piece of the sum.
LEMMA NextSlice ==
  ASSUME cmd_r \in MatmulCommands, NEW i \in Nat, NEW j, NEW lo \in Nat, NEW mid \in Nat,
         NEW hi \in Nat, lo <= mid, mid <= hi
  PROVE  Accumulate(Slice(i, j, lo, mid), Slice(i, j, mid, hi)) = Slice(i, j, lo, hi)
<1>1. Slice(i, j, lo, mid) \cap Slice(i, j, mid, hi) = {}
  <2> SUFFICES ASSUME NEW x \in lo .. mid - 1, NEW y \in mid .. hi - 1,
                      Term(i, j, x) = Term(i, j, y)
               PROVE  FALSE
    BY DEF Slice
  <2> QED BY TermApart
<1>2. Slice(i, j, lo, mid) \cup Slice(i, j, mid, hi) = Slice(i, j, lo, hi)
  <2>1. lo .. hi - 1 = (lo .. mid - 1) \cup (mid .. hi - 1)
    OBVIOUS
  <2> QED BY <2>1 DEF Slice
<1> QED BY <1>1, <1>2 DEF Accumulate

-----------------------------------------------------------------------------
(* The chunk.                                                              *)

\* The depths of a chunk are whole tiles, in the order of the chunks.
LEMMA KChunk ==
  ASSUME KContext, ShapesFit
  PROVE  /\ K0 \in Nat /\ k_chunk_size \in Nat \ {0} /\ k_chunk_size <= PREFETCH_DIM
         /\ \E q \in Nat \ {0} : k_chunk_size = q * TILE
         /\ K1 <= cmd_r.k
         /\ k_chunk_idx = num_k_chunks - 1 => K1 = cmd_r.k
         /\ k_chunk_idx # num_k_chunks - 1 => k_chunk_size = PREFETCH_DIM
<1>1. /\ cmd_r.k \in Nat \ {0} /\ cmd_r.k % TILE = 0
      /\ k_chunk_idx \in Nat /\ k_chunk_idx < num_k_chunks
  BY CommandTypes DEF KContext, ShapesFit
<1>2. K0 \in Nat /\ K0 < cmd_r.k /\ num_k_chunks \in Nat
  <2>1. K0 < cmd_r.k /\ num_k_chunks \in Nat
    BY <1>1, Sizes, BelowCeil DEF num_k_chunks, K0
  <2> QED BY <1>1, <2>1, Sizes DEF K0
<1>3. k_chunk_size = IF PREFETCH_DIM < cmd_r.k - K0 THEN PREFETCH_DIM ELSE cmd_r.k - K0
  BY DEF k_chunk_size, min_dim, K0
<1>4. \E q \in Nat \ {0} : k_chunk_size = q * TILE
  <2> DEFINE p == k_chunk_idx * TilesPerChunk
  <2>1. p \in Int /\ K0 = p * TILE
    BY <1>1, Sizes, Widths DEF K0
  <2> HIDE DEF p
  <2>2. TILE \in Nat \ {0} /\ cmd_r.k \in Nat
    BY <1>1, Sizes
  <2>3. PICK q \in Int : cmd_r.k = q * TILE
    BY <1>1, <2>2, Multiple
  <2>4. p * TILE < q * TILE
    BY <1>2, <2>1, <2>3
  <2>5. p < q
    BY <2>1, <2>2, <2>4, Multiples
  <2>6. cmd_r.k - K0 = (q - p) * TILE /\ q - p \in Nat \ {0}
    BY <2>1, <2>2, <2>3, <2>5
  <2>7. TilesPerChunk \in Nat \ {0} /\ PREFETCH_DIM = TilesPerChunk * TILE
    BY Widths
  <2> QED BY <1>3, <2>6, <2>7
<1>5. k_chunk_idx = num_k_chunks - 1 => K1 = cmd_r.k
  <2> SUFFICES ASSUME k_chunk_idx = num_k_chunks - 1  PROVE K1 = cmd_r.k
    OBVIOUS
  <2>1. cmd_r.k <= num_k_chunks * PREFETCH_DIM
    BY <1>1, Sizes, Cover DEF num_k_chunks
  <2>2. num_k_chunks * PREFETCH_DIM = K0 + PREFETCH_DIM
    BY <1>1, <1>2, Sizes DEF K0
  <2> QED BY <1>1, <1>2, <1>3, <2>1, <2>2, Sizes DEF K1
<1>6. k_chunk_idx # num_k_chunks - 1 => k_chunk_size = PREFETCH_DIM
  <2> SUFFICES ASSUME k_chunk_idx # num_k_chunks - 1  PROVE k_chunk_size = PREFETCH_DIM
    OBVIOUS
  <2>1. k_chunk_idx + 1 < num_k_chunks /\ k_chunk_idx + 1 \in Int
    BY <1>1, <1>2
  <2>2. (k_chunk_idx + 1) * PREFETCH_DIM < cmd_r.k
    BY <1>1, <2>1, Sizes, BelowCeil DEF num_k_chunks
  <2>3. (k_chunk_idx + 1) * PREFETCH_DIM = K0 + PREFETCH_DIM
    BY <1>1, Sizes DEF K0
  <2> QED BY <1>1, <1>2, <1>3, <2>2, <2>3, Sizes
<1>7. /\ k_chunk_size \in Nat \ {0} /\ k_chunk_size <= PREFETCH_DIM
      /\ k_chunk_size <= cmd_r.k - K0
  BY <1>1, <1>2, <1>3, Sizes
<1>8. K1 <= cmd_r.k
  BY <1>1, <1>2, <1>7 DEF K1
<1> QED BY <1>2, <1>4, <1>5, <1>6, <1>7, <1>8

\* The columns of a chunk are whole words, in the order of the chunks.
LEMMA NChunk ==
  ASSUME Context, ShapesFit
  PROVE  /\ N0 \in Nat /\ n_chunk_size \in Nat \ {0} /\ n_chunk_size <= PREFETCH_DIM
         /\ \E q \in Nat \ {0} : n_chunk_size = q * BUS_EL
         /\ N0 + n_chunk_size <= cmd_r.n
         /\ n_chunk_size # PREFETCH_DIM => N0 + n_chunk_size = cmd_r.n
         /\ n_chunk_idx = num_n_chunks - 1 => cmd_r.n <= N0 + PREFETCH_DIM
<1>1. /\ cmd_r.n \in Nat \ {0} /\ cmd_r.n % BUS_EL = 0
      /\ n_chunk_idx \in Nat /\ n_chunk_idx < num_n_chunks
  BY CommandTypes DEF Context, KContext, ShapesFit
<1>2. N0 \in Nat /\ N0 < cmd_r.n /\ num_n_chunks \in Nat
  <2>1. N0 < cmd_r.n /\ num_n_chunks \in Nat
    BY <1>1, Sizes, BelowCeil DEF num_n_chunks, N0
  <2> QED BY <1>1, <2>1, Sizes DEF N0
<1>3. n_chunk_size = IF PREFETCH_DIM < cmd_r.n - N0 THEN PREFETCH_DIM ELSE cmd_r.n - N0
  BY DEF n_chunk_size, min_dim, N0
<1>4. \E q \in Nat \ {0} : n_chunk_size = q * BUS_EL
  <2> DEFINE p == n_chunk_idx * CHUNK_WORDS
  <2>1. p \in Int /\ N0 = p * BUS_EL
    BY <1>1, Sizes, Widths DEF N0
  <2> HIDE DEF p
  <2>2. BUS_EL \in Nat \ {0} /\ cmd_r.n \in Nat
    BY <1>1, Sizes
  <2>3. PICK q \in Int : cmd_r.n = q * BUS_EL
    BY <1>1, <2>2, Multiple
  <2>4. p * BUS_EL < q * BUS_EL
    BY <1>2, <2>1, <2>3
  <2>5. p < q
    BY <2>1, <2>2, <2>4, Multiples
  <2>6. cmd_r.n - N0 = (q - p) * BUS_EL /\ q - p \in Nat \ {0}
    BY <2>1, <2>2, <2>3, <2>5
  <2>7. CHUNK_WORDS \in Nat \ {0} /\ PREFETCH_DIM = CHUNK_WORDS * BUS_EL
    BY Widths
  <2> QED BY <1>3, <2>6, <2>7
<1>5. n_chunk_idx = num_n_chunks - 1 => cmd_r.n <= N0 + PREFETCH_DIM
  <2> SUFFICES ASSUME n_chunk_idx = num_n_chunks - 1  PROVE cmd_r.n <= N0 + PREFETCH_DIM
    OBVIOUS
  <2>1. cmd_r.n <= num_n_chunks * PREFETCH_DIM
    BY <1>1, Sizes, Cover DEF num_n_chunks
  <2>2. num_n_chunks * PREFETCH_DIM = N0 + PREFETCH_DIM
    BY <1>1, <1>2, Sizes DEF N0
  <2> QED BY <2>1, <2>2
<1>6. /\ n_chunk_size \in Nat \ {0} /\ n_chunk_size <= PREFETCH_DIM
      /\ n_chunk_size <= cmd_r.n - N0
      /\ n_chunk_size # PREFETCH_DIM => n_chunk_size = cmd_r.n - N0
  BY <1>1, <1>2, <1>3, Sizes
<1>7. /\ N0 + n_chunk_size <= cmd_r.n
      /\ n_chunk_size # PREFETCH_DIM => N0 + n_chunk_size = cmd_r.n
  BY <1>1, <1>2, <1>6
<1> QED BY <1>2, <1>4, <1>5, <1>6, <1>7

\* Where row i and column j are: in the URAM, in the tiles of the chunk, and in their tile.
Cell(i, j) == <<i, cmd_r.out_col_offset * BUS_EL + j>>
Place(i, j) == <<i \div TILE, (j - N0) \div TILE>>
Lane(i, j) == <<i % TILE, (j - N0) % TILE>>

\* The tile of that index, as the dispatcher commands it.
TileAt(x) ==
  [op |-> cmd_r.op, k |-> k_chunk_size,
   a_row |-> (x[1] * TILE) % PF_ROWS,
   b_col |-> (x[2] * TILE_COL_WORDS) % PF_COL_WORDS,
   out_row |-> (x[1] * TILE) % URAM_ROWS,
   out_col |-> (n_chunk_idx * CHUNK_WORDS + x[2] * TILE_COL_WORDS
                  + cmd_r.out_col_offset) % URAM_COL_WORDS,
   first |-> FirstKChunk]

\* A tile of the chunk begins in the product, and ends in the URAM.
LEMMA IndexSizes ==
  ASSUME Context, ShapesFit, NEW x \in Index
  PROVE  /\ x[1] \in Nat /\ x[2] \in Nat /\ x = <<x[1], x[2]>>
         /\ x[1] * TILE \in Nat /\ x[2] * TILE \in Nat
         /\ x[1] * TILE < cmd_r.m /\ x[1] * TILE + TILE <= URAM_ROWS
         /\ x[2] * TILE < n_chunk_size /\ x[2] * TILE + TILE <= PREFETCH_DIM
         /\ cmd_r.out_col_offset * BUS_EL + (N0 + x[2] * TILE) + TILE
              <= URAM_COL_WORDS * BUS_EL
<1>1. /\ cmd_r \in MatmulCommands /\ cmd_r.m \in Nat \ {0} /\ cmd_r.n \in Nat \ {0}
      /\ cmd_r.out_col_offset \in Nat
  BY CommandTypes DEF Context, KContext
<1>2. /\ N0 \in Nat /\ n_chunk_size \in Nat \ {0} /\ n_chunk_size <= PREFETCH_DIM
      /\ N0 + n_chunk_size <= cmd_r.n
  BY NChunk
<1>3. num_m_tiles \in Nat /\ num_n_tiles_chunk \in Nat
  BY <1>1, <1>2, Sizes, BelowCeil DEF num_m_tiles, num_n_tiles_chunk
<1>4. x[1] \in Nat /\ x[2] \in Nat /\ x = <<x[1], x[2]>>
      /\ x[1] < num_m_tiles /\ x[2] < num_n_tiles_chunk
  BY <1>3 DEF Index
<1>5. x[1] * TILE \in Nat /\ x[2] * TILE \in Nat
  BY <1>4, Sizes
<1>6. x[1] * TILE < cmd_r.m /\ x[2] * TILE < n_chunk_size
  <2>1. x[1] \in Int /\ x[1] < CeilDiv(cmd_r.m, TILE)
        /\ x[2] \in Int /\ x[2] < CeilDiv(n_chunk_size, TILE)
    BY <1>4 DEF num_m_tiles, num_n_tiles_chunk
  <2> QED BY <1>1, <1>2, <2>1, Sizes, BelowCeil
<1>7. x[1] * TILE + TILE <= URAM_ROWS
  <2>1. x[1] * TILE + TILE <= CeilDiv(cmd_r.m, TILE) * TILE
    BY <1>1, <1>4, <1>6, Sizes, Cover
  <2>2. CeilDiv(cmd_r.m, TILE) * TILE <= URAM_ROWS
    BY <1>1 DEF ShapesFit
  <2>3. CeilDiv(cmd_r.m, TILE) * TILE \in Int
    BY SMTT(40), <1>1, Sizes, BelowCeil
  <2> QED BY <1>5, <2>1, <2>2, <2>3, Sizes, TilingAssumption
<1>8. x[2] * TILE + TILE <= PREFETCH_DIM
  <2>1. TilesPerChunk \in Int /\ PREFETCH_DIM = TilesPerChunk * TILE
    BY Widths
  <2>2. x[2] * TILE < TilesPerChunk * TILE
    BY <1>2, <1>5, <1>6, <2>1, Sizes
  <2>3. x[2] * TILE + TILE <= TilesPerChunk * TILE
    BY <1>4, <2>1, <2>2, Sizes, Multiples
  <2> QED BY <2>1, <2>3
<1>9. cmd_r.out_col_offset * BUS_EL + (N0 + x[2] * TILE) + TILE <= URAM_COL_WORDS * BUS_EL
  <2> DEFINE q == n_chunk_idx * TilesPerChunk + x[2]
             end == CeilDiv(cmd_r.n, TILE) * TILE
             off == cmd_r.out_col_offset * BUS_EL
             width == URAM_COL_WORDS * BUS_EL
  <2>1. q \in Int /\ q * TILE = N0 + x[2] * TILE
    <3>1. n_chunk_idx \in Nat /\ TilesPerChunk \in Nat /\ PREFETCH_DIM = TilesPerChunk * TILE
      BY Widths DEF Context
    <3> QED BY <1>4, <3>1, Sizes DEF N0
  <2> HIDE DEF q
  <2>2. q * TILE < cmd_r.n
    BY <1>1, <1>2, <1>5, <1>6, <2>1
  <2>3. q * TILE + TILE <= end
    BY <1>1, <2>1, <2>2, Sizes, Cover
  <2>4. off + end <= width
    BY <1>1 DEF ShapesFit
  <2>5. off \in Int /\ end \in Int /\ width \in Int
    <3>1. CeilDiv(cmd_r.n, TILE) \in Int
      BY <1>1, Sizes, BelowCeil
    <3>2. URAM_COL_WORDS \in Int
      BY TilingAssumption
    <3> QED BY <1>1, <3>1, <3>2, Sizes
  <2> HIDE DEF off, end, width
  <2>6. off + (N0 + x[2] * TILE) + TILE <= width
    BY <1>2, <1>5, <2>1, <2>3, <2>4, <2>5, Sizes
  <2> QED BY <2>6 DEF off, width
<1> QED BY <1>4, <1>5, <1>6, <1>7, <1>8, <1>9

\* A coordinate is that of a tile and a lane in it.
LEMMA InTile ==
  ASSUME NEW a \in Int
  PROVE  a \div TILE \in Int /\ a % TILE \in 0 .. TILE - 1 /\ a = (a \div TILE) * TILE + (a % TILE)
<1>1. TILE \in Nat \ {0}
  BY Sizes
<1> QED BY <1>1, Division

\* An element lies in its lane of its tile, and in the chunk whose tile that is.
LEMMA PlaceLane ==
  ASSUME Context, ShapesFit, NEW i \in Rows, NEW j \in Cols, Place(i, j) \in Index
  PROVE  LET x == Place(i, j)  l == Lane(i, j)
         IN /\ l \in Lanes /\ l = <<l[1], l[2]>>
            /\ l[1] \in 0 .. TILE - 1 /\ l[2] \in 0 .. TILE - 1
            /\ i = x[1] * TILE + l[1] /\ j = N0 + (x[2] * TILE + l[2])
            /\ x[2] * TILE + l[2] < n_chunk_size
            /\ N0 <= j /\ j < N0 + PREFETCH_DIM
<1> DEFINE x1 == i \div TILE  x2 == (j - N0) \div TILE  l1 == i % TILE  l2 == (j - N0) % TILE
<1>1. /\ N0 \in Nat /\ n_chunk_size \in Nat \ {0} /\ n_chunk_size <= PREFETCH_DIM
      /\ n_chunk_size # PREFETCH_DIM => N0 + n_chunk_size = cmd_r.n
  BY NChunk
<1>2. cmd_r.m \in Nat /\ cmd_r.n \in Nat
  BY CommandTypes DEF Context, KContext
<1>3. i \in Nat /\ j \in Nat /\ j < cmd_r.n /\ j - N0 \in Int
  BY <1>1, <1>2 DEF Rows, Cols
<1>4. /\ x1 \in Int /\ l1 \in 0 .. TILE - 1 /\ i = x1 * TILE + l1
      /\ x2 \in Int /\ l2 \in 0 .. TILE - 1 /\ j - N0 = x2 * TILE + l2
  BY <1>3, InTile
<1>5. x2 * TILE \in Nat /\ x2 * TILE + TILE <= PREFETCH_DIM
  <2>1. Place(i, j)[2] = x2
    BY DEF Place
  <2> HIDE DEF x2
  <2>2. Place(i, j)[2] * TILE \in Nat /\ Place(i, j)[2] * TILE + TILE <= PREFETCH_DIM
    BY IndexSizes
  <2> QED BY <2>1, <2>2
<1>6. Place(i, j) = <<x1, x2>> /\ Lane(i, j) = <<l1, l2>>
  BY DEF Place, Lane
<1> HIDE DEF x1, x2, l1, l2
<1>7. Lane(i, j) \in Lanes
  BY <1>4, <1>6 DEF Lanes
<1>8. x2 * TILE + l2 < n_chunk_size /\ N0 <= j /\ j < N0 + PREFETCH_DIM
  BY <1>1, <1>2, <1>3, <1>4, <1>5, Sizes
<1>9. j = N0 + (x2 * TILE + l2)
  BY <1>1, <1>3, <1>4, <1>5
<1> QED BY <1>4, <1>6, <1>7, <1>8, <1>9

\* The columns of the chunk are those from N0 on, a chunk's width of them.
LEMMA InChunk ==
  ASSUME Context, ShapesFit, NEW i \in Rows, NEW j \in Cols
  PROVE  Place(i, j) \in Index <=> N0 <= j /\ j < N0 + PREFETCH_DIM
<1>1. Place(i, j) \in Index => N0 <= j /\ j < N0 + PREFETCH_DIM
  BY PlaceLane
<1>2. ASSUME N0 <= j, j < N0 + PREFETCH_DIM  PROVE Place(i, j) \in Index
  <2> DEFINE x1 == i \div TILE  x2 == (j - N0) \div TILE
             l1 == i % TILE  l2 == (j - N0) % TILE
  <2>1. /\ N0 \in Nat /\ n_chunk_size \in Nat \ {0} /\ n_chunk_size <= PREFETCH_DIM
        /\ n_chunk_size # PREFETCH_DIM => N0 + n_chunk_size = cmd_r.n
    BY NChunk
  <2>2. cmd_r.m \in Nat \ {0} /\ cmd_r.n \in Nat \ {0}
    BY CommandTypes DEF Context, KContext
  <2>3. i \in Nat /\ i < cmd_r.m /\ j \in Nat /\ j < cmd_r.n /\ j - N0 \in Nat
    BY <1>2, <2>1, <2>2 DEF Rows, Cols
  <2>4. /\ x1 \in Int /\ l1 \in 0 .. TILE - 1 /\ i = x1 * TILE + l1
        /\ x2 \in Int /\ l2 \in 0 .. TILE - 1 /\ j - N0 = x2 * TILE + l2
    BY <2>3, InTile
  <2>5. Place(i, j) = <<x1, x2>>
    BY DEF Place
  <2> HIDE DEF x1, x2, l1, l2
  <2>6. x1 \in Nat /\ x2 \in Nat
    <3>1. \A q \in Int : q <= 0 - 1 => q * TILE <= 0 - TILE
      BY Sizes
    <3> QED BY <2>3, <2>4, <3>1, Sizes
  <2>7. x1 * TILE \in Nat /\ x2 * TILE \in Nat
    BY <2>6, Sizes
  <2>8. x1 * TILE < cmd_r.m /\ x2 * TILE < n_chunk_size
    BY <1>2, <2>1, <2>2, <2>3, <2>4, <2>7, Sizes
  <2>9. x1 < num_m_tiles /\ x2 < num_n_tiles_chunk
    BY <2>1, <2>2, <2>4, <2>8, Sizes, Cover DEF num_m_tiles, num_n_tiles_chunk
  <2>10. CeilDiv(cmd_r.m, TILE) \in Nat /\ CeilDiv(n_chunk_size, TILE) \in Nat
    BY <2>1, <2>2, Sizes, BelowCeil
  <2> QED BY <2>5, <2>6, <2>9, <2>10 DEF Index, num_m_tiles, num_n_tiles_chunk
<1> QED BY <1>1, <1>2

\* A lane of a tile is one element.
LEMMA PlaceUnique ==
  ASSUME Context, ShapesFit, NEW x \in Index, NEW l \in Lanes, NEW i, NEW j,
         i = x[1] * TILE + l[1], j = N0 + (x[2] * TILE + l[2])
  PROVE  Place(i, j) = x /\ Lane(i, j) = l
<1>1. x[1] \in Nat /\ x[2] \in Nat /\ x = <<x[1], x[2]>> /\ x[2] * TILE \in Nat
  BY IndexSizes
<1>2. l[1] \in 0 .. TILE - 1 /\ l[2] \in 0 .. TILE - 1 /\ l = <<l[1], l[2]>>
  BY DEF Lanes
<1>3. N0 \in Nat
  BY NChunk
<1>4. j - N0 = x[2] * TILE + l[2]
  BY <1>1, <1>2, <1>3, Sizes
<1>5. /\ i \div TILE = x[1] /\ i % TILE = l[1]
      /\ (j - N0) \div TILE = x[2] /\ (j - N0) % TILE = l[2]
  BY <1>1, <1>2, <1>4, Sizes, DivMod
<1> QED BY <1>1, <1>2, <1>5 DEF Place, Lane

-----------------------------------------------------------------------------
(* Where an engine writes, and what it reads.                              *)

LEMMA Unwrapped ==
  ASSUME NEW a \in Nat, NEW n \in Nat \ {0}, a < n
  PROVE  a % n = a
OBVIOUS

\* An engine writes each lane of its tile to the element it belongs to.
LEMMA TargetIs ==
  ASSUME Context, ShapesFit, NEW e, NEW x \in Index, eng[e].tile = TileAt(x), NEW l \in Lanes
  PROVE  Target(e, l) = Cell(x[1] * TILE + l[1], N0 + (x[2] * TILE + l[2]))
<1> DEFINE row == x[1] * TILE  col == x[2] * TILE
           oc == n_chunk_idx * CHUNK_WORDS + x[2] * TILE_COL_WORDS + cmd_r.out_col_offset
           off == cmd_r.out_col_offset * BUS_EL  width == URAM_COL_WORDS * BUS_EL
<1>1. /\ row \in Nat /\ col \in Nat /\ x[2] \in Nat /\ row + TILE <= URAM_ROWS
      /\ off + (N0 + col) + TILE <= width
  BY IndexSizes
<1>2. N0 \in Nat /\ n_chunk_idx \in Nat /\ cmd_r.out_col_offset \in Nat
  BY NChunk, CommandTypes DEF Context, KContext
<1>3. l[1] \in 0 .. TILE - 1 /\ l[2] \in 0 .. TILE - 1
  BY DEF Lanes
<1>4. URAM_ROWS \in Nat \ {0} /\ URAM_COL_WORDS \in Nat \ {0} /\ width \in Nat \ {0} /\ off \in Nat
  <2>1. URAM_ROWS \in Nat \ {0} /\ URAM_COL_WORDS \in Nat \ {0}
    BY TilingAssumption
  <2> QED BY <1>2, <2>1, Sizes, Positive
<1>5. oc \in Nat /\ oc * BUS_EL = off + (N0 + col)
  <2> DEFINE cw == n_chunk_idx * CHUNK_WORDS  tw == x[2] * TILE_COL_WORDS
  <2>1. cw \in Nat /\ cw * BUS_EL = N0
    BY <1>2, Sizes, Widths DEF N0
  <2>2. tw \in Nat /\ tw * BUS_EL = col
    BY <1>1, Sizes, Widths
  <2> HIDE DEF cw, tw
  <2>3. oc = cw + tw + cmd_r.out_col_offset
    BY DEF cw, tw
  <2> HIDE DEF oc
  <2>4. oc \in Nat
    BY <1>2, <2>1, <2>2, <2>3
  <2>5. oc * BUS_EL = cw * BUS_EL + tw * BUS_EL + cmd_r.out_col_offset * BUS_EL
    BY <1>2, <2>1, <2>2, <2>3, Sizes
  <2> QED BY <1>1, <1>2, <1>4, <2>1, <2>2, <2>4, <2>5
<1>6. eng[e].tile.out_row = row % URAM_ROWS /\ eng[e].tile.out_col = oc % URAM_COL_WORDS
  BY DEF TileAt
<1>7. Cell(row + l[1], N0 + (col + l[2])) = <<row + l[1], off + (N0 + (col + l[2]))>>
  BY DEF Cell
<1>8. Target(e, l) = <<(eng[e].tile.out_row + l[1]) % URAM_ROWS,
                       (eng[e].tile.out_col * BUS_EL + l[2]) % width>>
  BY DEF Target
<1>9. oc < URAM_COL_WORDS
  <2> HIDE DEF oc, off
  <2>1. oc * BUS_EL < URAM_COL_WORDS * BUS_EL
    BY <1>1, <1>2, <1>4, <1>5, Sizes
  <2> QED BY <1>4, <1>5, <2>1, Sizes, Multiples
<1> HIDE DEF row, col, oc, off, width
<1>10. row % URAM_ROWS = row /\ oc % URAM_COL_WORDS = oc
  BY SMTT(40), <1>1, <1>4, <1>5, <1>9, Sizes, Unwrapped
<1>11. (row + l[1]) % URAM_ROWS = row + l[1]
  <2>1. row + l[1] \in Nat /\ row + l[1] < URAM_ROWS
    BY <1>1, <1>3, <1>4, Sizes
  <2> QED BY <1>4, <2>1, Unwrapped
<1>12. (oc * BUS_EL + l[2]) % width = off + (N0 + (col + l[2]))
  <2>1. oc * BUS_EL + l[2] = off + (N0 + (col + l[2]))
    BY <1>1, <1>2, <1>3, <1>4, <1>5, Sizes
  <2>2. off + (N0 + (col + l[2])) \in Nat /\ off + (N0 + (col + l[2])) < width
    BY <1>1, <1>2, <1>3, <1>4, Sizes
  <2> QED BY <1>4, <2>1, <2>2, Unwrapped
<1> QED BY <1>6, <1>7, <1>8, <1>10, <1>11, <1>12 DEF row, col

\* A buffer holds the rectangle it was last filled with.
Holds(b) ==
  \A r \in 0 .. Prefetch(b).rows - 1, w \in 0 .. Prefetch(b).words - 1 :
    buf[b][r, w] = Prefetch(b).base + r * Prefetch(b).stride + w

\* The rectangles fit in the buffers, and in a burst.
LEMMA RectangleFits ==
  ASSUME Context, ShapesFit, NEW b \in Buffers
  PROVE  /\ b = "act" => Prefetch(b).rows \in 0 .. PF_ROWS
         /\ b = "wgt" => Prefetch(b).rows = k_chunk_size /\ k_chunk_size <= PF_ROWS
         /\ Prefetch(b).rows <= PF_ROWS /\ Prefetch(b).rows \in Nat
         /\ Prefetch(b).words \in Nat \ {0}
         /\ Prefetch(b).words <= PF_COL_WORDS /\ Prefetch(b).words <= BURST_MAX
         /\ Prefetch(b).words * BUS_EL = IF b = "act" THEN k_chunk_size ELSE n_chunk_size
<1>1. /\ PF_ROWS \in Nat \ {0} /\ PF_COL_WORDS \in Nat \ {0} /\ BURST_MAX \in Nat \ {0}
  BY TilingAssumption
<1>2. /\ cmd_r \in MatmulCommands /\ cmd_r.m \in Nat \ {0} /\ cmd_r.m <= PF_ROWS
      /\ PREFETCH_DIM <= PF_ROWS /\ CHUNK_WORDS <= PF_COL_WORDS /\ CHUNK_WORDS <= BURST_MAX
  BY CommandTypes DEF Context, KContext, ShapesFit
<1>3. KContext /\ k_chunk_size \in Nat \ {0} /\ k_chunk_size <= PREFETCH_DIM
      /\ n_chunk_size \in Nat \ {0} /\ n_chunk_size <= PREFETCH_DIM
  BY KChunk, NChunk DEF Context
<1>4. ASSUME NEW s \in Nat \ {0}, s <= PREFETCH_DIM, NEW q \in Nat \ {0}, s = q * BUS_EL
      PROVE  /\ s \div BUS_EL \in Nat \ {0} /\ s \div BUS_EL <= CHUNK_WORDS
             /\ (s \div BUS_EL) * BUS_EL = s
  <2>1. 0 \in 0 .. BUS_EL - 1 /\ s = q * BUS_EL + 0 /\ q \in Int
    BY <1>4, Sizes
  <2>2. (q * BUS_EL + 0) \div BUS_EL = q
    BY <2>1, Sizes, DivMod
  <2>3. s \div BUS_EL = q
    BY <2>1, <2>2
  <2>4. CHUNK_WORDS \in Nat /\ q * BUS_EL < (CHUNK_WORDS + 1) * BUS_EL
    <3>1. CHUNK_WORDS \in Nat /\ PREFETCH_DIM = CHUNK_WORDS * BUS_EL
      BY Widths
    <3>2. (CHUNK_WORDS + 1) * BUS_EL = PREFETCH_DIM + BUS_EL
      BY <3>1, Sizes
    <3> QED BY <1>4, <3>1, <3>2, Sizes
  <2>5. q < CHUNK_WORDS + 1
    BY <2>4, Sizes, Multiples
  <2> QED BY <1>4, <2>3, <2>4, <2>5
<1>5. \E q \in Nat \ {0} : k_chunk_size = q * BUS_EL
  <2>1. PICK q \in Nat \ {0} : k_chunk_size = q * TILE
    BY <1>3, KChunk
  <2>2. q * TILE_COL_WORDS \in Nat \ {0} /\ TILE = TILE_COL_WORDS * BUS_EL
    BY Widths, Positive
  <2>3. k_chunk_size = (q * TILE_COL_WORDS) * BUS_EL
    <3>1. TILE_COL_WORDS \in Nat
      BY Widths
    <3> QED BY <2>1, <2>2, <3>1, Sizes
  <2> QED BY <2>2, <2>3
<1>6. /\ k_chunk_size \div BUS_EL \in Nat \ {0} /\ k_chunk_size \div BUS_EL <= CHUNK_WORDS
      /\ (k_chunk_size \div BUS_EL) * BUS_EL = k_chunk_size
  BY <1>3, <1>4, <1>5
<1>7. /\ n_chunk_size \div BUS_EL \in Nat \ {0} /\ n_chunk_size \div BUS_EL <= CHUNK_WORDS
      /\ (n_chunk_size \div BUS_EL) * BUS_EL = n_chunk_size
  BY <1>3, <1>4, NChunk
<1>8. CHUNK_WORDS \in Nat
  BY Widths
<1>9. CASE b = "act"
  <2>1. Prefetch(b).rows = cmd_r.m /\ Prefetch(b).words = k_chunk_size \div BUS_EL
    BY <1>9 DEF Prefetch
  <2> QED BY <1>1, <1>2, <1>6, <1>8, <1>9, <2>1
<1>10. CASE b = "wgt"
  <2>1. Prefetch(b).rows = k_chunk_size /\ Prefetch(b).words = n_chunk_size \div BUS_EL
    BY <1>10 DEF Prefetch
  <2> QED BY <1>1, <1>2, <1>3, <1>7, <1>8, <1>10, <2>1, Sizes
<1> QED BY <1>9, <1>10 DEF Buffers

\* The elements of the product among those an engine writes are those of its tile.
LEMMA WrittenIs ==
  ASSUME Context, ShapesFit, NEW e, NEW x \in Index, eng[e].tile = TileAt(x),
         NEW i \in Rows, NEW j \in Cols
  PROVE  /\ Cell(i, j) \in DOMAIN Written(e) <=> Place(i, j) = x
         /\ Place(i, j) = x =>
              Written(e)[Cell(i, j)] =
                IF FirstKChunk THEN eng[e].acc[Lane(i, j)]
                               ELSE Accumulate(uram[Cell(i, j)], eng[e].acc[Lane(i, j)])
<1>1. ASSUME NEW l \in Lanes
      PROVE  Target(e, l) = Cell(i, j) <=> Place(i, j) = x /\ Lane(i, j) = l
  <2> DEFINE i2 == x[1] * TILE + l[1]  j2 == N0 + (x[2] * TILE + l[2])
  <2>1. Target(e, l) = Cell(i2, j2)
    BY TargetIs
  <2>2. Place(i2, j2) = x /\ Lane(i2, j2) = l
    BY PlaceUnique
  <2>3. Place(i, j) = x /\ Lane(i, j) = l => i = i2 /\ j = j2
    BY PlaceLane
  <2>4. i2 \in Int /\ j2 \in Int /\ i \in Int /\ j \in Int
        /\ cmd_r.out_col_offset * BUS_EL \in Int
    <3>1. x[1] * TILE \in Nat /\ x[2] * TILE \in Nat /\ N0 \in Nat
      BY IndexSizes, NChunk
    <3>2. l[1] \in Int /\ l[2] \in Int
      BY DEF Lanes
    <3>3. cmd_r.out_col_offset \in Int /\ i \in Int /\ j \in Int
      BY CommandTypes DEF Context, KContext, Rows, Cols
    <3> QED BY <3>1, <3>2, <3>3, Sizes
  <2> HIDE DEF i2, j2
  <2>5. Cell(i2, j2) = Cell(i, j) => i = i2 /\ j = j2
    BY <2>4 DEF Cell
  <2> QED BY <2>1, <2>2, <2>3, <2>5
<1>2. DOMAIN Written(e) = {Target(e, l) : l \in Lanes}
  BY DEF Written
<1>3. Place(i, j) = x => Lane(i, j) \in Lanes
  BY PlaceLane
<1>4. Cell(i, j) \in DOMAIN Written(e) <=> Place(i, j) = x
  BY <1>1, <1>2, <1>3
<1>5. ASSUME Place(i, j) = x
      PROVE  Written(e)[Cell(i, j)] =
               IF FirstKChunk THEN eng[e].acc[Lane(i, j)]
                              ELSE Accumulate(uram[Cell(i, j)], eng[e].acc[Lane(i, j)])
  <2> DEFINE l == CHOOSE l \in Lanes : Target(e, l) = Cell(i, j)
  <2>1. l = Lane(i, j)
    BY <1>1, <1>3, <1>5
  <2>2. eng[e].tile.first = FirstKChunk
    BY DEF TileAt
  <2>3. Cell(i, j) \in {Target(e, y) : y \in Lanes}
    BY <1>2, <1>4, <1>5
  <2>4. Written(e)[Cell(i, j)] = IF eng[e].tile.first THEN eng[e].acc[l]
                                 ELSE Accumulate(uram[Cell(i, j)], eng[e].acc[l])
    BY <2>3 DEF Written
  <2> HIDE DEF l
  <2> QED BY <2>1, <2>2, <2>4
<1> QED BY <1>4, <1>5

\* A word of a buffer, by its row and place in the rectangle.
LEMMA WordOf ==
  ASSUME Context, ShapesFit, NEW b \in Buffers, Holds(b), NEW r \in Int, NEW w \in Int,
         0 <= r, r < Prefetch(b).rows, 0 <= w, w < Prefetch(b).words
  PROVE  buf[b][r % PF_ROWS, w % PF_COL_WORDS] =
           Prefetch(b).base + r * Prefetch(b).stride + w
<1>1. /\ Prefetch(b).rows \in Nat /\ Prefetch(b).rows <= PF_ROWS
      /\ Prefetch(b).words \in Nat /\ Prefetch(b).words <= PF_COL_WORDS
  BY RectangleFits
<1>2. PF_ROWS \in Nat \ {0} /\ PF_COL_WORDS \in Nat \ {0}
  BY TilingAssumption
<1>3. r % PF_ROWS = r /\ w % PF_COL_WORDS = w
  BY <1>1, <1>2, Unwrapped
<1>4. r \in 0 .. Prefetch(b).rows - 1 /\ w \in 0 .. Prefetch(b).words - 1
  BY <1>1
<1>5. buf[b][r, w] = Prefetch(b).base + r * Prefetch(b).stride + w
  BY <1>4 DEF Holds
<1> QED BY <1>3, <1>5

\* Words before an element and the word it is in stay within the words of a row.
LEMMA WordBelow ==
  ASSUME NEW w \in Nat, NEW r \in Nat, NEW n \in Nat, w * BUS_EL + r < n * BUS_EL
  PROVE  w + r \div BUS_EL \in Nat /\ w + r \div BUS_EL < n
<1> DEFINE p == r \div BUS_EL  s == r % BUS_EL
<1>1. BUS_EL \in Nat \ {0}
  BY Sizes
<1>2. p \in Int /\ s \in 0 .. BUS_EL - 1 /\ r = p * BUS_EL + s
  BY <1>1, Division
<1> HIDE DEF p, s
<1>3. p \in Nat
  <2>1. \A q \in Int : q <= 0 - 1 => q * BUS_EL <= 0 - BUS_EL
    BY <1>1
  <2> QED BY <1>1, <1>2, <2>1
<1>4. (w + p) * BUS_EL = w * BUS_EL + p * BUS_EL /\ w * BUS_EL \in Nat /\ p * BUS_EL \in Nat
      /\ n * BUS_EL \in Nat
  BY <1>1, <1>3
<1>5. (w + p) * BUS_EL < n * BUS_EL
  BY <1>1, <1>2, <1>4
<1>6. w + p < n
  BY <1>1, <1>3, <1>5, Multiples
<1> QED BY <1>3, <1>6 DEF p

\* The k-tiles of a chunk.
LEMMA KTile ==
  ASSUME Context, ShapesFit, NEW kt \in Nat, kt * TILE < k_chunk_size
  PROVE  /\ kt * TILE \in Nat /\ kt * TILE + TILE <= k_chunk_size
         /\ (kt + 1) * TILE = kt * TILE + TILE
         /\ kt = CeilDiv(k_chunk_size, TILE) - 1 <=> kt * TILE + TILE = k_chunk_size
<1>1. KContext
  BY DEF Context
<1>2. PICK q \in Nat \ {0} : k_chunk_size = q * TILE
  BY <1>1, KChunk
<1>3. CeilDiv(k_chunk_size, TILE) = q
  BY <1>2, Sizes, ExactCover
<1>4. kt < q /\ kt * TILE + TILE <= q * TILE
  BY <1>2, Sizes, Multiples
<1>5. kt * TILE \in Nat /\ (kt + 1) * TILE = kt * TILE + TILE
  BY Sizes
<1>6. kt = q - 1 <=> (kt + 1) * TILE = q * TILE
  BY <1>2, <1>4, Sizes, Cancel
<1> QED BY <1>2, <1>3, <1>4, <1>5, <1>6

\* The element of A an engine reads for its row and a depth of its k-tile.
LEMMA ReadsA ==
  ASSUME Context, ShapesFit, Holds("act"), NEW i \in Rows, NEW j \in Cols,
         Place(i, j) \in Index, NEW kt \in Nat, kt * TILE < k_chunk_size,
         NEW kk \in 0 .. TILE - 1
  PROVE  Element("act", TileAt(Place(i, j)).a_row + Lane(i, j)[1],
                 kt * TILE_COL_WORDS + kk \div BUS_EL, kk % BUS_EL)
           = Contract!At(cmd_r.a_base, cmd_r.a_stride, i, K0 + (kt * TILE + kk))
<1> DEFINE x1 == Place(i, j)[1]  l1 == Lane(i, j)[1]  row == x1 * TILE
           w == kt * TILE_COL_WORDS + kk \div BUS_EL
           P == Prefetch("act")
<1>1. /\ l1 \in 0 .. TILE - 1 /\ i = row + l1 /\ row \in Nat
  BY PlaceLane, IndexSizes
<1>2. cmd_r.m \in Nat /\ cmd_r.m <= PF_ROWS /\ cmd_r.a_base \in Nat /\ cmd_r.a_stride \in Nat
      /\ PF_ROWS \in Nat \ {0} /\ k_chunk_idx \in Nat
  BY CommandTypes, TilingAssumption DEF Context, KContext, ShapesFit
<1>3. /\ P.base = cmd_r.a_base + k_chunk_idx * CHUNK_WORDS /\ P.stride = cmd_r.a_stride
      /\ P.rows = cmd_r.m /\ P.words \in Nat /\ P.words * BUS_EL = k_chunk_size
  BY RectangleFits DEF Prefetch, Buffers
<1>4. /\ kt * TILE \in Nat /\ kt * TILE + TILE <= k_chunk_size /\ k_chunk_size \in Nat /\ K0 \in Nat
  BY KTile, KChunk DEF Context
<1>5. TileAt(Place(i, j)).a_row = row % PF_ROWS
  BY DEF TileAt
<1>6. i \in Nat /\ i < cmd_r.m /\ kk \in Nat /\ kk < TILE
  BY <1>1, <1>2, Sizes DEF Rows
<1>7. row % PF_ROWS = row
  BY <1>1, <1>2, <1>6, Unwrapped
<1>8. kt * TILE_COL_WORDS \in Nat /\ (kt * TILE_COL_WORDS) * BUS_EL = kt * TILE
  BY Widths, Sizes
<1>9. w \in Nat /\ w < P.words
  <2> HIDE DEF P
  <2>1. (kt * TILE_COL_WORDS) * BUS_EL + kk < P.words * BUS_EL
    BY <1>3, <1>4, <1>6, <1>8, Sizes
  <2> QED BY <1>3, <1>6, <1>8, <2>1, WordBelow
<1>10. buf["act"][i % PF_ROWS, w % PF_COL_WORDS] = P.base + i * P.stride + w
  <2>1. "act" \in Buffers /\ i \in Int /\ w \in Int /\ 0 <= i /\ 0 <= w
        /\ i < Prefetch("act").rows /\ w < Prefetch("act").words
    BY <1>3, <1>6, <1>9 DEF Buffers
  <2> HIDE DEF w
  <2> QED BY <2>1, WordOf
<1>11. Element("act", TileAt(Place(i, j)).a_row + l1, w, kk % BUS_EL)
         = <<P.base + i * P.stride + w, kk % BUS_EL>>
  <2> HIDE DEF w, P, row, l1
  <2> QED BY <1>1, <1>5, <1>7, <1>10 DEF Element
<1>12. /\ (K0 + (kt * TILE + kk)) \div BUS_EL = k_chunk_idx * CHUNK_WORDS + w
       /\ (K0 + (kt * TILE + kk)) % BUS_EL = kk % BUS_EL
       /\ k_chunk_idx * CHUNK_WORDS \in Nat
  <2> DEFINE cw == k_chunk_idx * CHUNK_WORDS  tw == kt * TILE_COL_WORDS
  <2>1. cw \in Nat /\ cw * BUS_EL = K0
    BY <1>2, Sizes, Widths DEF K0
  <2>2. tw \in Nat /\ tw * BUS_EL = kt * TILE /\ w = tw + kk \div BUS_EL
    BY <1>8
  <2> HIDE DEF cw, tw, w
  <2>3. K0 + (kt * TILE + kk) = (cw + tw) * BUS_EL + kk /\ cw + tw \in Int
        /\ kk \in Int
    BY <1>4, <1>6, <2>1, <2>2, Sizes
  <2>4. /\ ((cw + tw) * BUS_EL + kk) \div BUS_EL = (cw + tw) + kk \div BUS_EL
        /\ ((cw + tw) * BUS_EL + kk) % BUS_EL = kk % BUS_EL
    BY <2>3, Sizes, WholeWords
  <2>5. kk \div BUS_EL \in Int
    BY <1>6, Sizes, Division
  <2>6. (K0 + (kt * TILE + kk)) \div BUS_EL = cw + w /\ cw \in Nat
    BY <2>1, <2>2, <2>3, <2>4, <2>5
  <2> QED BY <2>3, <2>4, <2>6 DEF cw
<1>13. P.base + i * P.stride + w
         = cmd_r.a_base + i * cmd_r.a_stride + (K0 + (kt * TILE + kk)) \div BUS_EL
  <2> DEFINE cw == k_chunk_idx * CHUNK_WORDS  s == i * cmd_r.a_stride
             d == (K0 + (kt * TILE + kk)) \div BUS_EL
  <2>1. cw \in Nat /\ s \in Nat /\ d = cw + w /\ P.base = cmd_r.a_base + cw
        /\ i * P.stride = s
    BY <1>2, <1>3, <1>6, <1>12
  <2> HIDE DEF cw, s, d, w, P
  <2>2. P.base + i * P.stride + w = cmd_r.a_base + s + d
    BY <1>2, <1>9, <2>1
  <2> QED BY <2>2 DEF s, d
<1> HIDE DEF w, P, row, l1
<1>14. Contract!At(cmd_r.a_base, cmd_r.a_stride, i, K0 + (kt * TILE + kk))
         = <<cmd_r.a_base + i * cmd_r.a_stride + (K0 + (kt * TILE + kk)) \div BUS_EL,
             (K0 + (kt * TILE + kk)) % BUS_EL>>
  BY DEF Contract!At
<1> QED BY <1>11, <1>12, <1>13, <1>14 DEF w, l1

\* The element of B it reads for a depth and its column, when the op does not transpose.
LEMMA ReadsB ==
  ASSUME Context, ShapesFit, Holds("wgt"), NEW i \in Rows, NEW j \in Cols,
         Place(i, j) \in Index, NEW kt \in Nat, kt * TILE < k_chunk_size,
         NEW kk \in 0 .. TILE - 1
  PROVE  Element("wgt", kt * TILE + kk, TileAt(Place(i, j)).b_col + Lane(i, j)[2] \div BUS_EL,
                 Lane(i, j)[2] % BUS_EL)
           = Contract!At(cmd_r.b_base, cmd_r.b_stride, K0 + (kt * TILE + kk), j)
<1> DEFINE x2 == Place(i, j)[2]  l2 == Lane(i, j)[2]  tw == x2 * TILE_COL_WORDS
           row == kt * TILE + kk  w == tw + l2 \div BUS_EL
           P == Prefetch("wgt")
<1>1. /\ l2 \in 0 .. TILE - 1 /\ x2 \in Nat /\ x2 * TILE \in Nat
      /\ j = N0 + (x2 * TILE + l2) /\ x2 * TILE + l2 < n_chunk_size
  BY PlaceLane, IndexSizes
<1>2. cmd_r.b_base \in Nat /\ cmd_r.b_stride \in Nat /\ PF_COL_WORDS \in Nat \ {0}
      /\ k_chunk_idx \in Nat /\ n_chunk_idx \in Nat
  BY CommandTypes, TilingAssumption DEF Context, KContext
<1>3. /\ P.base = cmd_r.b_base + k_chunk_idx * PREFETCH_DIM * cmd_r.b_stride
                    + n_chunk_idx * CHUNK_WORDS
      /\ P.stride = cmd_r.b_stride /\ P.rows = k_chunk_size
      /\ P.words \in Nat /\ P.words * BUS_EL = n_chunk_size /\ P.words <= PF_COL_WORDS
  BY RectangleFits DEF Prefetch, Buffers
<1>4. /\ kt * TILE \in Nat /\ kt * TILE + TILE <= k_chunk_size /\ k_chunk_size \in Nat
      /\ K0 \in Nat /\ N0 \in Nat
  BY KTile, KChunk, NChunk DEF Context
<1>5. row \in Nat /\ row < k_chunk_size
  BY <1>4, Sizes
<1>6. tw \in Nat /\ tw * BUS_EL = x2 * TILE
  <2> HIDE DEF x2
  <2> QED BY <1>1, Widths, Sizes
<1>7. w \in Nat /\ w < P.words
  <2> HIDE DEF P, tw, x2, l2
  <2>1. tw * BUS_EL + l2 < P.words * BUS_EL /\ l2 \in Nat
    BY <1>1, <1>3, <1>6, Sizes
  <2> QED BY <1>3, <1>6, <2>1, WordBelow
<1>8. l2 \div BUS_EL \in Nat
  <2> HIDE DEF l2
  <2>1. l2 \in Nat /\ 0 \in Nat /\ TILE_COL_WORDS \in Nat
      /\ 0 * BUS_EL + l2 < TILE_COL_WORDS * BUS_EL
    BY <1>1, Widths, Sizes
  <2>2. 0 + l2 \div BUS_EL \in Nat
    BY <2>1, WordBelow
  <2>3. l2 \div BUS_EL \in Int
    BY <2>1, Sizes, Division
  <2> QED BY <2>2, <2>3
<1>9. TileAt(Place(i, j)).b_col = tw
  <2>1. TileAt(Place(i, j)).b_col = tw % PF_COL_WORDS
    BY DEF TileAt
  <2> HIDE DEF tw, P, l2
  <2>2. tw < PF_COL_WORDS
    BY <1>2, <1>3, <1>6, <1>7, <1>8
  <2> QED BY <1>2, <1>6, <2>1, <2>2, Unwrapped
<1>10. buf["wgt"][row % PF_ROWS, w % PF_COL_WORDS] = P.base + row * P.stride + w
  <2>1. "wgt" \in Buffers /\ row \in Int /\ w \in Int /\ 0 <= row /\ 0 <= w
        /\ row < Prefetch("wgt").rows /\ w < Prefetch("wgt").words
    BY <1>3, <1>5, <1>7 DEF Buffers
  <2> HIDE DEF w, row
  <2> QED BY <2>1, WordOf
<1>11. Element("wgt", row, TileAt(Place(i, j)).b_col + l2 \div BUS_EL, l2 % BUS_EL)
         = <<P.base + row * P.stride + w, l2 % BUS_EL>>
  <2> HIDE DEF P, row, l2, tw
  <2> QED BY <1>9, <1>10 DEF Element
<1>12. /\ j \div BUS_EL = n_chunk_idx * CHUNK_WORDS + w
       /\ j % BUS_EL = l2 % BUS_EL
       /\ n_chunk_idx * CHUNK_WORDS \in Nat
  <2> DEFINE cw == n_chunk_idx * CHUNK_WORDS
  <2>1. cw \in Nat /\ cw * BUS_EL = N0
    BY <1>2, Sizes, Widths DEF N0
  <2> HIDE DEF cw, tw, l2, x2
  <2>2. j = (cw + tw) * BUS_EL + l2 /\ cw + tw \in Int /\ l2 \in Int
    BY <1>1, <1>4, <1>6, <2>1, Sizes
  <2>3. /\ ((cw + tw) * BUS_EL + l2) \div BUS_EL = (cw + tw) + l2 \div BUS_EL
        /\ ((cw + tw) * BUS_EL + l2) % BUS_EL = l2 % BUS_EL
    BY <2>2, Sizes, WholeWords
  <2>4. j \div BUS_EL = cw + w
    BY <1>6, <1>8, <2>1, <2>2, <2>3
  <2> QED BY <2>1, <2>2, <2>3, <2>4 DEF cw
<1>13. P.base + row * P.stride + w
         = cmd_r.b_base + (K0 + row) * cmd_r.b_stride + j \div BUS_EL
  <2> DEFINE cw == n_chunk_idx * CHUNK_WORDS  s == K0 * cmd_r.b_stride
             t == row * cmd_r.b_stride  d == j \div BUS_EL
  <2>1. s \in Nat /\ t \in Nat /\ (K0 + row) * cmd_r.b_stride = s + t
    <3> HIDE DEF row
    <3> QED BY <1>2, <1>4, <1>5
  <2>2. cw \in Nat /\ d = cw + w /\ row * P.stride = t /\ P.base = cmd_r.b_base + s + cw
    BY <1>3, <1>12 DEF K0
  <2> HIDE DEF cw, s, t, d, w, P
  <2>3. P.base + row * P.stride + w = cmd_r.b_base + (s + t) + d
    BY <1>2, <1>7, <2>1, <2>2
  <2> QED BY <2>1, <2>3 DEF d
<1>14. Contract!At(cmd_r.b_base, cmd_r.b_stride, K0 + row, j)
         = <<cmd_r.b_base + (K0 + row) * cmd_r.b_stride + j \div BUS_EL, j % BUS_EL>>
  BY DEF Contract!At
<1> HIDE DEF w, P, l2
<1> QED BY <1>11, <1>12, <1>13, <1>14 DEF l2

\* And when it transposes, which it does for one tile: column and depth change places.
LEMMA ReadsTransposed ==
  ASSUME Context, ShapesFit, Holds("wgt"), cmd_r.op = "OP_MATMUL_T",
         NEW i \in Rows, NEW j \in Cols, Place(i, j) \in Index,
         NEW kt \in Nat, kt * TILE < k_chunk_size, NEW kk \in 0 .. TILE - 1
  PROVE  Element("wgt", kt * TILE + Lane(i, j)[2],
                 TileAt(Place(i, j)).b_col + kk \div BUS_EL, kk % BUS_EL)
           = Contract!At(cmd_r.b_base, cmd_r.b_stride, j, K0 + (kt * TILE + kk))
<1> DEFINE P == Prefetch("wgt")  w == kk \div BUS_EL
<1>1. /\ cmd_r.k = TILE /\ cmd_r.n = TILE /\ PF_COL_WORDS \in Nat \ {0}
      /\ cmd_r.b_base \in Nat /\ cmd_r.b_stride \in Nat /\ n_chunk_idx \in Nat
      /\ k_chunk_idx \in Nat
  BY CommandTypes, TilingAssumption DEF Context, KContext, ShapesFit
<1>2. /\ kt * TILE \in Nat /\ kt * TILE + TILE <= k_chunk_size /\ k_chunk_size \in Nat /\ K0 \in Nat
      /\ K0 + k_chunk_size <= cmd_r.k
  BY KTile, KChunk DEF Context, K1
<1>3. K0 = 0 /\ kt * TILE = 0 /\ k_chunk_size = TILE
  BY <1>1, <1>2, Sizes
<1>4. TILE <= PREFETCH_DIM
  <2>1. TilesPerChunk \in Nat \ {0} /\ PREFETCH_DIM = TilesPerChunk * TILE
    BY Widths
  <2>2. 0 * TILE < TilesPerChunk * TILE /\ 0 * TILE = 0
    BY <2>1, Sizes
  <2> QED BY <2>1, <2>2, Sizes
<1>5. N0 = 0 /\ n_chunk_idx = 0 /\ n_chunk_size = TILE
  <2>1. /\ N0 \in Nat /\ n_chunk_size \in Nat \ {0} /\ N0 + n_chunk_size <= TILE
        /\ n_chunk_size # PREFETCH_DIM => N0 + n_chunk_size = TILE
        /\ n_chunk_size <= PREFETCH_DIM
    BY <1>1, NChunk
  <2>2. n_chunk_idx = 0
    <3>1. ASSUME n_chunk_idx >= 1  PROVE FALSE
      <4>1. n_chunk_idx * PREFETCH_DIM >= PREFETCH_DIM
        BY <1>1, <3>1, Sizes
      <4>2. N0 >= PREFETCH_DIM
        BY <4>1 DEF N0
      <4> QED BY <1>4, <2>1, <4>2, Sizes
    <3> QED BY <1>1, <3>1
  <2>3. N0 = 0
    BY <2>2, Sizes DEF N0
  <2> QED BY <1>4, <2>1, <2>2, <2>3, Sizes
<1>6. /\ Place(i, j)[2] = 0 /\ Lane(i, j)[2] = j /\ j \in 0 .. TILE - 1
      /\ TileAt(Place(i, j)).b_col = 0
  <2> DEFINE x2 == Place(i, j)[2]
  <2>1. /\ x2 \in Nat /\ x2 * TILE \in Nat /\ x2 * TILE < n_chunk_size
        /\ Lane(i, j)[2] \in 0 .. TILE - 1 /\ j = N0 + (x2 * TILE + Lane(i, j)[2])
    BY PlaceLane, IndexSizes
  <2>2. TileAt(Place(i, j)).b_col = (x2 * TILE_COL_WORDS) % PF_COL_WORDS
    BY DEF TileAt
  <2>3. Place(i, j)[2] = x2
    OBVIOUS
  <2> HIDE DEF x2
  <2>4. x2 = 0
    <3>1. x2 >= 1 => x2 * TILE >= TILE
      BY <2>1, Sizes
    <3> QED BY <1>5, <2>1, <3>1, Sizes
  <2>5. x2 * TILE = 0 /\ x2 * TILE_COL_WORDS = 0
    BY <2>4, Sizes, Widths
  <2>6. 0 % PF_COL_WORDS = 0
    BY <1>1, Unwrapped
  <2> QED BY <1>5, <2>1, <2>2, <2>3, <2>4, <2>5, <2>6, Sizes
<1>7. w \in Nat /\ w < TILE_COL_WORDS
  <2>1. kk \in Nat /\ 0 \in Nat /\ TILE_COL_WORDS \in Nat
        /\ 0 * BUS_EL + kk < TILE_COL_WORDS * BUS_EL
    BY Widths, Sizes
  <2>2. 0 + kk \div BUS_EL \in Nat /\ 0 + kk \div BUS_EL < TILE_COL_WORDS
    BY <2>1, WordBelow
  <2>3. kk \div BUS_EL \in Int
    BY <2>1, Sizes, Division
  <2> QED BY <2>2, <2>3
<1>8. /\ P.base = cmd_r.b_base /\ P.stride = cmd_r.b_stride /\ P.rows = TILE
      /\ P.words = TILE_COL_WORDS
  <2>1. /\ P.base = cmd_r.b_base + K0 * cmd_r.b_stride + n_chunk_idx * CHUNK_WORDS
        /\ P.stride = cmd_r.b_stride /\ P.rows = k_chunk_size
        /\ P.words = n_chunk_size \div BUS_EL
    BY DEF Prefetch, K0
  <2>2. K0 * cmd_r.b_stride = 0 /\ n_chunk_idx * CHUNK_WORDS = 0
    BY <1>1, <1>3, <1>5, Widths
  <2>3. P.base = cmd_r.b_base
    <3> HIDE DEF P
    <3> QED BY <1>1, <2>1, <2>2
  <2>4. TILE \div BUS_EL = TILE_COL_WORDS
    BY DEF TILE_COL_WORDS
  <2> QED BY <1>3, <1>5, <2>1, <2>3, <2>4
<1>9. buf["wgt"][j % PF_ROWS, w % PF_COL_WORDS] = P.base + j * P.stride + w
  <2>1. "wgt" \in Buffers /\ j \in Int /\ w \in Int /\ 0 <= j /\ 0 <= w
        /\ j < Prefetch("wgt").rows /\ w < Prefetch("wgt").words
    BY <1>6, <1>7, <1>8, Sizes DEF Buffers
  <2> HIDE DEF w
  <2> QED BY <2>1, WordOf
<1>10. Element("wgt", kt * TILE + Lane(i, j)[2],
               TileAt(Place(i, j)).b_col + w, kk % BUS_EL)
         = <<cmd_r.b_base + j * cmd_r.b_stride + w, kk % BUS_EL>>
  <2>1. kt * TILE + Lane(i, j)[2] = j /\ TileAt(Place(i, j)).b_col + w = w
    <3> HIDE DEF w
    <3> QED BY <1>3, <1>6, <1>7, Sizes
  <2> HIDE DEF w, P
  <2> QED BY <1>8, <1>9, <2>1 DEF Element
<1>11. K0 + (kt * TILE + kk) = kk
  BY <1>3, Sizes
<1>12. Contract!At(cmd_r.b_base, cmd_r.b_stride, j, kk)
         = <<cmd_r.b_base + j * cmd_r.b_stride + kk \div BUS_EL, kk % BUS_EL>>
  BY DEF Contract!At
<1> QED BY <1>10, <1>11, <1>12

\* A k-tile adds the products of its depths to each element of its tile.
LEMMA ProductsAre ==
  ASSUME Context, ShapesFit, \A b \in Buffers : Holds(b), NEW i \in Rows, NEW j \in Cols,
         Place(i, j) \in Index, NEW kt \in Nat, kt * TILE < k_chunk_size
  PROVE  Products(READER, TileAt(Place(i, j)), kt, Lane(i, j)[1], Lane(i, j)[2])
           = Slice(i, j, K0 + kt * TILE, K0 + (kt + 1) * TILE)
<1> DEFINE t == TileAt(Place(i, j))  l1 == Lane(i, j)[1]  l2 == Lane(i, j)[2]
           a(kk) == Element("act", t.a_row + l1, kt * TILE_COL_WORDS + kk \div BUS_EL, kk % BUS_EL)
           b(r, c) == Element("wgt", kt * TILE + r, t.b_col + c \div BUS_EL, c % BUS_EL)
           p(kk) == <<a(kk), IF t.op = "OP_MATMUL_T" THEN b(l2, kk) ELSE b(kk, l2)>>
<1>1. Products(READER, t, kt, l1, l2) = {p(kk) : kk \in 0 .. TILE - 1}
  BY DEF Products
<1>2. ASSUME NEW kk \in 0 .. TILE - 1  PROVE p(kk) = Term(i, j, K0 + (kt * TILE + kk))
  <2>1. Holds("act") /\ Holds("wgt")
    BY DEF Buffers
  <2>2. a(kk) = Contract!At(cmd_r.a_base, cmd_r.a_stride, i, K0 + (kt * TILE + kk))
    BY <2>1, ReadsA
  <2>3. t.op = cmd_r.op
    BY DEF TileAt
  <2>4. CASE cmd_r.op = "OP_MATMUL_T"
    <3>1. b(l2, kk) = Contract!At(cmd_r.b_base, cmd_r.b_stride, j, K0 + (kt * TILE + kk))
      BY <2>1, <2>4, ReadsTransposed
    <3> HIDE DEF a, b, t
    <3> QED BY <2>2, <2>3, <2>4, <3>1 DEF Term
  <2>5. CASE cmd_r.op # "OP_MATMUL_T"
    <3>1. b(kk, l2) = Contract!At(cmd_r.b_base, cmd_r.b_stride, K0 + (kt * TILE + kk), j)
      BY <2>1, ReadsB
    <3> HIDE DEF a, b, t
    <3> QED BY <2>2, <2>3, <2>5, <3>1 DEF Term
  <2> QED BY <2>4, <2>5
<1> HIDE DEF p
<1>3. {p(kk) : kk \in 0 .. TILE - 1} = {Term(i, j, K0 + (kt * TILE + kk)) : kk \in 0 .. TILE - 1}
  BY <1>2
<1>4. K0 \in Nat /\ kt * TILE \in Nat /\ (kt + 1) * TILE = kt * TILE + TILE
  BY KChunk, KTile DEF Context
<1>5. ASSUME NEW kk \in 0 .. TILE - 1
      PROVE  K0 + (kt * TILE + kk) \in K0 + kt * TILE .. (K0 + (kt + 1) * TILE) - 1
  BY <1>4, Sizes
<1>6. ASSUME NEW d \in K0 + kt * TILE .. (K0 + (kt + 1) * TILE) - 1
      PROVE  \E kk \in 0 .. TILE - 1 : d = K0 + (kt * TILE + kk)
  <2>1. d - (K0 + kt * TILE) \in 0 .. TILE - 1
        /\ d = K0 + (kt * TILE + (d - (K0 + kt * TILE)))
    BY <1>4, Sizes
  <2> QED BY <2>1
<1>7. {Term(i, j, K0 + (kt * TILE + kk)) : kk \in 0 .. TILE - 1}
        = Slice(i, j, K0 + kt * TILE, K0 + (kt + 1) * TILE)
  <2> DEFINE f(kk) == K0 + (kt * TILE + kk)
             S == K0 + kt * TILE .. (K0 + (kt + 1) * TILE) - 1
  <2>1. \A kk \in 0 .. TILE - 1 : f(kk) \in S
    BY <1>5
  <2>2. \A d \in S : \E kk \in 0 .. TILE - 1 : d = f(kk)
    BY <1>6
  <2>3. Slice(i, j, K0 + kt * TILE, K0 + (kt + 1) * TILE) = {Term(i, j, d) : d \in S}
    BY DEF Slice
  <2> HIDE DEF f, S
  <2>4. {Term(i, j, f(kk)) : kk \in 0 .. TILE - 1} = {Term(i, j, d) : d \in S}
    BY <2>1, <2>2
  <2> QED BY <2>3, <2>4 DEF f
<1> QED BY <1>1, <1>3, <1>7


-----------------------------------------------------------------------------
(* The inductive invariant.                                                *)

\* The states in which the chunk in K is the walk's.
SumStates == ChunkStates \cup {"ST_K_CHUNK_SETUP", "ST_NEXT_K_CHUNK", "ST_DONE"}

KInv == /\ state \in SumStates => k_chunk_idx \in Nat /\ k_chunk_idx < num_k_chunks
        /\ state = "ST_DONE" => k_chunk_idx = num_k_chunks - 1

\* A command is shown only to an idle unit, and answered before the next is taken.
PortInv == /\ cmd_ready \in BOOLEAN /\ cmd_done \in BOOLEAN
           /\ cmd_ready => state = "ST_IDLE" /\ ~cmd_done
           /\ cmd # NONE => cmd_ready
           /\ cmd_done => state = "ST_IDLE"

\* A DMA launched for the chunk carries its rectangle, and then the buffer holds it.
BufInv(b) ==
  /\ DOMAIN buf[b] = (0 .. PF_ROWS - 1) \X (0 .. PF_COL_WORDS - 1)
  /\ state \in PrefetchStates /\ pf[b].launched => /\ dma[b].cmd = Prefetch(b)
                                                   /\ dma[b].st # "RUN" => Holds(b)
  /\ state \in DispatchStates => Holds(b)

\* The tiles handed out, the engines that have not written theirs yet, and those tiles.
Handed(x) == state = "ST_WAIT" \/ Before(x)
Pending == {e \in Engines : eng_cmd_valid = e \/ eng[e].st \in {"K_TILE", "FLUSH"}}
Owed(x) == \E e \in Pending : TileOf(e) = TileAt(x)

HandedInv ==
  state \in DispatchStates =>
    \A e \in Pending : \E x \in Index : Handed(x) /\ TileOf(e) = TileAt(x)

\* An accumulator holds the sum of the k-tiles done so far.
Reached(e) == IF eng[e].st = "FLUSH" THEN K1 ELSE K0 + eng[e].kt * TILE
SumInv(e) ==
  state \in DispatchStates /\ eng[e].st \in {"K_TILE", "FLUSH"} =>
    /\ eng[e].kt \in Nat /\ eng[e].kt * TILE < k_chunk_size
    /\ \A i \in Rows, j \in Cols :
         /\ Place(i, j) \in Index /\ eng[e].tile = TileAt(Place(i, j))
         /\ Reached(e) > K0
         => eng[e].acc[Lane(i, j)] = Slice(i, j, K0, Reached(e))

\* The elements of the product that have the sum over this chunk of K already.
Summed(i, j) ==
  \/ state \in {"ST_NEXT_K_CHUNK", "ST_DONE"}
  \/ state \in ChunkStates /\ j < N0
  \/ state = "ST_NEXT_N_CHUNK" /\ j < N0 + PREFETCH_DIM
  \/ /\ state \in DispatchStates /\ Place(i, j) \in Index
     /\ Handed(Place(i, j)) /\ ~Owed(Place(i, j))
Level(i, j) == IF Summed(i, j) THEN K1 ELSE K0

UramInv ==
  /\ DOMAIN uram = (0 .. URAM_ROWS - 1) \X (0 .. URAM_COL_WORDS * BUS_EL - 1)
  /\ state \in SumStates =>
       \A i \in Rows, j \in Cols :
         Level(i, j) > 0 => uram[Cell(i, j)] = Slice(i, j, 0, Level(i, j))

ContractInv ==
  /\ KInv /\ PortInv /\ HandedInv /\ UramInv
  /\ \A b \in Buffers : BufInv(b)
  /\ \A e \in Engines : SumInv(e)

-----------------------------------------------------------------------------
(* The branches of the dispatcher, by where they lead.                     *)

LEMMA Moves ==
  ASSUME Next
  PROVE  \/ Await /\ state = "ST_IDLE" /\ state' = "ST_IDLE" /\ UNCHANGED command
         \/ Accept /\ state = "ST_IDLE" /\ state' = "ST_SETUP"
         \/ Setup /\ state = "ST_SETUP" /\ state' = "ST_K_CHUNK_SETUP"
              /\ k_chunk_idx' = 0 /\ UNCHANGED cmd_r
         \/ KChunkSetup /\ state = "ST_K_CHUNK_SETUP" /\ state' = "ST_N_CHUNK_SETUP"
              /\ n_chunk_idx' = 0 /\ UNCHANGED <<cmd_r, k_chunk_idx>>
         \/ NChunkSetup /\ state = "ST_N_CHUNK_SETUP" /\ state' = "ST_PREFETCH_CMD"
              /\ UNCHANGED command
         \/ PrefetchCmd /\ state = "ST_PREFETCH_CMD" /\ state' \in PrefetchStates
              /\ UNCHANGED command
         \/ WaitPrefetch /\ state = "ST_WAIT_PREFETCH"
              /\ state' \in {"ST_WAIT_PREFETCH", "ST_DISPATCH"}
              /\ UNCHANGED command
         \/ Dispatch /\ state = "ST_DISPATCH" /\ state' \in DispatchStates
              /\ UNCHANGED command
         \/ DispatchWait /\ state = "ST_DISPATCH" /\ state' = "ST_DISPATCH"
              /\ UNCHANGED command
         \/ Wait /\ state = "ST_WAIT" /\ state' = "ST_WAIT" /\ UNCHANGED command
         \/ Wait /\ state = "ST_WAIT" /\ state' = "ST_NEXT_N_CHUNK" /\ AllTilesDone
              /\ UNCHANGED command
         \/ NextNChunk /\ state = "ST_NEXT_N_CHUNK" /\ state' = "ST_N_CHUNK_SETUP"
              /\ n_chunk_idx' = n_chunk_idx + 1 /\ UNCHANGED <<cmd_r, k_chunk_idx>>
         \/ NextNChunk /\ state = "ST_NEXT_N_CHUNK" /\ state' = "ST_NEXT_K_CHUNK"
              /\ LastNChunk /\ UNCHANGED command
         \/ NextKChunk /\ state = "ST_NEXT_K_CHUNK" /\ state' = "ST_K_CHUNK_SETUP"
              /\ k_chunk_idx # num_k_chunks - 1 /\ k_chunk_idx' = k_chunk_idx + 1
              /\ UNCHANGED <<cmd_r, n_chunk_idx>>
         \/ NextKChunk /\ state = "ST_NEXT_K_CHUNK" /\ state' = "ST_DONE"
              /\ k_chunk_idx = num_k_chunks - 1 /\ UNCHANGED command
         \/ Done /\ state = "ST_DONE" /\ state' = "ST_IDLE" /\ UNCHANGED command
<1> USE DEF Goto, command
<1>1. CASE Await
  BY <1>1 DEF Await
<1>2. CASE Accept
  BY <1>2 DEF Accept
<1>3. CASE Setup
  BY <1>3 DEF Setup
<1>4. CASE KChunkSetup
  BY <1>4 DEF KChunkSetup
<1>5. CASE NChunkSetup
  BY <1>5 DEF NChunkSetup
<1>6. CASE PrefetchCmd
  BY <1>6 DEF PrefetchCmd, PrefetchStates
<1>7. CASE WaitPrefetch
  BY <1>7 DEF WaitPrefetch
<1>8. CASE Dispatch
  BY <1>8 DEF Dispatch, DispatchStates
<1>9. CASE DispatchWait
  BY <1>9 DEF DispatchWait
<1>10. CASE Wait
  BY <1>10 DEF Wait
<1>11. CASE NextNChunk
  BY <1>11 DEF NextNChunk
<1>12. CASE NextKChunk
  BY <1>12 DEF NextKChunk
<1>13. CASE Done
  BY <1>13 DEF Done
<1> QED BY <1>1, <1>2, <1>3, <1>4, <1>5, <1>6, <1>7, <1>8, <1>9, <1>10, <1>11, <1>12, <1>13 DEF Next

LEMMA SameK ==
  ASSUME UNCHANGED <<cmd_r, k_chunk_idx>>
  PROVE  /\ K0' = K0 /\ K1' = K1 /\ k_chunk_size' = k_chunk_size
         /\ num_k_chunks' = num_k_chunks
         /\ Rows' = Rows /\ Cols' = Cols /\ num_m_tiles' = num_m_tiles
         /\ \A i, j : Cell(i, j)' = Cell(i, j)
         /\ \A i, j, lo, hi : Slice(i, j, lo, hi)' = Slice(i, j, lo, hi)
BY DEF K0, K1, k_chunk_size, num_k_chunks, Rows, Cols, num_m_tiles, Cell, Slice, Term

LEMMA SameChunk ==
  ASSUME UNCHANGED command
  PROVE  /\ N0' = N0 /\ Index' = Index
         /\ \A i, j : Place(i, j)' = Place(i, j) /\ Lane(i, j)' = Lane(i, j)
         /\ \A x : TileAt(x)' = TileAt(x)
         /\ \A b : Prefetch(b)' = Prefetch(b)
<1>1. cmd_r' = cmd_r /\ k_chunk_idx' = k_chunk_idx /\ n_chunk_idx' = n_chunk_idx
  BY DEF command
<1>2. k_chunk_size' = k_chunk_size /\ n_chunk_size' = n_chunk_size
  BY <1>1 DEF k_chunk_size, n_chunk_size
<1>3. N0' = N0 /\ Index' = Index /\ FirstKChunk' = FirstKChunk
  BY <1>1, <1>2 DEF N0, Index, num_m_tiles, num_n_tiles_chunk, FirstKChunk
<1>4. \A i, j : Place(i, j)' = Place(i, j) /\ Lane(i, j)' = Lane(i, j)
  BY <1>3 DEF Place, Lane
<1>5. \A x : TileAt(x)' = TileAt(x)
  BY <1>1, <1>2, <1>3 DEF TileAt
<1>6. \A b : Prefetch(b)' = Prefetch(b)
  BY <1>1, <1>2 DEF Prefetch
<1> QED BY <1>3, <1>4, <1>5, <1>6

LEMMA KStep ==
  ASSUME ChunkInv, KInv, Next
  PROVE  KInv'
<1> USE DEF SumStates, ChunkStates, PrefetchStates, DispatchStates
<1>1. CASE Setup /\ state = "ST_SETUP" /\ state' = "ST_K_CHUNK_SETUP"
             /\ k_chunk_idx' = 0 /\ UNCHANGED cmd_r
  <2>1. cmd_r.k \in Nat \ {0}
    BY <1>1, CommandTypes DEF ChunkInv
  <2>2. num_k_chunks' \in Nat \ {0}
    BY <1>1, <2>1, Sizes, BelowCeil DEF num_k_chunks
  <2> QED BY <1>1, <2>2 DEF KInv
<1>2. CASE NextKChunk /\ state = "ST_NEXT_K_CHUNK" /\ state' = "ST_K_CHUNK_SETUP"
             /\ k_chunk_idx # num_k_chunks - 1 /\ k_chunk_idx' = k_chunk_idx + 1
             /\ UNCHANGED <<cmd_r, n_chunk_idx>>
  <2>1. cmd_r.k \in Nat \ {0}
    BY <1>2, CommandTypes DEF ChunkInv
  <2>2. num_k_chunks' = num_k_chunks /\ num_k_chunks \in Nat
    BY <1>2, <2>1, Sizes, BelowCeil DEF num_k_chunks
  <2> QED BY <1>2, <2>2 DEF KInv
<1>3. CASE /\ UNCHANGED <<cmd_r, k_chunk_idx>> /\ state \in SumStates
           /\ state' = "ST_DONE" => k_chunk_idx = num_k_chunks - 1
  BY <1>3, SameK DEF KInv
<1>4. CASE ~(state' \in SumStates)
  BY <1>4 DEF KInv
<1>5. \/ Setup /\ state = "ST_SETUP" /\ state' = "ST_K_CHUNK_SETUP"
           /\ k_chunk_idx' = 0 /\ UNCHANGED cmd_r
      \/ NextKChunk /\ state = "ST_NEXT_K_CHUNK" /\ state' = "ST_K_CHUNK_SETUP"
             /\ k_chunk_idx # num_k_chunks - 1 /\ k_chunk_idx' = k_chunk_idx + 1
             /\ UNCHANGED <<cmd_r, n_chunk_idx>>
      \/ /\ UNCHANGED <<cmd_r, k_chunk_idx>> /\ state \in SumStates
         /\ state' = "ST_DONE" => k_chunk_idx = num_k_chunks - 1
      \/ ~(state' \in SumStates)
  BY Moves DEF command
<1> QED BY <1>1, <1>2, <1>3, <1>4, <1>5

LEMMA PortStep ==
  ASSUME PortInv, Next
  PROVE  PortInv'
<1>1. PICK dmas \in SUBSET Buffers, engs \in SUBSET Engines : Edge(dmas, engs)
  BY DEF Next
<1>2. cmd' # NONE => cmd_ready /\ cmd = NONE
  BY <1>1 DEF Edge, Client
<1>3. CASE Await
  BY <1>2, <1>3 DEF Await, Goto, PortInv
<1>4. CASE Accept
  BY <1>2, <1>4 DEF Accept, Goto, PortInv
<1>5. CASE Done
  BY <1>2, <1>5 DEF Done, PortInv
<1>6. CASE /\ state # "ST_IDLE" /\ cmd_ready' = cmd_ready /\ cmd_done' = FALSE
  BY <1>2, <1>6 DEF PortInv
<1>7. Next => \/ Await \/ Accept \/ Done
              \/ state # "ST_IDLE" /\ cmd_ready' = cmd_ready /\ cmd_done' = FALSE
  <2> USE DEF Goto
  <2>1. Setup \/ KChunkSetup \/ NChunkSetup \/ PrefetchCmd
          => state # "ST_IDLE" /\ cmd_ready' = cmd_ready /\ cmd_done' = FALSE
    BY DEF Setup, KChunkSetup, NChunkSetup, PrefetchCmd
  <2>2. WaitPrefetch \/ Dispatch \/ DispatchWait
          => state # "ST_IDLE" /\ cmd_ready' = cmd_ready /\ cmd_done' = FALSE
    BY DEF WaitPrefetch, Dispatch, DispatchWait
  <2>3. Wait \/ NextNChunk \/ NextKChunk
          => state # "ST_IDLE" /\ cmd_ready' = cmd_ready /\ cmd_done' = FALSE
    BY DEF Wait, NextNChunk, NextKChunk
  <2> QED BY <2>1, <2>2, <2>3 DEF Next
<1> QED BY <1>3, <1>4, <1>5, <1>6, <1>7

-----------------------------------------------------------------------------
(* The buffers.                                                            *)

LEMMA InContext ==
  ASSUME ChunkInv, KInv, state \in ChunkStates
  PROVE  Context
BY DEF ChunkInv, KInv, ChunkStates, SumStates, Context, KContext

\* A rectangle that fits is stored word by word.
LEMMA FilledIs ==
  ASSUME Context, ShapesFit, NEW b \in Buffers, NEW old,
         DOMAIN old = (0 .. PF_ROWS - 1) \X (0 .. PF_COL_WORDS - 1)
  PROVE  \A r \in 0 .. Prefetch(b).rows - 1, w \in 0 .. Prefetch(b).words - 1 :
           Filled(old, Prefetch(b))[r, w]
             = Prefetch(b).base + r * Prefetch(b).stride + w
<1> DEFINE P == Prefetch(b)
<1>1. /\ P.rows <= PF_ROWS /\ P.rows \in Nat /\ P.words \in Nat \ {0}
      /\ P.words <= PF_COL_WORDS /\ P.words <= BURST_MAX
  BY RectangleFits
<1>2. PF_ROWS \in Nat \ {0} /\ PF_COL_WORDS \in Nat \ {0} /\ BURST_MAX \in Nat \ {0}
  BY TilingAssumption
<1> HIDE DEF P
<1>3. Beats(P.words) = P.words
  <2>1. CASE P.words = BURST_MAX
    <3>1. 1 * BURST_MAX + 0 = BURST_MAX /\ 0 \in 0 .. BURST_MAX - 1
      BY <1>2
    <3>2. (1 * BURST_MAX + 0) % BURST_MAX = 0
      BY <1>2, <3>1, DivMod
    <3> QED BY <2>1, <3>1, <3>2 DEF Beats
  <2>2. CASE P.words < BURST_MAX
    <3>1. P.words % BURST_MAX = P.words
      BY <1>1, <1>2, <2>2, Unwrapped
    <3> QED BY <1>1, <3>1 DEF Beats
  <2> QED BY <1>1, <1>2, <2>1, <2>2
<1>4. ASSUME NEW i \in Nat, NEW n \in Nat, i < n, NEW size \in Nat \ {0}, n <= size
      PROVE  LastAt(i, n, size) = i
  <2>1. (n - 1 - i) \in 0 .. size - 1 /\ 0 * size + (n - 1 - i) = (n - 1 - i)
    BY <1>4
  <2>2. (0 * size + (n - 1 - i)) \div size = 0
    BY <2>1, DivMod
  <2>3. (n - 1 - i) \div size = 0
    BY <2>1, <2>2
  <2> QED BY <1>4, <2>3 DEF LastAt
<1>5. ASSUME NEW r \in 0 .. P.rows - 1, NEW w \in 0 .. P.words - 1
      PROVE  Filled(old, P)[r, w] = P.base + r * P.stride + w
  <2>1. /\ r \in Nat /\ r < P.rows /\ w \in Nat /\ w < P.words
        /\ <<r, w>> \in DOMAIN old
    BY <1>1, <1>2
  <2>2. LastAt(r, P.rows, PF_ROWS) = r /\ LastAt(w, P.words, PF_COL_WORDS) = w
    BY <1>1, <1>2, <1>4, <2>1
  <2> QED BY <1>3, <2>1, <2>2 DEF Filled
<1> QED BY <1>5 DEF P

\* A DMA at one edge.
LEMMA DmaEdge ==
  ASSUME NEW b \in Buffers, PrefetchInv(b), NEW dmas \in SUBSET Buffers, Dmas(dmas),
         pf[b].valid \in BOOLEAN
  PROVE  /\ DOMAIN buf'[b] = DOMAIN buf[b]
         /\ dma[b].st = "IDLE" /\ pf[b].valid /\ dma[b].ready =>
              dma'[b].st = "RUN" /\ dma'[b].cmd = Prefetch(b)
         /\ ~(dma[b].st = "IDLE" /\ pf[b].valid /\ dma[b].ready) =>
              /\ dma'[b].cmd = dma[b].cmd
              /\ dma[b].st # "RUN" => dma'[b].st # "RUN"
         /\ dma[b].st # "RUN" => buf'[b] = buf[b]
         /\ dma[b].st = "RUN" => \/ dma'[b].st = "RUN" /\ buf'[b] = buf[b]
                                 \/ /\ dma'[b].st = "DONE"
                                    /\ buf'[b] = Filled(buf[b], dma[b].cmd)
<1>1. dma'[b] = DmaNext(b, b \in dmas)
      /\ buf'[b] = IF dma[b].st = "RUN" /\ b \in dmas THEN Filled(buf[b], dma[b].cmd) ELSE buf[b]
  BY DEF Dmas
<1>2. /\ {"st", "ready", "done", "cmd"} = DOMAIN dma[b]
      /\ dma[b].st \in {"IDLE", "RUN", "DONE"} /\ dma[b].ready \in BOOLEAN
  BY DEF PrefetchInv
<1>3. DOMAIN buf'[b] = DOMAIN buf[b]
  BY <1>1 DEF Filled
<1>4. CASE dma[b].st = "IDLE" /\ pf[b].valid /\ dma[b].ready
  <2>1. dma'[b] = [st |-> "RUN", ready |-> FALSE, done |-> FALSE, cmd |-> Prefetch(b)]
    BY <1>1, <1>4 DEF DmaNext
  <2> QED BY <1>1, <1>3, <1>4, <2>1
<1>5. CASE dma[b].st = "IDLE" /\ ~(pf[b].valid /\ dma[b].ready)
  <2>1. dma'[b] = [dma[b] EXCEPT !.ready = TRUE, !.done = FALSE]
    BY <1>1, <1>5 DEF DmaNext
  <2>2. dma'[b].st = "IDLE" /\ dma'[b].cmd = dma[b].cmd
    BY <1>2, <1>5, <2>1
  <2> QED BY <1>1, <1>3, <1>5, <2>2
<1>6. CASE dma[b].st = "RUN"
  <2>1. CASE b \in dmas
    <3>1. dma'[b] = [dma[b] EXCEPT !.st = "DONE"]
      BY <1>1, <1>6, <2>1 DEF DmaNext
    <3>2. dma'[b].st = "DONE" /\ dma'[b].cmd = dma[b].cmd
      BY <1>2, <3>1
    <3> QED BY <1>1, <1>3, <1>6, <2>1, <3>2
  <2>2. CASE ~(b \in dmas)
    <3>1. dma'[b] = dma[b]
      BY <1>1, <1>6, <2>2 DEF DmaNext
    <3> QED BY <1>1, <1>3, <1>6, <2>2, <3>1
  <2> QED BY <2>1, <2>2
<1>7. CASE dma[b].st = "DONE"
  <2>1. dma'[b] = [dma[b] EXCEPT !.st = "IDLE", !.done = TRUE]
    BY <1>1, <1>7 DEF DmaNext
  <2>2. dma'[b].st = "IDLE" /\ dma'[b].cmd = dma[b].cmd
    BY <1>2, <2>1
  <2> QED BY <1>1, <1>3, <1>7, <2>2
<1> QED BY <1>2, <1>4, <1>5, <1>6, <1>7

LEMMA BufStep ==
  ASSUME IInv, ChunkInv, KInv, ShapesFit, Next, NEW b \in Buffers, BufInv(b)
  PROVE  BufInv(b)'
<1> DEFINE D == (0 .. PF_ROWS - 1) \X (0 .. PF_COL_WORDS - 1)
           takes == dma[b].st = "IDLE" /\ pf[b].valid /\ dma[b].ready
<1>1. PICK dmas \in SUBSET Buffers, engs \in SUBSET Engines : Edge(dmas, engs)
  BY DEF Next
<1>2. PrefetchInv(b) /\ pf[b] \in Flags
  BY DEF IInv
<1>3. pf[b].valid \in BOOLEAN /\ pf[b].launched \in BOOLEAN
  BY <1>2 DEF Flags
<1>4. /\ DOMAIN buf'[b] = DOMAIN buf[b]
      /\ takes => dma'[b].st = "RUN" /\ dma'[b].cmd = Prefetch(b)
      /\ ~takes => /\ dma'[b].cmd = dma[b].cmd
                   /\ dma[b].st # "RUN" => dma'[b].st # "RUN"
      /\ dma[b].st # "RUN" => buf'[b] = buf[b]
      /\ dma[b].st = "RUN" => \/ dma'[b].st = "RUN" /\ buf'[b] = buf[b]
                              \/ /\ dma'[b].st = "DONE"
                                 /\ buf'[b] = Filled(buf[b], dma[b].cmd)
  BY <1>1, <1>2, <1>3, DmaEdge DEF Edge
<1>5. DOMAIN buf[b] = D /\ DOMAIN buf'[b] = D
  BY <1>4 DEF BufInv
<1>6. ASSUME UNCHANGED command, Holds(b), buf'[b] = buf[b]  PROVE Holds(b)'
  <2>1. Prefetch(b)' = Prefetch(b)
    BY <1>6, SameChunk
  <2> QED BY <1>6, <2>1 DEF Holds
<1>7. ASSUME UNCHANGED command, state \in PrefetchStates, pf[b].launched, ~takes
      PROVE  dma'[b].cmd = Prefetch(b)' /\ (dma'[b].st # "RUN" => Holds(b)')
  <2>1. /\ Prefetch(b)' = Prefetch(b) /\ dma[b].cmd = Prefetch(b)
        /\ dma[b].st # "RUN" => Holds(b)
    BY <1>7, SameChunk DEF BufInv
  <2>2. CASE dma[b].st # "RUN"
    BY <1>4, <1>6, <1>7, <2>1, <2>2
  <2>3. CASE dma[b].st = "RUN" /\ dma'[b].st = "DONE" /\ buf'[b] = Filled(buf[b], dma[b].cmd)
    <3>1. Context
      BY <1>7, InContext DEF PrefetchStates, ChunkStates
    <3>2. buf'[b] = Filled(buf[b], Prefetch(b))
      BY <2>1, <2>3
    <3>3. \A r \in 0 .. Prefetch(b).rows - 1, w \in 0 .. Prefetch(b).words - 1 :
            Filled(buf[b], Prefetch(b))[r, w]
              = Prefetch(b).base + r * Prefetch(b).stride + w
      BY <1>5, <3>1, FilledIs
    <3>4. Holds(b)'
      BY <2>1, <3>2, <3>3 DEF Holds
    <3>5. dma'[b].cmd = Prefetch(b)'
      BY <1>4, <1>7, <2>1
    <3> QED BY <3>4, <3>5
  <2>4. CASE dma[b].st = "RUN" /\ dma'[b].st = "RUN"
    BY <1>4, <1>7, <2>1, <2>4
  <2> QED BY <1>4, <2>2, <2>3, <2>4
<1>8. CASE PrefetchCmd /\ state = "ST_PREFETCH_CMD" /\ state' \in PrefetchStates
           /\ UNCHANGED command
  <2>1. Unlaunched(b) \/ Taken(b) \/ Running(b) \/ Finishing(b) \/ Loaded(b)
    BY <1>2, <1>8 DEF PrefetchInv
  <2>2. CASE pf[b].launched
    <3>1. ~takes
      BY <2>1, <2>2 DEF Unlaunched, Taken, Running, Finishing, Loaded
    <3>2. dma'[b].cmd = Prefetch(b)' /\ (dma'[b].st # "RUN" => Holds(b)')
      BY <1>7, <1>8, <2>2, <3>1 DEF PrefetchStates
    <3> QED BY <1>5, <1>8, <3>2 DEF BufInv, PrefetchStates, DispatchStates
  <2>3. CASE ~pf[b].launched
    <3>1. pf'[b] = [Latched[b] EXCEPT !.valid = TRUE, !.launched = pf[b].valid /\ dma[b].ready]
      BY <1>8, <2>3 DEF PrefetchCmd
    <3>2. Latched[b] = [pf[b] EXCEPT !.valid = FALSE, !.done_r = @ \/ dma[b].done]
      BY DEF Latched
    <3>3. pf'[b].launched <=> pf[b].valid /\ dma[b].ready
      BY <1>2, <3>1, <3>2 DEF Flags
    <3>4. dma[b].st = "IDLE"
      BY <2>1, <2>3 DEF Unlaunched, Taken, Running, Finishing, Loaded, Resting
    <3>5. Prefetch(b)' = Prefetch(b)
      BY <1>8, SameChunk
    <3>6. pf'[b].launched => dma'[b].cmd = Prefetch(b)' /\ dma'[b].st = "RUN"
      BY <1>4, <3>3, <3>4, <3>5
    <3> QED BY <1>5, <1>8, <3>6 DEF BufInv, PrefetchStates, DispatchStates
  <2> QED BY <2>2, <2>3
<1>9. CASE WaitPrefetch /\ state = "ST_WAIT_PREFETCH"
           /\ state' \in {"ST_WAIT_PREFETCH", "ST_DISPATCH"} /\ UNCHANGED command
  <2>1. Running(b) \/ Finishing(b) \/ Loaded(b)
    BY <1>2, <1>9 DEF PrefetchInv
  <2>2. pf[b].launched /\ ~takes
    BY <2>1 DEF Running, Finishing, Loaded
  <2>3. dma'[b].cmd = Prefetch(b)' /\ (dma'[b].st # "RUN" => Holds(b)')
    BY <1>7, <1>9, <2>2 DEF PrefetchStates
  <2>4. state' = "ST_DISPATCH" => pf[b].done_r
    BY <1>9 DEF WaitPrefetch, Goto
  <2>5. pf[b].done_r => dma[b].st # "RUN"
    BY <2>1 DEF Running, Finishing, Loaded, Resting
  <2>6. state' = "ST_DISPATCH" => dma'[b].st # "RUN"
    BY <1>4, <2>2, <2>4, <2>5
  <2> QED BY <1>5, <1>9, <2>3, <2>6 DEF BufInv, PrefetchStates, DispatchStates
<1>10. CASE state \in DispatchStates /\ state' \in DispatchStates /\ UNCHANGED command
  <2>1. dma[b].st # "RUN"
    BY <1>2, <1>10 DEF PrefetchInv, DispatchStates, Resting
  <2>2. Holds(b)'
    BY <1>4, <1>6, <1>10, <2>1 DEF BufInv
  <2> QED BY <1>5, <1>10, <2>2 DEF BufInv, PrefetchStates, DispatchStates
<1>11. CASE NChunkSetup /\ state = "ST_N_CHUNK_SETUP" /\ state' = "ST_PREFETCH_CMD"
  <2>1. ~pf'[b].launched
    BY <1>11 DEF NChunkSetup, NoFlags
  <2> QED BY <1>5, <1>11, <2>1 DEF BufInv, PrefetchStates, DispatchStates
<1>12. CASE ~(state' \in PrefetchStates \cup DispatchStates)
  BY <1>5, <1>12 DEF BufInv
<1>13. \/ PrefetchCmd /\ state = "ST_PREFETCH_CMD" /\ state' \in PrefetchStates
           /\ UNCHANGED command
       \/ WaitPrefetch /\ state = "ST_WAIT_PREFETCH"
           /\ state' \in {"ST_WAIT_PREFETCH", "ST_DISPATCH"} /\ UNCHANGED command
       \/ state \in DispatchStates /\ state' \in DispatchStates /\ UNCHANGED command
       \/ NChunkSetup /\ state = "ST_N_CHUNK_SETUP" /\ state' = "ST_PREFETCH_CMD"
       \/ ~(state' \in PrefetchStates \cup DispatchStates)
  BY Moves DEF PrefetchStates, DispatchStates
<1> QED BY <1>8, <1>9, <1>10, <1>11, <1>12, <1>13

-----------------------------------------------------------------------------
(* The engines at one edge.                                                *)

\* How the work of an engine goes on.
Starts(e) == /\ eng_cmd_valid = e
             /\ eng'[e].st = "K_TILE" /\ eng'[e].kt = 0 /\ eng'[e].tile = eng_cmd
Adds(e) == /\ eng[e].st = "K_TILE" /\ ~LastKTile(e)
           /\ eng'[e].st = "K_TILE" /\ eng'[e].kt = eng[e].kt + 1
           /\ eng'[e].tile = eng[e].tile /\ eng'[e].acc = TileDone(e)
AddsLast(e) == /\ eng[e].st = "K_TILE" /\ LastKTile(e)
               /\ eng'[e].st = "FLUSH" /\ eng'[e].kt = eng[e].kt
               /\ eng'[e].tile = eng[e].tile /\ eng'[e].acc = TileDone(e)

LEMMA EngineMoves ==
  ASSUME NEW e \in Engines, EngineInv(e), NEW engs \in SUBSET Engines, EngineStep(engs)
  PROVE  \/ Starts(e) \/ Adds(e) \/ AddsLast(e)
         \/ eng[e].st \in {"K_TILE", "FLUSH"} /\ eng'[e] = eng[e] /\ ~(e \in Flushing(engs))
         \/ e \in Flushing(engs) /\ eng'[e].st = "DONE"
         \/ /\ eng[e].st \in {"IDLE", "DONE"} /\ eng_cmd_valid # e /\ eng'[e].st = "IDLE"
            /\ ~(e \in Flushing(engs))
<1>1. eng'[e] = EngNext(e, e \in engs)
  BY DEF EngineStep
<1>2. /\ {"st", "ready", "done", "tile", "kt", "acc"} = DOMAIN eng[e]
      /\ eng[e].st \in {"IDLE", "K_TILE", "FLUSH", "DONE"}
      /\ eng_cmd_valid = e => eng[e].ready /\ eng[e].st = "IDLE"
      /\ eng[e].ready \in BOOLEAN
  BY DEF EngineInv
<1>3. e \in Flushing(engs) <=> e \in engs /\ eng[e].st = "FLUSH"
  BY DEF Flushing
<1>4. CASE eng_cmd_valid = e
  <2>1. eng'[e] = [eng[e] EXCEPT !.st = "K_TILE", !.ready = FALSE, !.done = FALSE,
                                 !.tile = eng_cmd, !.kt = 0]
    BY <1>1, <1>2, <1>4 DEF EngNext
  <2>2. eng'[e].st = "K_TILE" /\ eng'[e].kt = 0 /\ eng'[e].tile = eng_cmd
    BY <1>2, <2>1
  <2> QED BY <1>4, <2>2 DEF Starts
<1>5. CASE eng_cmd_valid # e /\ eng[e].st \in {"IDLE", "DONE"}
  <2>1. \/ eng'[e] = [eng[e] EXCEPT !.ready = TRUE, !.done = FALSE] /\ eng[e].st = "IDLE"
        \/ eng'[e] = [eng[e] EXCEPT !.st = "IDLE", !.done = TRUE]
    BY <1>1, <1>5 DEF EngNext
  <2>2. eng'[e].st = "IDLE"
    BY <1>2, <2>1
  <2> QED BY <1>3, <1>5, <2>2
<1>6. CASE eng[e].st = "K_TILE" /\ e \in engs
  <2>1. eng'[e] = [eng[e] EXCEPT !.acc = TileDone(e),
                                 !.kt = IF LastKTile(e) THEN @ ELSE @ + 1,
                                 !.st = IF LastKTile(e) THEN "FLUSH" ELSE @]
    BY <1>1, <1>6 DEF EngNext
  <2>2. CASE LastKTile(e)
    <3>1. eng'[e].st = "FLUSH" /\ eng'[e].kt = eng[e].kt /\ eng'[e].tile = eng[e].tile
          /\ eng'[e].acc = TileDone(e)
      BY <1>2, <2>1, <2>2
    <3> QED BY <1>6, <2>2, <3>1 DEF AddsLast
  <2>3. CASE ~LastKTile(e)
    <3>1. eng'[e].st = "K_TILE" /\ eng'[e].kt = eng[e].kt + 1 /\ eng'[e].tile = eng[e].tile
          /\ eng'[e].acc = TileDone(e)
      BY <1>2, <1>6, <2>1, <2>3
    <3> QED BY <1>6, <2>3, <3>1 DEF Adds
  <2> QED BY <2>2, <2>3
<1>7. CASE eng[e].st \in {"K_TILE", "FLUSH"} /\ ~(e \in engs)
  <2>1. eng'[e] = eng[e]
    BY <1>1, <1>7 DEF EngNext
  <2> QED BY <1>3, <1>7, <2>1
<1>8. CASE eng[e].st = "FLUSH" /\ e \in engs
  <2>1. eng'[e] = [eng[e] EXCEPT !.st = "DONE"]
    BY <1>1, <1>8 DEF EngNext
  <2>2. eng'[e].st = "DONE"
    BY <1>2, <2>1
  <2> QED BY <1>3, <1>8, <2>2
<1> QED BY <1>2, <1>4, <1>5, <1>6, <1>7, <1>8

\* An engine not commanded at this edge is pending after it if it was before and
\* does not write its tile now; and its tile is the same.
LEMMA PendingEdge ==
  ASSUME NEW e \in Engines, EngineInv(e), NEW engs \in SUBSET Engines, EngineStep(engs),
         eng_cmd_valid' # e
  PROVE  /\ e \in Pending' <=> e \in Pending /\ ~(e \in Flushing(engs))
         /\ e \in Pending' => TileOf(e)' = TileOf(e)
<1>1. e \in Pending <=> eng_cmd_valid = e \/ eng[e].st \in {"K_TILE", "FLUSH"}
  BY DEF Pending
<1>2. e \in Pending' <=> eng'[e].st \in {"K_TILE", "FLUSH"}
  BY DEF Pending
<1>3. TileOf(e)' = eng'[e].tile
  BY DEF TileOf
<1>4. TileOf(e) = IF eng_cmd_valid = e THEN eng_cmd ELSE eng[e].tile
  BY DEF TileOf
<1>5. eng[e].st \in {"K_TILE", "FLUSH"} => eng_cmd_valid # e
  BY DEF EngineInv
<1>6. e \in Flushing(engs) => eng[e].st = "FLUSH"
  BY DEF Flushing
<1>7. CASE Starts(e)
  BY <1>1, <1>2, <1>3, <1>4, <1>5, <1>6, <1>7 DEF Starts
<1>8. CASE Adds(e) \/ AddsLast(e)
  BY <1>1, <1>2, <1>3, <1>4, <1>5, <1>6, <1>8 DEF Adds, AddsLast
<1>9. CASE eng[e].st \in {"K_TILE", "FLUSH"} /\ eng'[e] = eng[e] /\ ~(e \in Flushing(engs))
  BY <1>1, <1>2, <1>3, <1>4, <1>5, <1>9
<1>10. CASE e \in Flushing(engs) /\ eng'[e].st = "DONE"
  BY <1>2, <1>10
<1>11. CASE /\ eng[e].st \in {"IDLE", "DONE"} /\ eng_cmd_valid # e /\ eng'[e].st = "IDLE"
            /\ ~(e \in Flushing(engs))
  BY <1>1, <1>2, <1>11
<1> QED BY <1>7, <1>8, <1>9, <1>10, <1>11, EngineMoves

\* The tile commanded at an edge is that of the cursor, which moves on past it.
LEMMA HandsOut ==
  ASSUME IInv, ChunkInv, CursorInv, Next
  PROVE  \/ eng_cmd_valid' = NONE /\ ~Dispatch
            /\ (state' \in DispatchStates /\ state \in DispatchStates =>
                  UNCHANGED cursor /\ state' = state /\ UNCHANGED command)
         \/ /\ Dispatch /\ eng_cmd_valid' \in Engines /\ eng_cmd_valid' \notin Pending
            /\ eng_cmd' = TileAt(<<cur_m, cur_n>>) /\ <<cur_m, cur_n>> \in Index
            /\ ~Before(<<cur_m, cur_n>>)
            /\ state = "ST_DISPATCH" /\ state' \in DispatchStates /\ UNCHANGED command
            /\ \A x \in Index : Handed(x)' <=> Handed(x) \/ x = <<cur_m, cur_n>>
<1> DEFINE here == <<cur_m, cur_n>>
<1>1. \/ eng_cmd_valid' = NONE /\ ~Dispatch
      \/ eng_cmd_valid' \in Idle /\ Dispatch
  BY Commanded
<1>2. CASE eng_cmd_valid' = NONE /\ ~Dispatch
  <2>1. state' \in DispatchStates /\ state \in DispatchStates =>
           (DispatchWait \/ (Wait /\ state' = "ST_WAIT"))
    BY <1>2, Moves DEF DispatchStates, PrefetchStates
  <2>2. DispatchWait \/ (Wait /\ state' = "ST_WAIT") =>
          UNCHANGED cursor /\ state' = state /\ UNCHANGED command
    BY DEF DispatchWait, Wait, Goto
  <2> QED BY <1>2, <2>1, <2>2
<1>3. CASE eng_cmd_valid' \in Idle /\ Dispatch
  <2>1. /\ state = "ST_DISPATCH" /\ state' \in DispatchStates /\ UNCHANGED command
        /\ eng_cmd' = Tile /\ ~all_dispatched
    BY <1>3 DEF Dispatch, Goto, DispatchStates
  <2>2. here \in Index
    BY <2>1 DEF CursorInv
  <2>3. eng_cmd_valid' \in Engines /\ eng_cmd_valid' \notin Pending
    <3>1. PICK e \in Engines : e = eng_cmd_valid' /\ eng[e].ready /\ eng_cmd_valid # e
      BY <1>3 DEF Idle
    <3>2. EngineInv(e)
      BY DEF IInv
    <3> QED BY <3>1, <3>2 DEF EngineInv, Pending
  <2>4. Tile = TileAt(here)
    BY DEF Tile, TileAt, OutCol
  <2>5. cur_m \in Nat /\ cur_n \in Nat /\ cur_m < num_m_tiles /\ cur_n < num_n_tiles_chunk
        /\ num_m_tiles \in Nat /\ num_n_tiles_chunk \in Nat
    <3>1. num_m_tiles \in Nat \ {0} /\ num_n_tiles_chunk \in Nat \ {0}
      BY <2>1, ChunkSizes DEF ChunkStates
    <3> QED BY <2>2, <3>1 DEF Index
  <2>6. ~Before(here)
    BY <2>5 DEF Before
  <2>7. ASSUME NEW x \in Index  PROVE Handed(x)' <=> Handed(x) \/ x = here
    <3> DEFINE last_n == cur_n = num_n_tiles_chunk - 1
               last_m == cur_m = num_m_tiles - 1
    <3>1. /\ cur_n' = IF last_n THEN 0 ELSE cur_n + 1
          /\ cur_m' = IF last_n /\ ~last_m THEN cur_m + 1 ELSE cur_m
          /\ state' = IF last_n /\ last_m THEN "ST_WAIT" ELSE state
      BY <1>3 DEF Dispatch, Goto
    <3>2. /\ x[1] \in Nat /\ x[2] \in Nat /\ x = <<x[1], x[2]>>
          /\ x[1] < num_m_tiles /\ x[2] < num_n_tiles_chunk
      BY <2>5 DEF Index
    <3>3. x = here <=> x[1] = cur_m /\ x[2] = cur_n
      BY <3>2
    <3>4. Handed(x) <=> Before(x)
      BY <2>1 DEF Handed
    <3>5. CASE last_n /\ last_m
      <4>1. Handed(x)'
        BY <3>1, <3>5 DEF Handed
      <4> QED BY <2>5, <3>2, <3>3, <3>4, <3>5, <4>1 DEF Before
    <3>6. CASE last_n /\ ~last_m
      <4>1. Handed(x)' <=> x[1] < cur_m + 1 \/ (x[1] = cur_m + 1 /\ x[2] < 0)
        BY <2>1, <3>1, <3>6 DEF Handed, Before
      <4> QED BY <2>5, <3>2, <3>3, <3>4, <3>6, <4>1 DEF Before
    <3>7. CASE ~last_n
      <4>1. Handed(x)' <=> x[1] < cur_m \/ (x[1] = cur_m /\ x[2] < cur_n + 1)
        BY <2>1, <3>1, <3>7 DEF Handed, Before
      <4> QED BY <2>5, <3>2, <3>3, <3>4, <3>7, <4>1 DEF Before
    <3> QED BY <3>5, <3>6, <3>7
  <2> QED BY <1>3, <2>1, <2>2, <2>3, <2>4, <2>6, <2>7
<1> QED BY <1>1, <1>2, <1>3

LEMMA QuietPending ==
  ASSUME IInv, Next, state \notin DispatchStates
  PROVE  Pending' = {} /\ \A e \in Engines : eng'[e].st = "IDLE"
<1>1. PICK dmas \in SUBSET Buffers, engs \in SUBSET Engines : Edge(dmas, engs)
  BY DEF Next
<1>2. DOMAIN eng' = Engines
  BY <1>1 DEF Edge, EngineStep
<1> QED BY <1>2, QuietWalk DEF Busy, Pending

LEMMA HandedStep ==
  ASSUME IInv, WalkInv, HandedInv, Next
  PROVE  HandedInv'
<1>1. PICK dmas \in SUBSET Buffers, engs \in SUBSET Engines : EngineStep(engs)
  BY DEF Next, Edge
<1> SUFFICES ASSUME state' \in DispatchStates, NEW e \in Pending'
             PROVE  \E x \in Index' : Handed(x)' /\ TileOf(e)' = TileAt(x)'
  BY DEF HandedInv
<1>2. state \in DispatchStates
  BY QuietPending
<1>3. e \in Engines /\ EngineInv(e)
  BY DEF Pending, IInv
<1>4. UNCHANGED command
  BY <1>2, HandsOut DEF WalkInv
<1>5. Index' = Index /\ \A x : TileAt(x)' = TileAt(x)
  BY <1>4, SameChunk
<1>6. CASE eng_cmd_valid' # e
  <2>1. e \in Pending /\ TileOf(e)' = TileOf(e)
    BY <1>1, <1>3, <1>6, PendingEdge
  <2>2. PICK x \in Index : Handed(x) /\ TileOf(e) = TileAt(x)
    BY <1>2, <2>1 DEF HandedInv
  <2>3. Handed(x)'
    <3>1. CASE UNCHANGED cursor /\ state' = state
      BY <2>2, <3>1 DEF Handed, Before, cursor
    <3>2. CASE \A y \in Index : Handed(y)' <=> Handed(y) \/ y = <<cur_m, cur_n>>
      BY <2>2, <3>2
    <3> QED BY <1>2, <3>1, <3>2, HandsOut DEF WalkInv
  <2> QED BY <1>5, <2>1, <2>2, <2>3
<1>7. CASE eng_cmd_valid' = e
  <2>1. eng_cmd_valid' # NONE
    BY <1>3, <1>7, TilingAssumption
  <2>2. PICK x \in Index : eng_cmd' = TileAt(x) /\ Handed(x)'
    BY <2>1, HandsOut DEF WalkInv
  <2>3. TileOf(e)' = eng_cmd'
    BY <1>7 DEF TileOf
  <2> QED BY <1>5, <2>2, <2>3
<1> QED BY <1>6, <1>7

LEMMA Span ==
  ASSUME NEW k \in Nat, NEW s \in Nat, NEW t \in Int, t = s + TILE
  PROVE  k + s \in Nat /\ k + t \in Nat /\ k <= k + s /\ k + s <= k + t
BY Sizes

\* A k-tile brings an accumulator to the sum of the k-tiles done and its own.
LEMMA TileSum ==
  ASSUME N_ENG = 1, Context, ShapesFit, \A b \in Buffers : Holds(b), NEW e \in Engines,
         NEW i \in Rows, NEW j \in Cols,
         Place(i, j) \in Index, eng[e].tile = TileAt(Place(i, j)),
         eng[e].kt \in Nat, eng[e].kt * TILE < k_chunk_size,
         K0 + eng[e].kt * TILE > K0
           => eng[e].acc[Lane(i, j)] = Slice(i, j, K0, K0 + eng[e].kt * TILE)
  PROVE  TileDone(e)[Lane(i, j)] = Slice(i, j, K0, K0 + (eng[e].kt + 1) * TILE)
<1> DEFINE kt == eng[e].kt  lo == K0 + kt * TILE  hi == K0 + (kt + 1) * TILE
           l == Lane(i, j)  old == eng[e].acc[l]
<1>1. /\ K0 \in Nat /\ kt * TILE \in Nat /\ (kt + 1) * TILE = kt * TILE + TILE
      /\ cmd_r \in MatmulCommands
  BY KChunk, KTile DEF Context, KContext
<1>2. lo \in Nat /\ hi \in Nat /\ K0 <= lo /\ lo <= hi /\ i \in Nat
  <2>1. i \in Nat
    BY CommandTypes DEF Rows, Context, KContext
  <2>2. (kt + 1) * TILE \in Int
    BY <1>1, Sizes
  <2> HIDE DEF kt
  <2> QED BY <1>1, <2>1, <2>2, Span
<1>3. Products(e, eng[e].tile, kt, l[1], l[2]) = Slice(i, j, lo, hi)
  <2>1. e = READER
    BY DEF Engines, READER
  <2> QED BY <2>1, ProductsAre
<1>4. l \in Lanes
  BY PlaceLane
<1>5. TileDone(e)[l] = Accumulate(IF kt = 0 THEN {} ELSE old, Slice(i, j, lo, hi))
  BY <1>3, <1>4 DEF TileDone
<1>6. lo > K0 => old = Slice(i, j, K0, lo)
  OBVIOUS
<1>7. kt = 0 => lo = K0
  <2>1. kt = 0 => kt * TILE = 0
    BY Sizes
  <2> QED BY <1>1, <2>1
<1>8. kt # 0 => lo > K0
  <2>1. kt \in Nat
    OBVIOUS
  <2> HIDE DEF kt
  <2>2. kt # 0 => kt * TILE > 0
    BY <2>1, Sizes
  <2> QED BY <1>1, <2>2
<1> HIDE DEF lo, hi, l, old, kt
<1>9. Accumulate(Slice(i, j, K0, lo), Slice(i, j, lo, hi)) = Slice(i, j, K0, hi)
  BY <1>1, <1>2, NextSlice
<1>10. Accumulate({}, Slice(i, j, lo, hi)) = Slice(i, j, lo, hi)
  BY DEF Accumulate
<1>11. TileDone(e)[l] = Slice(i, j, K0, hi)
  BY <1>5, <1>6, <1>7, <1>8, <1>9, <1>10
<1> QED BY <1>11 DEF hi, l, kt

LEMMA SumStep ==
  ASSUME N_ENG = 1, IInv, WalkInv, KInv, HandedInv, \A b \in Buffers : BufInv(b), ShapesFit, Next,
         NEW e \in Engines, SumInv(e)
  PROVE  SumInv(e)'
<1>1. PICK dmas \in SUBSET Buffers, engs \in SUBSET Engines : EngineStep(engs)
  BY DEF Next, Edge
<1> SUFFICES ASSUME state' \in DispatchStates, eng'[e].st \in {"K_TILE", "FLUSH"}
             PROVE  /\ eng'[e].kt \in Nat /\ eng'[e].kt * TILE < k_chunk_size'
                    /\ \A i \in Rows', j \in Cols' :
                         /\ Place(i, j)' \in Index' /\ eng'[e].tile = TileAt(Place(i, j))'
                         /\ Reached(e)' > K0'
                         => eng'[e].acc[Lane(i, j)'] = Slice(i, j, K0, Reached(e))'
  BY DEF SumInv
<1>2. state \in DispatchStates /\ EngineInv(e)
  BY QuietPending DEF IInv
<1>3. UNCHANGED command
  BY <1>2, HandsOut DEF WalkInv
<1>4. Context /\ \A b \in Buffers : Holds(b)
  BY <1>2, InContext DEF WalkInv, BufInv, DispatchStates, ChunkStates
<1>5. /\ Index' = Index /\ K0' = K0 /\ K1' = K1 /\ k_chunk_size' = k_chunk_size
      /\ Rows' = Rows /\ Cols' = Cols
      /\ \A i, j : Place(i, j)' = Place(i, j) /\ Lane(i, j)' = Lane(i, j)
      /\ \A x : TileAt(x)' = TileAt(x)
      /\ \A i, j, lo, hi : Slice(i, j, lo, hi)' = Slice(i, j, lo, hi)
  BY <1>3, SameK, SameChunk DEF command
<1>6. K0 \in Nat /\ k_chunk_size \in Nat \ {0} /\ K1 = K0 + k_chunk_size
  BY <1>4, KChunk DEF Context, K1
<1>7. Reached(e)' = IF eng'[e].st = "FLUSH" THEN K1 ELSE K0 + eng'[e].kt * TILE
  BY <1>5 DEF Reached
<1>8. CASE Starts(e)
  <2>1. eng'[e].kt = 0 /\ eng'[e].st = "K_TILE"
    BY <1>8 DEF Starts
  <2>2. eng'[e].kt * TILE = 0
    BY <2>1, Sizes
  <2>3. ~(Reached(e)' > K0)
    BY <1>6, <1>7, <2>1, <2>2
  <2> QED BY <1>5, <1>6, <2>1, <2>2, <2>3
<1>9. CASE eng[e].st \in {"K_TILE", "FLUSH"} /\ eng'[e] = eng[e]
  <2>1. Reached(e)' = Reached(e)
    BY <1>7, <1>9 DEF Reached
  <2> QED BY <1>2, <1>5, <1>9, <2>1 DEF SumInv
<1>10. CASE Adds(e) \/ AddsLast(e)
  <2> DEFINE kt == eng[e].kt
  <2>1. eng[e].st = "K_TILE" /\ eng'[e].tile = eng[e].tile /\ eng'[e].acc = TileDone(e)
    BY <1>10 DEF Adds, AddsLast
  <2>2. eng_cmd_valid # e /\ e \in Pending
    BY <1>2, <2>1 DEF EngineInv, Pending
  <2>3. eng[e].tile.k = k_chunk_size
    <3>1. PICK x \in Index : TileOf(e) = TileAt(x)
      BY <1>2, <2>2 DEF HandedInv
    <3> QED BY <2>2, <3>1 DEF TileOf, TileAt
  <2>4. kt \in Nat /\ kt * TILE < k_chunk_size
    BY <1>2, <2>1 DEF SumInv
  <2>5. /\ kt * TILE \in Nat /\ kt * TILE + TILE <= k_chunk_size
        /\ (kt + 1) * TILE = kt * TILE + TILE
        /\ LastKTile(e) <=> kt * TILE + TILE = k_chunk_size
    BY <1>4, <2>3, <2>4, KTile DEF LastKTile
  <2>6. /\ Reached(e)' = K0 + (kt + 1) * TILE
        /\ eng'[e].kt \in Nat /\ eng'[e].kt * TILE < k_chunk_size
    <3>1. CASE Adds(e)
      <4>1. eng'[e].kt = kt + 1 /\ eng'[e].st = "K_TILE" /\ kt * TILE + TILE < k_chunk_size
        <5>1. kt * TILE + TILE # k_chunk_size
          BY <2>5, <3>1 DEF Adds
        <5>2. kt * TILE \in Nat /\ kt * TILE + TILE <= k_chunk_size
          BY <2>5
        <5> HIDE DEF kt
        <5>3. kt * TILE + TILE < k_chunk_size
          BY <1>6, <5>1, <5>2, Sizes
        <5> QED BY <3>1, <5>3 DEF Adds, kt
      <4> QED BY <1>7, <2>4, <2>5, <4>1
    <3>2. CASE AddsLast(e)
      <4>1. eng'[e].kt = kt /\ eng'[e].st = "FLUSH" /\ kt * TILE + TILE = k_chunk_size
        BY <2>5, <3>2 DEF AddsLast
      <4> QED BY <1>6, <1>7, <2>4, <2>5, <4>1
    <3> QED BY <1>10, <3>1, <3>2
  <2>7. ASSUME NEW i \in Rows, NEW j \in Cols, Place(i, j) \in Index,
               eng[e].tile = TileAt(Place(i, j))
        PROVE  TileDone(e)[Lane(i, j)] = Slice(i, j, K0, K0 + (kt + 1) * TILE)
    <3>1. Reached(e) = K0 + kt * TILE
      BY <2>1 DEF Reached
    <3>2. K0 + kt * TILE > K0 => eng[e].acc[Lane(i, j)] = Slice(i, j, K0, K0 + kt * TILE)
      BY <1>2, <2>1, <2>7, <3>1 DEF SumInv
    <3> QED BY <1>4, <2>4, <2>7, <3>2, TileSum
  <2> HIDE DEF kt
  <2> QED BY <1>5, <2>1, <2>6, <2>7
<1> QED BY <1>2, <1>8, <1>9, <1>10, <1>1, EngineMoves DEF Flushing

-----------------------------------------------------------------------------
(* The URAM at one edge.                                                   *)

LEMMA OneWriter ==
  ASSUME NEW engs \in SUBSET Engines, EngineStep(engs), NEW f \in Flushing(engs)
  PROVE  /\ \A g \in Flushing(engs) : g = f
         /\ uram' = [y \in DOMAIN uram |->
                       IF y \in DOMAIN Written(f) THEN Written(f)[y] ELSE uram[y]]
<1> DEFINE F == Flushing(engs)
<1>1. F \subseteq Engines /\ Cardinality(F) <= 1
  BY DEF Flushing, EngineStep
<1>2. IsFiniteSet(F)
  BY <1>1, EnginesFinite, FS_Subset
<1>3. ASSUME NEW g \in F, g # f  PROVE FALSE
  <2>1. /\ IsFiniteSet({f}) /\ Cardinality({f}) = 1 /\ g \notin {f}
    BY <1>3, FS_Singleton
  <2>2. Cardinality({f} \cup {g}) = 2
    BY <2>1, FS_AddElement
  <2>3. {f} \cup {g} \in SUBSET F
    OBVIOUS
  <2>4. Cardinality({f} \cup {g}) <= Cardinality(F) /\ Cardinality(F) \in Nat
    BY <1>2, <2>3, FS_Subset, FS_CardinalityType
  <2> QED BY <1>1, <2>2, <2>4
<1>4. F # {} /\ (CHOOSE e \in F : TRUE) = f
  BY <1>3
<1>5. uram' = [y \in DOMAIN uram |->
                 IF y \in DOMAIN Written(CHOOSE e \in F : TRUE)
                   THEN Written(CHOOSE e \in F : TRUE)[y] ELSE uram[y]]
  BY <1>4 DEF EngineStep
<1> QED BY <1>3, <1>4, <1>5

LEMMA NoWriter ==
  ASSUME NEW engs \in SUBSET Engines, EngineStep(engs), Flushing(engs) = {}
  PROVE  uram' = uram
BY DEF EngineStep

\* The tiles of a chunk differ.
LEMMA TileAtApart ==
  ASSUME ChunkInv, state \in ChunkStates, TilesFit, NEW x \in Index, NEW y \in Index,
         TileAt(x) = TileAt(y)
  PROVE  x = y
<1>1. Placed(TileAt(x), x) /\ Placed(TileAt(y), y)
  BY DEF Placed, TileAt
<1> QED BY <1>1, PlacesApart

\* The elements of the product are in the URAM.
LEMMA InUram ==
  ASSUME cmd_r \in MatmulCommands, ShapesFit, NEW i \in Rows, NEW j \in Cols
  PROVE  Cell(i, j) \in (0 .. URAM_ROWS - 1) \X (0 .. URAM_COL_WORDS * BUS_EL - 1)
<1> DEFINE p == CeilDiv(cmd_r.m, TILE) * TILE  q == CeilDiv(cmd_r.n, TILE) * TILE
           off == cmd_r.out_col_offset * BUS_EL  width == URAM_COL_WORDS * BUS_EL
<1>1. cmd_r.m \in Nat \ {0} /\ cmd_r.n \in Nat \ {0} /\ cmd_r.out_col_offset \in Nat
  BY CommandTypes
<1>2. cmd_r.m <= p /\ cmd_r.n <= q
  BY <1>1, Cover, Sizes
<1>3. p <= URAM_ROWS /\ off + q <= width
  BY DEF ShapesFit
<1>4. p \in Int /\ q \in Int /\ off \in Nat /\ width \in Nat /\ URAM_ROWS \in Nat
  <2>1. URAM_COL_WORDS \in Nat /\ URAM_ROWS \in Nat
    BY TilingAssumption
  <2>2. CeilDiv(cmd_r.m, TILE) \in Nat \ {0}
    BY <1>1, BelowCeil, Sizes
  <2>3. CeilDiv(cmd_r.n, TILE) \in Nat \ {0}
    BY <1>1, BelowCeil, Sizes
  <2> QED BY <1>1, <2>1, <2>2, <2>3, Sizes
<1>5. Cell(i, j) = <<i, off + j>>
  BY DEF Cell
<1> HIDE DEF p, q, off, width
<1>6. i \in 0 .. URAM_ROWS - 1 /\ off + j \in 0 .. width - 1
  BY <1>1, <1>2, <1>3, <1>4 DEF Rows, Cols
<1> QED BY <1>5, <1>6 DEF width

\* What stays and what changes in the debts of the engines to one tile.
LEMMA OwedEdge ==
  ASSUME IInv, WalkInv, HandedInv, TilesFit, Next, state \in DispatchStates,
         state' \in DispatchStates,
         NEW engs \in SUBSET Engines, EngineStep(engs), NEW x \in Index
  PROVE  LET writes == \E f \in Flushing(engs) : eng[f].tile = TileAt(x)
         IN /\ writes => Owed(x) /\ Handed(x)' /\ ~Owed(x)'
            /\ ~writes => (Handed(x)' /\ ~Owed(x)' <=> Handed(x) /\ ~Owed(x))
<1> DEFINE here == <<cur_m, cur_n>>  new == eng_cmd_valid'
<1>1. UNCHANGED command /\ ChunkInv /\ state \in ChunkStates
  BY HandsOut DEF WalkInv, DispatchStates, ChunkStates
<1>2. \A y : TileAt(y)' = TileAt(y)
  BY <1>1, SameChunk
<1>3. ASSUME NEW f \in Flushing(engs)
      PROVE  f \in Pending /\ TileOf(f) = eng[f].tile /\ f \in Engines /\ EngineInv(f)
  <2>1. f \in Engines /\ EngineInv(f) /\ eng[f].st = "FLUSH"
    BY DEF Flushing, IInv
  <2>2. eng_cmd_valid # f
    BY <2>1 DEF EngineInv
  <2> QED BY <2>1, <2>2 DEF Pending, TileOf
<1>4. ASSUME NEW g \in Pending, NEW y \in Index, TileOf(g) = TileAt(y)  PROVE Handed(y)
  <2>1. PICK z \in Index : Handed(z) /\ TileOf(g) = TileAt(z)
    BY DEF HandedInv
  <2>2. z = y
    BY <1>1, <1>4, <2>1, TileAtApart
  <2> QED BY <2>1, <2>2
<1>5. ASSUME NEW g \in Engines, g # new
      PROVE  /\ g \in Pending' <=> g \in Pending /\ ~(g \in Flushing(engs))
             /\ g \in Pending' => TileOf(g)' = TileOf(g)
  <2>1. EngineInv(g) /\ eng_cmd_valid' # g
    BY <1>5 DEF IInv
  <2> QED BY <2>1, PendingEdge
<1>6. ASSUME NEW g \in Pending, NEW h \in Pending, TileOf(g) = TileOf(h)  PROVE g = h
  <2>1. g \in Busy /\ h \in Busy
    BY DEF Pending, Busy, IInv
  <2> QED BY <1>6, <2>1 DEF WalkInv, TilesDisjoint
<1>7. \A g \in Pending : g \in Engines
  BY DEF Pending
<1>8. \A g \in Pending' : g \in Engines
  BY DEF Pending
<1>9. CASE new = NONE
  <2>1. \A g \in Engines : g # new
    BY <1>9, TilingAssumption
  <2>2. Handed(x)' <=> Handed(x)
    <3>1. UNCHANGED cursor /\ state' = state
      BY <1>9, HandsOut, TilingAssumption DEF WalkInv
    <3> QED BY <3>1 DEF Handed, Before, cursor
  <2>3. Owed(x)' <=> \E g \in Pending' : TileOf(g)' = TileAt(x)
    BY <1>2 DEF Owed
  <2>4. Owed(x)' <=> \E g \in Pending : TileOf(g) = TileAt(x) /\ ~(g \in Flushing(engs))
    BY <1>5, <1>7, <1>8, <2>1, <2>3
  <2> QED BY <1>3, <1>4, <1>6, <2>2, <2>4 DEF Owed
<1>10. CASE new # NONE
  <2>1. PICK z \in Index, n \in Engines :
              /\ n = new /\ eng_cmd' = TileAt(z) /\ ~(n \in Pending)
              /\ z = here /\ ~Before(z) /\ state = "ST_DISPATCH"
              /\ \A y \in Index : Handed(y)' <=> Handed(y) \/ y = z
    BY <1>10, HandsOut DEF WalkInv
  <2>2. ~Handed(z) /\ (Handed(x)' <=> Handed(x) \/ x = z)
    BY <2>1 DEF Handed
  <2>3. n \in Pending' /\ TileOf(n)' = TileAt(z)
    BY <2>1 DEF Pending, TileOf
  <2>4. TileAt(z) = TileAt(x) <=> x = z
    BY <1>1, TileAtApart
  <2>5. Owed(x)' <=> \E g \in Pending' : TileOf(g)' = TileAt(x)
    BY <1>2 DEF Owed
  <2>6. \A g \in Engines : g # n =>
          /\ g \in Pending' <=> g \in Pending /\ ~(g \in Flushing(engs))
          /\ g \in Pending' => TileOf(g)' = TileOf(g)
    BY <1>5, <2>1
  <2>7. Owed(x)' <=> \/ x = z
                     \/ \E g \in Pending : TileOf(g) = TileAt(x) /\ ~(g \in Flushing(engs))
    <3>1. ASSUME NEW g \in Pending', TileOf(g)' = TileAt(x), x # z
          PROVE  g \in Pending /\ TileOf(g) = TileAt(x) /\ ~(g \in Flushing(engs))
      BY <1>8, <2>3, <2>4, <2>6, <3>1
    <3>2. ASSUME NEW g \in Pending, TileOf(g) = TileAt(x), ~(g \in Flushing(engs))
          PROVE  g \in Pending' /\ TileOf(g)' = TileAt(x)
      BY <1>7, <2>1, <2>6, <3>2
    <3> QED BY <2>3, <2>4, <2>5, <3>1, <3>2
  <2>8. CASE x = z
    <3>1. ~(\E f \in Flushing(engs) : eng[f].tile = TileAt(x))
      BY <1>3, <1>4, <2>2, <2>8
    <3> QED BY <2>2, <2>7, <2>8, <3>1
  <2>9. CASE x # z
    BY <1>3, <1>4, <1>6, <2>2, <2>7, <2>9 DEF Owed
  <2> QED BY <2>8, <2>9
<1> QED BY <1>9, <1>10

\* While tiles are handed out and written, each element has the sum it should.
LEMMA CellStep ==
  ASSUME IInv, WalkInv, KInv, HandedInv, \A e \in Engines : SumInv(e), UramInv,
         TilesFit, ShapesFit, Next, state \in DispatchStates, state' \in DispatchStates,
         NEW i \in Rows, NEW j \in Cols, Level(i, j)' > 0
  PROVE  uram'[Cell(i, j)] = Slice(i, j, 0, Level(i, j)')
<1>1. PICK engs \in SUBSET Engines : EngineStep(engs)
  BY DEF Next, Edge
<1>2. PICK x : x = Place(i, j)
  OBVIOUS
<1>3. UNCHANGED command /\ ChunkInv /\ state \in ChunkStates /\ state' \in ChunkStates
      /\ state \in SumStates
  BY HandsOut DEF WalkInv, DispatchStates, ChunkStates, SumStates
<1>4. Context /\ cmd_r \in MatmulCommands
  BY <1>3, InContext DEF Context, KContext
<1>5. /\ K0' = K0 /\ K1' = K1 /\ N0' = N0 /\ Index' = Index /\ Place(i, j)' = x
  BY <1>2, <1>3, SameK, SameChunk DEF command
<1>6. /\ Summed(i, j) <=> j < N0 \/ (x \in Index /\ Handed(x) /\ ~Owed(x))
      /\ Summed(i, j)' <=> j < N0 \/ (x \in Index /\ Handed(x)' /\ ~Owed(x)')
  BY <1>2, <1>3, <1>5 DEF Summed, DispatchStates
<1>7. Level(i, j)' = IF Summed(i, j)' THEN K1 ELSE K0
  BY <1>5 DEF Level
<1>8. Level(i, j) > 0 => uram[Cell(i, j)] = Slice(i, j, 0, Level(i, j))
  BY <1>3 DEF UramInv
<1>9. K0 \in Nat /\ K1 \in Nat /\ K0 < K1 /\ i \in Nat /\ N0 \in Nat /\ j \in Int
  <2>1. K0 \in Nat /\ k_chunk_size \in Nat \ {0} /\ N0 \in Nat
    BY <1>4, KChunk, NChunk DEF Context
  <2> QED BY <1>4, <2>1, CommandTypes DEF K1, Rows, Cols
<1>10. x \in Index => ~(j < N0)
  BY <1>2, <1>4, <1>9, InChunk
<1>11. ASSUME NEW f \in Flushing(engs)
       PROVE  f \in Engines /\ eng[f].st = "FLUSH" /\ \E y \in Index : eng[f].tile = TileAt(y)
  <2>1. f \in Engines /\ EngineInv(f) /\ eng[f].st = "FLUSH"
    BY DEF Flushing, IInv
  <2>2. eng_cmd_valid # f /\ f \in Pending
    BY <2>1 DEF EngineInv, Pending
  <2> QED BY <2>1, <2>2 DEF HandedInv, TileOf
<1>12. CASE x \in Index /\ \E f \in Flushing(engs) : eng[f].tile = TileAt(x)
  <2>1. PICK f \in Flushing(engs) : eng[f].tile = TileAt(x)
    BY <1>12
  <2>2. Owed(x) /\ Handed(x)' /\ ~Owed(x)'
    BY <1>1, <1>12, OwedEdge
  <2>3. Level(i, j) = K0 /\ Level(i, j)' = K1
    BY <1>6, <1>7, <1>10, <1>12, <2>2 DEF Level
  <2>4. eng[f].acc[Lane(i, j)] = Slice(i, j, K0, K1)
    <3>1. f \in Engines /\ eng[f].st = "FLUSH"
      BY <1>11
    <3>2. Reached(f) = K1
      BY <3>1 DEF Reached
    <3>3. SumInv(f)
      BY <3>1
    <3> QED BY <1>2, <1>9, <1>12, <2>1, <3>1, <3>2, <3>3 DEF SumInv
  <2>5. Cell(i, j) \in DOMAIN uram
    BY <1>4, InUram DEF UramInv
  <2>6. uram' = [y \in DOMAIN uram |->
                   IF y \in DOMAIN Written(f) THEN Written(f)[y] ELSE uram[y]]
    BY <1>1, OneWriter
  <2>7. /\ Cell(i, j) \in DOMAIN Written(f)
        /\ Written(f)[Cell(i, j)] =
             IF FirstKChunk THEN eng[f].acc[Lane(i, j)]
                            ELSE Accumulate(uram[Cell(i, j)], eng[f].acc[Lane(i, j)])
    BY <1>2, <1>4, <1>12, <2>1, WrittenIs
  <2>8. uram'[Cell(i, j)] = IF FirstKChunk THEN Slice(i, j, K0, K1)
                            ELSE Accumulate(uram[Cell(i, j)], Slice(i, j, K0, K1))
    BY <2>4, <2>5, <2>6, <2>7
  <2>9. CASE FirstKChunk
    <3>1. K0 = 0
      BY <2>9, Sizes DEF FirstKChunk, K0
    <3> QED BY <2>3, <2>8, <2>9, <3>1
  <2>10. CASE ~FirstKChunk
    <3>1. K0 > 0
      <4>1. k_chunk_idx \in Nat \ {0}
        BY <1>4, <2>10 DEF Context, KContext, FirstKChunk
      <4> QED BY <4>1, Sizes, Positive DEF K0
    <3>2. uram[Cell(i, j)] = Slice(i, j, 0, K0)
      BY <1>8, <2>3, <3>1
    <3>3. Accumulate(Slice(i, j, 0, K0), Slice(i, j, K0, K1)) = Slice(i, j, 0, K1)
      <4>1. 0 \in Nat /\ 0 <= K0 /\ K0 <= K1
        BY <1>9
      <4> QED BY <1>4, <1>9, <4>1, NextSlice
    <3> QED BY <2>3, <2>8, <2>10, <3>2, <3>3
  <2> QED BY <2>9, <2>10
<1>13. CASE ~(x \in Index /\ \E f \in Flushing(engs) : eng[f].tile = TileAt(x))
  <2>1. Level(i, j)' = Level(i, j)
    <3>1. x \in Index => (Handed(x)' /\ ~Owed(x)' <=> Handed(x) /\ ~Owed(x))
      BY <1>1, <1>13, OwedEdge
    <3> QED BY <1>6, <1>7, <3>1 DEF Level
  <2>2. uram'[Cell(i, j)] = uram[Cell(i, j)]
    <3>1. CASE Flushing(engs) = {}
      BY <1>1, <3>1, NoWriter
    <3>2. CASE Flushing(engs) # {}
      <4>1. PICK f \in Flushing(engs) : TRUE
        BY <3>2
      <4>2. PICK y \in Index : eng[f].tile = TileAt(y)
        BY <1>11
      <4>3. y # x
        BY <1>13, <4>2
      <4>4. ~(Cell(i, j) \in DOMAIN Written(f))
        BY <1>2, <1>4, <4>2, <4>3, WrittenIs
      <4>5. uram' = [z \in DOMAIN uram |->
                       IF z \in DOMAIN Written(f) THEN Written(f)[z] ELSE uram[z]]
        BY <1>1, OneWriter
      <4>6. Cell(i, j) \in DOMAIN uram
        BY <1>4, InUram DEF UramInv
      <4> QED BY <4>4, <4>5, <4>6
    <3> QED BY <3>1, <3>2
  <2> QED BY <1>8, <2>1, <2>2
<1> QED BY <1>12, <1>13

LEMMA UramDomain ==
  ASSUME Next
  PROVE  DOMAIN uram' = DOMAIN uram
<1>1. PICK engs \in SUBSET Engines : EngineStep(engs)
  BY DEF Next, Edge
<1>2. CASE Flushing(engs) = {}
  BY <1>1, <1>2, NoWriter
<1>3. CASE Flushing(engs) # {}
  <2>1. PICK f \in Flushing(engs) : TRUE
    BY <1>3
  <2>2. uram' = [y \in DOMAIN uram |->
                   IF y \in DOMAIN Written(f) THEN Written(f)[y] ELSE uram[y]]
    BY <1>1, OneWriter
  <2> QED BY <2>2
<1> QED BY <1>2, <1>3

\* When the unit leaves a chunk it has seen the end of every tile.
LEMMA LeavesNone ==
  ASSUME IInv, FewEngines, AllTilesDone
  PROVE  Busy = {}
<1>1. /\ done_rising = DoneSet /\ DoneSet \cap Busy = {}
      /\ IsFiniteSet(Working \ done_rising)
      /\ Remaining = Cardinality(Working \ done_rising)
  BY Counted
<1>2. Cardinality(done_rising) \in Nat
  <2>1. done_rising \in SUBSET Engines
    BY DEF done_rising
  <2> QED BY <2>1, EnginesFinite, FS_Subset, FS_CardinalityType
<1>3. Remaining = 0
  BY <1>2 DEF AllTilesDone, Remaining
<1>4. Working \ done_rising = {}
  BY <1>1, <1>3, FS_EmptySet
<1> QED BY <1>1, <1>4 DEF Working

\* Outside the dispatching states, or with no tile left, the URAM rests.
LEMMA UramRests ==
  ASSUME IInv, Next, Busy = {}
  PROVE  uram' = uram
<1>1. PICK engs \in SUBSET Engines : EngineStep(engs)
  BY DEF Next, Edge
<1>2. Flushing(engs) = {}
  BY DEF Flushing, Busy, IInv
<1> QED BY <1>1, <1>2, NoWriter

LEMMA UramStep ==
  ASSUME IInv, WalkInv, KInv, HandedInv, \A e \in Engines : SumInv(e), UramInv,
         FewEngines, TilesFit, ShapesFit, Next
  PROVE  UramInv'
<1>1. DOMAIN uram' = (0 .. URAM_ROWS - 1) \X (0 .. URAM_COL_WORDS * BUS_EL - 1)
  BY UramDomain DEF UramInv
<1> SUFFICES ASSUME state' \in SumStates, NEW i \in Rows', NEW j \in Cols', Level(i, j)' > 0
             PROVE  uram'[Cell(i, j)'] = Slice(i, j, 0, Level(i, j))'
  BY <1>1 DEF UramInv
<1> USE DEF SumStates, ChunkStates, PrefetchStates, DispatchStates
<1>2. cmd_r' = cmd_r
  BY Moves DEF command
<1>3. /\ i \in Rows /\ j \in Cols /\ Cell(i, j)' = Cell(i, j)
      /\ \A lo, hi : Slice(i, j, lo, hi)' = Slice(i, j, lo, hi)
  BY <1>2 DEF Rows, Cols, Cell, Slice, Term
<1>4. ASSUME state \in SumStates, Level(i, j)' = Level(i, j), uram' = uram
      PROVE  uram'[Cell(i, j)'] = Slice(i, j, 0, Level(i, j))'
  <2>1. uram[Cell(i, j)] = Slice(i, j, 0, Level(i, j))
    BY <1>3, <1>4 DEF UramInv
  <2> QED BY <1>3, <1>4, <2>1
<1>5. state \notin DispatchStates => uram' = uram
  <2>1. state \notin DispatchStates => Busy = {}
    BY DEF IInv, Working
  <2> QED BY <2>1, UramRests
<1>6. state \in SumStates => /\ cmd_r \in MatmulCommands /\ KContext
                             /\ K0 \in Nat /\ k_chunk_size \in Nat \ {0} /\ K1 = K0 + k_chunk_size
  <2>1. state \in SumStates => KContext
    BY DEF WalkInv, ChunkInv, KInv, KContext
  <2> QED BY <2>1, KChunk DEF K1, KContext
<1>7. j \in Int /\ (state \in SumStates => j < cmd_r.n)
  <2>1. state \in SumStates => cmd_r.n \in Nat
    BY <1>6, CommandTypes
  <2> QED BY <1>3, <2>1 DEF Cols
<1>8. CASE Setup /\ state = "ST_SETUP" /\ state' = "ST_K_CHUNK_SETUP"
           /\ k_chunk_idx' = 0 /\ UNCHANGED cmd_r
  <2>1. K0' = 0
    BY <1>8, Sizes DEF K0
  <2>2. Level(i, j)' = 0
    BY <1>8, <2>1 DEF Level, Summed
  <2> QED BY <2>2
<1>9. CASE KChunkSetup /\ state = "ST_K_CHUNK_SETUP" /\ state' = "ST_N_CHUNK_SETUP"
           /\ n_chunk_idx' = 0 /\ UNCHANGED <<cmd_r, k_chunk_idx>>
  <2>1. N0' = 0 /\ K0' = K0 /\ 0 <= j
    BY <1>3, <1>7, <1>9, Sizes, SameK DEF N0, Cols
  <2>2. ~Summed(i, j) /\ ~Summed(i, j)'
    BY <1>7, <1>9, <2>1 DEF Summed
  <2>3. Level(i, j)' = Level(i, j)
    BY <2>1, <2>2 DEF Level
  <2> QED BY <1>4, <1>5, <1>9, <2>3
<1>10. CASE /\ state \in {"ST_N_CHUNK_SETUP", "ST_PREFETCH_CMD", "ST_WAIT_PREFETCH"}
            /\ state' \in {"ST_PREFETCH_CMD", "ST_WAIT_PREFETCH"}
            /\ UNCHANGED command
  <2>1. N0' = N0 /\ K0' = K0 /\ K1' = K1
    BY <1>10, SameK, SameChunk DEF command
  <2>2. Level(i, j)' = Level(i, j)
    BY <1>10, <2>1 DEF Level, Summed
  <2> QED BY <1>4, <1>5, <1>10, <2>2
<1>11. CASE WaitPrefetch /\ state = "ST_WAIT_PREFETCH" /\ state' = "ST_DISPATCH"
            /\ UNCHANGED command
  <2>1. N0' = N0 /\ K0' = K0 /\ K1' = K1 /\ Index' = Index /\ Place(i, j)' = Place(i, j)
    BY <1>11, SameK, SameChunk DEF command
  <2>2. cur_m' = 0 /\ cur_n' = 0
    BY <1>11 DEF WaitPrefetch, Goto
  <2>3. PICK x : x = Place(i, j)
    OBVIOUS
  <2>4. x \in Index => ~Handed(x)'
    <3>1. num_m_tiles \in Nat \ {0} /\ num_n_tiles_chunk \in Nat \ {0}
      BY <1>11, ChunkSizes DEF WalkInv
    <3> QED BY <1>11, <2>2, <3>1 DEF Handed, Before, Index
  <2>5. Summed(i, j)' <=> Summed(i, j)
    BY <1>11, <2>1, <2>3, <2>4 DEF Summed
  <2>6. Level(i, j)' = Level(i, j)
    BY <2>1, <2>5 DEF Level
  <2> QED BY <1>4, <1>5, <1>11, <2>6
<1>12. CASE state \in DispatchStates /\ state' \in DispatchStates
  <2>1. uram'[Cell(i, j)] = Slice(i, j, 0, Level(i, j)')
    BY <1>3, <1>12, CellStep
  <2> QED BY <1>3, <2>1
<1>13. CASE Wait /\ state = "ST_WAIT" /\ state' = "ST_NEXT_N_CHUNK" /\ AllTilesDone
            /\ UNCHANGED command
  <2>1. N0' = N0 /\ K0' = K0 /\ K1' = K1
    BY <1>13, SameK, SameChunk DEF command
  <2>2. Busy = {} /\ Pending = {} /\ uram' = uram
    <3>1. Busy = {}
      BY <1>13, LeavesNone
    <3> QED BY <3>1, UramRests DEF Pending, Busy, IInv
  <2>3. Context
    BY <1>13, InContext DEF WalkInv
  <2>4. Place(i, j) \in Index <=> N0 <= j /\ j < N0 + PREFETCH_DIM
    BY <1>3, <2>3, InChunk
  <2>5. Summed(i, j) <=> j < N0 \/ Place(i, j) \in Index
    BY <1>13, <2>2 DEF Summed, Handed, Owed
  <2>6. Summed(i, j)' <=> j < N0 \/ j < N0 + PREFETCH_DIM
    BY <1>13, <2>1 DEF Summed
  <2>7. N0 \in Nat
    BY <2>3, NChunk
  <2>8. Summed(i, j)' <=> Summed(i, j)
    BY <1>7, <2>4, <2>5, <2>6, <2>7, Sizes
  <2>9. Level(i, j)' = Level(i, j)
    BY <2>1, <2>8 DEF Level
  <2> QED BY <1>4, <1>13, <2>2, <2>9
<1>14. CASE NextNChunk /\ state = "ST_NEXT_N_CHUNK" /\ state' = "ST_N_CHUNK_SETUP"
            /\ n_chunk_idx' = n_chunk_idx + 1 /\ UNCHANGED <<cmd_r, k_chunk_idx>>
  <2>1. K0' = K0 /\ K1' = K1
    BY <1>14, SameK
  <2>2. n_chunk_idx \in Nat
    BY DEF WalkInv, ChunkInv
  <2>3. N0' = N0 + PREFETCH_DIM /\ N0 \in Nat
    BY <1>14, <2>2, Sizes DEF N0
  <2>4. Summed(i, j)' <=> Summed(i, j)
    BY <1>7, <1>14, <2>3, Sizes DEF Summed
  <2>5. Level(i, j)' = Level(i, j)
    BY <2>1, <2>4 DEF Level
  <2> QED BY <1>4, <1>5, <1>14, <2>5
<1>15. CASE NextNChunk /\ state = "ST_NEXT_N_CHUNK" /\ state' = "ST_NEXT_K_CHUNK"
            /\ LastNChunk /\ UNCHANGED command
  <2>1. K0' = K0 /\ K1' = K1
    BY <1>15, SameK DEF command
  <2>2. Context
    BY <1>15, InContext DEF WalkInv
  <2>3. cmd_r.n <= N0 + PREFETCH_DIM /\ N0 \in Nat /\ cmd_r.n \in Nat
    BY <1>15, <2>2, NChunk, CommandTypes DEF LastNChunk, Context, KContext
  <2>4. Summed(i, j) /\ Summed(i, j)'
    BY <1>7, <1>15, <2>3, Sizes DEF Summed
  <2>5. Level(i, j)' = Level(i, j)
    BY <2>1, <2>4 DEF Level
  <2> QED BY <1>4, <1>5, <1>15, <2>5
<1>16. CASE NextKChunk /\ state = "ST_NEXT_K_CHUNK" /\ state' = "ST_K_CHUNK_SETUP"
            /\ k_chunk_idx # num_k_chunks - 1 /\ k_chunk_idx' = k_chunk_idx + 1
            /\ UNCHANGED <<cmd_r, n_chunk_idx>>
  <2>1. Level(i, j)' = K0' /\ Level(i, j) = K1
    BY <1>16 DEF Level, Summed
  <2>2. k_chunk_size = PREFETCH_DIM
    BY <1>6, <1>16, KChunk
  <2>3. K0' = K0 + PREFETCH_DIM
    <3>1. k_chunk_idx \in Nat
      BY <1>6, <1>16 DEF KContext
    <3> QED BY <1>16, <3>1, Sizes DEF K0
  <2>4. Level(i, j)' = Level(i, j)
    BY <1>6, <1>16, <2>1, <2>2, <2>3
  <2> QED BY <1>4, <1>5, <1>16, <2>4
<1>17. CASE NextKChunk /\ state = "ST_NEXT_K_CHUNK" /\ state' = "ST_DONE"
            /\ k_chunk_idx = num_k_chunks - 1 /\ UNCHANGED command
  <2>1. K1' = K1
    BY <1>17, SameK DEF command
  <2>2. Level(i, j)' = Level(i, j)
    BY <1>17, <2>1 DEF Level, Summed
  <2> QED BY <1>4, <1>5, <1>17, <2>2
<1> QED BY <1>8, <1>9, <1>10, <1>11, <1>12, <1>13, <1>14, <1>15, <1>16, <1>17, Moves

-----------------------------------------------------------------------------
(* Invariance.                                                             *)

LEMMA ContractInitially == Init => ContractInv
<1> SUFFICES ASSUME Init  PROVE ContractInv
  OBVIOUS
<1>1. state = "ST_IDLE" /\ cmd = NONE /\ cmd_ready = TRUE /\ cmd_done = FALSE
  BY DEF Init
<1>2. KInv /\ PortInv /\ HandedInv
  BY <1>1 DEF KInv, PortInv, HandedInv, SumStates, ChunkStates, DispatchStates
<1>3. UramInv
  BY <1>1 DEF Init, UramInv, SumStates, ChunkStates
<1>4. \A b \in Buffers : BufInv(b)
  BY <1>1 DEF Init, BufInv, PrefetchStates, DispatchStates
<1>5. \A e \in Engines : SumInv(e)
  BY <1>1 DEF SumInv, DispatchStates
<1> QED BY <1>2, <1>3, <1>4, <1>5 DEF ContractInv

LEMMA ContractInductive ==
  N_ENG = 1 /\ FewEngines /\ TilesFit /\ ShapesFit /\ IInv /\ WalkInv /\ ContractInv
    /\ [Next]_tilingVars => ContractInv'
<1> SUFFICES ASSUME N_ENG = 1, IInv, WalkInv, ContractInv, FewEngines, TilesFit, ShapesFit,
                    [Next]_tilingVars
             PROVE  ContractInv'
  OBVIOUS
<1>1. CASE UNCHANGED tilingVars
  <2>1. /\ UNCHANGED <<cmd, state, cmd_ready, cmd_done, command, cmd_r, k_chunk_idx, cursor,
                       pf, eng_cmd_valid, eng_cmd, dma, buf, eng, uram>>
    BY <1>1 DEF tilingVars, fsm, command
  <2>2. /\ K0' = K0 /\ K1' = K1 /\ k_chunk_size' = k_chunk_size /\ num_k_chunks' = num_k_chunks
        /\ Rows' = Rows /\ Cols' = Cols /\ N0' = N0 /\ Index' = Index
        /\ \A i, j : /\ Cell(i, j)' = Cell(i, j) /\ Place(i, j)' = Place(i, j)
                     /\ Lane(i, j)' = Lane(i, j)
        /\ \A i, j, lo, hi : Slice(i, j, lo, hi)' = Slice(i, j, lo, hi)
        /\ \A x : TileAt(x)' = TileAt(x)
        /\ \A b : Prefetch(b)' = Prefetch(b)
    BY <2>1, SameK, SameChunk
  <2>3. KInv' /\ PortInv'
    BY <2>1, <2>2 DEF ContractInv, KInv, PortInv
  <2>4. /\ Pending' = Pending /\ \A x : Handed(x)' <=> Handed(x)
        /\ \A e : TileOf(e)' = TileOf(e) /\ Reached(e)' = Reached(e)
    BY <2>1, <2>2 DEF Pending, Handed, Before, cursor, TileOf, Reached
  <2>5. \A x : Owed(x)' <=> Owed(x)
    BY <2>2, <2>4 DEF Owed
  <2>6. HandedInv'
    BY <2>1, <2>2, <2>4 DEF ContractInv, HandedInv
  <2>7. ASSUME NEW b \in Buffers  PROVE BufInv(b)'
    <3>1. Holds(b) => Holds(b)'
      BY <2>1, <2>2 DEF Holds
    <3> QED BY <2>1, <2>2, <3>1 DEF ContractInv, BufInv
  <2>8. ASSUME NEW e \in Engines  PROVE SumInv(e)'
    BY <2>1, <2>2, <2>4 DEF ContractInv, SumInv
  <2>9. \A i, j : Level(i, j)' = Level(i, j)
    <3>1. \A i, j : Summed(i, j)' <=> Summed(i, j)
      BY <2>1, <2>2, <2>4, <2>5 DEF Summed
    <3> QED BY <2>2, <3>1 DEF Level
  <2>10. UramInv'
    BY <2>1, <2>2, <2>9 DEF ContractInv, UramInv
  <2> QED BY <2>3, <2>6, <2>7, <2>8, <2>10 DEF ContractInv
<1>2. CASE Next
  <2>1. /\ KInv /\ PortInv /\ HandedInv /\ UramInv /\ ChunkInv
        /\ \A b \in Buffers : BufInv(b)
        /\ \A e \in Engines : SumInv(e)
    BY DEF ContractInv, WalkInv
  <2>2. KInv' /\ PortInv' /\ HandedInv'
    BY <1>2, <2>1, KStep, PortStep, HandedStep
  <2>3. UramInv'
    BY <1>2, <2>1, UramStep
  <2>4. \A b \in Buffers : BufInv(b)'
    BY <1>2, <2>1, BufStep
  <2>5. \A e \in Engines : SumInv(e)'
    BY <1>2, <2>1, SumStep
  <2> QED BY <2>2, <2>3, <2>4, <2>5 DEF ContractInv
<1> QED BY <1>1, <1>2

-----------------------------------------------------------------------------
(* The refinement.                                                         *)

\* When the unit is done the region holds the whole product.
LEMMA WholeProduct ==
  ASSUME IInv, WalkInv, ContractInv, ShapesFit, state = "ST_DONE"
  PROVE  Region(cmd_r) = Contract!Product(cmd_r)
<1>1. KContext /\ k_chunk_idx = num_k_chunks - 1
  BY DEF WalkInv, ChunkInv, ContractInv, KInv, SumStates, KContext
<1>2. K1 = cmd_r.k /\ cmd_r.k \in Nat \ {0} /\ cmd_r \in MatmulCommands
  BY <1>1, KChunk, CommandTypes DEF KContext
<1>3. ASSUME NEW i \in Rows, NEW j \in Cols
      PROVE  uram[i, cmd_r.out_col_offset * BUS_EL + j] = Slice(i, j, 0, cmd_r.k)
  <2>1. Level(i, j) = cmd_r.k /\ cmd_r.k > 0
    BY <1>2 DEF Level, Summed
  <2>2. uram[Cell(i, j)] = Slice(i, j, 0, cmd_r.k)
    BY <2>1 DEF ContractInv, UramInv, SumStates
  <2> QED BY <2>2 DEF Cell
<1>4. \A i, j : Slice(i, j, 0, cmd_r.k) =
        {<<Contract!At(cmd_r.a_base, cmd_r.a_stride, i, kk),
           IF cmd_r.op = "OP_MATMUL_T" THEN Contract!At(cmd_r.b_base, cmd_r.b_stride, j, kk)
                                       ELSE Contract!At(cmd_r.b_base, cmd_r.b_stride, kk, j)>> :
           kk \in 0 .. cmd_r.k - 1}
  BY DEF Slice, Term
<1>5. Region(cmd_r) = [x \in Rows \X Cols |-> uram[x[1], cmd_r.out_col_offset * BUS_EL + x[2]]]
  BY DEF Region, Rows, Cols
<1>6. Region(cmd_r) = [x \in Rows \X Cols |-> Slice(x[1], x[2], 0, cmd_r.k)]
  BY <1>3, <1>5
<1> QED BY <1>4, <1>6 DEF Contract!Product, Rows, Cols

LEMMA ContractStep ==
  IInv /\ WalkInv /\ ContractInv /\ ContractInv' /\ ShapesFit /\ [Next]_tilingVars
    => [Contract!Next]_Contract!contractVars
<1> SUFFICES ASSUME IInv, WalkInv, ContractInv, ContractInv', ShapesFit, [Next]_tilingVars
             PROVE  [Contract!Next]_Contract!contractVars
  OBVIOUS
<1> DEFINE pending == IF state = "ST_IDLE" THEN NONE ELSE cmd_r
           answer == IF cmd_done THEN Region(cmd_r) ELSE NONE
<1>1. CASE UNCHANGED tilingVars
  BY <1>1 DEF tilingVars, fsm, command, Contract!contractVars, Region
<1>2. CASE Next
  <2>1. cmd' \in IF cmd_ready /\ cmd = NONE THEN MatmulCommands \cup {NONE} ELSE {NONE}
    BY <1>2 DEF Next, Edge, Client
  <2>2. PortInv /\ PortInv'
    BY DEF ContractInv
  <2>3. CASE Await /\ state = "ST_IDLE" /\ state' = "ST_IDLE" /\ UNCHANGED command
    <3>1. cmd = NONE /\ ~cmd_done'
      BY <2>3 DEF Await, Goto
    <3>2. pending = NONE /\ pending' = NONE /\ answer' = NONE
      BY <2>3, <3>1
    <3>3. CASE cmd_done
      <4>1. cmd' = NONE
        BY <2>1, <2>2, <3>3 DEF PortInv
      <4> QED BY <3>1, <3>2, <4>1 DEF Contract!Next, Contract!Rest, Contract!contractVars
    <3>4. CASE ~cmd_done
      <4>1. answer = NONE
        BY <3>4
      <4> QED BY <3>1, <3>2, <4>1 DEF Contract!Next, Contract!Show, Contract!contractVars
    <3> QED BY <3>3, <3>4
  <2>4. CASE Accept /\ state = "ST_IDLE" /\ state' = "ST_SETUP"
    <3>1. cmd # NONE /\ cmd_r' = cmd /\ ~cmd_done'
      BY <2>4 DEF Accept, Goto
    <3>2. cmd' = NONE /\ ~cmd_done
      BY <2>1, <2>2, <3>1 DEF PortInv
    <3>3. pending = NONE /\ pending' = cmd /\ answer = NONE /\ answer' = NONE
      BY <2>4, <3>1, <3>2
    <3> QED BY <3>1, <3>2, <3>3 DEF Contract!Next, Contract!Take
  <2>5. CASE Done /\ state = "ST_DONE" /\ state' = "ST_IDLE" /\ UNCHANGED command
    <3>1. cmd_done' = TRUE /\ cmd_r' = cmd_r
      BY <2>5 DEF Done, command
    <3>2. cmd = NONE /\ cmd' = NONE
      BY <2>1, <2>2, <2>5 DEF PortInv
    <3>3. cmd_r # NONE
      BY <2>5, CommandAssumption DEF WalkInv, ChunkInv
    <3>4. uram' = uram
      <4>1. Busy = {}
        BY <2>5 DEF IInv, Working, DispatchStates
      <4> QED BY <1>2, <4>1, UramRests
    <3>5. Region(cmd_r)' = Contract!Product(cmd_r)
      <4>1. Region(cmd_r)' = Region(cmd_r)
        BY <3>1, <3>4 DEF Region
      <4> QED BY <2>5, <4>1, WholeProduct
    <3>6. pending = cmd_r /\ pending' = NONE /\ answer' = Contract!Product(cmd_r)
      BY <2>5, <3>1, <3>5
    <3> QED BY <3>2, <3>3, <3>6 DEF Contract!Next, Contract!Answer
  <2>6. CASE state # "ST_IDLE" /\ state' # "ST_IDLE" /\ cmd_r' = cmd_r
    <3>1. cmd = NONE /\ cmd' = NONE /\ ~cmd_done /\ ~cmd_done'
      BY <2>1, <2>2, <2>6 DEF PortInv
    <3> QED BY <2>6, <3>1 DEF Contract!contractVars
  <2>7. \/ Await /\ state = "ST_IDLE" /\ state' = "ST_IDLE" /\ UNCHANGED command
        \/ Accept /\ state = "ST_IDLE" /\ state' = "ST_SETUP"
        \/ Done /\ state = "ST_DONE" /\ state' = "ST_IDLE" /\ UNCHANGED command
        \/ state # "ST_IDLE" /\ state' # "ST_IDLE" /\ cmd_r' = cmd_r
    BY <1>2, Moves DEF command, PrefetchStates, DispatchStates
  <2> QED BY <2>3, <2>4, <2>5, <2>6, <2>7
<1> QED BY <1>1, <1>2

\* Each command the unit takes is answered once, and when the answer comes the region
\* holds the whole product, each term of it once: however long the DMAs, the engine and
\* the URAM's port take over each piece.  It is of one engine, NUM_ENGINES of
\* rtl/defines.vh: rtl/top_level.v connects the reads of engine 0 only.
THEOREM MeetsContract ==
  ASSUME N_ENG = 1, TilesFit, ShapesFit  PROVE Spec => Contract!Spec
<1>1. N_ENG = 1 /\ FewEngines /\ TilesFit /\ ShapesFit
  BY DEF FewEngines
<1>2. Spec => []IInv
  BY <1>1, Invariance
<1>3. Init => Contract!Init
  BY DEF Init, Contract!Init
<1> QED BY <1>1, <1>2, <1>3, WalkInitially, WalkInductive, ContractInitially,
           ContractInductive, ContractStep, PTL DEF Spec, Contract!Spec
=============================================================================
