-------------------------- MODULE OutputBuffer_proofs -------------------------
(***************************************************************************)
(* Theorems about AccumBuffer, for every number of engines, size of tile   *)
(* and of memory, walk and number of chunks: every write of every tile is  *)
(* made once (the safety part of WritesOnce), and no engine is overtaken   *)
(* twice; and about OutputBuffer: the flush sees whole sums.               *)
(***************************************************************************)
EXTENDS OutputBuffer, UramFlush_proofs, FiniteSetTheorems, TLAPS

-----------------------------------------------------------------------------
(* The inductive invariant.                                                *)

Ctl == [state : {"IDLE", "COMPUTE", "FLUSH", "DONE"}, ready : BOOLEAN, done : BOOLEAN,
        tile : Tile \cup {NONE}, mm_done_r : BOOLEAN]
Ser == [start_pending : BOOLEAN, outputting : BOOLEAN, out_row_cnt : 0 .. TILE - 1,
        out_sub_col : {0, 1}, out : TileBeat \cup {NONE}, done : BOOLEAN]
Wr == [held : WriteSet \cup {NONE}, sub_col : {0, 1}]

AccumTypeOK ==
  /\ ctl \in [Engines -> Ctl] /\ ser \in [Engines -> Ser] /\ wr \in [Engines -> Wr]
  /\ arb_ptr \in Engines /\ passed \in [Engines -> SUBSET Engines]
  /\ job \in {0, 1} /\ chunk \in 0 .. NUM_CHUNKS /\ sent \in Nat
  /\ cmd # NONE => cmd.tile \in Tile

Still(e) == ~ser[e].start_pending /\ ~ser[e].outputting
Cursor(e, r, h) == ser[e].out_row_cnt = r /\ ser[e].out_sub_col = h
Shows(e, r, h) == ser[e].out = <<ctl[e].tile, r, h>> /\ wr[e].sub_col = h
Nothing(e) == ser[e].out = NONE /\ wr[e].sub_col = 0
Holds(e, r, h) == wr[e].held = Write(ctl[e].tile, r, h)
Free(e) == wr[e].held = NONE

\* An engine that has nothing to give out.
Quiet(e) == Still(e) /\ Nothing(e) /\ Free(e) /\ ~ser[e].done
Idle(e) == ctl[e].state = "IDLE" /\ ctl[e].tile = NONE /\ Quiet(e)
Compute(e) == /\ ctl[e].state = "COMPUTE" /\ ctl[e].tile \in Tile
              /\ ~ctl[e].mm_done_r /\ Quiet(e)
Written(e) == ctl[e].state \in {"FLUSH", "DONE"} /\ ctl[e].tile \in Tile /\ Quiet(e)
              /\ (ctl[e].state = "FLUSH" => ctl[e].mm_done_r)

\* An engine that gives out its tile, one beat shown and the one before it held.
Flushing(e) == ctl[e].state = "FLUSH" /\ ctl[e].tile \in Tile
Giving(e) == Flushing(e) /\ ~ser[e].done /\ ~ctl[e].mm_done_r

Starting(e) == /\ Giving(e) /\ ser[e].start_pending /\ ~ser[e].outputting
               /\ Nothing(e) /\ Free(e)
First(e) == /\ Giving(e) /\ ~ser[e].start_pending /\ ser[e].outputting
            /\ Cursor(e, 0, 0) /\ Nothing(e) /\ Free(e)
Second(e) == /\ Giving(e) /\ ~ser[e].start_pending /\ ser[e].outputting
             /\ Cursor(e, 0, 1) /\ Shows(e, 0, 0) /\ Free(e)
Even(e, r) == /\ Giving(e) /\ ~ser[e].start_pending /\ ser[e].outputting
              /\ Cursor(e, r + 1, 0) /\ Shows(e, r, 1) /\ Holds(e, r, 0)
Odd(e, r) == /\ Giving(e) /\ ~ser[e].start_pending /\ ser[e].outputting
             /\ Cursor(e, r + 1, 1) /\ Shows(e, r + 1, 0) /\ Holds(e, r, 1)
Last(e) == /\ Flushing(e) /\ Still(e) /\ (ctl[e].mm_done_r <=> ~ser[e].done)
           /\ Shows(e, TILE - 1, 1) /\ Holds(e, TILE - 1, 0)
Draining(e) == /\ Flushing(e) /\ Still(e) /\ ctl[e].mm_done_r /\ ~ser[e].done
               /\ Nothing(e) /\ Holds(e, TILE - 1, 1)

Stage(e) == \/ Idle(e) \/ Compute(e) \/ Written(e)
            \/ Starting(e) \/ First(e) \/ Second(e)
            \/ \E r \in 0 .. TILE - 2 : Even(e, r) \/ Odd(e, r)
            \/ Last(e) \/ Draining(e)

\* Who was served while e waits comes after e in the next rounds.
TurnInv == \A e \in Engines :
             /\ e \notin Asking => passed[e] = {}
             /\ \A f \in passed[e] : Turn(f) > Turn(e)

AccumInv == AccumTypeOK /\ (\A e \in Engines : Stage(e)) /\ TurnInv

-----------------------------------------------------------------------------
(* The writes of a tile.                                                   *)

Rest(r, h) == {x \in (0 .. TILE - 1) \X {0, 1} : x[1] > r \/ (x[1] = r /\ x[2] >= h)}
From(t, r, h) == {Write(t, x[1], x[2]) : x \in Rest(r, h)}

LEMMA AccumSizes == TILE \in Nat \ {0} /\ N_ENG \in Nat \ {0} /\ ROWS \in Nat \ {0}
               /\ WORDS \in Nat \ {0} /\ NUM_CHUNKS \in Nat \ {0}
  BY AccumAssumption

LEMMA WriteType ==
  ASSUME NEW t \in Tile, NEW r \in 0 .. TILE - 1, NEW h \in {0, 1}
  PROVE  Write(t, r, h) \in WriteSet /\ Write(t, r, h) # NONE
<1>1. t.cell[1] \in Int /\ t.cell[2] \in Int
  BY AccumSizes DEF Tile, Cells
<1>2. CellOf(t, r, h) \in Cells
  BY <1>1, AccumSizes, SMTT(30) DEF CellOf, Cells
<1>3. <<t, r, h>> \in TileBeat
  BY DEF TileBeat
<1>4. Write(t, r, h) \in WriteSet
  BY <1>2, <1>3 DEF Write, WriteSet, Overwrites
<1>5. QED
  BY <1>4, NoValueAssumption

\* Two writes of a tile differ in their data.
LEMMA WriteInjective ==
  ASSUME NEW t, NEW r, NEW h, NEW q, NEW g, Write(t, r, h) = Write(t, q, g)
  PROVE  r = q /\ h = g
<1>1. Write(t, r, h).data = Write(t, q, g).data
  OBVIOUS
<1>2. <<t, r, h>> = <<t, q, g>>
  BY <1>1 DEF Write
<1>3. QED
  BY <1>2

LEMMA AllFrom == ASSUME NEW t PROVE Writes(t) = From(t, 0, 0)
<1>1. Rest(0, 0) = (0 .. TILE - 1) \X {0, 1}
  BY DEF Rest
<1>2. QED
  BY <1>1 DEF Writes, From

LEMMA DropEven ==
  ASSUME NEW t, NEW r \in 0 .. TILE - 1
  PROVE  /\ Write(t, r, 0) \in From(t, r, 0)
         /\ From(t, r, 0) \ {Write(t, r, 0)} = From(t, r, 1)
<1>1. <<r, 0>> \in Rest(r, 0)
  BY AccumSizes DEF Rest
<1>2. Write(t, r, 0) \in From(t, r, 0)
  BY <1>1 DEF From
<1>3. Rest(r, 1) = Rest(r, 0) \ {<<r, 0>>}
  BY AccumSizes DEF Rest
<1>4. \A x \in Rest(r, 0) : x # <<r, 0>> => Write(t, x[1], x[2]) # Write(t, r, 0)
  <2>1. SUFFICES ASSUME NEW x \in Rest(r, 0), Write(t, x[1], x[2]) = Write(t, r, 0)
                 PROVE  x = <<r, 0>>
    OBVIOUS
  <2>2. x[1] = r /\ x[2] = 0
    BY <2>1, WriteInjective
  <2>3. QED
    BY <2>2 DEF Rest
<1>5. QED
  BY <1>2, <1>3, <1>4, Zenon DEF From

LEMMA DropOdd ==
  ASSUME NEW t, NEW r \in 0 .. TILE - 1
  PROVE  /\ Write(t, r, 1) \in From(t, r, 1)
         /\ From(t, r, 1) \ {Write(t, r, 1)} = From(t, r + 1, 0)
<1>1. <<r, 1>> \in Rest(r, 1)
  BY AccumSizes DEF Rest
<1>2. Write(t, r, 1) \in From(t, r, 1)
  BY <1>1 DEF From
<1>3. Rest(r + 1, 0) = Rest(r, 1) \ {<<r, 1>>}
  BY AccumSizes DEF Rest
<1>4. \A x \in Rest(r, 1) : x # <<r, 1>> => Write(t, x[1], x[2]) # Write(t, r, 1)
  <2>1. SUFFICES ASSUME NEW x \in Rest(r, 1), Write(t, x[1], x[2]) = Write(t, r, 1)
                 PROVE  x = <<r, 1>>
    OBVIOUS
  <2>2. x[1] = r /\ x[2] = 1
    BY <2>1, WriteInjective
  <2>3. QED
    BY <2>2 DEF Rest
<1>5. QED
  BY <1>2, <1>3, <1>4, Zenon DEF From

LEMMA NoneFrom == ASSUME NEW t PROVE From(t, TILE, 0) = {}
<1>1. Rest(TILE, 0) = {}
  BY AccumSizes DEF Rest
<1>2. QED
  BY <1>1 DEF From

-----------------------------------------------------------------------------
(* What an engine owes, stage by stage.                                    *)

LEMMA ToGiveRest ==
  ASSUME NEW e \in Engines, AccumTypeOK, ctl[e].state = "FLUSH",
         ~ser[e].start_pending, ser[e].outputting,
         NEW r, NEW h, Cursor(e, r, h)
  PROVE  ToGive(e) = Rest(r, h)
  BY DEF ToGive, Rest, Cursor

LEMMA OwedQuiet ==
  ASSUME NEW e \in Engines, AccumTypeOK, Idle(e) \/ Written(e)
  PROVE  Owed(e) = {}
  BY DEF Owed, ToGive, Given, Held, Idle, Written, Quiet, Still, Nothing, Free

LEMMA OwedWhole ==
  ASSUME NEW e \in Engines, AccumTypeOK,
         Compute(e) \/ Starting(e) \/ First(e) \/ Second(e)
  PROVE  Owed(e) = Writes(ctl[e].tile)
<1> DEFINE t == ctl[e].tile
<1>1. CASE Compute(e) \/ Starting(e)
  <2>1. ToGive(e) = Rest(0, 0)
    BY <1>1 DEF ToGive, Rest, Compute, Starting
  <2>2. Given(e) = {} /\ Held(e) = {}
    BY <1>1 DEF Given, Held, Compute, Starting, Quiet, Nothing, Free
  <2>3. QED
    BY <2>1, <2>2, AllFrom DEF Owed, From
<1>2. CASE First(e)
  <2>1. ToGive(e) = Rest(0, 0)
    BY <1>2, ToGiveRest DEF First, Giving, Flushing
  <2>2. Given(e) = {} /\ Held(e) = {}
    BY <1>2 DEF Given, Held, First, Nothing, Free
  <2>3. QED
    BY <2>1, <2>2, AllFrom DEF Owed, From
<1>3. CASE Second(e)
  <2>1. ToGive(e) = Rest(0, 1)
    BY <1>3, ToGiveRest DEF Second, Giving, Flushing
  <2>2. ser[e].out = <<t, 0, 0>> /\ ser[e].out # NONE
    BY <1>3, AccumSizes, NoValueAssumption DEF Second, Shows, Giving, Flushing, TileBeat
  <2>3. Given(e) = {Write(t, 0, 0)} /\ Held(e) = {}
    BY <1>3, <2>2 DEF Given, Held, Second, Free
  <2>4. From(t, 0, 0) = From(t, 0, 1) \cup {Write(t, 0, 0)}
    BY DropEven, AccumSizes
  <2>5. QED
    BY <2>1, <2>3, <2>4, AllFrom DEF Owed, From
<1>4. QED
  BY <1>1, <1>2, <1>3

LEMMA OwedEven ==
  ASSUME NEW e \in Engines, AccumTypeOK, NEW r \in 0 .. TILE - 2, Even(e, r)
  PROVE  Owed(e) = From(ctl[e].tile, r, 0)
<1> DEFINE t == ctl[e].tile
<1>1. ToGive(e) = Rest(r + 1, 0)
  BY ToGiveRest DEF Even, Giving, Flushing
<1>2. ser[e].out = <<t, r, 1>> /\ ser[e].out # NONE
  BY AccumSizes, NoValueAssumption DEF Even, Shows, Giving, Flushing, TileBeat
<1>3. wr[e].held = Write(t, r, 0) /\ wr[e].held # NONE
  BY AccumSizes, WriteType DEF Even, Holds, Giving, Flushing
<1>4. Given(e) = {Write(t, r, 1)} /\ Held(e) = {Write(t, r, 0)}
  BY <1>2, <1>3 DEF Given, Held
<1>5. From(t, r, 0) = From(t, r + 1, 0) \cup {Write(t, r, 1)} \cup {Write(t, r, 0)}
  BY DropEven, DropOdd, AccumSizes
<1>6. QED
  BY <1>1, <1>4, <1>5 DEF Owed, From

LEMMA OwedOdd ==
  ASSUME NEW e \in Engines, AccumTypeOK, NEW r \in 0 .. TILE - 2, Odd(e, r)
  PROVE  Owed(e) = From(ctl[e].tile, r, 1)
<1> DEFINE t == ctl[e].tile
<1>1. ToGive(e) = Rest(r + 1, 1)
  BY ToGiveRest DEF Odd, Giving, Flushing
<1>2. ser[e].out = <<t, r + 1, 0>> /\ ser[e].out # NONE
  BY AccumSizes, NoValueAssumption DEF Odd, Shows, Giving, Flushing, TileBeat
<1>3. wr[e].held = Write(t, r, 1) /\ wr[e].held # NONE
  BY AccumSizes, WriteType DEF Odd, Holds, Giving, Flushing
<1>4. Given(e) = {Write(t, r + 1, 0)} /\ Held(e) = {Write(t, r, 1)}
  BY <1>2, <1>3 DEF Given, Held
<1>5. From(t, r, 1) = From(t, r + 1, 1) \cup {Write(t, r + 1, 0)} \cup {Write(t, r, 1)}
  <2>1. r \in 0 .. TILE - 1 /\ r + 1 \in 0 .. TILE - 1
    BY AccumSizes
  <2>2. QED
    BY <2>1, DropEven, DropOdd
<1>6. QED
  BY <1>1, <1>4, <1>5 DEF Owed, From

LEMMA OwedLast ==
  ASSUME NEW e \in Engines, AccumTypeOK, Last(e)
  PROVE  Owed(e) = From(ctl[e].tile, TILE - 1, 0)
<1> DEFINE t == ctl[e].tile
<1>1. ToGive(e) = {}
  BY DEF ToGive, Last, Flushing, Still
<1>2. ser[e].out = <<t, TILE - 1, 1>> /\ ser[e].out # NONE
  BY AccumSizes, NoValueAssumption DEF Last, Shows, Flushing, TileBeat
<1>3. wr[e].held = Write(t, TILE - 1, 0) /\ wr[e].held # NONE
  BY AccumSizes, WriteType DEF Last, Holds, Flushing
<1>4. Given(e) = {Write(t, TILE - 1, 1)} /\ Held(e) = {Write(t, TILE - 1, 0)}
  BY <1>2, <1>3 DEF Given, Held
<1>5. From(t, TILE - 1, 0) = {Write(t, TILE - 1, 1)} \cup {Write(t, TILE - 1, 0)}
  <2>1. TILE - 1 \in 0 .. TILE - 1 /\ TILE - 1 + 1 = TILE
    BY AccumSizes
  <2>2. From(t, TILE - 1, 1) = {Write(t, TILE - 1, 1)}
    BY <2>1, DropOdd, NoneFrom
  <2>3. QED
    BY <2>1, <2>2, DropEven
<1>6. QED
  BY <1>1, <1>4, <1>5 DEF Owed

LEMMA OwedDraining ==
  ASSUME NEW e \in Engines, AccumTypeOK, Draining(e)
  PROVE  Owed(e) = From(ctl[e].tile, TILE - 1, 1)
<1> DEFINE t == ctl[e].tile
<1>1. ToGive(e) = {} /\ Given(e) = {}
  BY DEF ToGive, Given, Draining, Flushing, Still, Nothing
<1>2. wr[e].held = Write(t, TILE - 1, 1) /\ wr[e].held # NONE
  BY AccumSizes, WriteType DEF Draining, Holds, Flushing
<1>3. Held(e) = {Write(t, TILE - 1, 1)}
  BY <1>2 DEF Held
<1>4. TILE - 1 \in 0 .. TILE - 1 /\ TILE - 1 + 1 = TILE
  BY AccumSizes
<1>5. From(t, TILE - 1, 1) = {Write(t, TILE - 1, 1)}
  BY <1>4, DropOdd, NoneFrom
<1>6. QED
  BY <1>1, <1>3, <1>5 DEF Owed

\* The same in one formula, which holds of the next state too.
OwedTable == \A e \in Engines :
  /\ Idle(e) \/ Written(e) => Owed(e) = {}
  /\ Compute(e) \/ Starting(e) \/ First(e) \/ Second(e) => Owed(e) = Writes(ctl[e].tile)
  /\ \A r \in 0 .. TILE - 2 : /\ Even(e, r) => Owed(e) = From(ctl[e].tile, r, 0)
                              /\ Odd(e, r) => Owed(e) = From(ctl[e].tile, r, 1)
  /\ Last(e) => Owed(e) = From(ctl[e].tile, TILE - 1, 0)
  /\ Draining(e) => Owed(e) = From(ctl[e].tile, TILE - 1, 1)

LEMMA OwedIsTable == AccumTypeOK => OwedTable
  BY OwedQuiet, OwedWhole, OwedEven, OwedOdd, OwedLast, OwedDraining DEF OwedTable

LEMMA OwedIsTableNext == AccumTypeOK' => OwedTable'
  BY OwedIsTable, PTL

-----------------------------------------------------------------------------
(* Types.                                                                  *)

\* A beat is given out, or shown, for the tile of the controller.
HasTile(e) == ser[e].outputting \/ ser[e].out # NONE => ctl[e].tile \in Tile

LEMMA StageHasTile == ASSUME NEW e \in Engines, Stage(e) PROVE HasTile(e)
  BY DEF HasTile, Stage, Idle, Compute, Written, Quiet, Still, Nothing, Starting, First,
         Second, Even, Odd, Last, Draining, Giving, Flushing

LEMMA CtlType ==
  ASSUME NEW e \in Engines, NEW moving, AccumTypeOK
  PROVE  CtlNext(e, e \in moving) \in Ctl
<1>1. ctl[e] \in Ctl /\ ser[e] \in Ser
  BY DEF AccumTypeOK
<1>2. CASE ctl[e].state = "IDLE"
  BY <1>1, <1>2 DEF CtlNext, Ctl, AccumTypeOK
<1>3. CASE ctl[e].state = "COMPUTE"
  BY <1>1, <1>3 DEF CtlNext, Ctl
<1>4. CASE ctl[e].state = "FLUSH"
  BY <1>1, <1>4 DEF CtlNext, Ctl, Ser
<1>5. CASE ctl[e].state = "DONE"
  BY <1>1, <1>5 DEF CtlNext, Ctl
<1>6. QED
  BY <1>1, <1>2, <1>3, <1>4, <1>5 DEF Ctl

LEMMA SerType ==
  ASSUME NEW e \in Engines, NEW moving, AccumTypeOK, HasTile(e)
  PROVE  SerNext(e, e \in moving) \in Ser
<1>1. ctl[e] \in Ctl /\ ser[e] \in Ser
  BY DEF AccumTypeOK
<1> DEFINE n == SerNext(e, e \in moving)
<1>2. n.out_row_cnt \in 0 .. TILE - 1 /\ n.out_sub_col \in {0, 1}
  BY <1>1, AccumSizes DEF SerNext, Ser, LastOfTile
<1>3. n.out \in TileBeat \cup {NONE}
  BY <1>1 DEF SerNext, Ser, TileBeat, HasTile, Denied
<1>4. /\ n.start_pending \in BOOLEAN /\ n.outputting \in BOOLEAN /\ n.done \in BOOLEAN
      /\ n = [start_pending |-> n.start_pending, outputting |-> n.outputting,
              out_row_cnt |-> n.out_row_cnt, out_sub_col |-> n.out_sub_col,
              out |-> n.out, done |-> n.done]
  BY <1>1 DEF SerNext, Ser, Computed
<1>5. QED
  BY <1>2, <1>3, <1>4 DEF Ser

LEMMA WrType ==
  ASSUME NEW e \in Engines, AccumTypeOK, HasTile(e)
  PROVE  WrNext(e) \in Wr
<1>1. ctl[e] \in Ctl /\ ser[e] \in Ser /\ wr[e] \in Wr
  BY DEF AccumTypeOK
<1> DEFINE t == ctl[e].tile
           out == ser[e].out
<1>2. CASE out # NONE /\ ~Stall(e)
  <2>1. t \in Tile /\ out \in TileBeat
    BY <1>1, <1>2 DEF HasTile, Ser
  <2>2. out[2] \in 0 .. TILE - 1 /\ wr[e].sub_col \in {0, 1}
    BY <2>1, <1>1 DEF TileBeat, Wr
  <2>3. Write(t, out[2], wr[e].sub_col) \in WriteSet
    BY <2>1, <2>2, WriteType
  <2>4. CellOf(t, out[2], wr[e].sub_col) \in Cells
    BY <2>3 DEF Write, WriteSet
  <2>5. [cell |-> CellOf(t, out[2], wr[e].sub_col), data |-> out, accum |-> ~Overwrites(t)]
           \in WriteSet
    BY <2>1, <2>4 DEF WriteSet, Overwrites
  <2>6. QED
    BY <1>2, <2>2, <2>5 DEF WrNext, Wr
<1>3. CASE ~(out # NONE /\ ~Stall(e))
  BY <1>1, <1>3 DEF WrNext, Wr
<1>4. QED
  BY <1>2, <1>3

LEMMA AccumTypePreserved ==
  ASSUME AccumTypeOK, \A e \in Engines : Stage(e), AccumNext
  PROVE  AccumTypeOK'
<1>1. PICK moving \in SUBSET Computing :
        (Wait \/ Dispatch \/ EndChunk \/ BeginJob) /\ AccumEdge(moving)
  BY DEF AccumNext
<1>2. \A e \in Engines : HasTile(e)
  BY StageHasTile
<1>3. ctl' \in [Engines -> Ctl]
  <2>1. \A e \in Engines : CtlNext(e, e \in moving) \in Ctl
    BY CtlType
  <2>2. QED
    BY <1>1, <2>1 DEF AccumEdge, EngineStep
<1>4. ser' \in [Engines -> Ser]
  <2>1. \A e \in Engines : SerNext(e, e \in moving) \in Ser
    BY <1>2, SerType
  <2>2. QED
    BY <1>1, <2>1 DEF AccumEdge, EngineStep
<1>5. wr' \in [Engines -> Wr]
  BY <1>1, <1>2, WrType DEF AccumEdge, EngineStep
<1>6. arb_ptr' \in Engines
  BY <1>1, AccumSizes DEF AccumEdge, WritePort, NextPtr, Engines, AccumTypeOK, Accepted,
     Asking
<1>7. passed' \in [Engines -> SUBSET Engines]
  <2>1. \A e \in Engines :
          (IF Stall(e) THEN passed[e] \cup Accepted ELSE {}) \subseteq Engines
    BY DEF AccumTypeOK, Accepted, Asking
  <2>2. passed' = [e \in Engines |-> IF Stall(e) THEN passed[e] \cup Accepted ELSE {}]
    BY <1>1 DEF AccumEdge, Passed
  <2>3. QED
    BY <2>1, <2>2
<1>8. /\ job' \in {0, 1} /\ chunk' \in 0 .. NUM_CHUNKS /\ sent' \in Nat
      /\ cmd' # NONE => cmd'.tile \in Tile
  <2>1. CASE Wait
    BY <2>1 DEF Wait, AccumTypeOK
  <2>2. CASE Dispatch
    <3>1. Walk[sent + 1] \in Cells /\ chunk \in 0 .. NUM_CHUNKS - 1 /\ job \in {0, 1}
      BY <2>2, AccumAssumption, AccumSizes DEF Dispatch, AtRest, AccumTypeOK
    <3>2. cmd'.tile = [cell |-> Walk[sent + 1], chunk |-> chunk, job |-> job]
      BY <2>2 DEF Dispatch
    <3>3. cmd'.tile \in Tile
      BY <3>1, <3>2 DEF Tile
    <3>4. QED
      BY <2>2, <3>3 DEF Dispatch, AccumTypeOK
  <2>3. CASE EndChunk
    BY <2>3, AccumSizes DEF EndChunk, AtRest, AccumTypeOK
  <2>4. CASE BeginJob
    BY <2>4, AccumSizes DEF BeginJob, AccumTypeOK
  <2>5. QED
    BY <1>1, <2>1, <2>2, <2>3, <2>4
<1>9. QED
  BY <1>3, <1>4, <1>5, <1>6, <1>7, <1>8 DEF AccumTypeOK

-----------------------------------------------------------------------------
(* An edge, part by part of an engine.                                     *)

LEMMA Fields ==
  ASSUME NEW e \in Engines, NEW moving, EngineStep(moving)
  PROVE  /\ ctl'[e] = CtlNext(e, e \in moving) /\ ser'[e] = SerNext(e, e \in moving)
         /\ wr'[e] = WrNext(e)
  BY DEF EngineStep

LEMMA CtlFlushes ==
  ASSUME NEW e \in Engines, NEW moving, EngineStep(moving), AccumTypeOK, Flushing(e),
         ~(ctl[e].mm_done_r /\ Free(e))
  PROVE  /\ Flushing(e)' /\ ctl'[e].tile = ctl[e].tile
         /\ ctl'[e].mm_done_r = (ctl[e].mm_done_r \/ ser[e].done)
<1>1. ctl[e] \in Ctl
  BY DEF AccumTypeOK
<1>2. ctl'[e] = [ctl[e] EXCEPT !.mm_done_r = @ \/ ser[e].done, !.state = ctl[e].state]
  BY Fields DEF CtlNext, Flushing, TileWritten, Free
<1>3. QED
  BY <1>1, <1>2 DEF Ctl, Flushing

LEMMA SerGives ==
  ASSUME NEW e \in Engines, NEW moving, EngineStep(moving), AccumTypeOK, Flushing(e),
         ~ser[e].start_pending, ser[e].outputting, ~Stall(e),
         NEW r \in 0 .. TILE - 1, NEW h \in {0, 1}, Cursor(e, r, h)
  PROVE  /\ ser'[e].out = <<ctl[e].tile, r, h>> /\ ~ser'[e].start_pending
         /\ r = TILE - 1 /\ h = 1 => ~ser'[e].outputting /\ ser'[e].done
         /\ ~(r = TILE - 1 /\ h = 1) =>
              /\ ser'[e].outputting /\ ~ser'[e].done
              /\ h = 0 => Cursor(e, r, 1)'
              /\ h = 1 => Cursor(e, r + 1, 0)'
<1>1. ser[e] \in Ser
  BY DEF AccumTypeOK
<1>2. ser'[e] = SerNext(e, e \in moving)
  BY Fields
<1>3. ~Computed(e, e \in moving)
  BY DEF Computed, Flushing
<1>4. LastOfTile(e) <=> r = TILE - 1 /\ h = 1
  BY DEF LastOfTile, Cursor
<1>5. ser'[e].out = <<ctl[e].tile, r, h>>
  BY <1>2 DEF SerNext, Cursor
<1>6. ~ser'[e].start_pending
  BY <1>1, <1>2, <1>3 DEF SerNext, Ser
<1>7. CASE r = TILE - 1 /\ h = 1
  <2>1. ~ser'[e].outputting /\ ser'[e].done
    BY <1>1, <1>2, <1>4, <1>7 DEF SerNext, Ser
  <2>2. QED
    BY <1>5, <1>6, <1>7, <2>1
<1>8. CASE ~(r = TILE - 1 /\ h = 1)
  <2>1. ser'[e].outputting /\ ~ser'[e].done
    BY <1>1, <1>2, <1>4, <1>8 DEF SerNext, Ser
  <2>2. ser'[e].out_row_cnt = (IF h = 1 THEN r + 1 ELSE r) /\ ser'[e].out_sub_col = 1 - h
    BY <1>2, <1>4, <1>8 DEF SerNext, Cursor
  <2>3. QED
    BY <1>5, <1>6, <1>8, <2>1, <2>2 DEF Cursor
<1>9. QED
  BY <1>7, <1>8

LEMMA SerWaits ==
  ASSUME NEW e \in Engines, NEW moving, EngineStep(moving), AccumTypeOK, Flushing(e),
         ~ser[e].start_pending, ser[e].outputting, Stall(e),
         NEW r, NEW h, Cursor(e, r, h)
  PROVE  /\ ~ser'[e].start_pending /\ ser'[e].outputting /\ ~ser'[e].done
         /\ Cursor(e, r, h)' /\ ser'[e].out = ser[e].out
<1>1. ser'[e] = SerNext(e, e \in moving)
  BY Fields
<1>2. ~Computed(e, e \in moving)
  BY DEF Computed, Flushing
<1>3. ser[e] \in Ser
  BY DEF AccumTypeOK
<1>4. QED
  BY <1>1, <1>2, <1>3 DEF SerNext, Ser, Cursor, Denied

LEMMA SerStill ==
  ASSUME NEW e \in Engines, NEW moving, EngineStep(moving), AccumTypeOK, Still(e),
         ~Computed(e, e \in moving)
  PROVE  /\ Still(e)' /\ ~ser'[e].done
         /\ ser'[e].out = IF Stall(e) THEN ser[e].out ELSE NONE
<1>1. ser'[e] = SerNext(e, e \in moving)
  BY Fields
<1>2. ser[e] \in Ser
  BY DEF AccumTypeOK
<1>3. QED
  BY <1>1, <1>2 DEF SerNext, Ser, Still, Denied

LEMMA WrTakes ==
  ASSUME NEW e \in Engines, NEW moving, EngineStep(moving), AccumTypeOK, ~Stall(e),
         ctl[e].tile \in Tile, NEW r \in 0 .. TILE - 1, NEW h \in {0, 1}, Shows(e, r, h)
  PROVE  wr'[e] = [held |-> Write(ctl[e].tile, r, h), sub_col |-> 1 - h]
<1>1. ser[e].out = <<ctl[e].tile, r, h>> /\ ser[e].out # NONE
  BY NoValueAssumption DEF Shows, TileBeat
<1>2. ser[e].out[2] = r /\ wr[e].sub_col = h
  BY <1>1 DEF Shows
<1>3. QED
  BY <1>1, <1>2, Fields DEF WrNext, Write

LEMMA WrDrops ==
  ASSUME NEW e \in Engines, NEW moving, EngineStep(moving), AccumTypeOK, ~Stall(e),
         ser[e].out = NONE
  PROVE  wr'[e].held = NONE /\ wr'[e].sub_col = wr[e].sub_col
<1>1. wr[e] \in Wr
  BY DEF AccumTypeOK
<1>2. wr'[e] = [wr[e] EXCEPT !.held = NONE]
  BY Fields DEF WrNext
<1>3. QED
  BY <1>1, <1>2 DEF Wr

LEMMA WrWaits ==
  ASSUME NEW e \in Engines, NEW moving, EngineStep(moving), Stall(e)
  PROVE  wr'[e] = wr[e]
  BY Fields DEF WrNext

-----------------------------------------------------------------------------
(* An edge, stage by stage of an engine: the stage after it, and what it   *)
(* does to what the engine owes.                                           *)

Takes(e) == /\ ctl[e].tile = NONE /\ ctl'[e].tile \in Tile
            /\ Owed(e)' = Writes(ctl'[e].tile)
Returns(e) == /\ ctl[e].tile # NONE /\ Owed(e) = {}
              /\ ctl'[e].tile = NONE /\ Owed(e)' = {}
Keeps(e) == ctl'[e].tile = ctl[e].tile /\ Owed(e)' = Owed(e)
Makes(e) == /\ wr[e].held \in Owed(e) /\ ctl'[e].tile = ctl[e].tile
            /\ Owed(e)' = Owed(e) \ {wr[e].held}

StageStep(e) == /\ Stage(e)'
                /\ e \in Accepted => Makes(e)
                /\ e \notin Accepted => Takes(e) \/ Returns(e) \/ Keeps(e)

LEMMA FreeNotAccepted ==
  ASSUME NEW e \in Engines, Free(e)
  PROVE  e \notin Accepted /\ ~Stall(e)
  BY DEF Free, Accepted, Asking, Stall

LEMMA WaitsOrAccepted ==
  ASSUME NEW e \in Engines, ~Free(e)
  PROVE  e \in Accepted <=> ~Stall(e)
  BY DEF Free, Stall

\* An engine that has nothing to give out stays so, until its products are computed.
LEMMA QuietStep ==
  ASSUME NEW e \in Engines, NEW moving, EngineStep(moving), AccumTypeOK, Quiet(e),
         ~Computed(e, e \in moving)
  PROVE  Quiet(e)'
<1>1. ~Stall(e) /\ ser[e].out = NONE
  BY FreeNotAccepted DEF Quiet, Nothing
<1>2. Still(e)' /\ ~ser'[e].done /\ ser'[e].out = NONE
  BY <1>1, SerStill DEF Quiet
<1>3. wr'[e].held = NONE /\ wr'[e].sub_col = 0
  BY <1>1, WrDrops DEF Quiet, Nothing
<1>4. QED
  BY <1>2, <1>3 DEF Quiet, Nothing, Free

LEMMA IdleStep ==
  ASSUME NEW e \in Engines, NEW moving, EngineStep(moving), AccumTypeOK,
         AccumTypeOK', Idle(e)
  PROVE  StageStep(e)
<1>1. Quiet(e)'
  BY QuietStep DEF Idle, Computed
<1>2. e \notin Accepted
  BY FreeNotAccepted DEF Idle, Quiet
<1>3. CASE cmd # NONE /\ cmd.eng = e /\ ctl[e].ready
  <2>1. ctl'[e] = [state |-> "COMPUTE", ready |-> FALSE, done |-> FALSE,
                   tile |-> cmd.tile, mm_done_r |-> FALSE]
    BY <1>3, Fields DEF CtlNext, Idle
  <2>2. cmd.tile \in Tile
    BY <1>3 DEF AccumTypeOK
  <2>3. Compute(e)'
    BY <1>1, <2>1, <2>2 DEF Compute
  <2>4. Takes(e)
    BY <2>1, <2>2, <2>3, OwedIsTableNext DEF OwedTable, Takes, Idle
  <2>5. QED
    BY <1>2, <2>3, <2>4 DEF StageStep, Stage
<1>4. CASE ~(cmd # NONE /\ cmd.eng = e /\ ctl[e].ready)
  <2>1. ctl'[e] = [ctl[e] EXCEPT !.ready = TRUE, !.done = FALSE]
    BY <1>4, Fields DEF CtlNext, Idle
  <2>2. ctl[e] \in Ctl
    BY DEF AccumTypeOK
  <2>3. Idle(e)'
    BY <1>1, <2>1, <2>2 DEF Idle, Ctl
  <2>4. Keeps(e)
    BY <2>3, OwedIsTable, OwedIsTableNext DEF OwedTable, Keeps, Idle
  <2>5. QED
    BY <1>2, <2>3, <2>4 DEF StageStep, Stage
<1>5. QED
  BY <1>3, <1>4

LEMMA ComputeStep ==
  ASSUME NEW e \in Engines, NEW moving, EngineStep(moving), AccumTypeOK,
         AccumTypeOK', Compute(e)
  PROVE  StageStep(e)
<1>1. e \notin Accepted /\ ~Stall(e)
  BY FreeNotAccepted DEF Compute, Quiet
<1>2. ctl[e] \in Ctl /\ ser[e] \in Ser
  BY DEF AccumTypeOK
<1>3. Owed(e) = Writes(ctl[e].tile)
  BY OwedIsTable DEF OwedTable
<1>4. CASE e \in moving
  <2>1. ctl'[e] = [ctl[e] EXCEPT !.state = "FLUSH"]
    BY <1>4, Fields DEF CtlNext, Compute
  <2>2. /\ ctl'[e].state = "FLUSH" /\ ctl'[e].tile = ctl[e].tile
        /\ ctl[e].tile \in Tile /\ ~ctl'[e].mm_done_r
    BY <1>2, <2>1 DEF Ctl, Compute
  <2>3. ser'[e] = SerNext(e, e \in moving) /\ Computed(e, e \in moving)
    BY <1>4, Fields DEF Computed, Compute
  <2>4. ser'[e].start_pending
    <3>1. SerNext(e, e \in moving).start_pending
      BY <2>3 DEF SerNext
    <3>2. QED
      BY <2>3, <3>1
  <2>5. ~ser'[e].outputting /\ ~ser'[e].done
    BY <1>2, <2>3 DEF SerNext, Ser, Compute, Quiet, Still
  <2>6. ser'[e].out = NONE
    BY <1>1, <1>2, <2>3 DEF SerNext, Ser, Compute, Quiet, Still, Denied
  <2>7. wr'[e].held = NONE /\ wr'[e].sub_col = 0
    BY <1>1, WrDrops DEF Compute, Quiet, Nothing
  <2>8. Starting(e)'
    BY <2>2, <2>4, <2>5, <2>6, <2>7 DEF Starting, Giving, Flushing, Nothing, Free
  <2>9. Keeps(e)
    BY <1>3, <2>2, <2>8, OwedIsTableNext DEF OwedTable, Keeps
  <2>10. QED
    BY <1>1, <2>8, <2>9 DEF StageStep, Stage
<1>5. CASE e \notin moving
  <2>1. ctl'[e] = ctl[e]
    BY <1>5, Fields DEF CtlNext, Compute
  <2>2. Quiet(e)'
    BY <1>5, QuietStep DEF Compute, Computed
  <2>3. Compute(e)'
    BY <2>1, <2>2 DEF Compute
  <2>4. Keeps(e)
    BY <1>3, <2>1, <2>3, OwedIsTableNext DEF OwedTable, Keeps
  <2>5. QED
    BY <1>1, <2>3, <2>4 DEF StageStep, Stage
<1>6. QED
  BY <1>4, <1>5

LEMMA WrittenStep ==
  ASSUME NEW e \in Engines, NEW moving, EngineStep(moving), AccumTypeOK,
         AccumTypeOK', Written(e)
  PROVE  StageStep(e)
<1>1. e \notin Accepted
  BY FreeNotAccepted DEF Written, Quiet
<1>2. ctl[e] \in Ctl
  BY DEF AccumTypeOK
<1>3. Owed(e) = {}
  BY OwedIsTable DEF OwedTable
<1>4. Quiet(e)'
  BY QuietStep DEF Written, Computed
<1>5. CASE ctl[e].state = "FLUSH"
  <2>1. TileWritten(e)
    BY <1>5 DEF TileWritten, Written, Quiet, Free
  <2>2. ctl'[e].state = "DONE" /\ ctl'[e].tile = ctl[e].tile
    BY <1>2, <1>5, <2>1, Fields DEF CtlNext, Ctl
  <2>3. Written(e)'
    BY <1>4, <2>2 DEF Written
  <2>4. Keeps(e)
    BY <1>3, <2>2, <2>3, OwedIsTableNext DEF OwedTable, Keeps
  <2>5. QED
    BY <1>1, <2>3, <2>4 DEF StageStep, Stage
<1>6. CASE ctl[e].state = "DONE"
  <2>1. ctl'[e].state = "IDLE" /\ ctl'[e].tile = NONE
    BY <1>2, <1>6, Fields DEF CtlNext, Ctl
  <2>2. Idle(e)'
    BY <1>4, <2>1 DEF Idle
  <2>3. Returns(e)
    BY <1>3, <2>1, <2>2, OwedIsTableNext, NoValueAssumption DEF OwedTable, Returns, Written
  <2>4. QED
    BY <1>1, <2>2, <2>3 DEF StageStep, Stage
<1>7. QED
  BY <1>5, <1>6 DEF Written

LEMMA StartingStep ==
  ASSUME NEW e \in Engines, NEW moving, EngineStep(moving), AccumTypeOK,
         AccumTypeOK', Starting(e)
  PROVE  StageStep(e)
<1>1. e \notin Accepted /\ ~Stall(e)
  BY FreeNotAccepted DEF Starting
<1>2. ser[e] \in Ser
  BY DEF AccumTypeOK
<1>3. Flushing(e)' /\ ctl'[e].tile = ctl[e].tile /\ ~ctl'[e].mm_done_r
  BY CtlFlushes DEF Starting, Giving
<1>4. ser'[e] = SerNext(e, e \in moving) /\ ~Computed(e, e \in moving)
  BY Fields DEF Computed, Starting, Giving, Flushing
<1>5. ~ser'[e].start_pending /\ ~ser'[e].done
  BY <1>2, <1>4 DEF SerNext, Ser, Starting
<1>6. ser'[e].outputting
  BY <1>2, <1>4 DEF SerNext, Ser, Starting
<1>7. ser'[e].out_row_cnt = 0 /\ ser'[e].out_sub_col = 0 /\ ser'[e].out = NONE
  BY <1>2, <1>4 DEF SerNext, Ser, Starting
<1>8. wr'[e].held = NONE /\ wr'[e].sub_col = 0
  BY <1>1, WrDrops DEF Starting, Nothing
<1>9. First(e)'
  BY <1>3, <1>5, <1>6, <1>7, <1>8 DEF First, Giving, Cursor, Nothing, Free
<1>10. Keeps(e)
  BY <1>3, <1>9, OwedIsTable, OwedIsTableNext DEF OwedTable, Keeps
<1>11. QED
  BY <1>1, <1>9, <1>10 DEF StageStep, Stage

LEMMA FirstStep ==
  ASSUME NEW e \in Engines, NEW moving, EngineStep(moving), AccumTypeOK,
         AccumTypeOK', First(e)
  PROVE  StageStep(e)
<1>1. e \notin Accepted /\ ~Stall(e)
  BY FreeNotAccepted DEF First
<1>2. Flushing(e)' /\ ctl'[e].tile = ctl[e].tile /\ ~ctl'[e].mm_done_r
  BY CtlFlushes DEF First, Giving
<1>3. 0 \in 0 .. TILE - 1 /\ 0 \in {0, 1}
  BY AccumSizes
<1>4. /\ ser'[e].out = <<ctl[e].tile, 0, 0>> /\ ~ser'[e].start_pending
      /\ ser'[e].outputting /\ ~ser'[e].done /\ Cursor(e, 0, 1)'
  BY <1>1, <1>3, SerGives DEF First, Giving
<1>5. wr'[e].held = NONE /\ wr'[e].sub_col = 0
  BY <1>1, WrDrops DEF First, Nothing
<1>6. Second(e)'
  BY <1>2, <1>4, <1>5 DEF Second, Giving, Shows, Free
<1>7. Keeps(e)
  BY <1>2, <1>6, OwedIsTable, OwedIsTableNext DEF OwedTable, Keeps
<1>8. QED
  BY <1>1, <1>6, <1>7 DEF StageStep, Stage

LEMMA SecondStep ==
  ASSUME NEW e \in Engines, NEW moving, EngineStep(moving), AccumTypeOK,
         AccumTypeOK', Second(e)
  PROVE  StageStep(e)
<1>1. e \notin Accepted /\ ~Stall(e)
  BY FreeNotAccepted DEF Second
<1>2. Flushing(e)' /\ ctl'[e].tile = ctl[e].tile /\ ~ctl'[e].mm_done_r
  BY CtlFlushes DEF Second, Giving
<1>3. 0 \in 0 .. TILE - 1 /\ 0 \in {0, 1} /\ 1 \in {0, 1} /\ ctl[e].tile \in Tile
  BY AccumSizes DEF Second, Giving, Flushing
<1>4. wr'[e] = [held |-> Write(ctl[e].tile, 0, 0), sub_col |-> 1 - 0]
  BY <1>1, <1>3, WrTakes DEF Second
<1>5. Holds(e, 0, 0)' /\ wr'[e].sub_col = 1
  BY <1>2, <1>4 DEF Holds
<1>6. ser'[e].out = <<ctl[e].tile, 0, 1>> /\ ~ser'[e].start_pending
  BY <1>1, <1>3, SerGives DEF Second, Giving
<1>7. Shows(e, 0, 1)'
  BY <1>2, <1>5, <1>6 DEF Shows
<1>8. Owed(e) = From(ctl[e].tile, 0, 0)
  BY OwedIsTable, AllFrom DEF OwedTable
<1>9. CASE TILE = 1
  <2>1. ~ser'[e].outputting /\ ser'[e].done
    BY <1>1, <1>3, <1>9, SerGives DEF Second, Giving
  <2>2. Last(e)'
    <3>1. TILE - 1 = 0
      BY <1>9
    <3>2. QED
      BY <1>2, <1>5, <1>6, <1>7, <2>1, <3>1 DEF Last, Still
  <2>3. Keeps(e)
    BY <1>2, <1>8, <1>9, <2>2, OwedIsTableNext DEF OwedTable, Keeps
  <2>4. QED
    BY <1>1, <2>2, <2>3 DEF StageStep, Stage
<1>10. CASE TILE # 1
  <2>1. ser'[e].outputting /\ ~ser'[e].done /\ Cursor(e, 0 + 1, 0)'
    BY <1>1, <1>3, <1>10, AccumSizes, SerGives DEF Second, Giving
  <2>2. Even(e, 0)' /\ 0 \in 0 .. TILE - 2
    BY <1>2, <1>5, <1>6, <1>7, <1>10, <2>1, AccumSizes DEF Even, Giving
  <2>3. Keeps(e)
    BY <1>2, <1>8, <2>2, OwedIsTableNext DEF OwedTable, Keeps
  <2>4. QED
    BY <1>1, <2>2, <2>3 DEF StageStep, Stage
<1>11. QED
  BY <1>9, <1>10

LEMMA EvenStep ==
  ASSUME NEW e \in Engines, NEW moving, EngineStep(moving), AccumTypeOK,
         AccumTypeOK', NEW r \in 0 .. TILE - 2, Even(e, r)
  PROVE  StageStep(e)
<1> DEFINE t == ctl[e].tile
<1>1. t \in Tile /\ r \in 0 .. TILE - 1 /\ r + 1 \in 0 .. TILE - 1
  BY AccumSizes DEF Even, Giving, Flushing
<1>2. ~Free(e) /\ wr[e].held = Write(t, r, 0)
  BY <1>1, WriteType DEF Even, Holds, Free
<1>3. Owed(e) = From(t, r, 0)
  BY OwedIsTable DEF OwedTable
<1>4. Flushing(e)' /\ ctl'[e].tile = t /\ ~ctl'[e].mm_done_r
  BY CtlFlushes DEF Even, Giving
<1>5. CASE Stall(e)
  <2>1. /\ ~ser'[e].start_pending /\ ser'[e].outputting /\ ~ser'[e].done
        /\ Cursor(e, r + 1, 0)' /\ ser'[e].out = ser[e].out
    BY <1>5, SerWaits DEF Even, Giving
  <2>2. wr'[e] = wr[e]
    BY <1>5, WrWaits
  <2>3. Even(e, r)'
    BY <1>4, <2>1, <2>2 DEF Even, Giving, Shows, Holds, Write, CellOf, Overwrites
  <2>4. Keeps(e)
    BY <1>3, <1>4, <2>3, OwedIsTableNext DEF OwedTable, Keeps
  <2>5. QED
    BY <1>2, <1>5, <2>3, <2>4, WaitsOrAccepted DEF StageStep, Stage
<1>6. CASE ~Stall(e)
  <2>1. /\ ser'[e].out = <<t, r + 1, 0>> /\ ~ser'[e].start_pending
        /\ ser'[e].outputting /\ ~ser'[e].done /\ Cursor(e, r + 1, 1)'
    BY <1>1, <1>6, SerGives DEF Even, Giving
  <2>2. wr'[e] = [held |-> Write(t, r, 1), sub_col |-> 1 - 1]
    BY <1>1, <1>6, WrTakes DEF Even
  <2>3. Odd(e, r)'
    BY <1>4, <2>1, <2>2 DEF Odd, Giving, Shows, Holds, Write, CellOf, Overwrites
  <2>4. Makes(e)
    BY <1>1, <1>2, <1>3, <1>4, <2>3, DropEven, OwedIsTableNext DEF OwedTable, Makes
  <2>5. QED
    BY <1>2, <1>6, <2>3, <2>4, WaitsOrAccepted DEF StageStep, Stage
<1>7. QED
  BY <1>5, <1>6

LEMMA OddStep ==
  ASSUME NEW e \in Engines, NEW moving, EngineStep(moving), AccumTypeOK,
         AccumTypeOK', NEW r \in 0 .. TILE - 2, Odd(e, r)
  PROVE  StageStep(e)
<1> DEFINE t == ctl[e].tile
<1>1. t \in Tile /\ r \in 0 .. TILE - 1 /\ r + 1 \in 0 .. TILE - 1
  BY AccumSizes DEF Odd, Giving, Flushing
<1>2. ~Free(e) /\ wr[e].held = Write(t, r, 1)
  BY <1>1, WriteType DEF Odd, Holds, Free
<1>3. Owed(e) = From(t, r, 1)
  BY OwedIsTable DEF OwedTable
<1>4. Flushing(e)' /\ ctl'[e].tile = t /\ ~ctl'[e].mm_done_r
  BY CtlFlushes DEF Odd, Giving
<1>5. CASE Stall(e)
  <2>1. /\ ~ser'[e].start_pending /\ ser'[e].outputting /\ ~ser'[e].done
        /\ Cursor(e, r + 1, 1)' /\ ser'[e].out = ser[e].out
    BY <1>5, SerWaits DEF Odd, Giving
  <2>2. wr'[e] = wr[e]
    BY <1>5, WrWaits
  <2>3. Odd(e, r)'
    BY <1>4, <2>1, <2>2 DEF Odd, Giving, Shows, Holds, Write, CellOf, Overwrites
  <2>4. Keeps(e)
    BY <1>3, <1>4, <2>3, OwedIsTableNext DEF OwedTable, Keeps
  <2>5. QED
    BY <1>2, <1>5, <2>3, <2>4, WaitsOrAccepted DEF StageStep, Stage
<1>6. CASE ~Stall(e)
  <2>1. wr'[e] = [held |-> Write(t, r + 1, 0), sub_col |-> 1 - 0]
    BY <1>1, <1>6, WrTakes DEF Odd
  <2>2. ser'[e].out = <<t, r + 1, 1>> /\ ~ser'[e].start_pending
    BY <1>1, <1>6, SerGives DEF Odd, Giving
  <2>3. Holds(e, r + 1, 0)' /\ Shows(e, r + 1, 1)'
    BY <1>4, <2>1, <2>2 DEF Holds, Shows, Write, CellOf, Overwrites
  <2>4. From(t, r, 1) \ {Write(t, r, 1)} = From(t, r + 1, 0)
        /\ Write(t, r, 1) \in From(t, r, 1)
    BY <1>1, DropOdd
  <2>5. CASE r + 1 = TILE - 1
    <3>1. ~ser'[e].outputting /\ ser'[e].done
      BY <1>1, <1>6, <2>5, SerGives DEF Odd, Giving
    <3>2. Last(e)'
      BY <1>4, <2>2, <2>3, <2>5, <3>1 DEF Last, Still
    <3>3. Makes(e)
      BY <1>2, <1>3, <1>4, <2>4, <2>5, <3>2, OwedIsTableNext DEF OwedTable, Makes
    <3>4. QED
      BY <1>2, <1>6, <3>2, <3>3, WaitsOrAccepted DEF StageStep, Stage
  <2>6. CASE r + 1 # TILE - 1
    <3>1. ser'[e].outputting /\ ~ser'[e].done /\ Cursor(e, r + 1 + 1, 0)'
      BY <1>1, <1>6, <2>6, SerGives DEF Odd, Giving
    <3>2. Even(e, r + 1)' /\ r + 1 \in 0 .. TILE - 2
      BY <1>1, <1>4, <2>2, <2>3, <2>6, <3>1, AccumSizes DEF Even, Giving
    <3>3. Makes(e)
      BY <1>2, <1>3, <1>4, <2>4, <3>2, OwedIsTableNext DEF OwedTable, Makes
    <3>4. QED
      BY <1>2, <1>6, <3>2, <3>3, WaitsOrAccepted DEF StageStep, Stage
  <2>7. QED
    BY <2>5, <2>6
<1>7. QED
  BY <1>5, <1>6

LEMMA LastStep ==
  ASSUME NEW e \in Engines, NEW moving, EngineStep(moving), AccumTypeOK,
         AccumTypeOK', Last(e)
  PROVE  StageStep(e)
<1> DEFINE t == ctl[e].tile
           r == TILE - 1
<1>1. t \in Tile /\ r \in 0 .. TILE - 1
  BY AccumSizes DEF Last, Flushing
<1>2. ~Free(e) /\ wr[e].held = Write(t, r, 0)
  BY <1>1, WriteType DEF Last, Holds, Free
<1>3. Owed(e) = From(t, r, 0)
  BY OwedIsTable DEF OwedTable
<1>4. Flushing(e)' /\ ctl'[e].tile = t /\ ctl'[e].mm_done_r
  BY <1>2, CtlFlushes DEF Last
<1>5. Still(e)' /\ ~ser'[e].done /\ ser'[e].out = IF Stall(e) THEN ser[e].out ELSE NONE
  BY SerStill DEF Last, Flushing, Computed
<1>6. CASE Stall(e)
  <2>1. wr'[e] = wr[e]
    BY <1>6, WrWaits
  <2>2. Last(e)'
    BY <1>4, <1>5, <1>6, <2>1 DEF Last, Shows, Holds, Write, CellOf, Overwrites
  <2>3. Keeps(e)
    BY <1>3, <1>4, <2>2, OwedIsTableNext DEF OwedTable, Keeps
  <2>4. QED
    BY <1>2, <1>6, <2>2, <2>3, WaitsOrAccepted DEF StageStep, Stage
<1>7. CASE ~Stall(e)
  <2>1. wr'[e] = [held |-> Write(t, r, 1), sub_col |-> 1 - 1]
    BY <1>1, <1>7, WrTakes DEF Last
  <2>2. Draining(e)'
    BY <1>4, <1>5, <1>7, <2>1 DEF Draining, Nothing, Holds, Write, CellOf, Overwrites
  <2>3. Makes(e)
    BY <1>1, <1>2, <1>3, <1>4, <2>2, DropEven, OwedIsTableNext DEF OwedTable, Makes
  <2>4. QED
    BY <1>2, <1>7, <2>2, <2>3, WaitsOrAccepted DEF StageStep, Stage
<1>8. QED
  BY <1>6, <1>7

LEMMA DrainingStep ==
  ASSUME NEW e \in Engines, NEW moving, EngineStep(moving), AccumTypeOK,
         AccumTypeOK', Draining(e)
  PROVE  StageStep(e)
<1> DEFINE t == ctl[e].tile
           r == TILE - 1
<1>1. t \in Tile /\ r \in 0 .. TILE - 1
  BY AccumSizes DEF Draining, Flushing
<1>2. ~Free(e) /\ wr[e].held = Write(t, r, 1)
  BY <1>1, WriteType DEF Draining, Holds, Free
<1>3. Owed(e) = From(t, r, 1)
  BY OwedIsTable DEF OwedTable
<1>4. Flushing(e)' /\ ctl'[e].tile = t /\ ctl'[e].mm_done_r
  BY <1>2, CtlFlushes DEF Draining
<1>5. Still(e)' /\ ~ser'[e].done /\ ser'[e].out = NONE
  BY SerStill DEF Draining, Flushing, Computed, Nothing
<1>6. CASE Stall(e)
  <2>1. wr'[e] = wr[e]
    BY <1>6, WrWaits
  <2>2. Draining(e)'
    BY <1>4, <1>5, <2>1 DEF Draining, Nothing, Holds, Write, CellOf, Overwrites
  <2>3. Keeps(e)
    BY <1>3, <1>4, <2>2, OwedIsTableNext DEF OwedTable, Keeps
  <2>4. QED
    BY <1>2, <1>6, <2>2, <2>3, WaitsOrAccepted DEF StageStep, Stage
<1>7. CASE ~Stall(e)
  <2>1. wr'[e].held = NONE /\ wr'[e].sub_col = 0
    BY <1>7, WrDrops DEF Draining, Nothing
  <2>2. Written(e)'
    BY <1>4, <1>5, <2>1 DEF Written, Flushing, Quiet, Nothing, Free
  <2>3. From(t, r, 1) \ {Write(t, r, 1)} = {} /\ Write(t, r, 1) \in From(t, r, 1)
    BY <1>1, AccumSizes, DropOdd, NoneFrom
  <2>4. Makes(e)
    BY <1>2, <1>3, <1>4, <2>2, <2>3, OwedIsTableNext DEF OwedTable, Makes
  <2>5. QED
    BY <1>2, <1>7, <2>2, <2>4, WaitsOrAccepted DEF StageStep, Stage
<1>8. QED
  BY <1>6, <1>7

LEMMA EveryStep ==
  ASSUME NEW e \in Engines, NEW moving, EngineStep(moving), AccumTypeOK,
         AccumTypeOK', Stage(e)
  PROVE  StageStep(e)
  BY IdleStep, ComputeStep, WrittenStep, StartingStep, FirstStep, SecondStep, EvenStep,
     OddStep, LastStep, DrainingStep DEF Stage

-----------------------------------------------------------------------------
(* The arbiter.                                                            *)

LEMMA TurnRange ==
  ASSUME AccumTypeOK, NEW e \in Engines
  PROVE  Turn(e) \in 0 .. N_ENG - 1
  BY AccumSizes DEF Turn, AccumTypeOK, Engines

LEMMA TurnInjective ==
  ASSUME AccumTypeOK, NEW e \in Engines, NEW f \in Engines, Turn(e) = Turn(f)
  PROVE  e = f
  BY AccumSizes DEF Turn, AccumTypeOK, Engines

LEMMA OneAccepted ==
  ASSUME AccumTypeOK, NEW e \in Accepted, NEW f \in Accepted
  PROVE  e = f
<1>1. e \in Engines /\ f \in Engines /\ Turn(e) <= Turn(f) /\ Turn(f) <= Turn(e)
  BY DEF Accepted, Asking
<1>2. Turn(e) \in 0 .. N_ENG - 1 /\ Turn(f) \in 0 .. N_ENG - 1
  BY <1>1, TurnRange
<1>3. Turn(e) = Turn(f)
  BY <1>1, <1>2
<1>4. QED
  BY <1>1, <1>3, TurnInjective

\* An accept turns the wheel: the accepted engine is the last one of the next round.
LEMMA TurnNext ==
  ASSUME AccumTypeOK, NEW g \in Engines, NEW e \in Engines, arb_ptr' = NextPtr(g)
  PROVE  Turn(e)' = IF Turn(e) > Turn(g) THEN Turn(e) - Turn(g) - 1
                                         ELSE Turn(e) - Turn(g) - 1 + N_ENG
<1>1. /\ e \in 0 .. N_ENG - 1 /\ g \in 0 .. N_ENG - 1 /\ arb_ptr \in 0 .. N_ENG - 1
      /\ N_ENG \in Nat \ {0} /\ arb_ptr' = IF g = N_ENG - 1 THEN 0 ELSE g + 1
  BY AccumSizes DEF AccumTypeOK, Engines, NextPtr
<1>2. CASE e >= arb_ptr
  BY <1>1, <1>2 DEF Turn
<1>3. CASE ~(e >= arb_ptr)
  BY <1>1, <1>3 DEF Turn
<1>4. QED
  BY <1>2, <1>3

LEMMA TurnsKept ==
  ASSUME AccumInv, NEW moving, AccumEdge(moving)
  PROVE  TurnInv'
<1>1. AccumTypeOK /\ TurnInv
  BY DEF AccumInv
<1>2. WritePort /\ EngineStep(moving)
      /\ passed' = [e \in Engines |-> IF Stall(e) THEN passed[e] \cup Accepted ELSE {}]
  BY DEF AccumEdge, Passed
<1>3. SUFFICES ASSUME NEW e \in Engines
               PROVE  /\ e \notin Asking' => passed'[e] = {}
                      /\ \A f \in passed'[e] : Turn(f)' > Turn(e)'
  BY DEF TurnInv
<1>4. CASE ~Stall(e)
  BY <1>2, <1>4
<1>5. CASE Stall(e)
  <2>1. e \in Asking /\ e \in Asking'
    BY <1>2, <1>5, WrWaits DEF Asking, Stall
  <2>2. passed'[e] = passed[e] \cup Accepted
    BY <1>2, <1>5
  <2>3. CASE Accepted = {}
    <3>1. arb_ptr' = arb_ptr
      BY <1>2, <2>3 DEF WritePort
    <3>2. QED
      BY <1>1, <2>1, <2>2, <2>3, <3>1 DEF TurnInv, Turn
  <2>4. CASE Accepted # {}
    <3>1. PICK g \in Accepted : arb_ptr' = NextPtr(g)
      BY <1>2, <2>4 DEF WritePort
    <3>2. g \in Engines /\ g # e /\ Turn(g) <= Turn(e)
      BY <1>5, <2>1 DEF Accepted, Asking, Stall
    <3>3. /\ Turn(e) \in 0 .. N_ENG - 1 /\ Turn(g) \in 0 .. N_ENG - 1
          /\ Turn(g) # Turn(e) /\ N_ENG \in Nat
      BY <1>1, <3>2, TurnRange, TurnInjective, AccumSizes
    <3>4. Turn(e)' = Turn(e) - Turn(g) - 1
      BY <1>1, <3>1, <3>2, <3>3, TurnNext
    <3>5. ASSUME NEW f \in passed'[e] PROVE Turn(f)' > Turn(e)'
      <4>1. CASE f \in Accepted
        <5>1. f = g
          BY <1>1, <4>1, OneAccepted
        <5>2. Turn(f)' = N_ENG - 1
          BY <1>1, <3>1, <3>2, <3>3, <5>1, TurnNext
        <5>3. QED
          BY <3>2, <3>3, <3>4, <5>2
      <4>2. CASE f \in passed[e]
        <5>1. f \in Engines /\ Turn(f) > Turn(e)
          BY <1>1, <4>2 DEF TurnInv, AccumTypeOK
        <5>2. Turn(f) \in 0 .. N_ENG - 1
          BY <1>1, <5>1, TurnRange
        <5>3. Turn(f)' = Turn(f) - Turn(g) - 1
          BY <1>1, <3>1, <3>2, <3>3, <5>1, <5>2, TurnNext
        <5>4. QED
          BY <3>3, <3>4, <5>1, <5>2, <5>3
      <4>3. QED
        BY <2>2, <4>1, <4>2
    <3>6. QED
      BY <2>1, <3>5
  <2>5. QED
    BY <2>3, <2>4
<1>6. QED
  BY <1>4, <1>5

-----------------------------------------------------------------------------
(* The invariant.                                                          *)

LEMMA AccumInitInv == AccumInit => AccumInv
<1> SUFFICES ASSUME AccumInit PROVE AccumInv
  OBVIOUS
<1>1. AccumTypeOK
  BY AccumSizes DEF AccumInit, AccumTypeOK, Ctl, Ser, Wr, Engines
<1>2. ASSUME NEW e \in Engines PROVE Idle(e)
  BY <1>2 DEF AccumInit, Idle, Quiet, Still, Nothing, Free
<1>3. TurnInv
  BY DEF AccumInit, TurnInv, Asking
<1>4. QED
  BY <1>1, <1>2, <1>3 DEF AccumInv, Stage

LEMMA AccumNextInv == AccumInv /\ [AccumNext]_accumVars => AccumInv'
<1> SUFFICES ASSUME AccumInv, [AccumNext]_accumVars PROVE AccumInv'
  OBVIOUS
<1>1. AccumTypeOK /\ \A e \in Engines : Stage(e)
  BY DEF AccumInv
<1>2. CASE AccumNext
  <2>1. AccumTypeOK'
    BY <1>1, <1>2, AccumTypePreserved
  <2>2. PICK moving \in SUBSET Computing : AccumEdge(moving)
    BY <1>2 DEF AccumNext
  <2>3. \A e \in Engines : Stage(e)'
    BY <1>1, <2>1, <2>2, EveryStep DEF AccumEdge, StageStep
  <2>4. TurnInv'
    BY <2>2, TurnsKept
  <2>5. QED
    BY <2>1, <2>3, <2>4 DEF AccumInv
<1>3. CASE UNCHANGED accumVars
  <2>1. /\ ctl' = ctl /\ ser' = ser /\ wr' = wr /\ arb_ptr' = arb_ptr /\ passed' = passed
        /\ job' = job /\ chunk' = chunk /\ sent' = sent /\ cmd' = cmd
    BY <1>3 DEF accumVars, dispatchVars
  <2>2. AccumTypeOK'
    BY SMTT(40), <1>1, <2>1 DEF AccumTypeOK
  <2>3. ASSUME NEW e \in Engines PROVE Stage(e)'
    <3> USE <2>1 DEF Quiet, Still, Nothing, Free, Giving, Flushing, Cursor, Shows, Holds,
                     Write, CellOf, Overwrites
    <3>1. /\ Idle(e)' <=> Idle(e)
          /\ Compute(e)' <=> Compute(e)
          /\ Written(e)' <=> Written(e)
      BY DEF Idle, Compute, Written
    <3>2. /\ Starting(e)' <=> Starting(e)
          /\ First(e)' <=> First(e)
          /\ Second(e)' <=> Second(e)
      BY DEF Starting, First, Second
    <3>3. ASSUME NEW r \in 0 .. TILE - 2
          PROVE  /\ Even(e, r)' <=> Even(e, r)
                 /\ Odd(e, r)' <=> Odd(e, r)
      BY DEF Even, Odd
    <3>4. /\ Last(e)' <=> Last(e)
          /\ Draining(e)' <=> Draining(e)
      BY DEF Last, Draining
    <3> QED
      BY <1>1, <3>1, <3>2, <3>3, <3>4 DEF Stage
  <2>4. TurnInv'
    BY <2>1 DEF AccumInv, TurnInv, Turn, Asking
  <2>5. QED
    BY <2>2, <2>3, <2>4 DEF AccumInv
<1>4. QED
  BY <1>2, <1>3

\* The stages are the invariant the theorems below rest on.
LEMMA AccumInvariance == AccumSpec => []AccumInv
<1>1. QED
  BY AccumInitInv, AccumNextInv, PTL DEF AccumSpec

\* The arbiter of rtl/uram_accum_buf.v is fair at every write: for any number of
\* engines, none is accepted twice while the beat of another one waits.
THEOREM Fair == AccumSpec => []NoneOvertaken
<1>1. AccumInv => NoneOvertaken
  <2> SUFFICES ASSUME AccumInv, NEW e \in Asking, NEW f \in Accepted, f \in passed[e]
               PROVE  FALSE
    BY DEF NoneOvertaken
  <2>1. e \in Engines /\ f \in Engines /\ Turn(f) <= Turn(e)
    BY DEF Accepted, Asking
  <2>2. Turn(f) > Turn(e)
    BY <2>1 DEF AccumInv, TurnInv
  <2>3. Turn(f) \in 0 .. N_ENG - 1 /\ Turn(e) \in 0 .. N_ENG - 1
    BY <2>1, TurnRange DEF AccumInv
  <2>4. QED
    BY <2>1, <2>2, <2>3
<1>2. QED
  BY <1>1, AccumInvariance, PTL

-----------------------------------------------------------------------------
(* The contract.                                                           *)

LEMMA OthersStep ==
  ASSUME NEW e \in Engines, StageStep(e), e \notin Accepted
  PROVE  Contract!Take(e) \/ Contract!Return(e) \/ Contract!Keep(e)
<1>1. Takes(e) \/ Returns(e) \/ Keeps(e)
  BY DEF StageStep
<1>2. Takes(e) => Contract!Take(e)
  BY DEF Takes, Contract!Take
<1>3. Returns(e) => Contract!Return(e)
  BY DEF Returns, Contract!Return
<1>4. Keeps(e) => Contract!Keep(e)
  BY DEF Keeps, Contract!Keep
<1>5. QED
  BY <1>1, <1>2, <1>3, <1>4

LEMMA MakesStep ==
  ASSUME AccumInv, NEW e \in Accepted, StageStep(e), WritePort,
         \A f \in Engines : StageStep(f)
  PROVE  Contract!Next
<1>1. e \in Engines /\ nm = NONE /\ wr[e].held \in Owed(e)
  BY DEF Accepted, Asking, StageStep, Makes
<1>2. PICK v \in Owed(e) : v = wr[e].held
  BY <1>1
<1>3. Accepted = {e}
  BY OneAccepted DEF AccumInv
<1>4. mem' = Put(v)
  BY <1>2, <1>3 DEF WritePort
<1>5. ctl'[e].tile = ctl[e].tile /\ Owed(e)' = Owed(e) \ {v}
  BY <1>2 DEF StageStep, Makes
<1>6. Contract!Others(Engines \ {e})
  BY <1>3, OthersStep DEF Contract!Others
<1>7. Contract!Make(e, v)
  BY <1>1, <1>4, <1>5, <1>6 DEF Contract!Make, Put
<1>8. QED
  BY <1>1, <1>2, <1>7 DEF Contract!Next

\* The safety part of WritesOnce, for any number of engines and size of tile: every
\* beat of every tile is written once, in its own cell, as an overwrite in the first
\* chunk and as an addition in the others, however often the arbiter denies it, and
\* the engine gives its tile back after the last of them.
THEOREM WritesEachBeatOnce == AccumSpec => Contract!Spec
<1>1. AccumInit => Contract!Init
  <2> SUFFICES ASSUME AccumInit PROVE Contract!Init
    OBVIOUS
  <2>1. ASSUME NEW e \in Engines PROVE Owed(e) = {} /\ ctl[e].tile = NONE
    <3>1. Idle(e) /\ AccumTypeOK
      BY AccumInitInv DEF AccumInit, AccumInv, Idle, Quiet, Still, Nothing, Free
    <3>2. QED
      BY <3>1, OwedQuiet DEF Idle
  <2>2. QED
    BY <2>1 DEF AccumInit, Contract!Init
<1>2. AccumInv /\ AccumInv' /\ [AccumNext]_accumVars
        => [Contract!Next]_Contract!contractVars
  <2> SUFFICES ASSUME AccumInv, AccumInv', [AccumNext]_accumVars
               PROVE  [Contract!Next]_Contract!contractVars
    OBVIOUS
  <2>1. CASE UNCHANGED accumVars
    <3>1. ctl' = ctl /\ ser' = ser /\ wr' = wr /\ nm' = nm /\ mem' = mem
      BY <2>1 DEF accumVars
    <3>2. \A e \in Engines : Owed(e)' = Owed(e)
      BY <3>1 DEF Owed, ToGive, Given, Held, Write, CellOf, Overwrites
    <3>3. QED
      BY <3>1, <3>2 DEF Contract!contractVars
  <2>2. CASE AccumNext
    <3>1. PICK moving \in SUBSET Computing : AccumEdge(moving)
      BY <2>2 DEF AccumNext
    <3>2. \A e \in Engines : StageStep(e)
      BY <3>1, EveryStep DEF AccumEdge, AccumInv
    <3>3. WritePort
      BY <3>1 DEF AccumEdge
    <3>4. CASE Accepted # {}
      BY <3>2, <3>3, <3>4, MakesStep DEF Accepted, Asking
    <3>5. CASE Accepted = {}
      <4>1. mem' = IF nm = NONE THEN mem ELSE [mem EXCEPT ![nm] = Foreign]
        BY <3>3, <3>5 DEF WritePort
      <4>2. Contract!Others(Engines)
        BY <3>2, <3>5, OthersStep DEF Contract!Others
      <4>3. Contract!Adapter \/ Contract!Idle
        BY <4>1, <4>2 DEF Contract!Adapter, Contract!Idle
      <4>4. QED
        BY <4>3 DEF Contract!Next
    <3>6. QED
      BY <3>4, <3>5
  <2>3. QED
    BY <2>1, <2>2
<1>3. QED
  BY <1>1, <1>2, AccumInvariance, PTL DEF AccumSpec, Contract!Spec
-----------------------------------------------------------------------------
(* The dispatcher: the tiles handed out, and who works on them.            *)

Handed(n) == [cell |-> Walk[n], chunk |-> chunk, job |-> job]
Working == {e \in Engines : ~ctl[e].ready \/ (cmd # NONE /\ cmd.eng = e)}

\* An engine that is neither ready nor at work is seen done at this edge.
RestInv == \A e \in Engines :
  /\ ctl[e].ready => ctl[e].state = "IDLE" /\ ~ctl[e].done
  /\ ctl[e].done => ctl[e].state = "IDLE"
  /\ ctl[e].state = "IDLE" => ctl[e].ready \/ ctl[e].done

CommandInv == cmd # NONE => /\ cmd.eng \in Engines /\ ctl[cmd.eng].ready
                            /\ sent >= 1 /\ cmd.tile = Handed(sent)

CountedInv == /\ sent <= Len(Walk) /\ outstanding = Cardinality(Working)
              /\ AtRest => Working = {} /\ sent = 0

\* Every tile at work was handed out in this chunk, and to one engine.
TilesInv ==
  /\ \A e \in Engines : ctl[e].tile # NONE =>
       \E n \in 1 .. sent : ctl[e].tile = Handed(n) /\ (cmd # NONE => n # sent)
  /\ \A e, f \in Engines : ctl[e].tile # NONE /\ ctl[e].tile = ctl[f].tile => e = f

DispatchInv == RestInv /\ CommandInv /\ CountedInv /\ TilesInv

-----------------------------------------------------------------------------
(* The sums, beat by beat.                                                 *)

BeatOf(b) == Write(Handed(b[1]), b[2], b[3])
Owing(b) == {e \in Engines : ctl[e].tile = Handed(b[1]) /\ BeatOf(b) \in Owed(e)}

\* The chunks whose product is in the cell of the beat: those before this one, and
\* this one when its tile was handed out and nobody owes the beat.
InCell(b) == b[1] <= sent /\ Owing(b) = {} /\ ~(cmd # NONE /\ b[1] = sent)
Chunks(b) == IF InCell(b) THEN chunk + 1 ELSE chunk

\* The sum of the first n chunks.
Terms(b, n) == [k \in 1 .. n |->
                  <<[cell |-> Walk[b[1]], chunk |-> k - 1, job |-> job], b[2], b[3]>>]

SumsInv ==
  /\ nm \in AdapterCells \cup {NONE} /\ mem = [x \in Cells |-> mem[x]]
  /\ \A b \in WalkBeats :
       BeatCell(b) \notin AdapterCells /\ Chunks(b) > 0 =>
         mem[BeatCell(b)] = Terms(b, Chunks(b))

\* A flush is under way only between two products.
TurnsInv == fl_state # "FL_IDLE" \/ start # NONE => AtRest
LEMMA EnginesFinite == IsFiniteSet(Engines)
<1>1. 0 \in Int /\ N_ENG - 1 \in Int
  BY AccumSizes
<1> QED BY <1>1, FS_Interval DEF Engines

\* The controller of an engine, as the dispatcher sees it.
LEMMA CtlMoves ==
  ASSUME AccumInv, DispatchInv, NEW moving, EngineStep(moving), NEW e \in Engines
  PROVE  /\ cmd # NONE /\ cmd.eng = e =>
              ctl'[e].tile = cmd.tile /\ ~ctl'[e].ready /\ ~ctl'[e].done
              /\ ctl'[e].state = "COMPUTE"
         /\ ~(cmd # NONE /\ cmd.eng = e) /\ (ctl[e].ready \/ ctl[e].done) =>
              ctl'[e].tile = NONE /\ ctl'[e].ready /\ ~ctl'[e].done
              /\ ctl'[e].state = "IDLE"
         /\ ~ctl[e].ready /\ ~ctl[e].done =>
              /\ ~ctl'[e].ready /\ ctl[e].state # "IDLE"
              /\ ctl'[e].tile = ctl[e].tile \/ ctl'[e].tile = NONE
              /\ ctl'[e].done <=> ctl'[e].state = "IDLE"
<1>1. /\ ctl[e] \in Ctl /\ ctl'[e] = CtlNext(e, e \in moving)
      /\ ctl[e].state = "IDLE" => ctl[e].tile = NONE
  <2>1. Stage(e) /\ ctl[e] \in Ctl
    BY DEF AccumInv, AccumTypeOK
  <2>2. ctl[e].state = "IDLE" => ctl[e].tile = NONE
    BY <2>1 DEF Stage, Idle, Compute, Written, Starting, First, Second, Even, Odd, Last,
       Draining, Giving, Flushing
  <2> QED BY <2>1, <2>2, Fields
<1>2. /\ ctl[e].ready => ctl[e].state = "IDLE" /\ ~ctl[e].done
      /\ ctl[e].done => ctl[e].state = "IDLE"
      /\ ctl[e].state = "IDLE" => ctl[e].ready \/ ctl[e].done
      /\ cmd # NONE /\ cmd.eng = e => ctl[e].ready
  BY DEF DispatchInv, RestInv, CommandInv
<1>3. CASE cmd # NONE /\ cmd.eng = e
  BY <1>1, <1>2, <1>3 DEF CtlNext, Ctl
<1>4. CASE ~(cmd # NONE /\ cmd.eng = e) /\ ctl[e].state = "IDLE"
  BY <1>1, <1>2, <1>4 DEF CtlNext, Ctl
<1>5. CASE ctl[e].state = "COMPUTE"
  BY <1>1, <1>2, <1>5 DEF CtlNext, Ctl
<1>6. CASE ctl[e].state = "FLUSH"
  BY <1>1, <1>2, <1>6 DEF CtlNext, Ctl
<1>7. CASE ctl[e].state = "DONE"
  BY <1>1, <1>2, <1>7 DEF CtlNext, Ctl
<1> QED BY <1>1, <1>3, <1>4, <1>5, <1>6, <1>7 DEF Ctl

LEMMA RestKept ==
  ASSUME AccumInv, DispatchInv, NEW moving, EngineStep(moving)
  PROVE  RestInv'
<1> SUFFICES ASSUME NEW e \in Engines
             PROVE  /\ ctl'[e].ready => ctl'[e].state = "IDLE" /\ ~ctl'[e].done
                    /\ ctl'[e].done => ctl'[e].state = "IDLE"
                    /\ ctl'[e].state = "IDLE" => ctl'[e].ready \/ ctl'[e].done
  BY DEF RestInv
<1> QED BY CtlMoves

\* Who works after an edge: those not seen done, and the one commanded now.
LEMMA WorkingMoves ==
  ASSUME AccumInv, DispatchInv, NEW moving, EngineStep(moving),
         cmd' # NONE => cmd'.eng \in Ready
  PROVE  /\ IsFiniteSet(Working) /\ IsFiniteSet(Reported) /\ Reported \subseteq Working
         /\ Cardinality(Working \ Reported) = Cardinality(Working) - Cardinality(Reported)
         /\ cmd' = NONE => Working' = Working \ Reported
         /\ cmd' # NONE => /\ cmd'.eng \notin Working
                           /\ Working' = (Working \ Reported) \cup {cmd'.eng}
<1>1. Reported \subseteq Working
  BY DEF Reported, Working, DispatchInv, RestInv
<1>2. IsFiniteSet(Working) /\ IsFiniteSet(Reported)
  <2>1. Working \in SUBSET Engines /\ Reported \in SUBSET Engines
    BY DEF Working, Reported
  <2> QED BY <2>1, EnginesFinite, FS_Subset
<1>3. Cardinality(Working \ Reported) = Cardinality(Working) - Cardinality(Reported)
  <2>1. Working \cap Reported = Reported
    BY <1>1
  <2>2. Cardinality(Working \ Reported)
          = Cardinality(Working) - Cardinality(Working \cap Reported)
    BY <1>2, FS_Difference
  <2> QED BY <2>1, <2>2
<1>4. \A e \in Engines : ctl'[e].ready <=> e \notin Working \ Reported
  <2> SUFFICES ASSUME NEW e \in Engines
               PROVE  ctl'[e].ready <=> e \notin Working \ Reported
    OBVIOUS
  <2>1. CASE cmd # NONE /\ cmd.eng = e
    BY <2>1, CtlMoves DEF Working, Reported, DispatchInv, RestInv, CommandInv
  <2>2. CASE ~(cmd # NONE /\ cmd.eng = e) /\ (ctl[e].ready \/ ctl[e].done)
    BY <2>2, CtlMoves DEF Working, Reported
  <2>3. CASE ~(cmd # NONE /\ cmd.eng = e) /\ ~ctl[e].ready /\ ~ctl[e].done
    BY <2>3, CtlMoves DEF Working, Reported
  <2> QED BY <2>1, <2>2, <2>3
<1>5. Working' = {e \in Engines : ~ctl'[e].ready \/ (cmd' # NONE /\ cmd'.eng = e)}
  BY DEF Working
<1>6. cmd' # NONE => cmd'.eng \in Engines /\ cmd'.eng \notin Working
  BY DEF Ready, Working
<1>7. Working \subseteq Engines
  BY DEF Working
<1>8. cmd' = NONE => Working' = Working \ Reported
  BY <1>4, <1>5, <1>7
<1>9. cmd' # NONE => Working' = (Working \ Reported) \cup {cmd'.eng}
  BY <1>4, <1>5, <1>6, <1>7
<1> QED BY <1>1, <1>2, <1>3, <1>6, <1>8, <1>9

\* A chunk, and a job, ends when nobody works.
LEMMA NobodyWorks ==
  ASSUME AccumInv, DispatchInv, Cardinality(Working) = Cardinality(Reported) \/ Working = {}
  PROVE  cmd = NONE /\ \A e \in Engines : ctl[e].tile = NONE /\ ctl[e].state = "IDLE"
<1>1. Working = Reported \/ Working = {}
  <2>1. Reported \in SUBSET Working
    BY DEF Reported, Working, DispatchInv, RestInv
  <2>2. Working \in SUBSET Engines
    BY DEF Working
  <2> QED BY <2>1, <2>2, EnginesFinite, FS_Subset
<1>2. cmd = NONE
  BY <1>1 DEF DispatchInv, CommandInv, RestInv, Working, Reported
<1>3. ASSUME NEW e \in Engines PROVE ctl[e].state = "IDLE"
  BY <1>1, <1>3 DEF DispatchInv, RestInv, Working, Reported
<1>4. ASSUME NEW e \in Engines PROVE ctl[e].tile = NONE
  <2>1. Stage(e)
    BY <1>4 DEF AccumInv
  <2> QED BY <2>1, <1>3, <1>4 DEF Stage, Idle, Compute, Written, Starting, First, Second,
          Even, Odd, Last, Draining, Giving, Flushing
<1> QED BY <1>2, <1>3, <1>4

\* A set of numbers has a least one.
LEMMA Least ==
  ASSUME NEW S \in SUBSET Nat, S # {}
  PROVE  \E x \in S : \A y \in S : x <= y
<1> DEFINE R == OpToRel(<, Nat)
<1>1. \A x, y \in Nat : y < x => <<y, x>> \in R
  BY Zenon DEF OpToRel
<1>2. IsWellFoundedOn(R, Nat)
  BY NatLessThanWellFounded
<1> HIDE DEF R
<1>3. PICK x \in S : \A y \in S : ~(<<y, x>> \in R)
  BY <1>2, WFMin
<1>4. ASSUME NEW y \in S  PROVE x <= y
  <2>1. x \in Nat /\ y \in Nat
    OBVIOUS
  <2>2. ~(y < x)
    BY <1>1, <1>3, <2>1
  <2> QED BY <2>1, <2>2
<1> QED BY <1>4

\* Two tiles of the walk differ.
LEMMA TilesDiffer ==
  ASSUME NEW m \in 1 .. Len(Walk), NEW n \in 1 .. Len(Walk), Walk[m] = Walk[n]
  PROVE  m = n
<1>1. TILE \in Nat \ {0} /\ 0 \in 0 .. TILE - 1
  BY AccumSizes
<1>2. <<m, 0, 0>> \in WalkBeats /\ <<n, 0, 0>> \in WalkBeats
  BY <1>1 DEF WalkBeats
<1>3. BeatCell(<<m, 0, 0>>) = BeatCell(<<n, 0, 0>>)
  BY DEF BeatCell
<1>4. <<m, 0, 0>> = <<n, 0, 0>>
  BY <1>2, <1>3, OutputAssumption
<1> QED BY <1>4

LEMMA HandedDiffer ==
  ASSUME NEW m \in 1 .. Len(Walk), NEW n \in 1 .. Len(Walk), Handed(m) = Handed(n)
  PROVE  m = n
BY TilesDiffer DEF Handed

LEMMA SentType == ASSUME AccumInv PROVE sent \in Nat /\ chunk \in 0 .. NUM_CHUNKS
  BY DEF AccumInv, AccumTypeOK

LEMMA LenType == Len(Walk) \in Nat
  BY AccumAssumption

\* The tiles at work were at work before, or the one commanded: still one engine each.
LEMMA TilesMove ==
  ASSUME AccumInv, DispatchInv, NEW moving, EngineStep(moving)
  PROVE  /\ \A e \in Engines : ctl'[e].tile # NONE =>
              \/ ctl'[e].tile = ctl[e].tile
              \/ cmd # NONE /\ cmd.eng = e /\ ctl'[e].tile = cmd.tile
         /\ \A e \in Engines : ctl'[e].tile # NONE =>
              \E n \in 1 .. sent : ctl'[e].tile = Handed(n)
         /\ \A e, f \in Engines :
              ctl'[e].tile # NONE /\ ctl'[e].tile = ctl'[f].tile => e = f
<1>1. ASSUME NEW e \in Engines, ctl'[e].tile # NONE
      PROVE  \/ ctl'[e].tile = ctl[e].tile
             \/ cmd # NONE /\ cmd.eng = e /\ ctl'[e].tile = cmd.tile
  BY <1>1, CtlMoves
<1>2. ASSUME NEW e \in Engines, ctl'[e].tile # NONE
      PROVE  \E n \in 1 .. sent : ctl'[e].tile = Handed(n)
  <2>1. CASE ctl'[e].tile = ctl[e].tile
    BY <1>2, <2>1 DEF DispatchInv, TilesInv
  <2>2. CASE cmd # NONE /\ cmd.eng = e /\ ctl'[e].tile = cmd.tile
    BY <2>2, SentType DEF DispatchInv, CommandInv
  <2> QED BY <1>1, <1>2, <2>1, <2>2
<1>3. ASSUME NEW e \in Engines, NEW f \in Engines, ctl'[e].tile # NONE,
             ctl'[e].tile = ctl'[f].tile
      PROVE  e = f
  <2>1. CASE ctl'[e].tile = ctl[e].tile /\ ctl'[f].tile = ctl[f].tile
    BY <1>3, <2>1 DEF DispatchInv, TilesInv
  <2>2. ASSUME NEW g \in Engines, NEW k \in Engines, ctl'[g].tile = ctl'[k].tile,
               cmd # NONE, cmd.eng = g, ctl'[g].tile = cmd.tile,
               ctl'[k].tile = ctl[k].tile, ctl'[k].tile # NONE
        PROVE  FALSE
    <3>1. PICK n \in 1 .. sent : ctl[k].tile = Handed(n) /\ n # sent
      BY <2>2 DEF DispatchInv, TilesInv
    <3>2. cmd.tile = Handed(sent) /\ sent >= 1 /\ sent <= Len(Walk)
      BY <2>2 DEF DispatchInv, CommandInv, CountedInv
    <3>3. Handed(n) = Handed(sent)
      BY <2>2, <3>1, <3>2
    <3> QED BY <3>1, <3>2, <3>3, HandedDiffer, SentType, LenType
  <2> QED BY <1>1, <1>3, <2>1, <2>2
<1> QED BY <1>1, <1>2, <1>3

LEMMA WaitKeeps ==
  ASSUME AccumInv, DispatchInv, NEW moving, EngineStep(moving), Wait
  PROVE  DispatchInv'
<1>1. cmd' = NONE /\ outstanding' = outstanding - Cardinality(Reported)
      /\ job' = job /\ chunk' = chunk /\ sent' = sent
  BY DEF Wait
<1>2. RestInv' /\ CommandInv'
  BY <1>1, RestKept DEF CommandInv
<1>3. CountedInv'
  <2>1. Working' = Working \ Reported
        /\ Cardinality(Working \ Reported) = Cardinality(Working) - Cardinality(Reported)
    BY <1>1, WorkingMoves
  <2> QED BY <1>1, <2>1 DEF DispatchInv, CountedInv, AtRest
<1>4. TilesInv'
  <2>1. \A n : Handed(n)' = Handed(n)
    BY <1>1 DEF Handed
  <2> QED BY <1>1, <2>1, TilesMove DEF TilesInv
<1> QED BY <1>2, <1>3, <1>4 DEF DispatchInv

\* A tile that is dispatched is shown to an engine that is ready for it.
LEMMA CommandShown ==
  ASSUME AccumInv, Dispatch
  PROVE  cmd' # NONE /\ cmd'.eng \in Ready /\ cmd'.tile = Handed(sent + 1)
<1>1. ~AtRest /\ sent < Len(Walk) /\ sent \in Nat
  BY SentType DEF Dispatch
<1>2. cmd'.eng \in Ready /\ cmd'.tile = Handed(sent + 1)
  <2>1. PICK d \in Ready : \A f \in Ready : d <= f
    <3>1. PICK f \in Ready : TRUE
      BY DEF Dispatch
    <3>2. Ready \in SUBSET Nat /\ Ready # {} /\ Ready \subseteq 0 .. N_ENG - 1
      BY <3>1, AccumSizes DEF Ready, Engines
    <3> QED BY <3>2, Least
  <2>2. (CHOOSE e \in Ready : \A f \in Ready : e <= f) \in Ready
    BY <2>1
  <2> QED BY <2>2 DEF Dispatch, Handed
<1>3. cmd' # NONE /\ Handed(sent + 1) \in Tile
  <2>1. Handed(sent + 1) \in Tile
    <3>1. Walk[sent + 1] \in Cells
      BY <1>1, AccumAssumption, LenType
    <3>2. chunk \in 0 .. NUM_CHUNKS - 1 /\ job \in {0, 1}
      BY <1>1, AccumSizes DEF AccumInv, AccumTypeOK, AtRest
    <3> QED BY <3>1, <3>2 DEF Handed, Tile
  <2>2. cmd' = [eng |-> cmd'.eng, tile |-> cmd'.tile]
    BY DEF Dispatch
  <2>3. cmd' \in [eng : Engines, tile : Tile]
    BY <1>2, <2>1, <2>2 DEF Ready
  <2> QED BY <2>1, <2>3, NoValueAssumption
<1> QED BY <1>2, <1>3

LEMMA DispatchKeeps ==
  ASSUME AccumInv, DispatchInv, NEW moving, EngineStep(moving), Dispatch
  PROVE  DispatchInv'
<1>1. /\ ~AtRest /\ sent < Len(Walk) /\ sent' = sent + 1 /\ sent \in Nat
      /\ outstanding' = outstanding + 1 - Cardinality(Reported)
      /\ job' = job /\ chunk' = chunk
  BY SentType DEF Dispatch
<1>2. cmd'.eng \in Ready /\ cmd'.tile = Handed(sent + 1) /\ cmd' # NONE
  BY CommandShown
<1>4. \A n : Handed(n)' = Handed(n)
  BY <1>1 DEF Handed
<1>5. RestInv'
  BY RestKept
<1>6. CommandInv'
  <2>1. cmd'.eng \in Engines /\ ctl[cmd'.eng].ready /\ ~(cmd # NONE /\ cmd.eng = cmd'.eng)
    BY <1>2 DEF Ready
  <2>2. ctl'[cmd'.eng].ready
    BY <2>1, CtlMoves
  <2> QED BY <1>1, <1>2, <1>4, <2>1, <2>2 DEF CommandInv
<1>7. CountedInv'
  <2>1. /\ IsFiniteSet(Working) /\ cmd'.eng \notin Working
        /\ Working' = (Working \ Reported) \cup {cmd'.eng}
        /\ Cardinality(Working \ Reported) = Cardinality(Working) - Cardinality(Reported)
    BY <1>2, WorkingMoves
  <2>2. IsFiniteSet(Working \ Reported)
    BY <2>1, FS_Difference
  <2>3. Cardinality(Working') = Cardinality(Working \ Reported) + 1
    BY <2>1, <2>2, FS_AddElement
  <2>4. Cardinality(Working) \in Nat /\ Cardinality(Working \ Reported) \in Nat
    BY <2>1, <2>2, FS_CardinalityType
  <2>5. Cardinality(Reported) \in Nat
    BY WorkingMoves, FS_CardinalityType, <1>2
  <2>6. outstanding = Cardinality(Working)
    BY DEF DispatchInv, CountedInv
  <2> QED BY <1>1, <2>1, <2>3, <2>4, <2>5, <2>6, LenType DEF CountedInv, AtRest
<1>8. TilesInv'
  <2>1. ASSUME NEW e \in Engines, ctl'[e].tile # NONE
        PROVE  \E n \in 1 .. sent' : ctl'[e].tile = Handed(n) /\ n # sent'
    <3>1. PICK n \in 1 .. sent : ctl'[e].tile = Handed(n)
      BY <2>1, TilesMove
    <3> QED BY <1>1, <3>1
  <2> QED BY <1>4, <2>1, TilesMove DEF TilesInv
<1> QED BY <1>5, <1>6, <1>7, <1>8 DEF DispatchInv

\* Between two products, and two chunks, nobody works.
LEMMA StopKeeps ==
  ASSUME AccumInv, DispatchInv, NEW moving, EngineStep(moving), EndChunk \/ BeginJob
  PROVE  DispatchInv' /\ \A e \in Engines : ctl'[e].tile = NONE
<1>1. /\ Cardinality(Working) = Cardinality(Reported) \/ Working = {}
      /\ sent' = 0 /\ cmd' = NONE /\ outstanding' = 0
  BY DEF EndChunk, BeginJob, DispatchInv, CountedInv
<1>2. Working' = {}
  <2>1. Working' = Working \ Reported /\ Reported \in SUBSET Working /\ IsFiniteSet(Working)
    BY <1>1, WorkingMoves
  <2>2. Working \ Reported = {}
    BY <1>1, <2>1, FS_Subset
  <2> QED BY <2>1, <2>2
<1>3. \A e \in Engines : ctl'[e].tile = NONE
  BY <1>1, NobodyWorks, CtlMoves DEF DispatchInv, RestInv
<1>4. CountedInv'
  BY <1>1, <1>2, FS_EmptySet, LenType DEF CountedInv
<1>5. RestInv' /\ CommandInv' /\ TilesInv'
  BY <1>1, <1>3, RestKept DEF CommandInv, TilesInv
<1> QED BY <1>3, <1>4, <1>5 DEF DispatchInv

LEMMA DispatchInit == AccumInit => DispatchInv
<1> SUFFICES ASSUME AccumInit PROVE DispatchInv
  OBVIOUS
<1>1. Working = {}
  BY DEF AccumInit, Working
<1>2. CountedInv
  BY <1>1, FS_EmptySet, LenType DEF AccumInit, CountedInv
<1> QED BY <1>2 DEF AccumInit, DispatchInv, RestInv, CommandInv, TilesInv

LEMMA DispatchNext ==
  ASSUME AccumInv, DispatchInv, [AccumNext]_accumVars
  PROVE  DispatchInv'
<1>1. CASE AccumNext
  <2>1. PICK moving \in SUBSET Computing :
          (Wait \/ Dispatch \/ EndChunk \/ BeginJob) /\ EngineStep(moving)
    BY <1>1 DEF AccumNext, AccumEdge
  <2> QED BY <2>1, WaitKeeps, DispatchKeeps, StopKeeps
<1>2. CASE UNCHANGED accumVars
  BY <1>2 DEF accumVars, dispatchVars, DispatchInv, RestInv, CommandInv, CountedInv,
     TilesInv, Handed, Working, AtRest
<1> QED BY <1>1, <1>2

LEMMA BeatType ==
  ASSUME NEW b \in WalkBeats
  PROVE  /\ b[1] \in 1 .. Len(Walk) /\ b[2] \in 0 .. TILE - 1 /\ b[3] \in {0, 1}
         /\ BeatCell(b) \in Cells
<1>1. b[1] \in 1 .. Len(Walk) /\ b[2] \in 0 .. TILE - 1 /\ b[3] \in {0, 1}
  BY DEF WalkBeats
<1> DEFINE t == [cell |-> Walk[b[1]], chunk |-> 0, job |-> 0]
<1>2. t \in Tile
  <2>1. Walk[b[1]] \in Cells
    BY <1>1, AccumAssumption
  <2>2. 0 \in 0 .. NUM_CHUNKS - 1
    BY AccumSizes
  <2> QED BY <2>1, <2>2 DEF Tile
<1>3. Write(t, b[2], b[3]).cell = BeatCell(b)
  BY DEF Write, CellOf, BeatCell
<1>4. Write(t, b[2], b[3]) \in WriteSet
  BY <1>1, <1>2, WriteType
<1> QED BY <1>1, <1>3, <1>4 DEF WriteSet

LEMMA BeatOfCell ==
  ASSUME NEW b
  PROVE  BeatOf(b) = [cell |-> BeatCell(b), data |-> <<Handed(b[1]), b[2], b[3]>>,
                      accum |-> chunk # 0]
  BY DEF BeatOf, Write, CellOf, BeatCell, Overwrites, Handed

\* Two beats differ, and their cells.
LEMMA BeatsDiffer ==
  ASSUME NEW b \in WalkBeats, NEW c \in WalkBeats, BeatCell(b) = BeatCell(c)
  PROVE  b = c
  BY OutputAssumption

\* An engine owes writes of its own tile, none when it has none.
LEMMA OwedOwn ==
  ASSUME AccumInv, NEW e \in Engines
  PROVE  Owed(e) \subseteq Writes(ctl[e].tile) /\ (ctl[e].tile = NONE => Owed(e) = {})
<1> DEFINE t == ctl[e].tile
<1>1. Stage(e) /\ OwedTable
  BY OwedIsTable DEF AccumInv
<1>2. \A r, h : From(t, r, h) \subseteq Writes(t)
  BY DEF From, Rest, Writes
<1>3. CASE Idle(e) \/ Written(e)
  BY <1>1, <1>3 DEF OwedTable
<1>4. CASE Compute(e) \/ Starting(e) \/ First(e) \/ Second(e)
  <2>1. Owed(e) = Writes(t)
    BY <1>1, <1>4 DEF OwedTable
  <2>2. t \in Tile
    BY <1>4 DEF Compute, Starting, First, Second, Giving, Flushing
  <2> QED BY <2>1, <2>2, NoValueAssumption
<1>5. ASSUME NEW r \in 0 .. TILE - 2, Even(e, r) \/ Odd(e, r)
      PROVE  Owed(e) \subseteq Writes(t) /\ t \in Tile
  <2>1. Owed(e) = From(t, r, 0) \/ Owed(e) = From(t, r, 1)
    BY <1>1, <1>5 DEF OwedTable
  <2>2. t \in Tile
    BY <1>5 DEF Even, Odd, Giving, Flushing
  <2> QED BY <1>2, <2>1, <2>2
<1>6. CASE Last(e) \/ Draining(e)
  <2>1. Owed(e) = From(t, TILE - 1, 0) \/ Owed(e) = From(t, TILE - 1, 1)
    BY <1>1, <1>6 DEF OwedTable
  <2>2. t \in Tile
    BY <1>6 DEF Last, Draining, Flushing
  <2> QED BY <1>2, <2>1, <2>2, NoValueAssumption
<1> QED BY <1>1, <1>3, <1>4, <1>5, <1>6, NoValueAssumption DEF Stage

\* What an engine owes are beats of the walk.
LEMMA OwedBeat ==
  ASSUME AccumInv, DispatchInv, NEW e \in Engines, NEW v \in Owed(e)
  PROVE  \E b \in WalkBeats : /\ v = BeatOf(b) /\ e \in Owing(b) /\ b[1] <= sent
                              /\ cmd # NONE => b[1] # sent
<1>1. ctl[e].tile # NONE /\ v \in Writes(ctl[e].tile)
  BY OwedOwn
<1>2. PICK n \in 1 .. sent : ctl[e].tile = Handed(n) /\ (cmd # NONE => n # sent)
  BY <1>1 DEF DispatchInv, TilesInv
<1>3. PICK x \in (0 .. TILE - 1) \X {0, 1} : v = Write(ctl[e].tile, x[1], x[2])
  BY <1>1 DEF Writes
<1> DEFINE b == <<n, x[1], x[2]>>
<1>4. n \in 1 .. Len(Walk) /\ n <= sent
  BY <1>2, SentType, LenType DEF DispatchInv, CountedInv
<1>5. b \in WalkBeats
  BY <1>3, <1>4 DEF WalkBeats
<1>6. v = BeatOf(b) /\ e \in Owing(b)
  BY <1>2, <1>3 DEF BeatOf, Owing
<1> QED BY <1>2, <1>4, <1>5, <1>6

\* One engine owes a beat, at most.
LEMMA OneOwes ==
  ASSUME AccumInv, DispatchInv, NEW b \in WalkBeats, NEW e \in Owing(b), NEW f \in Owing(b)
  PROVE  e = f
<1>1. e \in Engines /\ f \in Engines /\ ctl[e].tile = ctl[f].tile
      /\ BeatOf(b) \in Owed(e)
  BY DEF Owing
<1>2. ctl[e].tile # NONE
  BY <1>1, OwedOwn
<1> QED BY <1>1, <1>2 DEF DispatchInv, TilesInv

\* Beats of the chunk under way are the same write only when they are the same beat.
LEMMA SameBeat ==
  ASSUME NEW b \in WalkBeats, NEW c \in WalkBeats, BeatOf(b) = BeatOf(c)
  PROVE  b = c
<1>1. BeatCell(b) = BeatCell(c)
  BY BeatOfCell
<1> QED BY <1>1, BeatsDiffer

\* The sum of one chunk more.
LEMMA TermsNext ==
  ASSUME NEW b, NEW n \in Nat
  PROVE  /\ Append(Terms(b, n), <<[cell |-> Walk[b[1]], chunk |-> n, job |-> job],
                                  b[2], b[3]>>) = Terms(b, n + 1)
         /\ n = 0 => <<<<[cell |-> Walk[b[1]], chunk |-> n, job |-> job], b[2], b[3]>>>>
                       = Terms(b, 1)
<1> DEFINE S == {Terms(b, k)[j] : k \in Nat, j \in Nat}
           d(k) == <<[cell |-> Walk[b[1]], chunk |-> k - 1, job |-> job], b[2], b[3]>>
           D == {d(k) : k \in Nat \ {0}}
<1>1. Terms(b, n) = [k \in 1 .. n |-> d(k)] /\ Terms(b, n + 1) = [k \in 1 .. n + 1 |-> d(k)]
      /\ Terms(b, 1) = [k \in 1 .. 1 |-> d(k)]
  BY DEF Terms
<1>2. \A k \in 1 .. n + 1 : d(k) \in D
  OBVIOUS
<1>3. d(n + 1) = <<[cell |-> Walk[b[1]], chunk |-> n, job |-> job], b[2], b[3]>>
  OBVIOUS
<1> HIDE DEF d, D
<1>4. Terms(b, n) \in Seq(D) /\ Len(Terms(b, n)) = n
  BY <1>1, <1>2
<1>5. Append(Terms(b, n), d(n + 1)) = Terms(b, n + 1)
  BY <1>1, <1>2, <1>4
<1>6. n = 0 => <<d(n + 1)>> = Terms(b, 1)
  BY <1>1
<1> QED BY <1>3, <1>5, <1>6

\* An edge within a chunk.
LEMMA OwingMoves ==
  ASSUME AccumInv, DispatchInv, NEW moving, EngineStep(moving), job' = job, chunk' = chunk,
         \A e \in Engines : StageStep(e), NEW b \in WalkBeats
  PROVE  /\ cmd # NONE /\ b[1] = sent => Owing(b)' # {}
         /\ ~(cmd # NONE /\ b[1] = sent) =>
              Owing(b)' = Owing(b) \ {e \in Accepted : wr[e].held = BeatOf(b)}
<1>1. BeatOf(b)' = BeatOf(b) /\ \A n : Handed(n)' = Handed(n)
  BY DEF BeatOf, Handed, Write, CellOf, Overwrites
<1>2. b[1] \in 1 .. Len(Walk) /\ b[2] \in 0 .. TILE - 1 /\ b[3] \in {0, 1}
  BY BeatType
<1>3. Owing(b)' = {e \in Engines : ctl'[e].tile = Handed(b[1]) /\ BeatOf(b) \in Owed(e)'}
  BY <1>1 DEF Owing
<1>4. ASSUME cmd # NONE, b[1] = sent PROVE Owing(b)' # {}
  <2>0. PICK e \in Engines : e = cmd.eng
    BY <1>4 DEF DispatchInv, CommandInv
  <2>1. cmd.tile = Handed(b[1]) /\ ctl'[e].tile = cmd.tile /\ ctl[e].tile = NONE
    <3>1. ctl[e].ready /\ cmd.tile = Handed(b[1])
      BY <1>4, <2>0 DEF DispatchInv, CommandInv
    <3>2. ctl[e].state = "IDLE" /\ Stage(e)
      BY <3>1 DEF DispatchInv, RestInv, AccumInv
    <3>3. ctl[e].tile = NONE
      BY <3>2 DEF Stage, Idle, Compute, Written, Starting, First, Second, Even, Odd, Last,
         Draining, Giving, Flushing
    <3> QED BY <1>4, <2>0, <3>1, <3>3, CtlMoves
  <2>2. cmd.tile # NONE
    <3>1. cmd.tile \in Tile
      BY <1>4 DEF AccumInv, AccumTypeOK
    <3> QED BY <3>1, NoValueAssumption
  <2>3. Owed(e)' = Writes(Handed(b[1]))
    <3>1. StageStep(e) /\ Owed(e) = {} /\ ctl'[e].tile # NONE
      BY <2>1, <2>2, OwedOwn
    <3>2. Takes(e)
      BY <2>1, <3>1 DEF StageStep, Returns, Keeps, Makes
    <3> QED BY <2>1, <3>2 DEF Takes
  <2>4. BeatOf(b) \in Writes(Handed(b[1]))
    <3>1. <<b[2], b[3]>> \in (0 .. TILE - 1) \X {0, 1}
      BY <1>2
    <3> QED BY <3>1 DEF BeatOf, Writes
  <2>5. e \in Owing(b)'
    BY <1>3, <2>1, <2>3, <2>4
  <2> QED BY <2>5
<1>5. ASSUME ~(cmd # NONE /\ b[1] = sent), NEW e \in Engines
      PROVE  (ctl'[e].tile = Handed(b[1]) /\ BeatOf(b) \in Owed(e)')
               <=> (e \in Owing(b) /\ ~(e \in Accepted /\ wr[e].held = BeatOf(b)))
  <2>1. StageStep(e)
    OBVIOUS
  <2>2. CASE e \in Accepted
    BY <2>1, <2>2 DEF StageStep, Makes, Owing
  <2>3. CASE e \notin Accepted /\ Keeps(e)
    BY <2>3 DEF Keeps, Owing
  <2>4. CASE e \notin Accepted /\ Returns(e)
    BY <2>4 DEF Returns, Owing
  <2>5. CASE e \notin Accepted /\ Takes(e)
    <3>1. ctl[e].tile = NONE /\ ctl'[e].tile \in Tile /\ ctl'[e].tile # NONE
      BY <2>5, NoValueAssumption DEF Takes
    <3>2. e \notin Owing(b)
      BY <3>1, OwedOwn DEF Owing
    <3>3. ctl'[e].tile = Handed(sent) /\ sent \in 1 .. Len(Walk) /\ cmd # NONE
      <4>1. cmd # NONE /\ cmd.eng = e /\ ctl'[e].tile = cmd.tile
        BY <3>1, TilesMove
      <4> QED BY <4>1, SentType, LenType DEF DispatchInv, CommandInv, CountedInv
    <3>4. ctl'[e].tile # Handed(b[1])
      BY <1>2, <1>5, <3>3, HandedDiffer
    <3> QED BY <3>2, <3>4
  <2> QED BY <2>1, <2>2, <2>3, <2>4, <2>5 DEF StageStep
<1>6. ASSUME ~(cmd # NONE /\ b[1] = sent)
      PROVE  Owing(b)' = Owing(b) \ {e \in Accepted : wr[e].held = BeatOf(b)}
  <2>1. Owing(b) \subseteq Engines
    BY DEF Owing
  <2> QED BY <1>3, <1>5, <1>6, <2>1
<1> QED BY <1>4, <1>6

\* A beat is in its cell from the edge at which it is written, and stays there.
LEMMA InCellMoves ==
  ASSUME AccumInv, DispatchInv, NEW moving, EngineStep(moving), Wait \/ Dispatch,
         \A e \in Engines : StageStep(e), NEW b \in WalkBeats
  PROVE  /\ (\E e \in Accepted : wr[e].held = BeatOf(b)) => ~InCell(b) /\ InCell(b)'
         /\ ~(\E e \in Accepted : wr[e].held = BeatOf(b)) => InCell(b)' = InCell(b)
<1> DEFINE W == {e \in Accepted : wr[e].held = BeatOf(b)}
<1>1. /\ job' = job /\ chunk' = chunk /\ sent \in Nat /\ b[1] \in Nat
      /\ \/ sent' = sent /\ cmd' = NONE
         \/ sent' = sent + 1 /\ cmd' # NONE
  <2>1. Dispatch => cmd' # NONE
    BY CommandShown
  <2> QED BY <2>1, SentType, BeatType, LenType DEF Wait, Dispatch
<1>2. InCell(b)' <=> b[1] <= sent' /\ Owing(b)' = {} /\ ~(cmd' # NONE /\ b[1] = sent')
  BY DEF InCell
<1>3. ASSUME NEW e \in W
      PROVE  Owing(b) = {e} /\ b[1] <= sent /\ ~(cmd # NONE /\ b[1] = sent)
  <2>1. e \in Engines /\ e \in Accepted /\ wr[e].held = BeatOf(b)
    BY DEF Accepted, Asking
  <2>2. BeatOf(b) \in Owed(e)
    BY <2>1 DEF StageStep, Makes
  <2>3. PICK c \in WalkBeats : /\ BeatOf(b) = BeatOf(c) /\ e \in Owing(c) /\ c[1] <= sent
                               /\ cmd # NONE => c[1] # sent
    BY <2>1, <2>2, OwedBeat
  <2>4. c = b
    BY <2>3, SameBeat
  <2>5. \A f \in Owing(b) : f = e
    BY <2>3, <2>4, OneOwes
  <2> QED BY <2>3, <2>4, <2>5
<1>4. CASE W # {}
  <2>1. PICK e \in W : TRUE
    BY <1>4
  <2>2. Owing(b)' = Owing(b) \ W
    BY <1>1, <1>3, <2>1, OwingMoves
  <2>3. Owing(b)' = {} /\ Owing(b) # {}
    BY <1>3, <2>1, <2>2
  <2> QED BY <1>1, <1>2, <1>3, <2>1, <2>3 DEF InCell
<1>5. CASE W = {}
  <2>1. CASE cmd # NONE /\ b[1] = sent
    <3>1. Owing(b)' # {}
      BY <1>1, <2>1, OwingMoves
    <3> QED BY <1>2, <1>5, <2>1, <3>1 DEF InCell
  <2>2. CASE ~(cmd # NONE /\ b[1] = sent)
    <3>1. Owing(b)' = Owing(b) \ W
      BY <1>1, <2>2, OwingMoves
    <3> QED BY <1>1, <1>2, <1>5, <2>2, <3>1 DEF InCell
  <2> QED BY <2>1, <2>2
<1> QED BY <1>4, <1>5

\* What an edge writes: one beat, into its own cell, or the adapter's word.
LEMMA MemMoves ==
  ASSUME AccumInv, DispatchInv, SumsInv, WritePort, \A e \in Engines : StageStep(e),
         NEW b \in WalkBeats, BeatCell(b) \notin AdapterCells
  PROVE  /\ mem' = [x \in Cells |-> mem'[x]]
         /\ IF \E e \in Accepted : wr[e].held = BeatOf(b)
              THEN mem'[BeatCell(b)] =
                     IF chunk # 0
                       THEN Append(mem[BeatCell(b)], <<Handed(b[1]), b[2], b[3]>>)
                       ELSE <<<<Handed(b[1]), b[2], b[3]>>>>
              ELSE mem'[BeatCell(b)] = mem[BeatCell(b)]
<1>1. /\ BeatCell(b) \in Cells /\ nm \in AdapterCells \cup {NONE}
      /\ mem = [x \in Cells |-> mem[x]] /\ AdapterCells \subseteq Cells
  BY BeatType, AccumAssumption DEF SumsInv
<1>2. CASE Accepted = {}
  <2>1. mem' = IF nm = NONE THEN mem ELSE [mem EXCEPT ![nm] = Foreign]
    BY <1>2 DEF WritePort
  <2> QED BY <1>1, <1>2, <2>1
<1>3. CASE Accepted # {}
  <2>1. PICK e \in Accepted : mem' = Put(wr[e].held)
    BY <1>3 DEF WritePort
  <2>2. Accepted = {e} /\ e \in Engines
    BY <2>1, OneAccepted DEF AccumInv, Accepted, Asking
  <2>3. wr[e].held \in Owed(e)
    BY <2>1, <2>2 DEF StageStep, Makes
  <2>4. PICK c \in WalkBeats : wr[e].held = BeatOf(c)
    BY <2>2, <2>3, OwedBeat
  <2>5. mem' = [mem EXCEPT ![BeatCell(c)] =
                  IF chunk # 0 THEN Append(@, <<Handed(c[1]), c[2], c[3]>>)
                               ELSE <<<<Handed(c[1]), c[2], c[3]>>>>]
    <3>1. BeatOf(c) = [cell |-> BeatCell(c), data |-> <<Handed(c[1]), c[2], c[3]>>,
                       accum |-> chunk # 0]
      BY BeatOfCell
    <3>2. /\ BeatOf(c).cell = BeatCell(c) /\ BeatOf(c).accum = (chunk # 0)
          /\ BeatOf(c).data = <<Handed(c[1]), c[2], c[3]>>
      BY <3>1
    <3>3. mem' = Put(BeatOf(c))
      BY <2>1, <2>4
    <3> QED BY <3>2, <3>3 DEF Put
  <2>6. BeatCell(c) \in Cells
    BY BeatType
  <2>7. CASE c = b
    BY <1>1, <2>1, <2>4, <2>5, <2>6, <2>7
  <2>8. CASE c # b
    <3>1. BeatCell(c) # BeatCell(b) /\ BeatOf(c) # BeatOf(b)
      BY <2>8, BeatsDiffer, SameBeat
    <3> QED BY <1>1, <2>2, <2>4, <2>5, <2>6, <3>1
  <2> QED BY <2>7, <2>8
<1> QED BY <1>2, <1>3

LEMMA SumsWithin ==
  ASSUME AccumInv, DispatchInv, SumsInv, NEW moving, AccumEdge(moving), Wait \/ Dispatch,
         \A e \in Engines : StageStep(e)
  PROVE  SumsInv'
<1>1. /\ job' = job /\ chunk' = chunk /\ chunk \in Nat
      /\ WritePort /\ EngineStep(moving) /\ nm' \in AdapterCells \cup {NONE}
  BY SentType, AccumSizes DEF Wait, Dispatch, AccumEdge
<1>2. mem' = [x \in Cells |-> mem'[x]]
  <2>1. CASE Accepted = {}
    BY SMTT(40), <1>1, <2>1 DEF WritePort, SumsInv
  <2>2. CASE Accepted # {}
    <3>1. PICK e \in Accepted : mem' = Put(wr[e].held)
      BY <1>1, <2>2 DEF WritePort
    <3> QED BY <3>1 DEF Put, SumsInv
  <2> QED BY <2>1, <2>2
<1>3. ASSUME NEW b \in WalkBeats, BeatCell(b) \notin AdapterCells, Chunks(b)' > 0
      PROVE  mem'[BeatCell(b)] = Terms(b, Chunks(b))'
  <2> DEFINE now == \E e \in Accepted : wr[e].held = BeatOf(b)
  <2>1. /\ now => ~InCell(b) /\ InCell(b)'
        /\ ~now => InCell(b)' = InCell(b)
    BY <1>1, InCellMoves
  <2>2. \A n : Terms(b, n)' = Terms(b, n)
    BY <1>1 DEF Terms
  <2>3. /\ Chunks(b) = IF InCell(b) THEN chunk + 1 ELSE chunk
        /\ Chunks(b)' = IF InCell(b)' THEN chunk + 1 ELSE chunk
    BY <1>1 DEF Chunks
  <2>4. Chunks(b) > 0 => mem[BeatCell(b)] = Terms(b, Chunks(b))
    BY <1>3 DEF SumsInv
  <2>5. IF now THEN mem'[BeatCell(b)] =
                      IF chunk # 0
                        THEN Append(mem[BeatCell(b)], <<Handed(b[1]), b[2], b[3]>>)
                        ELSE <<<<Handed(b[1]), b[2], b[3]>>>>
               ELSE mem'[BeatCell(b)] = mem[BeatCell(b)]
    BY <1>1, <1>3, MemMoves
  <2>6. mem'[BeatCell(b)] = Terms(b, Chunks(b)')
    <3>1. CASE now
      <4>1. Chunks(b) = chunk /\ Chunks(b)' = chunk + 1
        BY <2>1, <2>3, <3>1
      <4>2. Append(Terms(b, chunk), <<Handed(b[1]), b[2], b[3]>>) = Terms(b, chunk + 1)
            /\ (chunk = 0 => <<<<Handed(b[1]), b[2], b[3]>>>> = Terms(b, 1))
        BY <1>1, TermsNext DEF Handed
      <4>3. CASE chunk = 0
        BY <2>5, <3>1, <4>1, <4>2, <4>3
      <4>4. CASE chunk # 0
        <5>1. chunk > 0
          BY <1>1, <4>4
        <5>2. mem[BeatCell(b)] = Terms(b, chunk)
          BY <2>4, <4>1, <5>1
        <5>3. mem'[BeatCell(b)] = Append(mem[BeatCell(b)], <<Handed(b[1]), b[2], b[3]>>)
          BY <2>5, <3>1, <4>4
        <5> QED BY <4>1, <4>2, <5>2, <5>3
      <4> QED BY <4>3, <4>4
    <3>2. CASE ~now
      BY <1>3, <2>1, <2>3, <2>4, <2>5, <3>2
    <3> QED BY <3>1, <3>2
  <2>7. Terms(b, Chunks(b))' = Terms(b, Chunks(b)')
    BY <1>1 DEF Terms
  <2>8. BeatCell(b)' = BeatCell(b)
    BY DEF BeatCell, CellOf
  <2> QED BY <2>6, <2>7
<1>4. \A b \in WalkBeats : BeatCell(b)' = BeatCell(b)
  BY DEF BeatCell, CellOf
<1> QED BY <1>1, <1>2, <1>3 DEF SumsInv

\* A chunk ends with every beat of it in its cell.
LEMMA SumsBetween ==
  ASSUME AccumInv, DispatchInv, SumsInv, NEW moving, AccumEdge(moving),
         EndChunk \/ BeginJob, \A e \in Engines : StageStep(e)
  PROVE  SumsInv'
<1>1. /\ WritePort /\ nm' \in AdapterCells \cup {NONE} /\ sent' = 0
      /\ chunk \in Nat /\ sent \in Nat
  BY SentType, AccumSizes DEF AccumEdge, EndChunk, BeginJob
<1>2. cmd = NONE /\ \A e \in Engines : ctl[e].tile = NONE /\ Owed(e) = {}
  <2>1. Cardinality(Working) = Cardinality(Reported) \/ Working = {}
    BY DEF EndChunk, BeginJob, DispatchInv, CountedInv
  <2> QED BY <2>1, NobodyWorks, OwedOwn
<1>3. Accepted = {}
  <2>1. \A e \in Accepted : e \in Engines /\ wr[e].held \in Owed(e)
    BY DEF Accepted, Asking, StageStep, Makes
  <2> QED BY <1>2, <2>1
<1>4. mem' = IF nm = NONE THEN mem ELSE [mem EXCEPT ![nm] = Foreign]
  BY <1>1, <1>3 DEF WritePort
<1>5. /\ mem' = [x \in Cells |-> mem'[x]]
      /\ \A x \in Cells \ AdapterCells : mem'[x] = mem[x]
  BY <1>4 DEF SumsInv
<1>6. ASSUME NEW b \in WalkBeats, BeatCell(b) \notin AdapterCells, Chunks(b)' > 0
      PROVE  mem'[BeatCell(b)] = Terms(b, Chunks(b))'
  <2>1. Chunks(b)' = chunk'
    BY <1>1, BeatType, LenType DEF Chunks, InCell
  <2>2. EndChunk
    BY <1>6, <2>1 DEF BeginJob
  <2>3. chunk' = chunk + 1 /\ job' = job /\ sent = Len(Walk)
    BY <2>2 DEF EndChunk
  <2>4. Owing(b) = {}
    BY <1>2 DEF Owing
  <2>5. InCell(b) /\ Chunks(b) = chunk + 1
    <3>1. b[1] <= sent
      BY <2>3, BeatType, LenType
    <3> QED BY <1>2, <2>4, <3>1 DEF InCell, Chunks
  <2>6. mem[BeatCell(b)] = Terms(b, chunk + 1)
    BY <1>1, <1>6, <2>5 DEF SumsInv
  <2>7. Terms(b, Chunks(b))' = Terms(b, chunk + 1)
    BY <2>1, <2>3 DEF Terms
  <2> QED BY <1>5, <1>6, <2>6, <2>7, BeatType
<1>7. \A b \in WalkBeats : BeatCell(b)' = BeatCell(b)
  BY DEF BeatCell, CellOf
<1> QED BY <1>1, <1>5, <1>6 DEF SumsInv

LEMMA SumsInit == AccumInit => SumsInv
<1> SUFFICES ASSUME AccumInit PROVE SumsInv
  OBVIOUS
<1>1. \A b \in WalkBeats : Chunks(b) = 0
  BY BeatType, LenType DEF AccumInit, Chunks, InCell
<1> QED BY <1>1 DEF AccumInit, SumsInv

LEMMA SumsNext ==
  ASSUME AccumInv, DispatchInv, SumsInv, [AccumNext]_accumVars
  PROVE  SumsInv'
<1>1. CASE AccumNext
  <2>1. PICK moving \in SUBSET Computing :
          (Wait \/ Dispatch \/ EndChunk \/ BeginJob) /\ AccumEdge(moving)
    BY <1>1 DEF AccumNext
  <2>2. \A e \in Engines : StageStep(e)
    <3>1. AccumInv' /\ EngineStep(moving)
      BY <1>1, <2>1, AccumNextInv DEF AccumEdge
    <3> QED BY <3>1, EveryStep DEF AccumInv
  <2> QED BY <2>1, <2>2, SumsWithin, SumsBetween
<1>2. CASE UNCHANGED accumVars
  <2>1. /\ job' = job /\ chunk' = chunk /\ sent' = sent /\ cmd' = cmd /\ mem' = mem
        /\ nm' = nm /\ ctl' = ctl /\ ser' = ser /\ wr' = wr
    BY <1>2 DEF accumVars, dispatchVars
  <2>2. \A e \in Engines : Owed(e)' = Owed(e)
    BY <2>1 DEF Owed, ToGive, Given, Held, Write, CellOf, Overwrites
  <2>3. ASSUME NEW b \in WalkBeats
        PROVE  /\ Chunks(b)' = Chunks(b) /\ BeatCell(b)' = BeatCell(b)
               /\ Terms(b, Chunks(b))' = Terms(b, Chunks(b))
    <3>1. Owing(b)' = Owing(b)
      BY <2>1, <2>2 DEF Owing, BeatOf, Handed, Write, CellOf, Overwrites
    <3> QED BY <2>1, <3>1 DEF Chunks, InCell, BeatCell, CellOf, Terms
  <2> QED BY <2>1, <2>3 DEF SumsInv
<1> QED BY <1>1, <1>2

-----------------------------------------------------------------------------
(* The output buffer and the flush.                                        *)

LEMMA TurnsNext ==
  ASSUME TypeOK, AccumInv, TurnsInv, [OutputNext]_outputVars
  PROVE  TurnsInv'
<1>1. CASE OutputNext
  <2>1. PICK awready, wready, bvalid \in BOOLEAN :
          /\ Edge(awready, wready, bvalid)
          /\ \/ IdleWait \/ IdleStart \/ Address(awready) \/ Stream(wready)
             \/ Respond(bvalid) \/ Finish
    BY <1>1 DEF OutputNext, Next
  <2>2. fl_state' # "FL_IDLE" => fl_state # "FL_IDLE" \/ start # NONE
    BY <2>1 DEF IdleWait, IdleStart, Address, Stream, Respond, Finish
  <2>3. fl_state' # "FL_IDLE" => AtRest'
    BY <1>1, <2>2 DEF TurnsInv, OutputNext, InTurns, AtRest
  <2>4. start' # NONE => AtRest'
    BY <1>1 DEF OutputNext, InTurns, AtRest
  <2> QED BY <2>3, <2>4 DEF TurnsInv
<1>2. CASE UNCHANGED outputVars
  BY <1>2 DEF outputVars, flushVars, accumVars, dispatchVars, TurnsInv, AtRest
<1> QED BY <1>1, <1>2

OutputInv == CopyInv /\ AccumInv /\ DispatchInv /\ SumsInv /\ TurnsInv

LEMMA OutputInvariance == OutputSpec => []OutputInv
<1>1. OutputInit => OutputInv
  <2>1. ASSUME OutputInit PROVE TurnsInv
    BY <2>1 DEF OutputInit, Init, TurnsInv
  <2> QED BY <2>1, InitCopyInv, AccumInitInv, DispatchInit, SumsInit
          DEF OutputInit, OutputInv
<1>2. OutputInv /\ [OutputNext]_outputVars => OutputInv'
  <2> SUFFICES ASSUME OutputInv, [OutputNext]_outputVars PROVE OutputInv'
    OBVIOUS
  <2>1. [Next]_flushVars /\ [AccumNext]_accumVars
    BY DEF OutputNext, outputVars
  <2>2. AccumInv' /\ DispatchInv' /\ SumsInv'
    BY <2>1, AccumNextInv, DispatchNext, SumsNext DEF OutputInv
  <2>3. TurnsInv'
    BY TurnsNext DEF OutputInv, CopyInv, IInv
  <2>4. CopyInv'
    BY <2>1, CopyNext DEF OutputInv
  <2> QED BY <2>2, <2>3, <2>4 DEF OutputInv
<1> QED BY <1>1, <1>2, PTL DEF OutputSpec

\* What uram_flush.v shows to HBM, for every walk, number of engines and of K chunks,
\* size of the memory and latency: the whole sums of the product just computed.
THEOREM FlushAlwaysSeesSums == OutputSpec => []FlushSeesSums
<1>1. OutputInv => FlushSeesSums
  <2> DEFINE x == <<w.data[1], w.data[2]>>
  <2> SUFFICES ASSUME OutputInv, w.valid, x \notin AdapterCells
               PROVE  mem[x] = Sum(x, job)
    BY DEF FlushSeesSums
  <2>1. Streaming /\ w.data = RowWord(wr_beat_cnt)
    BY DEF OutputInv, CopyInv, IInv, BurstInv, WordInv
  <2>2. /\ req \in Requests /\ cur_row \in 0 .. req.rows
        /\ wr_beat_cnt \in 0 .. req.cols
    BY <2>1, Sizes DEF OutputInv, CopyInv, IInv, TypeOK, RowInv, CountInv, Streaming
  <2>3. x = <<cur_row, (req.start_col + wr_beat_cnt) % COL_MAX>>
    <3>1. x = <<cur_row, Column(req.start_col + wr_beat_cnt)>>
      BY <2>1 DEF RowWord
    <3>2. req.start_col + wr_beat_cnt \in 0 .. COL_MAX + COL_MAX - 1
      BY <2>2, Sizes DEF OutputInv, CopyInv, IInv, TypeOK, Request
    <3> QED BY <3>1, <3>2, ColumnMod
  <2>4. PICK b \in WalkBeats : BeatCell(b) = x
    BY <2>2, <2>3, OutputAssumption
  <2>5. AtRest /\ sent = 0 /\ chunk = NUM_CHUNKS
    BY <2>1 DEF OutputInv, TurnsInv, Streaming, DispatchInv, CountedInv, AtRest
  <2>6. Chunks(b) = NUM_CHUNKS
    BY <2>5, BeatType, LenType DEF Chunks, InCell
  <2>7. mem[x] = Terms(b, NUM_CHUNKS)
    BY <2>4, <2>6, AccumSizes DEF OutputInv, SumsInv
  <2>8. Sum(x, job) = Terms(b, NUM_CHUNKS)
    <3>1. (CHOOSE c \in WalkBeats : BeatCell(c) = x) = b
      BY <2>4, BeatsDiffer
    <3>2. Sum(x, job) = LET c == CHOOSE c \in WalkBeats : BeatCell(c) = x
                        IN  Terms(c, NUM_CHUNKS)
      BY DEF Sum, Terms, WalkBeats, BeatCell
    <3> QED BY <3>1, <3>2
  <2> QED BY <2>7, <2>8
<1> QED BY <1>1, OutputInvariance, PTL
=============================================================================
