-------------------------- MODULE HbmPrefetch_proofs --------------------------
(***************************************************************************)
(* Theorems about HbmPrefetch, for every size of the buffer, set of        *)
(* requests, and slave that stalls as it likes: the mover and the slave    *)
(* count the beats of a row alike, and the mover implements RectCopy.      *)
(***************************************************************************)
EXTENDS HbmPrefetch, TLAPS

-----------------------------------------------------------------------------
(* The burst: where the slave is follows from the mover's registers.       *)

BeatInv ==
  /\ pf_state \in {"PF_IDLE", "PF_AR", "PF_DATA", "PF_DONE"}
  /\ cmd \in Requests \cup {NONE}
  /\ req \in [rows : Nat, words : Nat, base : Nat, stride : Nat]
  /\ cur_row \in Nat /\ hbm_addr \in Nat /\ beat_cnt \in Nat /\ hbm_gen \in {0, 1}
  /\ rready => pf_state = "PF_DATA"
  /\ arvalid => pf_state = "PF_AR"
  /\ burst = IF pf_state = "PF_DATA"
               THEN [addr |-> hbm_addr, beat |-> beat_cnt,
                     len |-> (req.words - 1) % LEN_MAX]
             ELSE NONE

LEMMA BeatInitially == Init => BeatInv
BY DEF Init, BeatInv

LEMMA Commands ==
  ASSUME BeatInv, Engine
  PROVE  cmd' \in Requests \cup {NONE} /\ hbm_gen' \in {0, 1}
BY DEF BeatInv, Engine

LEMMA BeatStep ==
  ASSUME PrefetchAssumption, BeatInv, [Next]_prefetchVars  PROVE BeatInv'
<1>1. CASE UNCHANGED prefetchVars
  BY <1>1 DEF prefetchVars, BeatInv
<1>2. ASSUME NEW arready \in BOOLEAN, NEW rvalid \in BOOLEAN, Edge(arready, rvalid),
             \/ IdleWait \/ Accept \/ Address(arready)
             \/ DataWait(rvalid) \/ Data(rvalid) \/ Finish
      PROVE  BeatInv'
  <2>1. cmd' \in Requests \cup {NONE} /\ hbm_gen' \in {0, 1}
    BY <1>2, Commands DEF Edge
  <2>2. Slave(arready, rvalid)
    BY <1>2 DEF Edge
  <2>3. CASE IdleWait
    BY <2>1, <2>2, <2>3 DEF IdleWait, Slave, BeatInv, ArHandshake, RHandshake
  <2>4. CASE Accept
    <3>1. cmd \in Request
      BY <2>4 DEF Accept, BeatInv, PrefetchAssumption
    <3> QED BY <2>1, <2>2, <2>4, <3>1
            DEF Accept, Slave, BeatInv, ArHandshake, RHandshake, Request
  <2>5. CASE Address(arready)
    BY <2>1, <2>2, <2>5 DEF Address, Slave, BeatInv, ArHandshake, RHandshake
  <2>6. CASE DataWait(rvalid)
    BY <2>1, <2>2, <2>6 DEF DataWait, Slave, BeatInv, ArHandshake, RHandshake
  <2>7. CASE Data(rvalid)
    <3>1. /\ pf_state = "PF_DATA" /\ ~arvalid /\ arvalid' = arvalid /\ req' = req
          /\ beat_cnt' = beat_cnt + 1 /\ hbm_addr' \in Nat /\ cur_row' \in Nat
      BY <2>7 DEF Data, BeatInv, NextRowAddr
    <3>2. burst = [addr |-> hbm_addr, beat |-> beat_cnt,
                   len |-> (req.words - 1) % LEN_MAX]
      BY <3>1 DEF BeatInv
    <3>3. CASE rlast
      <4>1. burst' = NONE /\ pf_state' \in {"PF_DONE", "PF_AR"} /\ rready' = FALSE
        BY <2>2, <2>7, <3>1, <3>3 DEF Data, Slave, ArHandshake
      <4> QED BY <2>1, <3>1, <4>1 DEF BeatInv
    <3>4. CASE ~rlast
      <4>1. /\ burst' = [burst EXCEPT !.beat = @ + 1]
            /\ pf_state' = pf_state /\ hbm_addr' = hbm_addr
        BY <2>2, <2>7, <3>1, <3>4 DEF Data, Slave, ArHandshake
      <4>2. burst' = [addr |-> hbm_addr', beat |-> beat_cnt',
                      len |-> (req'.words - 1) % LEN_MAX]
        BY <3>1, <3>2, <4>1
      <4> QED BY <2>1, <3>1, <4>1, <4>2 DEF BeatInv
    <3> QED BY <3>3, <3>4
  <2>8. CASE Finish
    BY <2>1, <2>2, <2>8 DEF Finish, Slave, BeatInv, ArHandshake, RHandshake
  <2> QED BY <1>2, <2>3, <2>4, <2>5, <2>6, <2>7, <2>8
<1> QED BY <1>1, <1>2 DEF Next

LEMMA Bursts ==
  ASSUME PrefetchAssumption, BeatInv, pf_state = "PF_DATA"  PROVE burst \in Burst /\ burst # NONE
<1>1. (req.words - 1) % LEN_MAX \in Nat
  BY DEF BeatInv, PrefetchAssumption
<1> QED BY <1>1 DEF BeatInv, Burst, PrefetchAssumption

\* The mover never waits for a beat the slave does not have, and the column it
\* stores a beat in is the beat's place in its row, in every row.
THEOREM BeatsCountedAlike == ASSUME PrefetchAssumption  PROVE Spec => []BeatsAgree
<1>1. BeatInv => BeatsAgree
  BY Bursts DEF BeatInv, BeatsAgree
<1>2. BeatInv /\ [Next]_prefetchVars => BeatInv'
  BY BeatStep
<1> QED BY <1>1, <1>2, BeatInitially, PTL DEF Spec

-----------------------------------------------------------------------------
(* The copy.                                                               *)

\* The requests' rectangles fit in the buffer, in a burst and in HBM.
RequestsFit ==
  \A r \in Requests :
    /\ r.rows <= ROW_MAX /\ r.words >= 1 /\ r.words <= COL_MAX /\ r.words <= LEN_MAX
    /\ r.base + (r.rows - 1) * r.stride + r.words <= HBM_WORDS

\* The write that makes a move; the moves whose word was read.
WriteOf(m) == [row |-> m.to[1], col |-> m.to[2], data |-> hbm[m.from]]
WasRead(m) == \/ m.to[1] < cur_row \/ pf_state = "PF_DONE"
              \/ m.to[1] = cur_row /\ pf_state = "PF_DATA" /\ m.to[2] < beat_cnt

CopyInv ==
  /\ pf_state # "PF_IDLE" =>
       /\ req \in Requests /\ cur_row < req.rows /\ ~cmd_done
       /\ hbm_addr = req.base + cur_row * req.stride
  /\ pf_state = "PF_DATA" => beat_cnt < req.words
  /\ pf_state = "PF_DONE" => cur_row = req.rows - 1 /\ uram_wr # NONE
  /\ pf_state = "PF_IDLE" => uram_wr = NONE
  /\ cmd # NONE => \/ pf_state = "PF_IDLE" /\ ~cmd_done
                   \/ pf_state = "PF_AR" /\ ~arvalid /\ uram_wr = NONE
  /\ uram_wr # NONE => \E m \in Moves(req) : uram_wr = WriteOf(m) /\ WasRead(m)

DoneIsFlag == cmd_done \in BOOLEAN

IInv == BeatInv /\ CopyInv /\ DoneIsFlag

LEMMA DoneStep == ASSUME DoneIsFlag, [Next]_prefetchVars  PROVE DoneIsFlag'
<1>1. CASE UNCHANGED prefetchVars
  BY <1>1 DEF prefetchVars, DoneIsFlag
<1>2. CASE Next
  <2>1. cmd_done' = TRUE \/ cmd_done' = FALSE
    BY <1>2, Zenon
       DEF Next, IdleWait, Accept, Address, DataWait, Data, Finish
  <2> QED BY <2>1 DEF DoneIsFlag
<1> QED BY <1>1, <1>2

LEMMA Sizes ==
  ASSUME PrefetchAssumption, RequestsFit, NEW r \in Requests
  PROVE  /\ r \in Request /\ ROW_MAX \in Nat /\ COL_MAX \in Nat /\ LEN_MAX \in Nat \ {0}
         /\ r.rows \in Nat \ {0} /\ r.words \in Nat \ {0} /\ r.base \in Nat
         /\ r.stride \in Nat
         /\ r.rows <= ROW_MAX /\ r.words <= COL_MAX /\ r.words <= LEN_MAX
BY DEF RequestsFit, Request, PrefetchAssumption

\* A move is its place in the rectangle.
LEMMA MovesByPlace ==
  ASSUME PrefetchAssumption, RequestsFit, NEW r \in Requests
  PROVE  /\ \A m \in Moves(r) :
              /\ m.to[1] \in 0 .. r.rows - 1 /\ m.to[2] \in 0 .. r.words - 1
              /\ m.to = <<m.to[1], m.to[2]>>
              /\ m = [from |-> r.base + m.to[1] * r.stride + m.to[2], to |-> m.to]
         /\ \A i \in 0 .. r.rows - 1, j \in 0 .. r.words - 1 :
              [from |-> r.base + i * r.stride + j, to |-> <<i, j>>] \in Moves(r)
<1>1. \A m \in Moves(r) :
        /\ m.to[1] \in 0 .. r.rows - 1 /\ m.to[2] \in 0 .. r.words - 1
        /\ m.to = <<m.to[1], m.to[2]>>
        /\ m = [from |-> r.base + m.to[1] * r.stride + m.to[2], to |-> m.to]
  BY DEF Moves
<1>2. \A i \in 0 .. r.rows - 1, j \in 0 .. r.words - 1 :
        [from |-> r.base + i * r.stride + j, to |-> <<i, j>>] \in Moves(r)
  BY DEF Moves
<1> QED BY <1>1, <1>2

LEMMA WritesAreNone ==
  ASSUME PrefetchAssumption, RequestsFit, NEW r \in Requests, NEW m \in Moves(r),
         hbm_gen \in {0, 1}
  PROVE  WriteOf(m) # NONE
<1>1. /\ m.to[1] \in 0 .. r.rows - 1 /\ m.to[2] \in 0 .. r.words - 1
      /\ m.from = r.base + m.to[1] * r.stride + m.to[2]
  <2>1. m = [from |-> r.base + m.to[1] * r.stride + m.to[2], to |-> m.to]
    BY MovesByPlace
  <2>2. m.from = r.base + m.to[1] * r.stride + m.to[2]
    BY <2>1
  <2> QED BY <2>2, MovesByPlace
<1>2. m.to[1] * r.stride <= (r.rows - 1) * r.stride
      /\ m.to[1] * r.stride \in Nat /\ (r.rows - 1) * r.stride \in Nat
  BY <1>1, Sizes
<1>3. m.from \in Nat /\ m.from < HBM_WORDS
  <2>1. r.base + (r.rows - 1) * r.stride + r.words <= HBM_WORDS
    BY DEF RequestsFit
  <2> QED BY <1>1, <1>2, <2>1, Sizes DEF PrefetchAssumption
<1>4. hbm[m.from] \in Nat \X {0, 1}
  BY <1>3 DEF hbm, PrefetchAssumption
<1>5. m.to[1] \in 0 .. ROW_MAX - 1 /\ m.to[2] \in 0 .. COL_MAX - 1
  BY <1>1, Sizes
<1>6. WriteOf(m) \in BufferWrite
  BY <1>4, <1>5 DEF WriteOf, BufferWrite
<1> QED BY <1>6 DEF PrefetchAssumption

LEMMA SmallMod == \A x, n \in Nat : x < n => x % n = x
OBVIOUS

\* The word read at an edge, and its move.
Here == [from |-> req.base + cur_row * req.stride + beat_cnt, to |-> <<cur_row, beat_cnt>>]

LEMMA BeatRead ==
  ASSUME PrefetchAssumption, RequestsFit, IInv, NEW rvalid \in BOOLEAN, Data(rvalid)
  PROVE  /\ Here \in Moves(req) /\ uram_wr' = WriteOf(Here) /\ uram_wr' # NONE
         /\ rlast <=> beat_cnt = req.words - 1
<1>1. /\ pf_state = "PF_DATA" /\ req \in Requests /\ cur_row < req.rows
      /\ beat_cnt < req.words /\ cur_row \in Nat /\ beat_cnt \in Nat
      /\ hbm_addr = req.base + cur_row * req.stride /\ hbm_gen \in {0, 1}
  BY DEF Data, IInv, BeatInv, CopyInv
<1>2. burst.addr = hbm_addr /\ burst.beat = beat_cnt
      /\ burst.len = (req.words - 1) % LEN_MAX
  BY <1>1 DEF IInv, BeatInv
<1>3. Slot = <<cur_row, beat_cnt>> /\ burst.len = req.words - 1
  <2>1. /\ req.rows \in Nat \ {0} /\ req.rows <= ROW_MAX /\ ROW_MAX \in Nat
        /\ req.words \in Nat \ {0} /\ req.words <= COL_MAX /\ COL_MAX \in Nat
        /\ req.words <= LEN_MAX /\ LEN_MAX \in Nat
    BY <1>1, Sizes
  <2>2. cur_row % ROW_MAX = cur_row
    BY <1>1, <2>1, SmallMod
  <2>3. beat_cnt % COL_MAX = beat_cnt
    BY <1>1, <2>1, SmallMod
  <2>4. (req.words - 1) % LEN_MAX = req.words - 1
    BY <2>1, SmallMod
  <2> QED BY <1>2, <2>2, <2>3, <2>4 DEF Slot
<1>4. Here \in Moves(req)
  <2>1. cur_row \in 0 .. req.rows - 1 /\ beat_cnt \in 0 .. req.words - 1
    BY <1>1, Sizes
  <2> QED BY <1>1, <2>1, MovesByPlace DEF Here
<1>5. uram_wr' = WriteOf(Here)
  BY <1>1, <1>2, <1>3 DEF Data, WriteOf, Here, rdata
<1>6. uram_wr' # NONE
  BY <1>1, <1>4, <1>5, WritesAreNone
<1> QED BY <1>2, <1>3, <1>4, <1>5, <1>6 DEF rlast

\* While the mover works no command is shown after its first two edges.
LEMMA BusyCommands ==
  ASSUME IInv, Engine, pf_state # "PF_IDLE"
  PROVE  cmd' = NONE /\ hbm_gen' = hbm_gen
BY DEF IInv, BeatInv, Engine

LEMMA CopyStep ==
  ASSUME PrefetchAssumption, RequestsFit, IInv, [Next]_prefetchVars  PROVE CopyInv'
<1>1. CASE UNCHANGED prefetchVars
  BY <1>1 DEF prefetchVars, IInv, CopyInv, WriteOf, hbm, WasRead
<1>2. ASSUME NEW arready \in BOOLEAN, NEW rvalid \in BOOLEAN, Edge(arready, rvalid),
             \/ IdleWait \/ Accept \/ Address(arready)
             \/ DataWait(rvalid) \/ Data(rvalid) \/ Finish
      PROVE  CopyInv'
  <2>1. CASE IdleWait
    BY <1>2, <2>1 DEF IdleWait, IInv, CopyInv
  <2>2. CASE Accept
    <3>1. cmd \in Requests /\ cmd # NONE
      BY <2>2 DEF Accept, IInv, BeatInv
    <3>2. /\ cmd.base \in Nat /\ cmd.stride \in Nat /\ cmd.rows \in Nat \ {0}
      BY <3>1, Sizes
    <3>3. cmd.base = cmd.base + 0 * cmd.stride /\ 0 < cmd.rows
      BY <3>2
    <3> QED BY <2>2, <3>1, <3>3 DEF Accept, CopyInv
  <2>3. CASE Address(arready)
    <3>1. cmd' = NONE
      BY <1>2, <2>3, BusyCommands DEF Address, Edge
    <3>2. req \in Requests /\ req.words \in Nat \ {0}
      BY <2>3, Sizes DEF Address, IInv, CopyInv
    <3> QED BY <2>3, <3>1, <3>2 DEF Address, IInv, CopyInv
  <2>4. CASE DataWait(rvalid)
    <3>1. cmd' = NONE
      BY <1>2, <2>4, BusyCommands DEF DataWait, Edge
    <3> QED BY <2>4, <3>1 DEF DataWait, IInv, CopyInv
  <2>5. CASE Data(rvalid)
    <3>1. cmd' = NONE /\ hbm' = hbm
      BY <1>2, <2>5, BusyCommands DEF Data, Edge, hbm
    <3>2. /\ pf_state = "PF_DATA" /\ req \in Requests /\ cur_row < req.rows /\ ~cmd_done'
          /\ beat_cnt < req.words /\ cur_row \in Nat /\ beat_cnt \in Nat
          /\ hbm_addr = req.base + cur_row * req.stride
          /\ req' = req /\ beat_cnt' = beat_cnt + 1
      BY <2>5 DEF Data, IInv, BeatInv, CopyInv
    <3>3. /\ req.rows \in Nat /\ req.words \in Nat /\ req.base \in Nat /\ req.stride \in Nat
      BY <3>2, Sizes
    <3>4. /\ Here \in Moves(req) /\ uram_wr' = WriteOf(Here) /\ uram_wr' # NONE
          /\ rlast <=> beat_cnt = req.words - 1
      BY <2>5, BeatRead
    <3>5. \/ /\ ~rlast /\ pf_state' = "PF_DATA" /\ cur_row' = cur_row
             /\ hbm_addr' = hbm_addr
          \/ /\ rlast /\ cur_row = req.rows - 1 /\ pf_state' = "PF_DONE"
             /\ cur_row' = cur_row /\ hbm_addr' = hbm_addr
          \/ /\ rlast /\ cur_row # req.rows - 1 /\ pf_state' = "PF_AR"
             /\ cur_row' = cur_row + 1 /\ hbm_addr' = hbm_addr + req.stride
      BY <2>5, <3>2 DEF Data, NextRowAddr
    <3>6. \E m \in Moves(req)' : uram_wr' = WriteOf(m)' /\ WasRead(m)'
      <4>1. PICK m \in Moves(req) : m = Here
        BY <3>4
      <4>2. m.to[1] = cur_row /\ m.to[2] = beat_cnt
        BY <4>1 DEF Here
      <4>3. WriteOf(m)' = WriteOf(m)
        BY <3>1 DEF WriteOf
      <4>4. WasRead(m)'
        BY <3>2, <3>5, <4>2 DEF WasRead
      <4>5. m \in Moves(req)'
        BY <3>2, <4>1
      <4> QED BY <3>4, <4>1, <4>3, <4>4, <4>5
    <3>7. hbm_addr' = req.base + cur_row' * req.stride /\ cur_row' < req.rows
      <4>1. (cur_row + 1) * req.stride = cur_row * req.stride + req.stride
            /\ cur_row * req.stride \in Nat
        BY <3>2, <3>3
      <4>2. CASE cur_row' = cur_row /\ hbm_addr' = hbm_addr
        BY <3>2, <4>2
      <4>3. CASE /\ cur_row # req.rows - 1 /\ cur_row' = cur_row + 1
                 /\ hbm_addr' = hbm_addr + req.stride
        <5>1. cur_row' < req.rows
          BY <3>2, <3>3, <4>3
        <5>2. hbm_addr' = req.base + (cur_row * req.stride + req.stride)
          BY <3>2, <3>3, <4>1, <4>3
        <5> QED BY <4>1, <4>3, <5>1, <5>2
      <4> QED BY <3>5, <4>2, <4>3
    <3>8. pf_state' = "PF_DATA" => beat_cnt' < req'.words
      <4>1. pf_state' = "PF_DATA" => beat_cnt # req.words - 1
        BY <3>4, <3>5 DEF rlast
      <4>2. beat_cnt \in Nat /\ req.words \in Nat /\ beat_cnt < req.words
        BY <3>2, <3>3
      <4>3. beat_cnt # req.words - 1 => beat_cnt + 1 < req.words
        BY <4>2
      <4> QED BY <3>2, <4>1, <4>3
    <3>9. pf_state' # "PF_IDLE"
          /\ (pf_state' = "PF_DONE" => cur_row' = req'.rows - 1 /\ uram_wr' # NONE)
      BY <3>2, <3>4, <3>5
    <3>10. req' \in Requests /\ cur_row' < req'.rows /\ ~cmd_done'
           /\ hbm_addr' = req'.base + cur_row' * req'.stride
      BY <3>2, <3>7
    <3> QED BY <3>1, <3>6, <3>8, <3>9, <3>10 DEF CopyInv
  <2>6. CASE Finish
    <3>1. cmd' = NONE
      BY <1>2, <2>6, BusyCommands DEF Finish, Edge
    <3> QED BY <2>6, <3>1 DEF Finish, CopyInv
  <2> QED BY <1>2, <2>1, <2>2, <2>3, <2>4, <2>5, <2>6
<1> QED BY <1>1, <1>2 DEF Next

LEMMA Invariance == ASSUME PrefetchAssumption, RequestsFit  PROVE Spec => []IInv
<1>1. Init => IInv
  BY BeatInitially DEF Init, IInv, CopyInv, DoneIsFlag
<1>2. IInv /\ [Next]_prefetchVars => IInv'
  BY BeatStep, CopyStep, DoneStep DEF IInv
<1> QED BY <1>1, <1>2, PTL DEF Spec

-----------------------------------------------------------------------------
(* Every step of the mover is a step of RectCopy or a stutter.             *)

\* The buffer takes the write shown to it, and that write is one of the moves.
LEMMA Landing ==
  ASSUME PrefetchAssumption, RequestsFit, IInv, BufferPort, pf_state # "PF_IDLE"
  PROVE  \/ uram_wr = NONE /\ buf' = buf
         \/ \E m \in Moves(req) :
              /\ WasRead(m) /\ uram_wr = WriteOf(m) /\ uram_wr # NONE
              /\ m.to = <<uram_wr.row, uram_wr.col>>
              /\ buf' = [buf EXCEPT ![m.to] = hbm[m.from]]
<1>1. CASE uram_wr = NONE
  BY <1>1 DEF BufferPort
<1>2. CASE uram_wr # NONE
  <2>1. PICK m \in Moves(req) : uram_wr = WriteOf(m) /\ WasRead(m)
    BY <1>2 DEF IInv, CopyInv
  <2>2. m.to = <<uram_wr.row, uram_wr.col>> /\ uram_wr.data = hbm[m.from]
    <3>1. req \in Requests
      BY DEF IInv, CopyInv
    <3>2. m.to = <<m.to[1], m.to[2]>>
      BY <3>1, MovesByPlace
    <3> QED BY <2>1, <3>2 DEF WriteOf
  <2>3. buf' = [buf EXCEPT ![m.to] = hbm[m.from]]
    BY <1>2, <2>2 DEF BufferPort
  <2> QED BY <1>2, <2>1, <2>2, <2>3
<1> QED BY <1>1, <1>2

\* A move lands where no other move of its request does.
LEMMA PlacesDiffer ==
  ASSUME PrefetchAssumption, RequestsFit, NEW r \in Requests, NEW m \in Moves(r),
         NEW n \in Moves(r), m.to = n.to
  PROVE  m = n
<1>1. m = [from |-> r.base + m.to[1] * r.stride + m.to[2], to |-> m.to]
  BY MovesByPlace
<1>2. n = [from |-> r.base + n.to[1] * r.stride + n.to[2], to |-> n.to]
  BY MovesByPlace
<1> QED BY <1>1, <1>2

LEMMA InitCopies == Init => Copy!Init
BY DEF Init, Copy!Init

LEMMA IdleStep ==
  ASSUME IInv, NEW arready, NEW rvalid, IdleWait, Edge(arready, rvalid)
  PROVE  [Copy!Next]_(Copy!copyVars)
<1>1. /\ pf_state = "PF_IDLE" /\ pf_state' = "PF_IDLE" /\ ~cmd_done' /\ buf' = buf
      /\ cmd # NONE => cmd' = cmd /\ ~cmd_done
  <2>1. pf_state = "PF_IDLE" /\ pf_state' = "PF_IDLE" /\ ~cmd_done'
    BY DEF IdleWait
  <2>2. uram_wr = NONE /\ (cmd # NONE => ~cmd_done)
    BY <2>1 DEF IInv, CopyInv
  <2>3. buf' = buf
    BY <2>2 DEF Edge, BufferPort
  <2>4. cmd # NONE => cmd' = cmd
    BY <2>1 DEF Edge, Engine
  <2> QED BY <2>1, <2>2, <2>3, <2>4
<1>2. CASE cmd = NONE /\ cmd' # NONE
  BY <1>1, <1>2 DEF Copy!Next, Copy!Show
<1>3. CASE ~(cmd = NONE /\ cmd' # NONE)
  <2>1. cmd' = cmd /\ hbm' = hbm
    BY <1>1, <1>3 DEF Edge, Engine, hbm
  <2>2. CASE cmd_done
    BY <1>1, <2>1, <2>2 DEF Copy!Next, Copy!Rest
  <2>3. CASE ~cmd_done
    <3>1. cmd_done' = cmd_done
      BY <2>3 DEF IdleWait, IInv, DoneIsFlag
    <3> QED BY <1>1, <2>1, <2>3, <3>1 DEF Copy!copyVars
  <2> QED BY <2>2, <2>3
<1> QED BY <1>2, <1>3

LEMMA BeginStep ==
  ASSUME PrefetchAssumption, RequestsFit, IInv, NEW arready, NEW rvalid, Accept, Edge(arready, rvalid)
  PROVE  Copy!Begin
<1>1. /\ pf_state = "PF_IDLE" /\ pf_state' = "PF_AR" /\ cmd # NONE /\ req' = cmd
      /\ cur_row' = 0 /\ uram_wr' = NONE /\ cmd_done' = FALSE
  BY DEF Accept
<1>2. buf' = buf
  BY <1>1 DEF Edge, BufferPort, IInv, CopyInv
<1>3. hbm' = hbm
  BY <1>1 DEF Edge, Engine, hbm
<1>4. \A m \in Moves(cmd) : ~Stored(m)'
  <2>1. cmd \in Requests
    BY <1>1 DEF IInv, BeatInv
  <2>2. \A m \in Moves(cmd) : m.to[1] \in 0 .. cmd.rows - 1
    BY <2>1, MovesByPlace
  <2>3. \A m \in Moves(cmd) : ~(m.to[1] < 0)
    BY <2>2
  <2> QED BY <1>1, <2>3 DEF Stored
<1>5. {m \in Moves(req') : ~Stored(m)'} = Moves(cmd)
  BY <1>1, <1>4
<1> QED BY <1>1, <1>2, <1>3, <1>5 DEF Copy!Begin

\* At every edge of a row the words stored are those read before it.
LEMMA StoredWereRead ==
  ASSUME PrefetchAssumption, RequestsFit, IInv, NEW arready, NEW rvalid \in BOOLEAN,
         Address(arready) \/ DataWait(rvalid) \/ Data(rvalid),
         NEW m \in Moves(req)
  PROVE  Stored(m)' <=> WasRead(m)
<1>1. req \in Requests /\ cur_row \in Nat /\ beat_cnt \in Nat
      /\ pf_state \in {"PF_AR", "PF_DATA"}
  BY DEF Address, DataWait, Data, IInv, BeatInv, CopyInv
<1>2. /\ m.to[1] \in 0 .. req.rows - 1 /\ m.to[2] \in 0 .. req.words - 1
      /\ m.to = <<m.to[1], m.to[2]>> /\ req.rows \in Nat /\ req.words \in Nat
  BY <1>1, MovesByPlace, Sizes
<1>3. CASE Address(arready)
  <2>1. /\ pf_state = "PF_AR" /\ cur_row' = cur_row /\ uram_wr' = NONE
        /\ \/ pf_state' = "PF_AR"
           \/ pf_state' = "PF_DATA" /\ beat_cnt' = 0
    BY <1>3 DEF Address
  <2>2. ~(m.to[2] < 0)
    BY <1>2
  <2> QED BY <2>1, <2>2 DEF Stored, WasRead
<1>4. CASE DataWait(rvalid)
  BY <1>4 DEF DataWait, Stored, WasRead
<1>5. CASE Data(rvalid)
  <2>1. /\ pf_state = "PF_DATA" /\ beat_cnt' = beat_cnt + 1
        /\ uram_wr' = WriteOf(Here) /\ uram_wr' # NONE
        /\ rlast <=> beat_cnt = req.words - 1
    BY <1>5, BeatRead DEF Data
  <2>2. <<uram_wr'.row, uram_wr'.col>> = <<cur_row, beat_cnt>>
    BY <2>1 DEF WriteOf, Here
  <2>3. Stored(m)' <=> WasRead(m)' /\ ~(m.to[1] = cur_row /\ m.to[2] = beat_cnt)
    BY <1>2, <2>1, <2>2 DEF Stored, WasRead
  <2>4. CASE ~rlast
    <3>1. pf_state' = "PF_DATA" /\ cur_row' = cur_row
      BY <1>5, <2>1, <2>4 DEF Data
    <3>2. WasRead(m)' <=> \/ m.to[1] < cur_row
                          \/ m.to[1] = cur_row /\ m.to[2] < beat_cnt + 1
      BY <2>1, <3>1 DEF WasRead
    <3> QED BY <1>1, <1>2, <2>1, <2>3, <3>2 DEF WasRead
  <2>5. CASE rlast
    <3>1. \/ cur_row = req.rows - 1 /\ pf_state' = "PF_DONE"
          \/ pf_state' = "PF_AR" /\ cur_row' = cur_row + 1
      BY <1>5, <2>5 DEF Data
    <3>2. WasRead(m)' <=> m.to[1] <= cur_row
      BY <1>1, <1>2, <3>1 DEF WasRead
    <3>3. WasRead(m) <=> \/ m.to[1] < cur_row
                         \/ m.to[1] = cur_row /\ m.to[2] < beat_cnt
      BY <2>1 DEF WasRead
    <3> QED BY <1>1, <1>2, <2>1, <2>3, <2>5, <3>2, <3>3
  <2> QED BY <2>4, <2>5
<1> QED BY <1>3, <1>4, <1>5

LEMMA RowStep ==
  ASSUME PrefetchAssumption, RequestsFit, IInv, NEW arready, NEW rvalid \in BOOLEAN,
         Address(arready) \/ DataWait(rvalid) \/ Data(rvalid), Edge(arready, rvalid)
  PROVE  [Copy!Next]_(Copy!copyVars)
<1>1. /\ pf_state \in {"PF_AR", "PF_DATA"} /\ pf_state' \in {"PF_AR", "PF_DATA", "PF_DONE"}
      /\ req' = req /\ ~cmd_done /\ cmd_done' = FALSE
  BY DEF Address, DataWait, Data, IInv, CopyInv
<1>2. cmd_done' = cmd_done
  BY <1>1 DEF IInv, DoneIsFlag
<1>3. hbm' = hbm
  BY <1>1, BusyCommands DEF Edge, hbm
<1>4. \A m \in Moves(req) : Stored(m)' <=> WasRead(m)
  BY StoredWereRead
<1> DEFINE left == {m \in Moves(req) : ~WasRead(m)}
           todo == {m \in Moves(req) : ~Stored(m)}
<1>5. {m \in Moves(req') : ~Stored(m)'} = left
  BY <1>1, <1>4
<1>6. CASE uram_wr = NONE /\ buf' = buf
  <2>1. todo = left
    BY <1>1, <1>6 DEF Stored, WasRead
  <2> QED BY <1>1, <1>2, <1>3, <1>5, <1>6, <2>1 DEF Copy!copyVars
<1>7. CASE \E m \in Moves(req) :
             /\ WasRead(m) /\ uram_wr = WriteOf(m) /\ uram_wr # NONE
             /\ m.to = <<uram_wr.row, uram_wr.col>>
             /\ buf' = [buf EXCEPT ![m.to] = hbm[m.from]]
  <2>1. PICK n \in Moves(req) :
             /\ WasRead(n) /\ uram_wr # NONE
             /\ n.to = <<uram_wr.row, uram_wr.col>>
             /\ buf' = [buf EXCEPT ![n.to] = hbm[n.from]]
    BY <1>7
  <2>2. \A m \in Moves(req) : Stored(m) <=> WasRead(m) /\ m # n
    <3>1. req \in Requests
      BY <1>1 DEF IInv, CopyInv
    <3>2. \A m \in Moves(req) : m.to = n.to => m = n
      BY <2>1, <3>1, PlacesDiffer
    <3> QED BY <2>1, <3>2 DEF Stored, WasRead
  <2>3. n \in todo /\ left = todo \ {n}
    BY <2>1, <2>2
  <2>4. Copy!Move
    BY <1>1, <1>2, <1>3, <1>5, <2>1, <2>3 DEF Copy!Move, Copy!Land
  <2> QED BY <2>4 DEF Copy!Next
<1> QED BY <1>1, <1>6, <1>7, Landing DEF Edge

\* done is raised at the edge that stores the last word.
LEMMA FinishStep ==
  ASSUME PrefetchAssumption, RequestsFit, IInv, NEW arready, NEW rvalid, Finish, Edge(arready, rvalid)
  PROVE  Copy!Finish
<1>1. /\ pf_state = "PF_DONE" /\ pf_state' = "PF_IDLE" /\ cmd_done' = TRUE
      /\ uram_wr # NONE /\ req \in Requests
  BY DEF Finish, IInv, CopyInv
<1>2. cmd = NONE /\ cmd' = NONE /\ hbm' = hbm
  BY <1>1, BusyCommands DEF Edge, hbm, IInv, CopyInv
<1>3. PICK n \in Moves(req) : /\ n.to = <<uram_wr.row, uram_wr.col>>
                              /\ buf' = [buf EXCEPT ![n.to] = hbm[n.from]]
  BY <1>1, Landing DEF Edge
<1>4. {m \in Moves(req) : ~Stored(m)} = {n}
  <2>1. \A m \in Moves(req) : m.to = n.to => m = n
    BY <1>1, <1>3, PlacesDiffer
  <2> QED BY <1>1, <1>3, <2>1 DEF Stored
<1> QED BY <1>1, <1>2, <1>3, <1>4 DEF Copy!Finish, Copy!Land

\* Every prefetch moves its rectangle of HBM into the buffer, each word once
\* and no other, and reports done when the last word is stored: the safety part
\* of CopiesRectangle.
THEOREM CopiesEachWordOnce == ASSUME PrefetchAssumption, RequestsFit  PROVE Spec => Copy!Spec
<1>1. IInv /\ [Next]_prefetchVars => [Copy!Next]_(Copy!copyVars)
  <2> SUFFICES ASSUME IInv, [Next]_prefetchVars  PROVE [Copy!Next]_(Copy!copyVars)
    OBVIOUS
  <2>1. CASE UNCHANGED prefetchVars
    BY <2>1 DEF prefetchVars, Copy!copyVars, hbm, Moves, Stored
  <2>2. ASSUME NEW arready \in BOOLEAN, NEW rvalid \in BOOLEAN, Edge(arready, rvalid),
               \/ IdleWait \/ Accept \/ Address(arready)
               \/ DataWait(rvalid) \/ Data(rvalid) \/ Finish
        PROVE  [Copy!Next]_(Copy!copyVars)
    <3>1. CASE IdleWait
      BY <2>2, <3>1, IdleStep
    <3>2. CASE Accept
      BY <2>2, <3>2, BeginStep DEF Copy!Next
    <3>3. CASE Address(arready) \/ DataWait(rvalid) \/ Data(rvalid)
      BY <2>2, <3>3, RowStep
    <3>4. CASE Finish
      BY <2>2, <3>4, FinishStep DEF Copy!Next
    <3> QED BY <2>2, <3>1, <3>2, <3>3, <3>4
  <2> QED BY <2>1, <2>2 DEF Next
<1> QED BY <1>1, InitCopies, Invariance, PTL DEF Spec, Copy!Spec
=============================================================================
