----------------------------- MODULE TilingEngine -----------------------------
(***************************************************************************)
(* The matrix multiply unit: rtl/tiling_engine.v dispatching output tiles  *)
(* to the engines of rtl/matmul_engine.v, two rtl/hbm_prefetch.v DMAs      *)
(* filling the rtl/uram_prefetch_buf.v pair the engines read, and the      *)
(* URAM the engines accumulate into.                                       *)
(*                                                                         *)
(* Data are names, never numbers.  A bus word is the HBM address it came   *)
(* from, an element is <<word, lane>>, and an accumulator is the set of    *)
(* <<element of A, element of B>> products summed in it; a product added   *)
(* twice leaves the mark TWICE, and words another engine asked for leave   *)
(* the mark FOREIGN.  Next is one clock edge; the DMAs and the engines     *)
(* take any number of edges over each piece of their work.                 *)
(***************************************************************************)
EXTENDS Integers, FiniteSets

CONSTANTS
  N_ENG, TILE, BUS_EL,
  PREFETCH_DIM,           \* elements per K chunk and per N chunk
  PF_ROWS, PF_COL_WORDS,  \* size of a prefetch buffer
  URAM_ROWS, URAM_COL_WORDS,
  BURST_MAX,              \* 2^LEN_W: the beats of the longest AXI burst
  MatmulCommands,         \* the commands the controller may issue
  NONE

TILE_COL_WORDS == TILE \div BUS_EL
CHUNK_WORDS == PREFETCH_DIM \div BUS_EL
Engines == 0 .. N_ENG - 1
READER == 0     \* the one engine whose read ports rtl/top_level.v connects
Buffers == {"act", "wgt"}

ASSUME TilingAssumption ==
  /\ {N_ENG, TILE, BUS_EL, PREFETCH_DIM, PF_ROWS, PF_COL_WORDS, URAM_ROWS,
      URAM_COL_WORDS, BURST_MAX} \subseteq Nat \ {0}
  /\ TILE % BUS_EL = 0 /\ PREFETCH_DIM % TILE = 0
  /\ NONE \notin Engines

Command == [op : {"OP_MATMUL", "OP_MATMUL_T", "OP_MATMUL_AA"},
            m : Nat \ {0}, k : Nat \ {0}, n : Nat \ {0},
            a_base : Nat, a_stride : Nat, b_base : Nat, b_stride : Nat,
            out_col_offset : Nat]

ASSUME CommandAssumption == MatmulCommands \subseteq Command /\ NONE \notin MatmulCommands

VARIABLES
  cmd,                  \* input: the command shown with cmd_valid, or NONE
  state, cmd_ready, cmd_done,
  cmd_r,                \* op_r, m_r, k_r, n_r, the bases, strides and offset
  k_chunk_idx, n_chunk_idx, cur_m, cur_n, all_dispatched,
  tiles_outstanding,
  pf,                   \* buffer -> its cmd_valid, launched and done_r flags
  eng_cmd_valid,        \* the engine being commanded (also just_dispatched)
  eng_cmd,              \* the tile it is commanded to compute
  eng_done_prev,
  dma, buf,             \* buffer -> its DMA, and the words it holds
  eng,                  \* engine -> its controller and accumulators
  uram

command == <<cmd_r, k_chunk_idx, n_chunk_idx>>
cursor == <<cur_m, cur_n, all_dispatched>>
fsm == <<state, cmd_ready, cmd_done, command, cursor, tiles_outstanding, pf,
         eng_cmd_valid, eng_cmd, eng_done_prev>>
tilingVars == <<cmd, fsm, dma, buf, eng, uram>>

-----------------------------------------------------------------------------
(* Chunk and tile arithmetic.                                              *)

CeilDiv(a, b) == (a + b - 1) \div b
min_dim(a, b) == IF a < b THEN a ELSE b

num_m_tiles == CeilDiv(cmd_r.m, TILE)
num_k_chunks == CeilDiv(cmd_r.k, PREFETCH_DIM)
num_n_chunks == CeilDiv(cmd_r.n, PREFETCH_DIM)
k_chunk_size == min_dim(PREFETCH_DIM, cmd_r.k - k_chunk_idx * PREFETCH_DIM)
n_chunk_size == min_dim(PREFETCH_DIM, cmd_r.n - n_chunk_idx * PREFETCH_DIM)
num_n_tiles_chunk == CeilDiv(n_chunk_size, TILE)

\* The rectangle of HBM words each buffer is filled with.
Prefetch(b) ==
  IF b = "act"
    THEN [base |-> cmd_r.a_base + k_chunk_idx * CHUNK_WORDS,
          stride |-> cmd_r.a_stride,
          rows |-> cmd_r.m, words |-> k_chunk_size \div BUS_EL]
    ELSE [base |-> cmd_r.b_base + k_chunk_idx * PREFETCH_DIM * cmd_r.b_stride
                     + n_chunk_idx * CHUNK_WORDS,
          stride |-> cmd_r.b_stride,
          rows |-> k_chunk_size, words |-> n_chunk_size \div BUS_EL]

\* Mutant of OutCol: the tile's place in its chunk is forgotten.
OutCol_Chunk == n_chunk_idx * CHUNK_WORDS + cmd_r.out_col_offset
OutCol == n_chunk_idx * CHUNK_WORDS + cur_n * TILE_COL_WORDS + cmd_r.out_col_offset

\* Mutant of FirstKChunk: every K chunk overwrites the last one's sums.
FirstKChunk_Always == TRUE
FirstKChunk == k_chunk_idx = 0

\* The tile under the cursor: buffer and URAM coordinates are registers as wide
\* as those memories.
Tile == [op |-> cmd_r.op, k |-> k_chunk_size,
         a_row |-> (cur_m * TILE) % PF_ROWS,
         b_col |-> (cur_n * TILE_COL_WORDS) % PF_COL_WORDS,
         out_row |-> (cur_m * TILE) % URAM_ROWS,
         out_col |-> OutCol % URAM_COL_WORDS, first |-> FirstKChunk]

-----------------------------------------------------------------------------
(* The prefetch DMAs.                                                      *)

\* arlen is words - 1 in LEN_W bits.
Beats(words) == IF words % BURST_MAX = 0 THEN BURST_MAX ELSE words % BURST_MAX

\* Of the indices below n that wrap to i in a memory of that size, the last.
LastAt(i, n, size) == i + ((n - 1 - i) \div size) * size

\* The buffer after every row of a rectangle was read and stored.
Filled(old, r) ==
  [x \in DOMAIN old |->
     IF x[1] < r.rows /\ x[2] < Beats(r.words)
       THEN r.base + LastAt(x[1], r.rows, PF_ROWS) * r.stride
              + LastAt(x[2], Beats(r.words), PF_COL_WORDS)
       ELSE old[x]]

DmaNext(b, moves) ==
  LET d == dma[b] IN
  CASE d.st = "IDLE" /\ pf[b].valid /\ d.ready ->
         [st |-> "RUN", ready |-> FALSE, done |-> FALSE, cmd |-> Prefetch(b)]
    [] d.st = "IDLE" /\ ~(pf[b].valid /\ d.ready) ->
         [d EXCEPT !.ready = TRUE, !.done = FALSE]
    [] d.st = "RUN" -> IF moves THEN [d EXCEPT !.st = "DONE"] ELSE d
    [] d.st = "DONE" -> [d EXCEPT !.st = "IDLE", !.done = TRUE]

\* The last word of a buffer is written as the DMA leaves its data state.
Dmas(moving) ==
  /\ dma' = [b \in Buffers |-> DmaNext(b, b \in moving)]
  /\ buf' = [b \in Buffers |-> IF dma[b].st = "RUN" /\ b \in moving
                                 THEN Filled(buf[b], dma[b].cmd) ELSE buf[b]]

-----------------------------------------------------------------------------
(* The engines.                                                            *)

TWICE == <<>>
FOREIGN == <<READER>>
Accumulate(old, new) ==
  IF old \cap new = {} THEN old \cup new ELSE old \cup new \cup {TWICE}

Element(b, row, word, lane) ==
  <<buf[b][row % PF_ROWS, word % PF_COL_WORDS], lane>>

\* The products that one k-tile adds to accumulator (i, j) of engine e: a_buf is
\* indexed by row and k; b_buf by k and column, or by column and k when the op
\* transposes.  The buffers answer READER alone, and every engine latches the
\* answers: those of another engine are of the tile READER happens to read.
Products(e, t, kt, i, j) ==
  LET a(kk) == Element("act", t.a_row + i,
                       kt * TILE_COL_WORDS + kk \div BUS_EL, kk % BUS_EL)
      b(r, c) == Element("wgt", kt * TILE + r, t.b_col + c \div BUS_EL,
                         c % BUS_EL)
  IN IF e = READER
       THEN {<<a(kk), IF t.op = "OP_MATMUL_T" THEN b(j, kk) ELSE b(kk, j)>> :
               kk \in 0 .. TILE - 1}
       ELSE {FOREIGN}

Lanes == (0 .. TILE - 1) \X (0 .. TILE - 1)

\* first_tile clears the accumulators on the first k-tile only.
TileDone(e) ==
  [x \in Lanes |->
     Accumulate(IF eng[e].kt = 0 THEN {} ELSE eng[e].acc[x],
                Products(e, eng[e].tile, eng[e].kt, x[1], x[2]))]

LastKTile(e) == eng[e].kt = CeilDiv(eng[e].tile.k, TILE) - 1

EngNext(e, moves) ==
  LET g == eng[e] IN
  CASE g.st = "IDLE" /\ eng_cmd_valid = e /\ g.ready ->
         [g EXCEPT !.st = "K_TILE", !.ready = FALSE, !.done = FALSE,
                   !.tile = eng_cmd, !.kt = 0]
    [] g.st = "IDLE" /\ ~(eng_cmd_valid = e /\ g.ready) ->
         [g EXCEPT !.ready = TRUE, !.done = FALSE]
    [] g.st = "K_TILE" /\ moves ->
         [g EXCEPT !.acc = TileDone(e),
                   !.kt = IF LastKTile(e) THEN @ ELSE @ + 1,
                   !.st = IF LastKTile(e) THEN "FLUSH" ELSE @]
    [] g.st = "FLUSH" /\ moves -> [g EXCEPT !.st = "DONE"]
    [] g.st \in {"K_TILE", "FLUSH"} /\ ~moves -> g
    [] g.st = "DONE" -> [g EXCEPT !.st = "IDLE", !.done = TRUE]

Flushing(moving) == {e \in Engines \cap moving : eng[e].st = "FLUSH"}

\* The URAM elements an engine writes, and the accumulator that goes to each.
Target(e, x) == << (eng[e].tile.out_row + x[1]) % URAM_ROWS,
                   (eng[e].tile.out_col * BUS_EL + x[2])
                     % (URAM_COL_WORDS * BUS_EL) >>
Written(e) ==
  [y \in {Target(e, x) : x \in Lanes} |->
     LET x == CHOOSE x \in Lanes : Target(e, x) = y
     IN IF eng[e].tile.first THEN eng[e].acc[x]
                             ELSE Accumulate(uram[y], eng[e].acc[x])]

\* The URAM has one write port: one engine sees its last beat accepted at a time.
EngineStep(moving) ==
  /\ Cardinality(Flushing(moving)) <= 1
  /\ eng' = [e \in Engines |-> EngNext(e, e \in moving)]
  /\ IF Flushing(moving) = {} THEN UNCHANGED uram
     ELSE LET w == Written(CHOOSE e \in Flushing(moving) : TRUE)
          IN uram' = [y \in DOMAIN uram |-> IF y \in DOMAIN w THEN w[y] ELSE uram[y]]

-----------------------------------------------------------------------------
(* The dispatcher, one action per branch of its case statement.            *)

done_rising == {e \in Engines : eng[e].done} \ eng_done_prev
Remaining == (tiles_outstanding - Cardinality(done_rising)) % 65536

\* The idle engines; idle_eng is the one of the lowest index.
\* Mutant of Idle: an engine commanded at the previous edge still looks idle.
Idle_JustDispatched == {e \in Engines : eng[e].ready}
Idle == {e \in Engines : eng[e].ready /\ eng_cmd_valid # e}

\* What every edge does to the prefetch flags before its branch is taken.
Latched == [b \in Buffers |-> [pf[b] EXCEPT !.valid = FALSE,
                                            !.done_r = @ \/ dma[b].done]]
NoPrefetch == pf' = Latched

\* The edges that dispatch no tile.
NoTile == /\ eng_cmd_valid' = NONE /\ UNCHANGED eng_cmd
          /\ tiles_outstanding' = Remaining

EveryEdge == eng_done_prev' = {e \in Engines : eng[e].done}

Goto(s) == state' = s /\ cmd_done' = FALSE

Await == /\ state = "ST_IDLE" /\ cmd = NONE
         /\ Goto("ST_IDLE") /\ cmd_ready' = TRUE
         /\ NoPrefetch /\ NoTile /\ UNCHANGED <<command, cursor>>

Accept == /\ state = "ST_IDLE" /\ cmd # NONE
          /\ Goto("ST_SETUP") /\ cmd_ready' = FALSE /\ cmd_r' = cmd
          /\ NoPrefetch /\ NoTile
          /\ UNCHANGED <<k_chunk_idx, n_chunk_idx, cursor>>

Setup == /\ state = "ST_SETUP" /\ Goto("ST_K_CHUNK_SETUP")
         /\ k_chunk_idx' = 0
         /\ NoPrefetch /\ NoTile
         /\ UNCHANGED <<cmd_ready, cmd_r, n_chunk_idx, cursor>>

KChunkSetup == /\ state = "ST_K_CHUNK_SETUP" /\ Goto("ST_N_CHUNK_SETUP")
               /\ n_chunk_idx' = 0
               /\ NoPrefetch /\ NoTile
               /\ UNCHANGED <<cmd_ready, cmd_r, k_chunk_idx, cursor>>

NoFlags == [b \in Buffers |-> [valid |-> FALSE, launched |-> FALSE, done_r |-> FALSE]]

NChunkSetup == /\ state = "ST_N_CHUNK_SETUP" /\ Goto("ST_PREFETCH_CMD")
               /\ pf' = NoFlags
               /\ NoTile /\ UNCHANGED <<cmd_ready, command, cursor>>

\* valid is held until the edge after the DMA took the command.
PrefetchCmd ==
  /\ state = "ST_PREFETCH_CMD"
  /\ Goto(IF \A b \in Buffers : pf[b].launched THEN "ST_WAIT_PREFETCH" ELSE state)
  /\ pf' = [b \in Buffers |->
              IF pf[b].launched THEN Latched[b]
              ELSE [Latched[b] EXCEPT !.valid = TRUE,
                                      !.launched = pf[b].valid /\ dma[b].ready]]
  /\ NoTile /\ UNCHANGED <<cmd_ready, command, cursor>>

WaitPrefetch ==
  /\ state = "ST_WAIT_PREFETCH" /\ NoPrefetch
  /\ IF \A b \in Buffers : pf[b].done_r
       THEN /\ Goto("ST_DISPATCH") /\ cur_m' = 0 /\ cur_n' = 0
            /\ all_dispatched' = FALSE /\ tiles_outstanding' = 0
            /\ eng_cmd_valid' = NONE /\ UNCHANGED eng_cmd
       ELSE Goto(state) /\ NoTile /\ UNCHANGED cursor
  /\ UNCHANGED <<cmd_ready, command>>

Dispatch ==
  /\ state = "ST_DISPATCH" /\ ~all_dispatched /\ Idle # {}
  /\ eng_cmd_valid' = CHOOSE e \in Idle : \A f \in Idle : e <= f
  /\ eng_cmd' = Tile
  /\ tiles_outstanding' = (Remaining + 1) % 65536
  /\ LET last_n == cur_n = num_n_tiles_chunk - 1
         last_m == cur_m = num_m_tiles - 1
     IN /\ cur_n' = IF last_n THEN 0 ELSE cur_n + 1
        /\ cur_m' = IF last_n /\ ~last_m THEN cur_m + 1 ELSE cur_m
        /\ all_dispatched' = (last_n /\ last_m)
        /\ Goto(IF last_n /\ last_m THEN "ST_WAIT" ELSE state)
  /\ NoPrefetch /\ UNCHANGED <<cmd_ready, command>>

DispatchWait ==
  /\ state = "ST_DISPATCH" /\ (all_dispatched \/ Idle = {})
  /\ Goto(state) /\ NoPrefetch /\ NoTile
  /\ UNCHANGED <<cmd_ready, command, cursor>>

\* Mutant of AllTilesDone: the chunk is left with a tile still being computed.
AllTilesDone_OneLeft == tiles_outstanding <= Cardinality(done_rising) + 1
AllTilesDone == tiles_outstanding = Cardinality(done_rising)

Wait ==
  /\ state = "ST_WAIT"
  /\ Goto(IF AllTilesDone
            THEN "ST_NEXT_N_CHUNK" ELSE state)
  /\ NoPrefetch /\ NoTile /\ UNCHANGED <<cmd_ready, command, cursor>>

LastNChunk == n_chunk_idx = num_n_chunks - 1

NextNChunk ==
  /\ state = "ST_NEXT_N_CHUNK"
  /\ IF LastNChunk
       THEN Goto("ST_NEXT_K_CHUNK") /\ UNCHANGED n_chunk_idx
       ELSE Goto("ST_N_CHUNK_SETUP") /\ n_chunk_idx' = n_chunk_idx + 1
  /\ NoPrefetch /\ NoTile
  /\ UNCHANGED <<cmd_ready, cmd_r, k_chunk_idx, cursor>>

NextKChunk ==
  /\ state = "ST_NEXT_K_CHUNK"
  /\ IF k_chunk_idx = num_k_chunks - 1
       THEN Goto("ST_DONE") /\ UNCHANGED k_chunk_idx
       ELSE Goto("ST_K_CHUNK_SETUP") /\ k_chunk_idx' = k_chunk_idx + 1
  /\ NoPrefetch /\ NoTile
  /\ UNCHANGED <<cmd_ready, cmd_r, n_chunk_idx, cursor>>

Done == /\ state = "ST_DONE" /\ state' = "ST_IDLE" /\ cmd_done' = TRUE
        /\ NoPrefetch /\ NoTile /\ UNCHANGED <<cmd_ready, command, cursor>>

-----------------------------------------------------------------------------
\* The controller shows a command for one cycle, after it saw cmd_ready.
Client == cmd' \in IF cmd_ready /\ cmd = NONE THEN MatmulCommands \cup {NONE}
                                             ELSE {NONE}

\* The edge as the rest of the unit sees it.
Edge(dmas, engs) == Dmas(dmas) /\ EngineStep(engs) /\ EveryEdge /\ Client

STALE == -1     \* what a memory holds before this unit first writes it
FirstCommand == CHOOSE c \in MatmulCommands : TRUE  \* cmd_r has no reset value

Init ==
  /\ cmd = NONE /\ state = "ST_IDLE" /\ cmd_ready = TRUE /\ cmd_done = FALSE
  /\ cmd_r = FirstCommand /\ k_chunk_idx = 0 /\ n_chunk_idx = 0
  /\ cur_m = 0 /\ cur_n = 0 /\ all_dispatched = FALSE /\ tiles_outstanding = 0
  /\ pf = NoFlags /\ eng_cmd_valid = NONE /\ eng_cmd = Tile /\ eng_done_prev = {}
  /\ dma = [b \in Buffers |-> [st |-> "IDLE", ready |-> TRUE, done |-> FALSE,
                               cmd |-> Prefetch(b)]]
  /\ buf = [b \in Buffers |->
              [x \in (0 .. PF_ROWS - 1) \X (0 .. PF_COL_WORDS - 1) |-> STALE]]
  /\ eng = [e \in Engines |-> [st |-> "IDLE", ready |-> TRUE, done |-> FALSE,
                               tile |-> Tile, kt |-> 0, acc |-> [x \in Lanes |-> {}]]]
  /\ uram = [y \in (0 .. URAM_ROWS - 1) \X (0 .. URAM_COL_WORDS * BUS_EL - 1) |-> {}]

Next ==
  \E dmas \in SUBSET Buffers, engs \in SUBSET Engines :
    \/ Await /\ Edge(dmas, engs)
    \/ Accept /\ Edge(dmas, engs)
    \/ Setup /\ Edge(dmas, engs)
    \/ KChunkSetup /\ Edge(dmas, engs)
    \/ NChunkSetup /\ Edge(dmas, engs)
    \/ PrefetchCmd /\ Edge(dmas, engs)
    \/ WaitPrefetch /\ Edge(dmas, engs)
    \/ Dispatch /\ Edge(dmas, engs)
    \/ DispatchWait /\ Edge(dmas, engs)
    \/ Wait /\ Edge(dmas, engs)
    \/ NextNChunk /\ Edge(dmas, engs)
    \/ NextKChunk /\ Edge(dmas, engs)
    \/ Done /\ Edge(dmas, engs)

Spec == Init /\ [][Next]_tilingVars

\* A DMA finishes its rectangle; an engine finishes a k-tile or its output.  An
\* engine without a read port may wait for its words for ever.
DmaProgress(b) == Next /\ dma[b].st = "RUN" /\ dma'[b].st # "RUN"
EngProgress(e) == /\ Next /\ eng'[e] # eng[e]
                  /\ \/ eng[e].st = "FLUSH"
                     \/ eng[e].st = "K_TILE" /\ e = READER

\* The clock runs, HBM answers every burst, and the write arbiter, which is
\* round robin, starves no engine.
FairSpec == Spec /\ WF_tilingVars(Next)
                 /\ \A b \in Buffers : WF_tilingVars(DmaProgress(b))
                 /\ \A e \in Engines : WF_tilingVars(EngProgress(e))

-----------------------------------------------------------------------------
(* Properties.                                                             *)

\* The engines at work on a tile, or told to start one.
Busy == {e \in DOMAIN eng : eng[e].st # "IDLE" \/ eng_cmd_valid = e}
TileOf(e) == IF eng_cmd_valid = e THEN eng_cmd ELSE eng[e].tile

\* The count the dispatcher waits on is the number of tiles it has handed out
\* and not seen the end of, so no chunk is left before its last tile is written.
OutstandingExact ==
  tiles_outstanding = Cardinality(Busy \cup {e \in DOMAIN eng : eng[e].done})

\* A prefetch buffer is filled only while no engine reads it: the two share no
\* lock, only the order of the dispatcher's states.
BuffersQuiet == \A b \in Buffers : dma[b].st # "IDLE" => Busy = {}

\* Two engines never work on the same output tile, nor on tiles of two chunks:
\* the read-modify-write of the URAM is not ordered between engines.
TilesDisjoint ==
  \A e, f \in Busy :
    e # f => /\ <<TileOf(e).out_row, TileOf(e).out_col>>
                   # <<TileOf(f).out_row, TileOf(f).out_col>>
             /\ TileOf(e).first = TileOf(f).first

\* The region of the URAM a command's product goes to.
Region(c) == [x \in (0 .. c.m - 1) \X (0 .. c.n - 1) |->
                uram[x[1], c.out_col_offset * BUS_EL + x[2]]]

Contract == INSTANCE MatmulContract
  WITH pending <- IF state = "ST_IDLE" THEN NONE ELSE cmd_r,
       answer <- IF cmd_done THEN Region(cmd_r) ELSE NONE

\* The answer has the whole product: "OP_MATMUL_T means A x B^T in hardware, where B
\* is stored row-major" (verify/compare_matmul_fns.py).
ProductAnswered == cmd_done => Region(cmd_r) = Contract!Product(cmd_r)
=============================================================================
