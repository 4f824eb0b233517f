------------------------- MODULE ScalarPath_proofs --------------------------
EXTENDS ScalarPath, FiniteSetTheorems, TLAPS
-----------------------------------------------------------------------------
(* The registers.                                                          *)

States == {"ST_IDLE", "ST_FIND_MAX", "ST_COMP_EXP", "ST_COMP_MEAN", "ST_COMP_VAR",
           "ST_NORMALIZE", "ST_PROCESS", "ST_DONE"}

\* The registers of a record r; {r.f} stands for a value nothing is said of.
UnitShape(r) ==
  r \in [state : States, done : BOOLEAN, len : Nat, idx : Nat, inflight : BOOLEAN,
         rd_en : BOOLEAN, sub_en : BOOLEAN, rd_addr : Nat,
         wr_en : BOOLEAN, wr_addr : Nat, wr_data : {r.wr_data}]
SmShape(r) ==
  r \in [valid_r : BOOLEAN, data_r : {r.data_r}, rx_cnt : Nat, scale_r : {r.scale_r},
         row_r : {r.row_r}, max_val : {r.max_val}, exp_sum : {r.exp_sum},
         exp_buffer : {r.exp_buffer}, norm_valid : BOOLEAN, norm_idx : Nat,
         exp_buf : {r.exp_buf}]
PipeShape(r) ==
  r \in [valid : BOOLEAN, normalized : {r.normalized}, gamma : {r.gamma},
         beta : {r.beta}, wr_addr : Nat]
LnShape(r) ==
  /\ r \in [valid_r : BOOLEAN, data_r : {r.data_r}, idx_r : {r.idx_r}, sum : {r.sum},
            mean : {r.mean}, var_sum : {r.var_sum}, inv_std : {r.inv_std},
            input_buffer : {r.input_buffer}, bram_rd_addr : {r.bram_rd_addr},
            bram_rd_data : {r.bram_rd_data}, buf_rd_valid : BOOLEAN, pipe1 : {r.pipe1}]
  /\ PipeShape(r.pipe1)
ActShape(r) ==
  r \in [relu_valid : BOOLEAN, relu_out : {r.relu_out}, wr_addr_pipe1 : Nat,
         wr_addr_pipe2 : Nat]
ResShape(r) ==
  r \in [got_res : BOOLEAN, got_sub : BOOLEAN, res : {r.res}, sub : {r.sub}]

AdShape(r) ==
  r \in [state : {"AD_IDLE", "AD_RD_WAIT"},
         cache_valid : BOOLEAN, cache_at : Places, cache_data : {r.cache_data},
         wb_dirty : BOOLEAN, wb_at : Places, wb_data : {r.wb_data},
         rd_data : {r.rd_data}, rd_valid : BOOLEAN, flush_done : BOOLEAN,
         pending_el : Word, uram_rd_en : BOOLEAN, uram_rd_at : Places,
         uram_wr_en : BOOLEAN, uram_wr_at : Places, uram_wr_data : {r.uram_wr_data}]
DmaShape(r) ==
  r \in [state : {"AX_IDLE", "AX_RD_AR", "AX_RD_DATA"}, rd_data : {r.rd_data},
         rd_valid : BOOLEAN, el_pending : {r.el_pending}, rcache_valid : BOOLEAN,
         rcache_tag : {r.rcache_tag}, rcache_data : {r.rcache_data},
         miss_word : {r.miss_word}, arvalid : BOOLEAN]

OwnShape == CASE unit = "sm" -> SmShape(x) [] unit = "ln" -> LnShape(x)
              [] unit = "act" -> ActShape(x) [] OTHER -> ResShape(x)

TypeOK == /\ UnitShape(u) /\ OwnShape /\ AdShape(ad) /\ DmaShape(dma)
          /\ start \in BOOLEAN /\ adapter_flush \in BOOLEAN /\ offset \in Nat

-----------------------------------------------------------------------------
(* The two read ports: at most one request is on its way.                  *)

NoRead == ~u.rd_en /\ ad.state = "AD_IDLE" /\ ~ad.rd_valid
Asked == u.rd_en /\ ad.state = "AD_IDLE" /\ ~ad.rd_valid
Missing == ~u.rd_en /\ ad.state = "AD_RD_WAIT" /\ ~ad.rd_valid
Answered == ~u.rd_en /\ ad.state = "AD_IDLE" /\ ad.rd_valid
OneRead == Asked \/ Missing \/ Answered

NoSub == ~u.sub_en /\ dma.state = "AX_IDLE" /\ ~dma.rd_valid
SubAsked == u.sub_en /\ dma.state = "AX_IDLE" /\ ~dma.rd_valid
SubMissing == ~u.sub_en /\ dma.state # "AX_IDLE" /\ ~dma.rd_valid
SubAnswered == ~u.sub_en /\ dma.state = "AX_IDLE" /\ dma.rd_valid
OneSub == SubAsked \/ SubMissing \/ SubAnswered

\* inflight says whether there is one.
ReadFlight == IF u.inflight THEN OneRead ELSE NoRead
SubFlight == IF u.inflight THEN OneSub ELSE NoSub

-----------------------------------------------------------------------------
(* The stages of the units.                                                *)

Bit(b) == IF b THEN 1 ELSE 0
Still == NoRead /\ NoSub /\ ~u.inflight
NoWrite == ~u.wr_en

SmRead == /\ u.state \in {"ST_FIND_MAX", "ST_COMP_EXP"} /\ NoWrite
          /\ ReadFlight /\ NoSub /\ ~x.norm_valid
          /\ u.idx = x.rx_cnt + Bit(x.valid_r) + Bit(u.inflight) /\ u.idx <= u.len
          /\ u.idx > 0 => u.rd_addr = u.idx - 1
\* The element read from exp_buffer is written an edge after the next one is read.
SmWrite == /\ u.state = "ST_NORMALIZE" /\ Still /\ ~x.valid_r
           /\ x.norm_valid <=> u.idx > 0
           /\ x.norm_valid => u.idx = x.norm_idx + 1 /\ u.idx <= u.len
           /\ u.wr_en <=> u.idx > 1
           /\ u.wr_en => u.wr_addr = u.idx - 2
SmLast == /\ u.state = "ST_DONE" /\ Still /\ ~x.valid_r /\ ~x.norm_valid
          /\ u.wr_en /\ u.wr_addr = u.len - 1
SmRest == u.state = "ST_IDLE" /\ NoWrite /\ Still /\ ~x.valid_r /\ ~x.norm_valid

LnRead == /\ u.state = "ST_COMP_MEAN" /\ NoWrite /\ ~x.pipe1.valid
          /\ ReadFlight /\ NoSub /\ u.idx <= u.len
          /\ u.inflight => u.idx > 0
          /\ u.idx > 0 => u.rd_addr = u.idx - 1
LnVar == u.state = "ST_COMP_VAR" /\ NoWrite /\ Still /\ ~x.pipe1.valid
LnWrite == /\ u.state = "ST_NORMALIZE" /\ NoRead /\ SubFlight /\ u.idx <= u.len
           /\ u.inflight => u.idx > 0 /\ ~x.pipe1.valid
           /\ x.pipe1.valid => u.idx > 0 /\ x.pipe1.wr_addr = u.idx - 1
           /\ u.wr_en => ~x.pipe1.valid /\ u.idx > Bit(u.inflight)
                         /\ u.wr_addr = u.idx - Bit(u.inflight) - 1
LnQuiet == NoWrite /\ Still /\ ~x.pipe1.valid
LnLast == u.state = "ST_DONE" /\ LnQuiet
LnRest == u.state = "ST_IDLE" /\ LnQuiet

ActRun == /\ u.state = "ST_PROCESS" /\ ReadFlight /\ NoSub /\ u.idx <= u.len
          /\ u.inflight => ~x.relu_valid /\ ~u.wr_en
          /\ x.relu_valid => ~u.wr_en /\ x.wr_addr_pipe2 = u.rd_addr
          /\ u.wr_en => u.wr_addr = u.rd_addr
          /\ u.inflight /\ ~u.rd_en => x.wr_addr_pipe1 = u.rd_addr
          /\ u.inflight \/ x.relu_valid \/ u.wr_en => u.idx > 0
          /\ u.idx > 0 => u.rd_addr = u.idx - 1
ActQuiet == NoWrite /\ Still /\ ~x.relu_valid
ActLast == u.state = "ST_DONE" /\ ActQuiet
ActRest == u.state = "ST_IDLE" /\ ActQuiet

ResRun == /\ u.state = "ST_PROCESS" /\ u.idx <= u.len
          /\ IF u.inflight THEN /\ IF x.got_res THEN NoRead ELSE OneRead
                                /\ IF x.got_sub THEN NoSub ELSE OneSub
                                /\ NoWrite /\ u.rd_addr = u.idx /\ u.idx < u.len
                           ELSE NoRead /\ NoSub /\ ~x.got_res /\ ~x.got_sub
          /\ u.wr_en => u.idx > 0 /\ u.wr_addr = u.idx - 1 /\ u.rd_addr = u.idx - 1
ResLast == u.state = "ST_DONE" /\ NoWrite /\ Still
ResRest == u.state = "ST_IDLE" /\ NoWrite /\ Still

Rests == CASE unit = "sm" -> SmRest [] unit = "ln" -> LnRest
           [] unit = "act" -> ActRest [] OTHER -> ResRest
Works == CASE unit = "sm" -> SmRead \/ SmWrite \/ SmLast
           [] unit = "ln" -> LnRead \/ LnVar \/ LnWrite \/ LnLast
           [] unit = "act" -> ActRun \/ ActLast
           [] OTHER -> ResRun \/ ResLast

-----------------------------------------------------------------------------
(* The controller's side.                                                  *)

Len0 == IF ByRow THEN job.len ELSE job.rows * job.len
Base == IF ByRow THEN row * job.len ELSE 0

DriverInv ==
  /\ row \in 0 .. job.rows - 1 /\ (~ByRow => offset = 0)
  /\ start => phase = "run" /\ cmd.len = Len0 /\ offset = Base
  /\ u.done => phase = "run" /\ Rests
  /\ phase = "run" => ~adapter_flush
  /\ adapter_flush => phase = "flush"
  /\ phase # "run" => Rests
  /\ ~Rests => u.len = Len0 /\ offset = Base

PathInv == TypeOK /\ (Rests \/ Works) /\ DriverInv


-----------------------------------------------------------------------------
(* What the adapter holds.                                                 *)

\* The word a read would find, the cache apart.
View(p) == IF Buffered(p) THEN ad.wb_data
           ELSE IF ad.uram_wr_en /\ ad.uram_wr_at = p THEN ad.uram_wr_data ELSE uram[p]
Present(a) == Cached(Place(a)) \/ Buffered(Place(a))
Kept(n) == IF n > 0 THEN Buffered(Place(n - 1)) ELSE ~ad.wb_dirty

\* Every element is as the writes left it, those from lo to hi - 1 apart.
Among(p, e, lo, hi) == \E a \in lo .. hi - 1 : Place(a) = p /\ El(a) = e
Coherent(lo, hi) == \A p \in Places, e \in Word :
                      Among(p, e, lo, hi) \/ View(p)[e] = shadow[p][e]
AllCoherent == \A p \in Places, e \in Word : View(p)[e] = shadow[p][e]

Shapes == /\ DOMAIN uram = Places /\ DOMAIN shadow = Places
          /\ \A p \in Places : DOMAIN uram[p] = Word /\ DOMAIN shadow[p] = Word
          /\ DOMAIN ad.cache_data = Word /\ DOMAIN ad.wb_data = Word
          /\ DOMAIN ad.uram_wr_data = Word

CacheInv == ad.cache_valid /\ ~Buffered(ad.cache_at) =>
              \A e \in Word : ad.cache_data[e] = shadow[ad.cache_at][e]

Stages == 1 .. RD_LATENCY
PipeInv ==
  /\ DOMAIN rd_pipe = Stages
  /\ ad.uram_rd_en => ~ad.uram_wr_en /\ ~Buffered(ad.uram_rd_at)
                      /\ \A s \in Stages : ~rd_pipe[s].valid
  /\ \A s \in Stages : rd_pipe[s].valid =>
       /\ \A t \in Stages : rd_pipe[t].valid => t = s
       /\ DOMAIN rd_pipe[s].data = Word
       /\ \A e \in Word : rd_pipe[s].data[e] = shadow[ad.uram_rd_at][e]
  /\ ad.state = "AD_IDLE" => ~ad.uram_rd_en /\ \A s \in Stages : ~rd_pipe[s].valid

DueInv ==
  /\ ad.rd_valid => ad.rd_data = due
  /\ ad.state = "AD_RD_WAIT" =>
       /\ due = shadow[ad.uram_rd_at][ad.pending_el]
       /\ ad.uram_rd_at = Place(Base + u.rd_addr)

MemInv == Shapes /\ CacheInv /\ PipeInv /\ DueInv

\* After the row's w first elements were written.
RowMem(w) == /\ Coherent(Base + w, Base + Len0) /\ Kept(Base + w)
             /\ Present(Base + Len0 - 1)
Read(n) == ~u.rd_en /\ ad.state = "AD_IDLE" => Present(n)
RowRead == AllCoherent /\ Kept(Base) /\ (u.idx > 0 => Read(Base + u.rd_addr))

\* How many elements of the row layernorm has written.
Sent == u.idx - Bit(u.inflight \/ x.pipe1.valid) - Bit(u.wr_en)

StageMem ==
  /\ ByRow /\ Rests => AllCoherent /\ Kept(IF u.done THEN Base + Len0 ELSE Base)
  /\ unit = "sm" /\ SmRead => RowRead
  /\ unit = "sm" /\ SmWrite => RowMem(IF u.wr_en THEN u.wr_addr ELSE 0)
  /\ unit = "sm" /\ SmLast => RowMem(u.wr_addr)
  /\ unit = "ln" /\ LnRead => RowRead
  /\ unit = "ln" /\ LnVar => AllCoherent /\ Kept(Base) /\ Present(Base + Len0 - 1)
  /\ unit = "ln" /\ LnWrite => RowMem(Sent)
  /\ unit = "ln" /\ LnLast => AllCoherent /\ Kept(Base + Len0)
  /\ ~ByRow => AllCoherent
  /\ unit = "act" /\ ActRun /\ u.idx > 0 => Read(u.rd_addr)
  /\ unit = "res" /\ ResRun /\ (u.inflight \/ u.wr_en) => Read(u.rd_addr)

CohInv == phase = "run" => MemInv /\ StageMem
-----------------------------------------------------------------------------
(* The ports at an edge.                                                   *)

Ports == [valid |-> ad.rd_valid, data |-> ad.rd_data,
          sub_valid |-> dma.rd_valid, sub_data |-> dma.rd_data]
Edge == /\ Adapter(u.rd_en, Address(u.rd_addr), u.wr_en, Address(u.wr_addr), u.wr_data,
                   adapter_flush)
        /\ Dma(u.sub_en, u.rd_addr)

ReadMoves ==
  /\ NoRead \/ Answered => IF u'.rd_en THEN Asked' ELSE NoRead'
  /\ (Asked /\ ~u.wr_en) \/ Missing => (~u'.rd_en => Missing' \/ Answered')
SubMoves ==
  /\ NoSub \/ SubAnswered => IF u'.sub_en THEN SubAsked' ELSE NoSub'
  /\ SubAsked \/ SubMissing => (~u'.sub_en => SubMissing' \/ SubAnswered')

\* Quotient and remainder, as the SMT backend knows them of constants.
LEMMA Division ==
  ASSUME NEW a \in Int, NEW b \in Nat \ {0}
  PROVE  /\ a \div b \in Int /\ a % b \in 0 .. b - 1
         /\ a = (a \div b) * b + (a % b)
OBVIOUS

\* They are the only ones.
LEMMA DivMod ==
  ASSUME NEW q \in Int, NEW b \in Nat \ {0}, NEW r \in 0 .. b - 1
  PROVE  (q * b + r) \div b = q /\ (q * b + r) % b = r
<1> DEFINE a == q * b + r  p == a \div b  s == a % b
<1>1. a \in Int
  OBVIOUS
<1>2. p \in Int /\ s \in 0 .. b - 1 /\ a = p * b + s
  BY <1>1, Division
<1>3. a = q * b + r
  OBVIOUS
<1> HIDE DEF a, p, s
<1>4. (p - q) * b = r - s
  BY <1>1, <1>2, <1>3
<1>5. ~(p - q >= 1) /\ ~(q - p >= 1)
  <2>1. ASSUME p - q >= 1  PROVE FALSE
    <3>1. (p - q) * b >= b
      BY <1>2, <2>1
    <3> QED BY <1>2, <1>4, <3>1
  <2>2. ASSUME q - p >= 1  PROVE FALSE
    <3>1. (q - p) * b >= b /\ (q - p) * b = 0 - (p - q) * b
      BY <1>2, <2>2
    <3> QED BY <1>2, <1>4, <3>1
  <2> QED BY <1>2, <2>1, <2>2
<1>6. p = q
  BY <1>2, <1>5
<1>7. s = r
  BY <1>2, <1>3, <1>6
<1> QED
  BY <1>6, <1>7 DEF a, p, s

\* The words of a row, and the word an address lies in.
RowWords == ROW_EL \div BUS_EL
Line(a) == a \div BUS_EL

\* The sizes of the memory, and a row as a number of words.
LEMMA Sizes == /\ BUS_EL \in Nat \ {0} /\ ROW_EL \in Nat \ {0} /\ ROWS \in Nat \ {0}
               /\ RD_LATENCY \in Nat \ {0}
               /\ RowWords \in Nat \ {0} /\ ROW_EL = RowWords * BUS_EL
<1>1. /\ BUS_EL \in Nat \ {0} /\ ROW_EL \in Nat \ {0} /\ ROWS \in Nat \ {0}
      /\ RD_LATENCY \in Nat \ {0} /\ ROW_EL % BUS_EL = 0
  BY MemoryAssumption
<1>2. RowWords \in Int /\ ROW_EL = RowWords * BUS_EL
  BY <1>1, Division DEF RowWords
<1>3. RowWords > 0
  <2>1. ASSUME RowWords <= 0 PROVE RowWords * BUS_EL <= 0
    BY <1>1, <1>2, <2>1
  <2> QED
    BY <1>1, <1>2, <2>1
<1> QED
  BY <1>1, <1>2, <1>3

\* An address is an element of a word.
LEMMA LineElement == ASSUME NEW a \in Nat
                     PROVE  /\ Line(a) \in Nat /\ El(a) \in Word
                            /\ a = Line(a) * BUS_EL + El(a)
<1>1. Line(a) \in Int /\ El(a) \in 0 .. BUS_EL - 1 /\ a = Line(a) * BUS_EL + El(a)
  BY Sizes, Division DEF Line, El
<1>2. ASSUME Line(a) <= -1 PROVE Line(a) * BUS_EL <= (-1) * BUS_EL
  BY <1>1, <1>2, Sizes
<1> QED
  BY <1>1, <1>2, Sizes DEF Word

\* The place of a word, by its number.
LEMMA PlaceOfLine ==
  ASSUME NEW a \in Nat
  PROVE  /\ Place(a) = <<(Line(a) \div RowWords) % ROWS, Line(a) % RowWords>>
         /\ Place(a) \in Places
<1> DEFINE q == a \div ROW_EL  r == a % ROW_EL  m == r \div BUS_EL  e == r % BUS_EL
<1>0. /\ BUS_EL \in Nat \ {0} /\ ROW_EL \in Nat \ {0}
      /\ RowWords \in Nat \ {0} /\ ROWS \in Nat \ {0}
  BY Sizes
<1>1. q \in Int /\ r \in 0 .. ROW_EL - 1 /\ a = q * ROW_EL + r
  BY <1>0, Division
<1>2. m \in Nat /\ e \in 0 .. BUS_EL - 1 /\ r = m * BUS_EL + e
  <2>1. r \in Nat
    BY <1>0, <1>1
  <2> HIDE DEF r
  <2> QED
    BY <2>1, LineElement DEF Line, El, Word
<1>p. Place(a) = <<q % ROWS, m>>
  BY DEF Place
<1> HIDE DEF q, r, m, e
<1>3. m < RowWords
  <2>1. ASSUME m >= RowWords PROVE m * BUS_EL >= RowWords * BUS_EL
    BY <1>2, <2>1, Sizes
  <2>2. m * BUS_EL \in Int /\ RowWords * BUS_EL \in Int
    BY <1>2, Sizes
  <2> QED
    BY <1>1, <1>2, <2>1, <2>2, Sizes
<1>4. a = (q * RowWords + m) * BUS_EL + e
  <2>1. q * (RowWords * BUS_EL) = (q * RowWords) * BUS_EL
    BY <1>1, Sizes
  <2>2. (q * RowWords + m) * BUS_EL = (q * RowWords) * BUS_EL + m * BUS_EL
    BY <1>1, <1>2, Sizes
  <2> QED
    BY <1>1, <1>2, <2>1, <2>2, Sizes
<1>5. Line(a) = q * RowWords + m
  <2>1. q * RowWords + m \in Int
    BY <1>1, <1>2, Sizes
  <2> QED
    BY <1>2, <1>4, <2>1, DivMod, Sizes DEF Line
<1>6. Line(a) \div RowWords = q /\ Line(a) % RowWords = m
  <2>1. m \in 0 .. RowWords - 1
    BY <1>0, <1>2, <1>3
  <2>2. (q * RowWords + m) \div RowWords = q /\ (q * RowWords + m) % RowWords = m
    BY <1>0, <1>1, <2>1, DivMod
  <2> QED
    BY <1>5, <2>2
<1>7. q % ROWS \in 0 .. ROWS - 1
  BY <1>0, <1>1, Division
<1> QED
  BY <1>p, <1>2, <1>3, <1>6, <1>7, Sizes DEF Places, RowWords

\* Every address is an element of some place.
LEMMA PlaceType == ASSUME NEW a \in Nat PROVE Place(a) \in Places /\ El(a) \in Word
BY PlaceOfLine, LineElement

Capacity == ROWS * ROW_EL

\* Below the capacity, a place is a line.
LEMMA PlaceIsLine ==
  ASSUME NEW a \in 0 .. Capacity - 1, NEW b \in 0 .. Capacity - 1
  PROVE  Place(a) = Place(b) <=> Line(a) = Line(b)
<1>1. ASSUME NEW c \in 0 .. Capacity - 1
      PROVE  (Line(c) \div RowWords) % ROWS = Line(c) \div RowWords
  <2> DEFINE q == Line(c) \div RowWords  m == Line(c) % RowWords
  <2>1. c \in Nat /\ Line(c) \in Nat /\ Line(c) * BUS_EL <= c
    BY LineElement, Sizes DEF Word, Capacity
  <2>0. /\ BUS_EL \in Nat \ {0} /\ RowWords \in Nat \ {0} /\ ROWS \in Nat \ {0}
        /\ ROW_EL = RowWords * BUS_EL
    BY Sizes
  <2>2. q \in Int /\ m \in 0 .. RowWords - 1 /\ Line(c) = q * RowWords + m
    <3>1. Line(c) \in Int /\ RowWords \in Nat \ {0}
      BY <2>0, <2>1
    <3> QED
      BY <3>1, Division
  <2> HIDE DEF q, m
  <2>3. q >= 0
    <3>1. ASSUME q <= -1 PROVE q * RowWords <= (-1) * RowWords
      BY <2>2, <3>1, Sizes
    <3> QED
      BY <2>1, <2>2, <3>1, Sizes
  <2>4. q < ROWS
    <3> SUFFICES ASSUME q >= ROWS PROVE FALSE
      BY <2>2, Sizes
    <3>1. q * RowWords >= ROWS * RowWords
      BY <2>2, Sizes
    <3>2. Line(c) >= ROWS * RowWords
      BY <2>1, <2>2, <3>1, Sizes
    <3>3. Line(c) * BUS_EL >= (ROWS * RowWords) * BUS_EL
      BY <2>1, <3>2, Sizes
    <3>4. (ROWS * RowWords) * BUS_EL = Capacity
      BY Sizes DEF Capacity
    <3>5. Capacity \in Int /\ c < Capacity /\ c \in Int
      BY Sizes DEF Capacity
    <3>6. Line(c) * BUS_EL \in Int
      BY <2>0, <2>1
    <3> QED
      BY <2>1, <3>3, <3>4, <3>5, <3>6
  <2>5. (0 * ROWS + q) % ROWS = q
    BY SMTT(40), <2>2, <2>3, <2>4, DivMod, Sizes
  <2> QED
    BY <2>2, <2>5, Sizes DEF q
<1>2. a \in Nat /\ b \in Nat
  BY Sizes DEF Capacity
<1>3. ASSUME Place(a) = Place(b) PROVE Line(a) = Line(b)
  <2>1. /\ Line(a) \div RowWords = Line(b) \div RowWords
        /\ Line(a) % RowWords = Line(b) % RowWords
    BY <1>1, <1>2, <1>3, PlaceOfLine
  <2>2. /\ Line(a) = (Line(a) \div RowWords) * RowWords + (Line(a) % RowWords)
        /\ Line(b) = (Line(b) \div RowWords) * RowWords + (Line(b) % RowWords)
    <3>1. Line(a) \in Int /\ Line(b) \in Int /\ RowWords \in Nat \ {0}
      BY <1>2, LineElement, Sizes
    <3> QED
      BY <3>1, Division
  <2> QED
    BY <2>1, <2>2
<1>4. ASSUME Line(a) = Line(b) PROVE Place(a) = Place(b)
  BY <1>2, <1>4, PlaceOfLine
<1> QED
  BY <1>3, <1>4

\* The adapter muxes of top_level give addresses.
LEMMA AddressType == ASSUME UnitShape(u), offset \in Nat
                     PROVE  Address(u.rd_addr) \in Nat /\ Address(u.wr_addr) \in Nat
BY DEF UnitShape, Address

\* The adapter's registers keep their types at every kind of edge.
LEMMA QuietShape == AdShape(ad) => AdShape(AdQuiet)
BY DEF AdShape, AdQuiet
LEMMA CommitShape == ASSUME AdShape(ad), NEW r, AdShape(r) PROVE AdShape(Commit(r))
BY DEF AdShape, Commit
LEMMA AnswerShape == ASSUME NEW r, AdShape(r), NEW v PROVE AdShape(Answer(r, v))
BY DEF AdShape, Answer
Put(q, c, at, b) == [q EXCEPT !.cache_valid = @ /\ c, !.wb_dirty = TRUE, !.wb_at = at,
                              !.wb_data = b]
Fill(q, at, d) == [q EXCEPT !.state = "AD_IDLE", !.cache_valid = TRUE, !.cache_at = at,
                            !.cache_data = d]
LEMMA BufferShape ==
  ASSUME NEW r, AdShape(r), NEW c \in BOOLEAN, NEW at \in Places, NEW b
  PROVE  AdShape(Put(r, c, at, b))
BY DEF AdShape, Put
LEMMA FillShape ==
  ASSUME NEW r, AdShape(r), NEW at \in Places, NEW d
  PROVE  AdShape(Fill(r, at, d))
BY DEF AdShape, Fill

\* So they do at the adapter's edge, whichever it is.
LEMMA AdapterShape ==
  ASSUME UnitShape(u), offset \in Nat, AdShape(ad), Edge
  PROVE  AdShape(ad')
<1>a. ad.uram_rd_at \in Places
  BY DEF AdShape
<1>1. CASE AdRdWait
  <2> DEFINE v == UramAnswer.data[ad.pending_el]
  <2>1. AdShape(Answer(AdQuiet, v))
    BY QuietShape, AnswerShape
  <2>2. AdShape(Fill(Answer(AdQuiet, v), ad.uram_rd_at, UramAnswer.data))
    BY SMTT(40), <1>a, <2>1, FillShape
  <2> QED
    BY <1>1, <2>2, QuietShape DEF AdRdWait, Fill
<1>2. ASSUME NEW at \in Places, NEW el \in Word, NEW d, AdWrite(at, el, d)
      PROVE  AdShape(ad')
  <2>1. ASSUME NEW c \in BOOLEAN, NEW b
        PROVE  AdShape(Put(AdQuiet, c, at, b)) /\ AdShape(Put(Commit(AdQuiet), c, at, b))
    BY QuietShape, CommitShape, BufferShape
  <2> QED
    BY <1>2, <2>1 DEF AdWrite, Put
<1>3. ASSUME NEW at \in Places, NEW el \in Word, AdReadHit(at, el) \/ AdReadMiss(at, el)
      PROVE  AdShape(ad')
  <2>1. CASE AdReadMiss(at, el)
    BY <2>1, QuietShape DEF AdReadMiss, AdShape
  <2> QED
    BY <1>3, <2>1, QuietShape, AnswerShape DEF AdReadHit
<1>4. CASE AdFlush
  <2>1. ASSUME NEW r, AdShape(r)
        PROVE  AdShape([r EXCEPT !.wb_dirty = FALSE, !.cache_valid = FALSE,
                                 !.flush_done = TRUE])
    BY <2>1 DEF AdShape
  <2> QED
    BY <1>4, <2>1, QuietShape, CommitShape DEF AdFlush
<1>5. CASE ad' = AdQuiet
  BY <1>5, QuietShape
<1> QED
  BY <1>1, <1>2, <1>3, <1>4, <1>5, AddressType, PlaceType DEF Edge, Adapter

\* What each of the adapter's moves leaves in its registers.
LEMMA QuietFields ==
  ASSUME AdShape(ad)
  PROVE  /\ AdQuiet.state = ad.state /\ (AdQuiet.cache_valid <=> ad.cache_valid)
         /\ AdQuiet.cache_at = ad.cache_at /\ AdQuiet.cache_data = ad.cache_data
         /\ AdQuiet.wb_dirty = ad.wb_dirty /\ AdQuiet.wb_at = ad.wb_at
         /\ AdQuiet.wb_data = ad.wb_data /\ AdQuiet.rd_data = ad.rd_data
         /\ ~AdQuiet.rd_valid /\ ~AdQuiet.flush_done
         /\ AdQuiet.pending_el = ad.pending_el /\ ~AdQuiet.uram_rd_en
         /\ AdQuiet.uram_rd_at = ad.uram_rd_at /\ ~AdQuiet.uram_wr_en
         /\ AdQuiet.uram_wr_at = ad.uram_wr_at /\ AdQuiet.uram_wr_data = ad.uram_wr_data
BY DEF AdShape, AdQuiet

\* What each kind of edge leaves in the adapter's registers.
LEMMA CommitFields ==
  ASSUME AdShape(ad), NEW q, AdShape(q)
  PROVE  /\ Commit(q).state = q.state /\ (Commit(q).cache_valid <=> q.cache_valid)
         /\ Commit(q).cache_at = q.cache_at /\ Commit(q).cache_data = q.cache_data
         /\ Commit(q).wb_dirty = q.wb_dirty /\ Commit(q).wb_at = q.wb_at
         /\ Commit(q).wb_data = q.wb_data /\ Commit(q).rd_data = q.rd_data
         /\ Commit(q).rd_valid = q.rd_valid /\ Commit(q).flush_done = q.flush_done
         /\ Commit(q).pending_el = q.pending_el /\ Commit(q).uram_rd_en = q.uram_rd_en
         /\ Commit(q).uram_rd_at = q.uram_rd_at /\ Commit(q).uram_wr_en
         /\ Commit(q).uram_wr_at = ad.wb_at /\ Commit(q).uram_wr_data = ad.wb_data
BY DEF AdShape, Commit

LEMMA AnswerFields ==
  ASSUME NEW q, AdShape(q), NEW v
  PROVE  LET r == Answer(q, v)
         IN  /\ r.state = q.state /\ (r.cache_valid <=> q.cache_valid)
             /\ r.cache_at = q.cache_at /\ r.cache_data = q.cache_data
             /\ r.wb_dirty = q.wb_dirty /\ r.wb_at = q.wb_at
             /\ r.wb_data = q.wb_data /\ r.rd_data = v /\ r.rd_valid
             /\ r.flush_done = q.flush_done /\ r.pending_el = q.pending_el
             /\ r.uram_rd_en = q.uram_rd_en /\ r.uram_rd_at = q.uram_rd_at
             /\ r.uram_wr_en = q.uram_wr_en /\ r.uram_wr_at = q.uram_wr_at
             /\ r.uram_wr_data = q.uram_wr_data
BY DEF AdShape, Answer

LEMMA BufferFields ==
  ASSUME NEW q, AdShape(q), NEW c \in BOOLEAN, NEW at \in Places, NEW b
  PROVE  LET r == Put(q, c, at, b)
         IN  /\ r.state = q.state /\ (r.cache_valid <=> (q.cache_valid /\ c))
             /\ r.cache_at = q.cache_at /\ r.cache_data = q.cache_data
             /\ r.wb_dirty /\ r.wb_at = at /\ r.wb_data = b
             /\ r.rd_data = q.rd_data /\ r.rd_valid = q.rd_valid
             /\ r.flush_done = q.flush_done /\ r.pending_el = q.pending_el
             /\ r.uram_rd_en = q.uram_rd_en /\ r.uram_rd_at = q.uram_rd_at
             /\ r.uram_wr_en = q.uram_wr_en /\ r.uram_wr_at = q.uram_wr_at
             /\ r.uram_wr_data = q.uram_wr_data
BY DEF AdShape, Put

LEMMA FillFields ==
  ASSUME NEW q, AdShape(q), NEW at \in Places, NEW d
  PROVE  LET r == Fill(q, at, d)
         IN  /\ r.state = "AD_IDLE" /\ r.cache_valid /\ r.cache_at = at
             /\ r.cache_data = d /\ r.wb_dirty = q.wb_dirty /\ r.wb_at = q.wb_at
             /\ r.wb_data = q.wb_data /\ r.rd_data = q.rd_data
             /\ r.rd_valid = q.rd_valid /\ r.flush_done = q.flush_done
             /\ r.pending_el = q.pending_el /\ r.uram_rd_en = q.uram_rd_en
             /\ r.uram_rd_at = q.uram_rd_at /\ r.uram_wr_en = q.uram_wr_en
             /\ r.uram_wr_at = q.uram_wr_at /\ r.uram_wr_data = q.uram_wr_data
BY DEF AdShape, Fill

LEMMA AskFields ==
  ASSUME AdShape(ad), NEW at \in Places, NEW el \in Word, AdReadMiss(at, el)
  PROVE  /\ ad'.state = "AD_RD_WAIT" /\ (ad'.cache_valid <=> ad.cache_valid)
         /\ ad'.cache_at = ad.cache_at /\ ad'.cache_data = ad.cache_data
         /\ ad'.wb_dirty = ad.wb_dirty /\ ad'.wb_at = ad.wb_at
         /\ ad'.wb_data = ad.wb_data /\ ad'.rd_data = ad.rd_data
         /\ ~ad'.rd_valid /\ ~ad'.flush_done
         /\ ad'.pending_el = el /\ ad'.uram_rd_en
         /\ ad'.uram_rd_at = at /\ ~ad'.uram_wr_en
         /\ ad'.uram_wr_at = ad.uram_wr_at /\ ad'.uram_wr_data = ad.uram_wr_data
BY DEF AdShape, AdReadMiss, AdQuiet

\* The same for act_dma.
LEMMA DmaKeepsShape == ASSUME DmaShape(dma), Edge PROVE DmaShape(dma')
BY ZenonT(60) DEF Edge, Dma, DmaIdle, DmaReadAddress, DmaReadData, DmaShape, DmaHit

Crossing(at) == ad.wb_dirty /\ ad.wb_at # at

\* A write, field by field.
LEMMA WriteStep ==
  ASSUME AdShape(ad), NEW at \in Places, NEW el \in Word, NEW d, AdWrite(at, el, d)
  PROVE  /\ ad'.state = ad.state /\ ~ad'.rd_valid /\ ~ad'.uram_rd_en
         /\ ad'.rd_data = ad.rd_data /\ ad'.pending_el = ad.pending_el
         /\ ad'.uram_rd_at = ad.uram_rd_at
         /\ ad'.cache_at = ad.cache_at /\ ad'.cache_data = ad.cache_data
         /\ ad'.cache_valid <=>
              (ad.cache_valid /\ ~(Crossing(at) /\ ad.cache_at = ad.wb_at))
         /\ ad'.wb_dirty /\ ad'.wb_at = at
         /\ ad'.wb_data = [IF Buffered(at) THEN ad.wb_data ELSE Seed(at) EXCEPT ![el] = d]
         /\ ad'.uram_wr_en <=> Crossing(at)
         /\ Crossing(at) => ad'.uram_wr_at = ad.wb_at /\ ad'.uram_wr_data = ad.wb_data
<1> DEFINE b == [IF Buffered(at) THEN ad.wb_data ELSE Seed(at) EXCEPT ![el] = d]
           c == ~(Crossing(at) /\ ad.cache_at = ad.wb_at)
<1>1. c \in BOOLEAN /\ AdShape(AdQuiet) /\ AdShape(Commit(AdQuiet))
  BY QuietShape, CommitShape
<1>2. CASE Crossing(at)
  <2>1. ad' = Put(Commit(AdQuiet), c, at, b)
    BY <1>2 DEF AdWrite, Crossing, Put
  <2> HIDE DEF b, c
  <2>2. LET p == Commit(AdQuiet)
            r == Put(p, c, at, b)
        IN  /\ r.state = p.state /\ (r.cache_valid <=> (p.cache_valid /\ c))
            /\ r.cache_at = p.cache_at /\ r.cache_data = p.cache_data
            /\ r.wb_dirty /\ r.wb_at = at /\ r.wb_data = b
            /\ r.rd_data = p.rd_data /\ r.rd_valid = p.rd_valid
            /\ r.flush_done = p.flush_done /\ r.pending_el = p.pending_el
            /\ r.uram_rd_en = p.uram_rd_en /\ r.uram_rd_at = p.uram_rd_at
            /\ r.uram_wr_en = p.uram_wr_en /\ r.uram_wr_at = p.uram_wr_at
            /\ r.uram_wr_data = p.uram_wr_data
    BY <1>1, BufferFields
  <2>3. LET r == Commit(AdQuiet)
        IN  /\ r.state = AdQuiet.state /\ (r.cache_valid <=> AdQuiet.cache_valid)
            /\ r.cache_at = AdQuiet.cache_at /\ r.cache_data = AdQuiet.cache_data
            /\ r.wb_dirty = AdQuiet.wb_dirty /\ r.wb_at = AdQuiet.wb_at
            /\ r.wb_data = AdQuiet.wb_data /\ r.rd_data = AdQuiet.rd_data
            /\ r.rd_valid = AdQuiet.rd_valid /\ r.flush_done = AdQuiet.flush_done
            /\ r.pending_el = AdQuiet.pending_el
            /\ r.uram_rd_en = AdQuiet.uram_rd_en
            /\ r.uram_rd_at = AdQuiet.uram_rd_at /\ r.uram_wr_en
            /\ r.uram_wr_at = ad.wb_at /\ r.uram_wr_data = ad.wb_data
    BY <1>1, CommitFields
  <2>4. /\ Commit(AdQuiet).state = ad.state /\ ~Commit(AdQuiet).rd_valid
        /\ ~Commit(AdQuiet).uram_rd_en /\ Commit(AdQuiet).rd_data = ad.rd_data
        /\ Commit(AdQuiet).pending_el = ad.pending_el
        /\ Commit(AdQuiet).uram_rd_at = ad.uram_rd_at
        /\ Commit(AdQuiet).cache_at = ad.cache_at
        /\ Commit(AdQuiet).cache_data = ad.cache_data
        /\ Commit(AdQuiet).cache_valid <=> ad.cache_valid
    BY <2>3, QuietFields
  <2> QED
    BY ZenonT(60), <1>2, <2>1, <2>2, <2>3, <2>4 DEF b, c
<1>3. CASE ~Crossing(at)
  <2>1. ad' = Put(AdQuiet, c, at, b)
    BY <1>3 DEF AdWrite, Crossing, Put
  <2> HIDE DEF b, c
  <2>2. LET r == Put(AdQuiet, c, at, b)
        IN  /\ r.state = AdQuiet.state
            /\ (r.cache_valid <=> (AdQuiet.cache_valid /\ c))
            /\ r.cache_at = AdQuiet.cache_at /\ r.cache_data = AdQuiet.cache_data
            /\ r.wb_dirty /\ r.wb_at = at /\ r.wb_data = b
            /\ r.rd_data = AdQuiet.rd_data /\ r.rd_valid = AdQuiet.rd_valid
            /\ r.flush_done = AdQuiet.flush_done
            /\ r.pending_el = AdQuiet.pending_el
            /\ r.uram_rd_en = AdQuiet.uram_rd_en
            /\ r.uram_rd_at = AdQuiet.uram_rd_at
            /\ r.uram_wr_en = AdQuiet.uram_wr_en
            /\ r.uram_wr_at = AdQuiet.uram_wr_at
            /\ r.uram_wr_data = AdQuiet.uram_wr_data
    BY <1>1, BufferFields
  <2> QED
    BY <1>3, <2>1, <2>2, QuietFields DEF b, c
<1> QED
  BY <1>2, <1>3

\* A read that is answered at once.
LEMMA HitStep ==
  ASSUME AdShape(ad), NEW v, ad' = Answer(AdQuiet, v)
  PROVE  /\ ad'.state = ad.state /\ ad'.rd_valid /\ ~ad'.uram_rd_en /\ ~ad'.uram_wr_en
         /\ ad'.rd_data = v /\ ad'.cache_at = ad.cache_at
         /\ ad'.cache_data = ad.cache_data /\ (ad'.cache_valid <=> ad.cache_valid)
         /\ ad'.wb_dirty = ad.wb_dirty /\ ad'.wb_at = ad.wb_at /\ ad'.wb_data = ad.wb_data
         /\ ad'.uram_wr_data = ad.uram_wr_data
<1>1. AdShape(AdQuiet)
  BY QuietShape
<1>2. LET r == Answer(AdQuiet, v)
      IN  /\ r.state = AdQuiet.state /\ (r.cache_valid <=> AdQuiet.cache_valid)
          /\ r.cache_at = AdQuiet.cache_at /\ r.cache_data = AdQuiet.cache_data
          /\ r.wb_dirty = AdQuiet.wb_dirty /\ r.wb_at = AdQuiet.wb_at
          /\ r.wb_data = AdQuiet.wb_data /\ r.rd_data = v /\ r.rd_valid
          /\ r.flush_done = AdQuiet.flush_done
          /\ r.pending_el = AdQuiet.pending_el
          /\ r.uram_rd_en = AdQuiet.uram_rd_en
          /\ r.uram_rd_at = AdQuiet.uram_rd_at
          /\ r.uram_wr_en = AdQuiet.uram_wr_en
          /\ r.uram_wr_at = AdQuiet.uram_wr_at
          /\ r.uram_wr_data = AdQuiet.uram_wr_data
  BY <1>1, AnswerFields
<1> QED
  BY <1>2, QuietFields

\* The answer to a miss.
LEMMA FillStep ==
  ASSUME AdShape(ad), NEW v, NEW d, ad' = Fill(Answer(AdQuiet, v), ad.uram_rd_at, d)
  PROVE  /\ ad'.state = "AD_IDLE" /\ ad'.rd_valid /\ ~ad'.uram_rd_en /\ ~ad'.uram_wr_en
         /\ ad'.rd_data = v /\ ad'.cache_at = ad.uram_rd_at
         /\ ad'.cache_data = d /\ ad'.cache_valid
         /\ ad'.wb_dirty = ad.wb_dirty /\ ad'.wb_at = ad.wb_at /\ ad'.wb_data = ad.wb_data
         /\ ad'.uram_wr_data = ad.uram_wr_data
<1>1. ad.uram_rd_at \in Places
  BY DEF AdShape
<1>2. AdShape(AdQuiet) /\ AdShape(Answer(AdQuiet, v))
  BY QuietShape, AnswerShape
<1>3. LET r == Answer(AdQuiet, v)
      IN  /\ r.state = AdQuiet.state /\ (r.cache_valid <=> AdQuiet.cache_valid)
          /\ r.cache_at = AdQuiet.cache_at /\ r.cache_data = AdQuiet.cache_data
          /\ r.wb_dirty = AdQuiet.wb_dirty /\ r.wb_at = AdQuiet.wb_at
          /\ r.wb_data = AdQuiet.wb_data /\ r.rd_data = v /\ r.rd_valid
          /\ r.flush_done = AdQuiet.flush_done
          /\ r.pending_el = AdQuiet.pending_el
          /\ r.uram_rd_en = AdQuiet.uram_rd_en
          /\ r.uram_rd_at = AdQuiet.uram_rd_at
          /\ r.uram_wr_en = AdQuiet.uram_wr_en
          /\ r.uram_wr_at = AdQuiet.uram_wr_at
          /\ r.uram_wr_data = AdQuiet.uram_wr_data
  BY <1>2, AnswerFields
<1>4. LET p == Answer(AdQuiet, v)
          r == Fill(p, ad.uram_rd_at, d)
      IN  /\ r.state = "AD_IDLE" /\ r.cache_valid /\ r.cache_at = ad.uram_rd_at
          /\ r.cache_data = d /\ r.wb_dirty = p.wb_dirty /\ r.wb_at = p.wb_at
          /\ r.wb_data = p.wb_data /\ r.rd_data = p.rd_data
          /\ r.rd_valid = p.rd_valid /\ r.flush_done = p.flush_done
          /\ r.pending_el = p.pending_el /\ r.uram_rd_en = p.uram_rd_en
          /\ r.uram_rd_at = p.uram_rd_at /\ r.uram_wr_en = p.uram_wr_en
          /\ r.uram_wr_at = p.uram_wr_at /\ r.uram_wr_data = p.uram_wr_data
  BY <1>1, <1>2, FillFields
<1> QED
  BY <1>3, <1>4, QuietFields

\* A flush.
LEMMA FlushStep ==
  ASSUME AdShape(ad), AdFlush
  PROVE  ad'.state = ad.state /\ ~ad'.rd_valid
BY DEF AdFlush, AdShape, AdQuiet, Commit

\* What the adapter does at an edge.
LEMMA AdapterCases ==
  ASSUME TypeOK, Edge
  PROVE  LET w == Address(u.wr_addr)  r == Address(u.rd_addr)
         IN  \/ ad.state = "AD_RD_WAIT" /\ AdRdWait
             \/ /\ ad.state = "AD_IDLE"
                /\ \/ u.wr_en /\ ~u.rd_en /\ AdWrite(Place(w), El(w), u.wr_data)
                   \/ u.wr_en /\ u.rd_en /\ AdWrite(Place(r), El(r), u.wr_data)
                   \/ ~u.wr_en /\ u.rd_en /\ AdReadHit(Place(r), El(r))
                   \/ ~u.wr_en /\ u.rd_en /\ AdReadMiss(Place(r), El(r))
                   \/ ~u.wr_en /\ ~u.rd_en /\ adapter_flush /\ AdFlush
                   \/ ~u.wr_en /\ ~u.rd_en /\ ~adapter_flush /\ ad' = AdQuiet
BY DEF Edge, Adapter

\* The data port's request, from one edge to the next.
LEMMA ReadsEdge ==
  ASSUME TypeOK, UnitShape(u'), Edge
  PROVE  ReadMoves
<1>a. AdShape(ad) /\ UnitShape(u) /\ offset \in Nat
  BY DEF TypeOK
<1>b. u.rd_en \in BOOLEAN /\ u.wr_en \in BOOLEAN /\ u'.rd_en \in BOOLEAN
      /\ ad.state \in {"AD_IDLE", "AD_RD_WAIT"} /\ ad.rd_valid \in BOOLEAN
  BY <1>a DEF UnitShape, AdShape
<1>c. ad' = AdQuiet => ad'.state = ad.state /\ ~ad'.rd_valid
  BY <1>a, QuietFields
<1>d. /\ Place(Address(u.rd_addr)) \in Places /\ El(Address(u.rd_addr)) \in Word
      /\ Place(Address(u.wr_addr)) \in Places /\ El(Address(u.wr_addr)) \in Word
  BY <1>a, AddressType, PlaceType
<1>1. CASE ad.state = "AD_IDLE" /\ ~u.rd_en
  <2>1. ad'.state = "AD_IDLE" /\ ~ad'.rd_valid
    BY <1>a, <1>c, <1>d, <1>1, AdapterCases, WriteStep, FlushStep
  <2> QED
    BY <1>b, <1>1, <2>1 DEF ReadMoves, NoRead, Asked, Missing, Answered
<1>2. CASE ad.state = "AD_IDLE" /\ u.rd_en /\ ~u.wr_en
  <2>1. \/ ad'.state = "AD_IDLE" /\ ad'.rd_valid
        \/ ad'.state = "AD_RD_WAIT" /\ ~ad'.rd_valid
    <3>1. CASE AdReadHit(Place(Address(u.rd_addr)), El(Address(u.rd_addr)))
      BY <1>a, <1>2, <3>1, HitStep DEF AdReadHit
    <3>2. CASE AdReadMiss(Place(Address(u.rd_addr)), El(Address(u.rd_addr)))
      BY <1>a, <1>d, <3>2, AskFields
    <3> QED
      BY <1>2, <3>1, <3>2, AdapterCases
  <2> QED
    BY <1>b, <1>2, <2>1 DEF ReadMoves, NoRead, Asked, Missing, Answered
<1>3. CASE ad.state = "AD_RD_WAIT"
  <2>1. \/ ad'.state = "AD_IDLE" /\ ad'.rd_valid
        \/ ad'.state = "AD_RD_WAIT" /\ ~ad'.rd_valid
    <3>1. CASE UramAnswer.valid
      BY <1>a, <1>3, <3>1, AdapterCases, FillStep DEF AdRdWait, Fill
    <3>2. CASE ~UramAnswer.valid
      BY <1>3, <1>c, <3>2, AdapterCases DEF AdRdWait
    <3> QED
      BY <3>1, <3>2
  <2> QED
    BY <1>b, <1>3, <2>1 DEF ReadMoves, NoRead, Asked, Missing, Answered
<1>4. CASE u.rd_en /\ u.wr_en
  BY <1>4 DEF ReadMoves, NoRead, Asked, Missing, Answered
<1> QED
  BY <1>b, <1>1, <1>2, <1>3, <1>4

\* The second port's request, from one edge to the next.
LEMMA SubsEdge ==
  ASSUME TypeOK, UnitShape(u'), Edge
  PROVE  SubMoves
<1>a. DmaShape(dma) /\ UnitShape(u)
  BY DEF TypeOK
<1>b. u.sub_en \in BOOLEAN /\ u'.sub_en \in BOOLEAN /\ dma.rd_valid \in BOOLEAN
      /\ dma.state \in {"AX_IDLE", "AX_RD_AR", "AX_RD_DATA"}
  BY <1>a DEF UnitShape, DmaShape
<1>1. CASE DmaIdle(u.sub_en, u.rd_addr)
  BY <1>a, <1>b, <1>1
     DEF DmaIdle, DmaHit, SubMoves, NoSub, SubAsked, SubMissing, SubAnswered, DmaShape
<1>2. CASE DmaReadAddress
  <2>1. ~dma'.rd_valid /\ dma'.state # "AX_IDLE"
    <3>1. CASE dma' = [dma EXCEPT !.rd_valid = FALSE, !.arvalid = FALSE,
                                  !.state = "AX_RD_DATA"]
      BY <1>a, <3>1 DEF DmaShape
    <3>2. CASE dma' = [dma EXCEPT !.rd_valid = FALSE, !.arvalid = TRUE]
      BY <1>a, <1>2, <3>2 DEF DmaReadAddress, DmaShape
    <3> QED
      BY <1>2, <3>1, <3>2 DEF DmaReadAddress
  <2> QED
    BY <1>b, <1>2, <2>1 DEF DmaReadAddress,
                            SubMoves, NoSub, SubAsked, SubMissing, SubAnswered
<1>3. CASE DmaReadData /\ wait > 0
  <2>1. ~dma'.rd_valid /\ dma'.state = dma.state
    BY <1>a, <1>3 DEF DmaReadData, DmaShape
  <2> QED
    BY <1>b, <1>3, <2>1 DEF DmaReadData, SubMoves, NoSub, SubAsked, SubMissing, SubAnswered
<1>4. CASE DmaReadData /\ ~(wait > 0)
  <2>1. ASSUME NEW w, NEW d,
               dma' = [dma EXCEPT !.state = "AX_IDLE",
                         !.rcache_valid = TRUE, !.rcache_tag = dma.miss_word,
                         !.rcache_data = w, !.rd_valid = TRUE, !.rd_data = d]
        PROVE  dma'.state = "AX_IDLE" /\ dma'.rd_valid
    BY SMTT(40), <1>a, <2>1 DEF DmaShape
  <2>2. dma'.state = "AX_IDLE" /\ dma'.rd_valid
    BY <1>4, <2>1 DEF DmaReadData
  <2> QED
    BY <1>b, <1>4, <2>2 DEF DmaReadData, SubMoves, NoSub, SubAsked, SubMissing, SubAnswered
<1> QED
  BY <1>1, <1>2, <1>3, <1>4 DEF Edge, Dma

-----------------------------------------------------------------------------
(* The registers of a unit at an edge.                                     *)

Move(q, s) == [q EXCEPT !.state = s]
Again(q, s) == [q EXCEPT !.state = s, !.idx = 0, !.inflight = FALSE]

\* A unit's registers at each kind of edge.
LEMMA UnitQuiet ==
  ASSUME UnitShape(u)
  PROVE  /\ UnitShape(Quiet)
         /\ Quiet.state = u.state /\ ~Quiet.done /\ Quiet.len = u.len
         /\ Quiet.idx = u.idx /\ (Quiet.inflight <=> u.inflight) /\ ~Quiet.rd_en
         /\ ~Quiet.sub_en /\ Quiet.rd_addr = u.rd_addr /\ ~Quiet.wr_en
         /\ Quiet.wr_addr = u.wr_addr /\ Quiet.wr_data = u.wr_data
BY DEF UnitShape, Quiet

LEMMA UnitWriting ==
  ASSUME NEW q, UnitShape(q), NEW a \in Nat, NEW v
  PROVE  LET r == Writing(q, a, v)
         IN  /\ UnitShape(r) /\ r.state = q.state /\ (r.done <=> q.done)
             /\ r.len = q.len /\ r.idx = q.idx /\ (r.inflight <=> q.inflight)
             /\ (r.rd_en <=> q.rd_en) /\ (r.sub_en <=> q.sub_en)
             /\ r.rd_addr = q.rd_addr /\ r.wr_en /\ r.wr_addr = a
BY DEF UnitShape, Writing

LEMMA UnitReading ==
  ASSUME NEW q, UnitShape(q), UnitShape(u), AdShape(ad)
  PROVE  LET r == Reading(q, TRUE, Ports)
         IN  /\ UnitShape(r) /\ r.state = q.state /\ (r.done <=> q.done)
             /\ r.len = q.len /\ r.idx = u.idx + 1
             /\ (r.inflight <=> ~ad.rd_valid) /\ r.rd_en
             /\ (r.sub_en <=> q.sub_en) /\ r.rd_addr = u.idx
             /\ (r.wr_en <=> q.wr_en) /\ r.wr_addr = q.wr_addr
             /\ r.wr_data = q.wr_data
<1> DEFINE b == ~ad.rd_valid  j == u.idx + 1
<1>1. u.idx \in Nat /\ b \in BOOLEAN /\ j \in Nat
  BY DEF UnitShape, AdShape
<1>2. Reading(q, TRUE, Ports) = [q EXCEPT !.rd_en = TRUE, !.rd_addr = u.idx, !.idx = j,
                                       !.inflight = b]
  BY DEF Reading, Ports
<1>3. Reading(q, TRUE, Ports).inflight <=> b
  <2> HIDE DEF b, j
  <2> QED
    BY <1>1, <1>2 DEF UnitShape
<1>4. UnitShape(Reading(q, TRUE, Ports)) /\ Reading(q, TRUE, Ports).idx = j
  <2> HIDE DEF b, j
  <2> QED
    BY <1>1, <1>2 DEF UnitShape
<1> HIDE DEF b, j
<1> QED
  BY <1>1, <1>2, <1>3, <1>4 DEF UnitShape, b, j

LEMMA UnitWaiting ==
  ASSUME NEW q, UnitShape(q), AdShape(ad)
  PROVE  LET r == Reading(q, FALSE, Ports)
         IN  /\ UnitShape(r) /\ r.state = q.state /\ (r.done <=> q.done)
             /\ r.len = q.len /\ r.idx = q.idx
             /\ (r.inflight <=> (q.inflight /\ ~ad.rd_valid))
             /\ (r.rd_en <=> q.rd_en) /\ (r.sub_en <=> q.sub_en)
             /\ r.rd_addr = q.rd_addr /\ (r.wr_en <=> q.wr_en)
             /\ r.wr_addr = q.wr_addr /\ r.wr_data = q.wr_data
<1> DEFINE b == q.inflight /\ ~ad.rd_valid
<1>1. Reading(q, FALSE, Ports) = [q EXCEPT !.inflight = b] /\ b \in BOOLEAN
  BY DEF Reading, Ports
<1> HIDE DEF b
<1>2. Reading(q, FALSE, Ports).inflight <=> b
  BY <1>1 DEF UnitShape
<1>3. UnitShape(Reading(q, FALSE, Ports))
  BY <1>1 DEF UnitShape
<1> QED
  BY <1>1, <1>2, <1>3 DEF UnitShape, b

LEMMA UnitMove ==
  ASSUME NEW q, UnitShape(q), NEW s \in States
  PROVE  LET r == Move(q, s)
         IN  /\ UnitShape(r) /\ r.state = s /\ (r.done <=> q.done)
             /\ r.len = q.len /\ r.idx = q.idx /\ (r.inflight <=> q.inflight)
             /\ (r.rd_en <=> q.rd_en) /\ (r.sub_en <=> q.sub_en)
             /\ r.rd_addr = q.rd_addr /\ (r.wr_en <=> q.wr_en)
             /\ r.wr_addr = q.wr_addr /\ r.wr_data = q.wr_data
BY DEF UnitShape, Move

LEMMA UnitAgain ==
  ASSUME NEW q, UnitShape(q), NEW s \in States
  PROVE  LET r == Again(q, s)
         IN  /\ UnitShape(r) /\ r.state = s /\ (r.done <=> q.done)
             /\ r.len = q.len /\ r.idx = 0 /\ ~r.inflight /\ (r.rd_en <=> q.rd_en)
             /\ (r.sub_en <=> q.sub_en) /\ r.rd_addr = q.rd_addr
             /\ (r.wr_en <=> q.wr_en) /\ r.wr_addr = q.wr_addr
             /\ r.wr_data = q.wr_data
BY DEF UnitShape, Again

LEMMA UnitLoaded ==
  ASSUME UnitShape(u), cmd.len \in Nat, NEW s \in States
  PROVE  /\ UnitShape(Loaded(s))
         /\ Loaded(s).state = s /\ ~Loaded(s).done /\ Loaded(s).len = cmd.len
         /\ Loaded(s).idx = 0 /\ ~Loaded(s).inflight /\ ~Loaded(s).rd_en
         /\ ~Loaded(s).sub_en /\ Loaded(s).rd_addr = u.rd_addr /\ ~Loaded(s).wr_en
         /\ Loaded(s).wr_addr = u.wr_addr /\ Loaded(s).wr_data = u.wr_data
BY DEF UnitShape, Loaded, Quiet

LEMMA UnitFinish ==
  ASSUME UnitShape(u), Finish
  PROVE  /\ UnitShape(u')
         /\ u'.state = "ST_IDLE" /\ u'.done /\ u'.len = u.len
         /\ u'.idx = u.idx /\ (u'.inflight <=> u.inflight) /\ ~u'.rd_en
         /\ ~u'.sub_en /\ u'.rd_addr = u.rd_addr /\ ~u'.wr_en
         /\ u'.wr_addr = u.wr_addr /\ u'.wr_data = u.wr_data
BY DEF UnitShape, Finish, Quiet, States

-----------------------------------------------------------------------------
(* softmax.v                                                               *)

SameNorm(r, q) == (r.norm_valid <=> q.norm_valid) /\ r.norm_idx = q.norm_idx

\* softmax's stage outside its state machine.
LEMMA SmPipedShape ==
  ASSUME SmShape(x), NEW in, in.valid \in BOOLEAN
  PROVE  /\ SmShape(SmPiped(in)) /\ (SmPiped(in).valid_r <=> in.valid)
         /\ SmPiped(in).rx_cnt = x.rx_cnt /\ SameNorm(SmPiped(in), x)
<1> DEFINE d == in.data \div 2^x.scale_r
<1>1. SmPiped(in) = [x EXCEPT !.valid_r = in.valid, !.data_r = d]
  BY DEF SmPiped
<1> HIDE DEF d
<1> QED
  BY <1>1 DEF SmShape, SameNorm

\* A new pass over the row counts from zero.
LEMMA SmZero ==
  ASSUME NEW q, SmShape(q)
  PROVE  LET r == [q EXCEPT !.rx_cnt = 0]
         IN /\ SmShape(r) /\ (r.valid_r <=> q.valid_r) /\ r.rx_cnt = 0 /\ SameNorm(r, q)
BY DEF SmShape, SameNorm

\* One more element received, in either pass, unless the pass is over.
LEMMA SmReceives ==
  ASSUME SmShape(x), UnitShape(u), NEW in, in.valid \in BOOLEAN,
         SmFindMax(in) \/ SmCompExp(in)
  PROVE  /\ SmShape(x') /\ (x'.valid_r <=> in.valid) /\ SameNorm(x', x)
         /\ x.rx_cnt # u.len => x'.rx_cnt = x.rx_cnt + Bit(x.valid_r)
         /\ u.state = "ST_FIND_MAX" /\ x.rx_cnt = u.len => x'.rx_cnt = 0
<1> DEFINE n == IF x.valid_r THEN x.rx_cnt + 1 ELSE x.rx_cnt
           p == SmPiped(in)
<1>1. /\ SmShape(p) /\ (p.valid_r <=> in.valid) /\ p.rx_cnt = x.rx_cnt /\ SameNorm(p, x)
  BY SmPipedShape
<1>2. n \in Nat /\ n = x.rx_cnt + Bit(x.valid_r)
  BY DEF SmShape, Bit
<1> HIDE DEF n, p
<1>3. CASE SmFindMax(in)
  <2> DEFINE m == IF x.valid_r /\ ~SmMasked /\ x.data_r > p.max_val
                    THEN x.data_r ELSE p.max_val
             r == [p EXCEPT !.rx_cnt = n, !.max_val = m]
  <2>1. x' = IF x.rx_cnt # u.len THEN r ELSE [r EXCEPT !.rx_cnt = 0]
    BY <1>1, <1>3 DEF SmFindMax, n, p
  <2>2. SmShape(r) /\ (r.valid_r <=> p.valid_r) /\ r.rx_cnt = n /\ SameNorm(r, p)
    <3> HIDE DEF m
    <3> QED
      BY <1>1, <1>2 DEF SmShape, SameNorm
  <2> HIDE DEF r
  <2> QED
    BY <1>1, <1>2, <1>3, <2>1, <2>2, SmZero DEF SameNorm, SmFindMax
<1>4. CASE SmCompExp(in)
  <2> DEFINE exp == IF SmMasked THEN 0 ELSE compute_exp(x.data_r, x.max_val)
             b == [p.exp_buffer EXCEPT ![x.rx_cnt] = exp]
             m == p.exp_sum + exp
             r == [p EXCEPT !.rx_cnt = n, !.exp_buffer = b, !.exp_sum = m]
  <2>1. x' = IF x.valid_r THEN r ELSE p
    BY <1>1, <1>4 DEF SmCompExp, n, p
  <2>2. SmShape(r) /\ (r.valid_r <=> p.valid_r) /\ r.rx_cnt = n /\ SameNorm(r, p)
    <3> HIDE DEF b, m
    <3> QED
      BY <1>1, <1>2 DEF SmShape, SameNorm
  <2> HIDE DEF r
  <2> QED
    BY <1>1, <1>2, <1>4, <2>1, <2>2 DEF SameNorm, SmCompExp, n
<1> QED
  BY <1>3, <1>4

\* The wires from the read ports.
LEMMA PortsType ==
  ASSUME TypeOK
  PROVE  /\ UnitShape(u) /\ AdShape(ad) /\ DmaShape(dma) /\ offset \in Nat
         /\ Ports.valid = ad.rd_valid /\ Ports.sub_valid = dma.rd_valid
         /\ Ports.valid \in BOOLEAN /\ Ports.sub_valid \in BOOLEAN
BY DEF TypeOK, AdShape, DmaShape, Ports

\* A unit that waits for an answer or asks for the next element.
LEMMA ReadingStep ==
  ASSUME TypeOK, UnitShape(u'), Edge, ReadFlight, u.inflight => NoWrite, NoSub,
         NEW may \in BOOLEAN, may => ~u.inflight, u'.rd_en <=> may, ~u'.sub_en,
         u'.inflight <=> may \/ (u.inflight /\ ~ad.rd_valid)
  PROVE  ReadFlight' /\ NoSub' /\ (ad.rd_valid => u.inflight)
<1>1. ReadMoves /\ SubMoves
  BY ReadsEdge, SubsEdge
<1>2. ReadMoves /\ SubMoves /\ ad.rd_valid \in BOOLEAN /\ u.inflight \in BOOLEAN
  BY <1>1, PortsType DEF AdShape, UnitShape
<1> QED
  BY <1>2 DEF ReadMoves, SubMoves, ReadFlight, NoWrite, OneRead, NoRead, Asked, Missing,
              Answered, NoSub, SubAsked, SubMissing, SubAnswered

\* The address stays with the read that was asked for.
ReadHolds == ~u'.rd_en /\ u'.idx > 0 => u'.rd_addr = u.rd_addr /\ u.idx > 0
ResHolds == ~u'.rd_en /\ (u'.inflight \/ u'.wr_en) => u'.rd_addr = u.rd_addr /\ u.inflight

\* Passes one and two: the row is read, and each pass ends with nothing on its way.
LEMMA SmReadStep ==
  ASSUME TypeOK, unit = "sm", SmRead, Edge, SmFindMax(Ports) \/ SmCompExp(Ports)
  PROVE  /\ UnitShape(u') /\ SmShape(x') /\ ~u'.done /\ u'.len = u.len
         /\ \/ SmRead' /\ ReadHolds
            \/ SmWrite' /\ u.idx = u.len /\ ~u.inflight /\ ~u'.wr_en
<1>a. /\ UnitShape(u) /\ SmShape(x) /\ UnitShape(Quiet)
      /\ Ports.valid = ad.rd_valid /\ Ports.valid \in BOOLEAN
  BY PortsType, UnitQuiet DEF TypeOK, OwnShape
<1>b. /\ u.idx \in Nat /\ u.len \in Nat /\ x.rx_cnt \in Nat /\ x.valid_r \in BOOLEAN
      /\ u.inflight \in BOOLEAN
  BY <1>a DEF UnitShape, SmShape
<1>x. /\ SmShape(x') /\ (x'.valid_r <=> ad.rd_valid) /\ SameNorm(x', x)
      /\ x.rx_cnt # u.len => x'.rx_cnt = x.rx_cnt + Bit(x.valid_r)
      /\ u.state = "ST_FIND_MAX" /\ x.rx_cnt = u.len => x'.rx_cnt = 0
  BY <1>a, SmReceives
<1>1. CASE x.rx_cnt # u.len /\ MayRead
  <2>1. u' = Reading(Quiet, TRUE, Ports)
    BY <1>1 DEF SmFindMax, SmCompExp, Reading
  <2>2. /\ UnitShape(u') /\ u'.state = u.state /\ ~u'.done /\ u'.len = u.len
        /\ u'.idx = u.idx + 1 /\ (u'.inflight <=> ~ad.rd_valid) /\ u'.rd_en
        /\ ~u'.sub_en /\ u'.rd_addr = u.idx /\ ~u'.wr_en
    BY <1>a, <2>1, UnitQuiet, UnitReading DEF TypeOK
  <2>3. ~ad.rd_valid
    BY <1>1 DEF SmRead, ReadFlight, NoRead, MayRead
  <2>4. ReadFlight' /\ NoSub'
    BY <1>1, <2>2, <2>3, ReadingStep DEF SmRead, MayRead
  <2>5. SmRead'
    BY <1>1, <1>b, <1>x, <2>2, <2>3, <2>4 DEF SmRead, MayRead, NoWrite, SameNorm, Bit
  <2> QED
    BY <1>x, <2>2, <2>5 DEF ReadHolds
<1>2. CASE x.rx_cnt # u.len /\ ~MayRead
  <2>1. u' = Reading(Quiet, FALSE, Ports)
    BY <1>2 DEF SmFindMax, SmCompExp, Reading
  <2>2. /\ UnitShape(u') /\ u'.state = u.state /\ ~u'.done /\ u'.len = u.len
        /\ u'.idx = u.idx /\ (u'.inflight <=> u.inflight /\ ~ad.rd_valid) /\ ~u'.rd_en
        /\ ~u'.sub_en /\ u'.rd_addr = u.rd_addr /\ ~u'.wr_en
    BY <1>a, <2>1, UnitQuiet, UnitWaiting DEF TypeOK
  <2>4. ReadFlight' /\ NoSub' /\ (ad.rd_valid => u.inflight)
    BY <1>2, <2>2, ReadingStep DEF SmRead
  <2>5. SmRead'
    BY <1>2, <1>b, <1>x, <2>2, <2>4 DEF SmRead, NoWrite, SameNorm, Bit
  <2> QED
    BY <1>x, <2>2, <2>5 DEF ReadHolds
<1>3. CASE x.rx_cnt = u.len
  <2> DEFINE s == IF u.state = "ST_FIND_MAX" THEN "ST_COMP_EXP" ELSE "ST_NORMALIZE"
  <2>0. u.idx = u.len /\ ~u.inflight /\ ~x.valid_r /\ ~ad.rd_valid /\ ~MayRead
    BY <1>3, <1>b DEF SmRead, Bit, ReadFlight, NoRead, MayRead
  <2>1. u' = Again(Reading(Quiet, FALSE, Ports), s)
    BY <1>3, <2>0 DEF SmFindMax, SmCompExp, Reading, Again
  <2>s. s \in States
    BY DEF States
  <2> HIDE DEF s
  <2>2. /\ UnitShape(u') /\ u'.state = s /\ ~u'.done /\ u'.len = u.len
        /\ u'.idx = 0 /\ ~u'.inflight /\ ~u'.rd_en /\ ~u'.sub_en /\ ~u'.wr_en
    <3> DEFINE r == Reading(Quiet, FALSE, Ports)
    <3>1. /\ UnitShape(r) /\ ~r.done /\ r.len = u.len
          /\ ~r.rd_en /\ ~r.sub_en /\ ~r.wr_en
      BY <1>a, UnitQuiet, UnitWaiting DEF TypeOK
    <3>2. u' = Again(r, s)
      BY <2>1
    <3> HIDE DEF r
    <3> QED
      BY <2>s, <3>1, <3>2, UnitAgain
  <2>3. ReadFlight' /\ NoSub'
    BY <2>0, <2>2, ReadingStep DEF SmRead
  <2>4. CASE u.state = "ST_FIND_MAX"
    <3>1. SmRead'
      BY <1>3, <1>b, <1>x, <2>0, <2>2, <2>3, <2>4 DEF SmRead, NoWrite, SameNorm, Bit, s
    <3> QED
      BY <1>x, <2>2, <3>1 DEF ReadHolds
  <2>5. CASE u.state = "ST_COMP_EXP"
    <3>1. SmWrite'
      BY <1>3, <1>b, <1>x, <2>0, <2>2, <2>3, <2>5
         DEF SmRead, SmWrite, Still, ReadFlight, SameNorm, s
    <3> QED
      BY <1>x, <2>0, <2>2, <3>1
  <2> QED
    BY <2>4, <2>5 DEF SmRead
<1> QED
  BY <1>1, <1>2, <1>3

\* A unit that asks nothing keeps its ports quiet.
LEMMA StillStep ==
  ASSUME TypeOK, UnitShape(u'), Edge, NoRead, NoSub, ~u'.rd_en, ~u'.sub_en
  PROVE  NoRead' /\ NoSub' /\ ~ad.rd_valid /\ ~dma.rd_valid
<1>1. ReadMoves /\ SubMoves
  BY ReadsEdge, SubsEdge
<1> QED
  BY <1>1 DEF ReadMoves, SubMoves, NoRead, NoSub

\* Pass three: one write an edge, each an element after the one before.
LEMMA SmWriteStep ==
  ASSUME TypeOK, unit = "sm", SmWrite, Edge, SmNormalize(Ports)
  PROVE  /\ UnitShape(u') /\ SmShape(x') /\ ~u'.done /\ u'.len = u.len
         /\ SmWrite' \/ SmLast'
         /\ IF u'.wr_en THEN u'.wr_addr = IF u.wr_en THEN u.wr_addr + 1 ELSE 0
                        ELSE ~u.wr_en
<1>a. /\ UnitShape(u) /\ SmShape(x) /\ UnitShape(Quiet)
      /\ Ports.valid = ad.rd_valid /\ Ports.valid \in BOOLEAN
  BY PortsType, UnitQuiet DEF TypeOK, OwnShape
<1>b. /\ u.idx \in Nat /\ u.len \in Nat /\ x.norm_valid \in BOOLEAN /\ x.norm_idx \in Nat
      /\ u.wr_en \in BOOLEAN
  BY <1>a DEF UnitShape, SmShape
<1> DEFINE more == u.idx < u.len
           n == IF more THEN u.idx + 1 ELSE u.idx
           i == IF more THEN u.idx ELSE x.norm_idx
           read == [Quiet EXCEPT !.idx = n]
<1>x. SmShape(x') /\ ~x'.valid_r /\ (x'.norm_valid <=> more) /\ x'.norm_idx = i
  <2> DEFINE e == IF more THEN x.exp_buffer[u.idx] ELSE SmPiped(Ports).exp_buf
             p == SmPiped(Ports)
  <2>1. /\ SmShape(p) /\ (p.valid_r <=> ad.rd_valid) /\ p.norm_idx = x.norm_idx
    BY <1>a, SmPipedShape DEF SameNorm
  <2>2. ~ad.rd_valid
    BY DEF SmWrite, Still, NoRead
  <2>3. x' = [p EXCEPT !.norm_valid = more, !.norm_idx = i, !.exp_buf = e]
    BY <2>1 DEF SmNormalize
  <2>4. i \in Nat /\ more \in BOOLEAN
    BY <1>b
  <2> HIDE DEF e, p, i, more
  <2> QED
    BY <2>1, <2>2, <2>3, <2>4 DEF SmShape
<1>r. /\ UnitShape(read) /\ read.state = "ST_NORMALIZE" /\ ~read.done /\ read.len = u.len
      /\ read.idx = n /\ ~read.inflight /\ ~read.rd_en /\ ~read.sub_en /\ ~read.wr_en
  <2>1. n \in Nat
    BY <1>b
  <2>2. /\ Quiet.state = "ST_NORMALIZE" /\ ~Quiet.done /\ Quiet.len = u.len
        /\ ~Quiet.inflight /\ ~Quiet.rd_en /\ ~Quiet.sub_en /\ ~Quiet.wr_en
    BY <1>a, UnitQuiet DEF SmWrite, Still
  <2> HIDE DEF n
  <2> QED
    BY <1>a, <2>1, <2>2 DEF UnitShape
<1>l. /\ ~x.norm_valid => u' = read
      /\ x.norm_valid =>
           u' = [Writing(read, x.norm_idx, normalize(x.exp_buf, x.exp_sum)) EXCEPT
                   !.state = IF x.norm_idx = u.len - 1 THEN "ST_DONE" ELSE @]
  <2>1. [Quiet EXCEPT !.idx = IF more THEN @ + 1 ELSE @] = read
    BY <1>a, UnitQuiet
  <2> DEFINE rd == [Quiet EXCEPT !.idx = IF u.idx < u.len THEN @ + 1 ELSE @]
  <2>2. /\ ~x.norm_valid => u' = rd
        /\ x.norm_valid =>
             u' = [Writing(rd, x.norm_idx, normalize(x.exp_buf, x.exp_sum)) EXCEPT
                     !.state = IF x.norm_idx = u.len - 1 THEN "ST_DONE" ELSE @]
    BY DEF SmNormalize
  <2>3. rd = read
    BY <2>1
  <2> HIDE DEF rd, read
  <2> QED
    BY <2>2, <2>3
<1>1. CASE ~x.norm_valid
  <2>1. u' = read /\ u.idx = 0
    BY <1>1, <1>b, <1>l DEF SmWrite
  <2> HIDE DEF read
  <2>2. NoRead' /\ NoSub'
    BY <1>r, <2>1, StillStep DEF SmWrite, Still
  <2>3. SmWrite'
    BY <1>b, <1>x, <1>r, <2>1, <2>2 DEF SmWrite, Still
  <2> QED
    BY <1>b, <1>x, <1>r, <2>1, <2>3 DEF SmWrite
<1>2. CASE x.norm_valid
  <2> DEFINE w == Writing(read, x.norm_idx, normalize(x.exp_buf, x.exp_sum))
             s == IF x.norm_idx = u.len - 1 THEN "ST_DONE" ELSE w.state
  <2>1. u' = Move(w, s)
    BY <1>2, <1>l DEF Move
  <2>2. /\ UnitShape(w) /\ w.state = "ST_NORMALIZE" /\ ~w.done /\ w.len = u.len
        /\ w.idx = n /\ ~w.inflight /\ ~w.rd_en /\ ~w.sub_en /\ w.wr_en
        /\ w.wr_addr = x.norm_idx
    <3> DEFINE v == normalize(x.exp_buf, x.exp_sum)
    <3> HIDE DEF v, read
    <3> QED
      BY <1>b, <1>r, UnitWriting
  <2>3. s \in States /\ s = IF x.norm_idx = u.len - 1 THEN "ST_DONE" ELSE "ST_NORMALIZE"
    BY <2>2 DEF States
  <2> HIDE DEF w, s, read
  <2>4. /\ UnitShape(u') /\ u'.state = s /\ ~u'.done /\ u'.len = u.len
        /\ u'.idx = n /\ ~u'.inflight /\ ~u'.rd_en /\ ~u'.sub_en /\ u'.wr_en
        /\ u'.wr_addr = x.norm_idx
    BY <2>1, <2>2, <2>3, UnitMove
  <2>5. NoRead' /\ NoSub'
    BY <2>4, StillStep DEF SmWrite, Still
  <2>6. u.idx = x.norm_idx + 1 /\ u.idx <= u.len
    BY <1>2 DEF SmWrite
  <2>w. u'.wr_addr = IF u.wr_en THEN u.wr_addr + 1 ELSE 0
    BY <1>2, <1>b, <2>4, <2>6 DEF SmWrite
  <2>7. CASE more
    <3>1. SmWrite'
      BY <1>b, <1>x, <2>3, <2>4, <2>5, <2>6, <2>7 DEF SmWrite, Still
    <3> QED
      BY <1>x, <2>4, <2>w, <3>1
  <2>8. CASE ~more
    <3>1. SmLast'
      BY <1>b, <1>x, <2>3, <2>4, <2>5, <2>6, <2>8 DEF SmLast, Still
    <3> QED
      BY <1>x, <2>4, <2>w, <3>1
  <2> QED
    BY <2>7, <2>8
<1> QED
  BY <1>1, <1>2, <1>b

\* The last write, and done.
LEMMA SmLastStep ==
  ASSUME TypeOK, unit = "sm", SmLast, Edge, SmDone(Ports)
  PROVE  UnitShape(u') /\ SmShape(x') /\ SmRest' /\ u'.done
<1>a. /\ UnitShape(u) /\ SmShape(x) /\ Ports.valid = ad.rd_valid /\ Ports.valid \in BOOLEAN
  BY PortsType DEF TypeOK, OwnShape
<1>1. /\ UnitShape(u') /\ u'.state = "ST_IDLE" /\ u'.done /\ ~u'.inflight
      /\ ~u'.rd_en /\ ~u'.sub_en /\ ~u'.wr_en
  BY <1>a, UnitFinish DEF SmDone, SmLast, Still
<1>2. SmShape(x') /\ (x'.valid_r <=> ad.rd_valid) /\ SameNorm(x', x)
  BY <1>a, SmPipedShape DEF SmDone
<1>3. NoRead' /\ NoSub' /\ ~ad.rd_valid
  BY <1>1, StillStep DEF SmLast, Still
<1> QED
  BY <1>1, <1>2, <1>3 DEF SmRest, SmLast, Still, NoWrite, SameNorm

\* A start loads the command.
LEMMA SmLoads ==
  ASSUME NEW q, SmShape(q), NEW m, NEW e, NEW a, NEW b
  PROVE  LET r == [q EXCEPT !.rx_cnt = 0, !.max_val = m, !.exp_sum = e, !.scale_r = a,
                            !.row_r = b]
         IN SmShape(r) /\ (r.valid_r <=> q.valid_r) /\ r.rx_cnt = 0 /\ SameNorm(r, q)
BY DEF SmShape, SameNorm

\* softmax at rest, and set off.
LEMMA SmRestStep ==
  ASSUME TypeOK, unit = "sm", SmRest, Edge, SmIdle(Ports), start => cmd.len \in Nat
  PROVE  /\ UnitShape(u') /\ SmShape(x') /\ ~u'.done
         /\ \/ SmRest' /\ (~start \/ cmd.len = 0)
            \/ SmRead' /\ start /\ u'.len = cmd.len /\ u'.idx = 0
<1>a. /\ UnitShape(u) /\ SmShape(x) /\ Ports.valid = ad.rd_valid /\ Ports.valid \in BOOLEAN
  BY PortsType DEF TypeOK, OwnShape
<1> DEFINE p == SmPiped(Ports)
<1>2. SmShape(p) /\ (p.valid_r <=> ad.rd_valid) /\ SameNorm(p, x)
  BY <1>a, SmPipedShape
<1>1. CASE start /\ cmd.len > 0
  <2>1. /\ u' = Loaded("ST_FIND_MAX")
        /\ x' = [p EXCEPT !.rx_cnt = 0, !.max_val = -32768, !.exp_sum = 0,
                          !.scale_r = cmd.scale_shift, !.row_r = cmd.row_idx]
    BY <1>1 DEF SmIdle
  <2>2. /\ UnitShape(u') /\ u'.state = "ST_FIND_MAX" /\ ~u'.done /\ u'.len = cmd.len
        /\ u'.idx = 0 /\ ~u'.inflight /\ ~u'.rd_en /\ ~u'.sub_en /\ ~u'.wr_en
    BY <1>1, <1>a, <2>1, UnitLoaded DEF States
  <2>3. NoRead' /\ NoSub' /\ ~ad.rd_valid
    BY <2>2, StillStep DEF SmRest, Still
  <2>4. /\ SmShape(x') /\ x'.rx_cnt = 0
        /\ (x'.valid_r <=> p.valid_r) /\ (x'.norm_valid <=> p.norm_valid)
    <3> DEFINE m == -32768  a == cmd.scale_shift  b == cmd.row_idx
               r == [p EXCEPT !.rx_cnt = 0, !.max_val = m, !.exp_sum = 0, !.scale_r = a,
                              !.row_r = b]
    <3>1. x' = r
      BY <2>1
    <3> HIDE DEF p, m, a, b
    <3>2. SmShape(r) /\ (r.valid_r <=> p.valid_r) /\ r.rx_cnt = 0 /\ SameNorm(r, p)
      BY <1>2, SmLoads
    <3> HIDE DEF r
    <3> QED
      BY <3>1, <3>2 DEF SameNorm
  <2>5. SmRead'
    BY <1>1, <1>2, <2>2, <2>3, <2>4
       DEF SmRest, SmRead, Still, NoWrite, SameNorm, Bit, ReadFlight
  <2> QED
    BY <1>1, <2>2, <2>4, <2>5
<1>3. CASE ~(start /\ cmd.len > 0)
  <2>1. u' = Quiet /\ x' = p
    BY <1>3 DEF SmIdle
  <2>2. /\ UnitShape(u') /\ u'.state = "ST_IDLE" /\ ~u'.done
        /\ ~u'.inflight /\ ~u'.rd_en /\ ~u'.sub_en /\ ~u'.wr_en
    BY <1>a, <2>1, UnitQuiet DEF SmRest, Still
  <2>3. NoRead' /\ NoSub' /\ ~ad.rd_valid
    BY <2>2, StillStep DEF SmRest, Still
  <2>4. SmRest'
    BY <1>2, <2>1, <2>2, <2>3 DEF SmRest, Still, NoWrite, SameNorm
  <2> QED
    BY <1>2, <1>3, <2>1, <2>2, <2>4
<1> QED
  BY <1>1, <1>3

-----------------------------------------------------------------------------
(* layernorm.v                                                             *)

\* layernorm's stages outside its state machine.
LEMMA LnPipedShape ==
  ASSUME LnShape(x), NEW in, in.valid \in BOOLEAN
  PROVE  LnShape(LnPiped(in)) /\ ~LnPiped(in).pipe1.valid
<1> DEFINE j == u.idx - 1
           b == IF x.valid_r /\ u.state = "ST_COMP_MEAN"
                  THEN [x.input_buffer EXCEPT ![x.idx_r] = x.data_r] ELSE x.input_buffer
           d == x.input_buffer[x.bram_rd_addr]
           p == [x.pipe1 EXCEPT !.valid = FALSE]
           e == in.data
<1>1. LnPiped(in) = [x EXCEPT !.valid_r = in.valid, !.data_r = e, !.idx_r = j,
                              !.input_buffer = b, !.bram_rd_data = d, !.pipe1 = p]
  BY DEF LnPiped, LnShape
<1>2. PipeShape(p) /\ ~p.valid
  BY DEF LnShape, PipeShape
<1> HIDE DEF b, d, e, j, p
<1>3. /\ [x EXCEPT !.valid_r = in.valid, !.data_r = e, !.idx_r = j,
                   !.input_buffer = b, !.bram_rd_data = d, !.pipe1 = p].pipe1 = p
      /\ LnShape([x EXCEPT !.valid_r = in.valid, !.data_r = e, !.idx_r = j,
                           !.input_buffer = b, !.bram_rd_data = d, !.pipe1 = p])
  BY <1>2 DEF LnShape
<1> QED
  BY <1>1, <1>2, <1>3

\* The element that stage 2 holds is written.
LEMMA LnWrittenFields ==
  ASSUME UnitShape(u), LnShape(x)
  PROVE  /\ UnitShape(LnWritten) /\ LnWritten.state = u.state /\ ~LnWritten.done
         /\ LnWritten.len = u.len /\ LnWritten.idx = u.idx
         /\ (LnWritten.inflight <=> u.inflight) /\ ~LnWritten.rd_en /\ ~LnWritten.sub_en
         /\ LnWritten.rd_addr = u.rd_addr /\ (LnWritten.wr_en <=> x.pipe1.valid)
         /\ x.pipe1.valid => LnWritten.wr_addr = x.pipe1.wr_addr
<1> DEFINE v == saturate_int16((x.pipe1.normalized * x.pipe1.gamma) \div 128 + x.pipe1.beta)
           w == x.pipe1.wr_addr
<1>1. LnWritten = IF x.pipe1.valid THEN Writing(Quiet, w, v) ELSE Quiet
  BY DEF LnWritten
<1>2. w \in Nat /\ x.pipe1.valid \in BOOLEAN
  BY DEF LnShape, PipeShape
<1> HIDE DEF v
<1>3. CASE x.pipe1.valid
  <2> HIDE DEF w
  <2>1. LnWritten = Writing(Quiet, w, v)
    BY <1>1, <1>3
  <2> QED
    BY <1>2, <1>3, <2>1, UnitQuiet, UnitWriting DEF w
<1>4. CASE ~x.pipe1.valid
  BY <1>1, <1>4, UnitQuiet
<1> QED
  BY <1>2, <1>3, <1>4

\* Pass one: the row is read.
LEMMA LnReadStep ==
  ASSUME TypeOK, unit = "ln", LnRead, Edge, LnCompMean(Ports)
  PROVE  /\ UnitShape(u') /\ LnShape(x') /\ ~u'.done /\ u'.len = u.len
         /\ \/ LnRead' /\ ReadHolds
            \/ LnVar' /\ u.idx = u.len /\ ~u.inflight /\ ~u.rd_en
<1>a. /\ UnitShape(u) /\ LnShape(x)
      /\ Ports.valid = ad.rd_valid /\ Ports.valid \in BOOLEAN
  BY PortsType DEF TypeOK, OwnShape
<1>b. /\ u.idx \in Nat /\ u.len \in Nat /\ u.inflight \in BOOLEAN
  BY <1>a DEF UnitShape
<1>w. /\ UnitShape(LnWritten) /\ LnWritten.state = "ST_COMP_MEAN" /\ ~LnWritten.done
      /\ LnWritten.len = u.len /\ LnWritten.idx = u.idx
      /\ (LnWritten.inflight <=> u.inflight) /\ ~LnWritten.rd_en /\ ~LnWritten.sub_en
      /\ LnWritten.rd_addr = u.rd_addr /\ ~LnWritten.wr_en
  BY <1>a, LnWrittenFields DEF LnRead
<1>x. LnShape(x') /\ ~x'.pipe1.valid
  <2> DEFINE p == LnPiped(Ports)
             n == IF x.valid_r THEN p.sum + x.data_r ELSE p.sum
             m == divide_by_dim(x.sum, u.len)
  <2>1. LnShape(p) /\ ~p.pipe1.valid
    BY <1>a, LnPipedShape
  <2> DEFINE g == [p EXCEPT !.sum = n]
  <2>2. x' = g \/ x' = [g EXCEPT !.mean = m]
    BY DEF LnCompMean
  <2> HIDE DEF p, n, m
  <2>3. ASSUME NEW q, LnShape(q), ~q.pipe1.valid, NEW c
        PROVE  /\ LnShape([q EXCEPT !.sum = c]) /\ ~[q EXCEPT !.sum = c].pipe1.valid
               /\ LnShape([q EXCEPT !.mean = c]) /\ ~[q EXCEPT !.mean = c].pipe1.valid
    BY <2>3 DEF LnShape
  <2>4. LnShape(g) /\ ~g.pipe1.valid
    BY <2>1, <2>3
  <2> HIDE DEF g
  <2> QED
    BY <2>2, <2>3, <2>4
<1>1. CASE ~LnAllReceived /\ MayRead
  <2>1. u' = Reading(LnWritten, TRUE, Ports)
    BY <1>1 DEF LnCompMean, Reading
  <2>2. /\ UnitShape(u') /\ u'.state = "ST_COMP_MEAN" /\ ~u'.done /\ u'.len = u.len
        /\ u'.idx = u.idx + 1 /\ (u'.inflight <=> ~ad.rd_valid) /\ u'.rd_en
        /\ ~u'.sub_en /\ u'.rd_addr = u.idx /\ ~u'.wr_en
    BY <1>a, <1>w, <2>1, UnitReading DEF TypeOK
  <2>3. ~ad.rd_valid
    BY <1>1 DEF LnRead, ReadFlight, NoRead, MayRead
  <2>4. ReadFlight' /\ NoSub'
    BY <1>1, <2>2, <2>3, ReadingStep DEF LnRead, MayRead
  <2>5. LnRead'
    BY <1>1, <1>b, <1>x, <2>2, <2>4 DEF LnRead, MayRead, NoWrite
  <2> QED
    BY <1>x, <2>2, <2>5 DEF ReadHolds
<1>2. CASE ~LnAllReceived /\ ~MayRead
  <2>1. u' = Reading(LnWritten, FALSE, Ports)
    BY <1>2 DEF LnCompMean, Reading
  <2>2. /\ UnitShape(u') /\ u'.state = "ST_COMP_MEAN" /\ ~u'.done /\ u'.len = u.len
        /\ u'.idx = u.idx /\ (u'.inflight <=> u.inflight /\ ~ad.rd_valid) /\ ~u'.rd_en
        /\ ~u'.sub_en /\ u'.rd_addr = u.rd_addr /\ ~u'.wr_en
    BY <1>a, <1>w, <2>1, UnitWaiting DEF TypeOK
  <2>4. ReadFlight' /\ NoSub'
    BY <1>2, <2>2, ReadingStep DEF LnRead
  <2>5. LnRead'
    BY <1>b, <1>x, <2>2, <2>4 DEF LnRead, NoWrite
  <2> QED
    BY <1>x, <2>2, <2>5 DEF ReadHolds
<1>3. CASE LnAllReceived
  <2>1. u' = Again(LnWritten, "ST_COMP_VAR")
    BY <1>3 DEF LnCompMean, Again
  <2>2. /\ UnitShape(u') /\ u'.state = "ST_COMP_VAR" /\ ~u'.done /\ u'.len = u.len
        /\ u'.idx = 0 /\ ~u'.inflight /\ ~u'.rd_en /\ ~u'.sub_en /\ ~u'.wr_en
    BY <1>w, <2>1, UnitAgain DEF States
  <2>3. NoRead' /\ NoSub'
    BY <1>3, <2>2, StillStep DEF LnRead, LnAllReceived, ReadFlight
  <2> QED
    BY <1>3, <1>x, <2>2, <2>3 DEF LnVar, Still, NoWrite, LnAllReceived
<1> QED
  BY <1>1, <1>2, <1>3

\* Pass two, over the row's copy in the unit.
LEMMA LnVarStep ==
  ASSUME TypeOK, unit = "ln", LnVar, Edge, LnCompVar(Ports)
  PROVE  /\ UnitShape(u') /\ LnShape(x') /\ ~u'.done /\ u'.len = u.len
         /\ \/ LnVar'
            \/ LnWrite' /\ u'.idx = 0 /\ ~u'.inflight /\ ~x'.pipe1.valid /\ ~u'.wr_en
<1>a. /\ UnitShape(u) /\ LnShape(x)
      /\ Ports.valid = ad.rd_valid /\ Ports.valid \in BOOLEAN
  BY PortsType DEF TypeOK, OwnShape
<1> DEFINE over == u.idx > u.len /\ ~x.buf_rd_valid
           n == IF over THEN 0 ELSE IF LnWritten.idx <= u.len THEN LnWritten.idx + 1
                                    ELSE LnWritten.idx
           s == IF over THEN "ST_NORMALIZE" ELSE LnWritten.state
<1>b. /\ u.idx \in Nat /\ u.len \in Nat
  BY <1>a DEF UnitShape
<1>w. /\ UnitShape(LnWritten) /\ LnWritten.state = "ST_COMP_VAR" /\ ~LnWritten.done
      /\ LnWritten.len = u.len /\ LnWritten.idx = u.idx
      /\ ~LnWritten.inflight /\ ~LnWritten.rd_en /\ ~LnWritten.sub_en /\ ~LnWritten.wr_en
  BY <1>a, LnWrittenFields DEF LnVar, Still
<1>x. LnShape(x') /\ ~x'.pipe1.valid
  <2> DEFINE p == LnPiped(Ports)
             a == IF u.idx < u.len THEN u.idx ELSE p.bram_rd_addr
             v == u.idx > 0 /\ u.idx <= u.len
             m == IF x.buf_rd_valid
                    THEN int32_add(p.var_sum, compute_sq_diff(x.bram_rd_data, x.mean))
                    ELSE p.var_sum
             i == IF over THEN compute_rsqrt(int32_add(divide_by_dim(x.var_sum, u.len), 1))
                  ELSE p.inv_std
  <2>1. LnShape(p) /\ ~p.pipe1.valid
    BY <1>a, LnPipedShape
  <2>2. x' = [p EXCEPT !.bram_rd_addr = a, !.buf_rd_valid = v, !.var_sum = m, !.inv_std = i]
    BY DEF LnCompVar
  <2>3. v \in BOOLEAN
    OBVIOUS
  <2> HIDE DEF p, a, v, m, i
  <2> QED
    BY <2>1, <2>2, <2>3 DEF LnShape
<1>1. u' = [LnWritten EXCEPT !.idx = n, !.state = s]
  BY DEF LnCompVar
<1>2. n \in Nat /\ s \in States /\ n = (IF over THEN 0 ELSE n)
      /\ s = IF over THEN "ST_NORMALIZE" ELSE "ST_COMP_VAR"
  BY <1>b, <1>w DEF States
<1> HIDE DEF n, s
<1>3. /\ UnitShape(u') /\ u'.state = s /\ ~u'.done /\ u'.len = u.len
      /\ u'.idx = n /\ ~u'.inflight /\ ~u'.rd_en /\ ~u'.sub_en /\ ~u'.wr_en
  BY <1>1, <1>2, <1>w DEF UnitShape
<1>4. NoRead' /\ NoSub'
  BY <1>3, StillStep DEF LnVar, Still
<1>5. CASE over
  BY <1>b, <1>2, <1>3, <1>4, <1>5, <1>x DEF LnWrite, SubFlight
<1>6. CASE ~over
  BY <1>2, <1>3, <1>4, <1>6, <1>x DEF LnVar, Still, NoWrite
<1> QED
  BY <1>5, <1>6

\* The same on the second port.
LEMMA SubStep ==
  ASSUME TypeOK, UnitShape(u'), Edge, NoRead, SubFlight, NEW may \in BOOLEAN,
         may => ~u.inflight, u'.sub_en <=> may, ~u'.rd_en,
         u'.inflight <=> (u.inflight \/ may) /\ ~dma.rd_valid
  PROVE  NoRead' /\ SubFlight' /\ (dma.rd_valid => u.inflight)
<1>1. ReadMoves /\ SubMoves
  BY ReadsEdge, SubsEdge
<1>2. dma.rd_valid \in BOOLEAN /\ u.inflight \in BOOLEAN
  BY PortsType DEF DmaShape, UnitShape
<1> QED
  BY <1>1, <1>2 DEF ReadMoves, SubMoves, NoRead, SubFlight, OneSub, NoSub, SubAsked,
                    SubMissing, SubAnswered

\* Pass three: parameters are read, elements written behind them.
LEMMA LnWriteStep ==
  ASSUME TypeOK, unit = "ln", LnWrite, Edge, LnNormalize(Ports)
  PROVE  /\ UnitShape(u') /\ LnShape(x') /\ ~u'.done /\ u'.len = u.len
         /\ \/ LnWrite' /\ Sent' = Sent + Bit(u.wr_en)
            \/ LnLast' /\ Sent + Bit(u.wr_en) = u.len
<1>a. /\ UnitShape(u) /\ LnShape(x)
      /\ Ports.valid = ad.rd_valid /\ Ports.valid \in BOOLEAN
      /\ Ports.sub_valid = dma.rd_valid /\ Ports.sub_valid \in BOOLEAN
  BY PortsType DEF TypeOK, OwnShape
<1>b. /\ u.idx \in Nat /\ u.len \in Nat /\ u.inflight \in BOOLEAN /\ u.rd_addr \in Nat
      /\ u.wr_en \in BOOLEAN
  BY <1>a DEF UnitShape
<1>p. x.pipe1.valid \in BOOLEAN
  BY <1>a DEF LnShape, PipeShape
<1> DEFINE ask == MayRead
           a == IF ask THEN u.idx ELSE u.rd_addr
           n == IF ask THEN u.idx + 1 ELSE u.idx
           f == (u.inflight \/ ask) /\ ~dma.rd_valid
           over == u.idx = u.len /\ ~u.sub_en /\ ~u.inflight /\ ~x.pipe1.valid
           s == IF over THEN "ST_DONE" ELSE "ST_NORMALIZE"
<1>c. ask \in BOOLEAN /\ a \in Nat /\ n \in Nat /\ f \in BOOLEAN /\ s \in States
  BY <1>a, <1>b DEF MayRead, States
<1>w. /\ UnitShape(LnWritten) /\ LnWritten.state = "ST_NORMALIZE" /\ ~LnWritten.done
      /\ LnWritten.len = u.len /\ LnWritten.idx = u.idx
      /\ (LnWritten.inflight <=> u.inflight) /\ ~LnWritten.rd_en /\ ~LnWritten.sub_en
      /\ LnWritten.rd_addr = u.rd_addr /\ (LnWritten.wr_en <=> x.pipe1.valid)
      /\ x.pipe1.valid => LnWritten.wr_addr = x.pipe1.wr_addr
  BY <1>a, LnWrittenFields DEF LnWrite
<1>1. /\ UnitShape(u') /\ u'.state = s /\ ~u'.done /\ u'.len = u.len
      /\ u'.idx = n /\ (u'.inflight <=> f) /\ ~u'.rd_en /\ (u'.sub_en <=> ask)
      /\ (u'.wr_en <=> x.pipe1.valid)
      /\ x.pipe1.valid => u'.wr_addr = x.pipe1.wr_addr
  <2> DEFINE q == [LnWritten EXCEPT !.sub_en = ask, !.rd_addr = a, !.idx = n,
                                    !.inflight = f]
  <2>1. u' = IF over THEN [q EXCEPT !.state = "ST_DONE"] ELSE q
    BY <1>a, <1>w DEF LnNormalize, UnitShape
  <2> HIDE DEF ask, a, n, f
  <2>2. /\ UnitShape(q) /\ q.state = "ST_NORMALIZE" /\ ~q.done /\ q.len = u.len
        /\ q.idx = n /\ (q.inflight <=> f) /\ ~q.rd_en /\ (q.sub_en <=> ask)
        /\ (q.wr_en <=> x.pipe1.valid)
        /\ x.pipe1.valid => q.wr_addr = x.pipe1.wr_addr
    BY <1>c, <1>w DEF UnitShape
  <2> HIDE DEF q
  <2>3. over => u' = Move(q, "ST_DONE")
    BY <2>1 DEF Move
  <2>4. "ST_DONE" \in States
    BY DEF States
  <2> QED
    BY <1>p, <2>1, <2>2, <2>3, <2>4, UnitMove
<1>2. dma.rd_valid => u.inflight
  BY DEF LnWrite, SubFlight, NoSub
<1>3. NoRead' /\ SubFlight'
  BY <1>1, <1>c, SubStep DEF LnWrite, MayRead
<1>x. /\ LnShape(x') /\ (x'.pipe1.valid <=> dma.rd_valid)
      /\ dma.rd_valid => x'.pipe1.wr_addr = u.idx - 1
  <2> DEFINE p == LnPiped(Ports)
             e == IF ask THEN u.idx ELSE p.bram_rd_addr
             g == [p EXCEPT !.bram_rd_addr = e]
             m == mul_shift8(x.bram_rd_data - x.mean, x.inv_std)
             c == int8(Ports.sub_data)  d == int8(Ports.sub_data \div 256)
             w == u.idx - 1
             r == [valid |-> TRUE, normalized |-> m, gamma |-> c, beta |-> d,
                   wr_addr |-> w]
  <2>1. LnShape(p) /\ ~p.pipe1.valid
    BY <1>a, LnPipedShape
  <2>2. dma.rd_valid => u.idx > 0
    BY <1>2 DEF LnWrite
  <2>3. x' = IF dma.rd_valid THEN [g EXCEPT !.pipe1 = r] ELSE g
    BY <1>a, <1>b, <2>2 DEF LnNormalize
  <2>4. u.idx > 0 => w \in Nat
    BY <1>b
  <2> HIDE DEF p, e, m, c, d, w
  <2>5. LnShape(g) /\ ~g.pipe1.valid
    BY <2>1 DEF LnShape
  <2>6. u.idx > 0 => PipeShape(r) /\ r.valid /\ r.wr_addr = w
    BY <2>4 DEF PipeShape
  <2> HIDE DEF g, r
  <2>7. PipeShape(r) => LnShape([g EXCEPT !.pipe1 = r]) /\ [g EXCEPT !.pipe1 = r].pipe1 = r
    BY <2>5 DEF LnShape
  <2> QED
    BY <2>2, <2>3, <2>5, <2>6, <2>7 DEF w
<1>4. CASE over
  <2>1. ~ask /\ ~f /\ n = u.idx
    BY <1>4, <1>b DEF MayRead
  <2>2. ~u'.inflight /\ ~u'.wr_en /\ ~x'.pipe1.valid
    BY <1>1, <1>2, <1>4, <1>x, <2>1
  <2>3. Still' /\ NoWrite'
    BY <1>3, <2>2 DEF Still, SubFlight, NoWrite
  <2> QED
    BY <1>1, <1>4, <1>b, <1>p, <1>x, <2>2, <2>3 DEF LnLast, LnQuiet, Sent, Bit
<1>5. CASE ~over
  <2>1. u'.idx <= u'.len
    BY <1>1, <1>b DEF LnWrite, MayRead
  <2>2. u'.inflight => u'.idx > 0 /\ ~x'.pipe1.valid
    BY <1>1, <1>b, <1>x DEF LnWrite, MayRead
  <2>3. x'.pipe1.valid => u'.idx > 0 /\ x'.pipe1.wr_addr = u'.idx - 1
    BY <1>1, <1>2, <1>b, <1>x DEF LnWrite, MayRead
  <2>4. u'.wr_en => /\ ~x'.pipe1.valid /\ u'.idx > Bit(u'.inflight)
                    /\ u'.wr_addr = u'.idx - Bit(u'.inflight) - 1
    <3> SUFFICES ASSUME u'.wr_en
                 PROVE  /\ ~x'.pipe1.valid /\ u'.idx > Bit(u'.inflight)
                        /\ u'.wr_addr = u'.idx - Bit(u'.inflight) - 1
      OBVIOUS
    <3>0. x.pipe1.valid
      BY <1>1
    <3>1. ~u.inflight /\ u.idx > 0 /\ u'.wr_addr = u.idx - 1
      BY <1>1, <1>b, <3>0 DEF LnWrite
    <3>2. ~dma.rd_valid
      BY <1>2, <3>1
    <3>3. u'.inflight <=> ask
      BY <1>1, <3>1, <3>2
    <3> QED
      BY <1>1, <1>b, <1>x, <3>0, <3>1, <3>2, <3>3 DEF Bit
  <2>5. LnWrite'
    BY <1>1, <1>3, <1>5, <1>x, <2>1, <2>2, <2>3, <2>4 DEF LnWrite
  <2>6. Sent' = Sent + Bit(u.wr_en)
    <3>1. CASE ask
      <4>1. ~u.inflight /\ ~dma.rd_valid /\ f /\ n = u.idx + 1
        BY <1>2, <3>1 DEF MayRead
      <4> QED
        BY <1>1, <1>b, <1>p, <1>x, <4>1 DEF Sent, Bit, LnWrite
    <3>2. CASE ~ask /\ u.inflight
      <4>1. ~x.pipe1.valid /\ n = u.idx /\ (f \/ dma.rd_valid)
        BY <3>2 DEF LnWrite
      <4> QED
        BY <1>1, <1>b, <1>x, <3>2, <4>1 DEF Sent, Bit
    <3>3. CASE ~ask /\ ~u.inflight
      <4>1. ~dma.rd_valid /\ ~f /\ n = u.idx
        BY <1>2, <3>3
      <4> QED
        BY <1>1, <1>b, <1>p, <1>x, <3>3, <4>1 DEF Sent, Bit, LnWrite
    <3> QED
      BY <3>1, <3>2, <3>3
  <2> QED
    BY <1>1, <1>x, <2>5, <2>6
<1> QED
  BY <1>4, <1>5

\* layernorm done.
LEMMA LnLastStep ==
  ASSUME TypeOK, unit = "ln", LnLast, Edge, LnDone(Ports)
  PROVE  UnitShape(u') /\ LnShape(x') /\ LnRest' /\ u'.done
<1>a. /\ UnitShape(u) /\ LnShape(x) /\ Ports.valid = ad.rd_valid /\ Ports.valid \in BOOLEAN
  BY PortsType DEF TypeOK, OwnShape
<1>1. /\ UnitShape(u') /\ u'.state = "ST_IDLE" /\ u'.done /\ ~u'.inflight
      /\ ~u'.rd_en /\ ~u'.sub_en /\ ~u'.wr_en
  BY <1>a, UnitFinish DEF LnDone, LnLast, LnQuiet, Still
<1>2. LnShape(x') /\ ~x'.pipe1.valid
  BY <1>a, LnPipedShape DEF LnDone
<1>3. NoRead' /\ NoSub' /\ ~ad.rd_valid
  BY <1>1, StillStep DEF LnLast, LnQuiet, Still
<1> QED
  BY <1>1, <1>2, <1>3 DEF LnRest, LnQuiet, Still, NoWrite

\* layernorm at rest, and set off.
LEMMA LnRestStep ==
  ASSUME TypeOK, unit = "ln", LnRest, Edge, LnIdle(Ports), start => cmd.len \in Nat
  PROVE  /\ UnitShape(u') /\ LnShape(x') /\ ~u'.done
         /\ \/ LnRest' /\ ~start
            \/ LnRead' /\ start /\ u'.len = cmd.len /\ u'.idx = 0
<1>a. /\ UnitShape(u) /\ LnShape(x) /\ Ports.valid = ad.rd_valid /\ Ports.valid \in BOOLEAN
  BY PortsType DEF TypeOK, OwnShape
<1> DEFINE p == LnPiped(Ports)
<1>2. LnShape(p) /\ ~p.pipe1.valid
  BY <1>a, LnPipedShape
<1>w. /\ UnitShape(LnWritten) /\ LnWritten.state = "ST_IDLE" /\ ~LnWritten.done
      /\ ~LnWritten.inflight /\ ~LnWritten.rd_en /\ ~LnWritten.sub_en /\ ~LnWritten.wr_en
  BY <1>a, LnWrittenFields DEF LnRest, LnQuiet, Still
<1>1. CASE start
  <2>1. /\ u' = Loaded("ST_COMP_MEAN")
        /\ x' = [p EXCEPT !.buf_rd_valid = FALSE, !.sum = 0, !.var_sum = 0]
    BY <1>1 DEF LnIdle
  <2>2. /\ UnitShape(u') /\ u'.state = "ST_COMP_MEAN" /\ ~u'.done /\ u'.len = cmd.len
        /\ u'.idx = 0 /\ ~u'.inflight /\ ~u'.rd_en /\ ~u'.sub_en /\ ~u'.wr_en
    BY <1>1, <1>a, <2>1, UnitLoaded DEF States
  <2>3. NoRead' /\ NoSub'
    BY <2>2, StillStep DEF LnRest, LnQuiet, Still
  <2>4. LnShape(x') /\ ~x'.pipe1.valid
    <3> HIDE DEF p
    <3> QED
      BY <1>2, <2>1 DEF LnShape
  <2>5. u'.len \in Nat
    BY <2>2 DEF UnitShape
  <2>6. LnRead'
    BY <2>2, <2>3, <2>4, <2>5 DEF LnRead, NoWrite, ReadFlight
  <2> QED
    BY <1>1, <2>2, <2>4, <2>6
<1>3. CASE ~start
  <2>1. u' = LnWritten /\ x' = p
    BY <1>3 DEF LnIdle
  <2>2. NoRead' /\ NoSub'
    BY <1>w, <2>1, StillStep DEF LnRest, LnQuiet, Still
  <2> QED
    BY <1>2, <1>3, <1>w, <2>1, <2>2 DEF LnRest, LnQuiet, Still, NoWrite
<1> QED
  BY <1>1, <1>3

-----------------------------------------------------------------------------
(* activation.v                                                            *)

\* activation's two stages.
LEMMA ActPipedShape ==
  ASSUME UnitShape(u), ActShape(x), NEW in, in.valid \in BOOLEAN
  PROVE  /\ ActShape(ActPiped(in)) /\ (ActPiped(in).relu_valid <=> in.valid)
         /\ ActPiped(in).wr_addr_pipe1 = u.rd_addr
         /\ ActPiped(in).wr_addr_pipe2 = x.wr_addr_pipe1
<1> DEFINE d == relu_golden(in.data)
<1>1. ActPiped(in) = [relu_valid |-> in.valid, relu_out |-> d,
                      wr_addr_pipe1 |-> u.rd_addr, wr_addr_pipe2 |-> x.wr_addr_pipe1]
  BY DEF ActPiped
<1>2. u.rd_addr \in Nat /\ x.wr_addr_pipe1 \in Nat
  BY DEF UnitShape, ActShape
<1> HIDE DEF d
<1> QED
  BY <1>1, <1>2 DEF ActShape

\* An element at a time: read, through the stages, written where it was read.
LEMMA ActRunStep ==
  ASSUME TypeOK, unit = "act", ActRun, Edge, ActProcess(Ports)
  PROVE  /\ UnitShape(u') /\ ActShape(x') /\ ~u'.done /\ u'.len = u.len
         /\ (ActRun' /\ ReadHolds) \/ ActLast'
<1>a. /\ UnitShape(u) /\ ActShape(x) /\ UnitShape(Quiet)
      /\ Ports.valid = ad.rd_valid /\ Ports.valid \in BOOLEAN
  BY PortsType, UnitQuiet DEF TypeOK, OwnShape
<1>b. /\ u.idx \in Nat /\ u.len \in Nat /\ u.inflight \in BOOLEAN /\ u.rd_addr \in Nat
      /\ u.wr_en \in BOOLEAN /\ u.rd_en \in BOOLEAN /\ x.relu_valid \in BOOLEAN
  BY <1>a DEF UnitShape, ActShape
<1>x. /\ ActShape(x') /\ (x'.relu_valid <=> ad.rd_valid)
      /\ x'.wr_addr_pipe1 = u.rd_addr /\ x'.wr_addr_pipe2 = x.wr_addr_pipe1
  BY <1>a, ActPipedShape DEF ActProcess
<1> DEFINE wrote == IF x.relu_valid THEN Writing(Quiet, x.wr_addr_pipe2, x.relu_out)
                    ELSE Quiet
           may == ActMayRead
           over == u.idx = u.len /\ ~x.relu_valid /\ ~u.rd_en /\ ~u.inflight
           r == Reading(wrote, may, Ports)
           s == IF over THEN "ST_DONE" ELSE r.state
<1>w. /\ UnitShape(wrote) /\ wrote.state = "ST_PROCESS" /\ ~wrote.done
      /\ wrote.len = u.len /\ wrote.idx = u.idx
      /\ (wrote.inflight <=> u.inflight) /\ ~wrote.rd_en /\ ~wrote.sub_en
      /\ wrote.rd_addr = u.rd_addr /\ (wrote.wr_en <=> x.relu_valid)
      /\ x.relu_valid => wrote.wr_addr = x.wr_addr_pipe2
  <2>1. x.wr_addr_pipe2 \in Nat
    BY <1>a DEF ActShape
  <2>2. CASE x.relu_valid
    <3> DEFINE q == Writing(Quiet, x.wr_addr_pipe2, x.relu_out)
    <3>1. wrote = q
      BY <2>2
    <3>2. /\ UnitShape(q) /\ q.state = "ST_PROCESS" /\ ~q.done
          /\ q.len = u.len /\ q.idx = u.idx
          /\ (q.inflight <=> u.inflight) /\ ~q.rd_en /\ ~q.sub_en
          /\ q.rd_addr = u.rd_addr /\ q.wr_en /\ q.wr_addr = x.wr_addr_pipe2
      BY <1>a, <2>1, UnitQuiet, UnitWriting DEF ActRun
    <3> HIDE DEF q, wrote
    <3> QED
      BY <2>2, <3>1, <3>2
  <2>3. CASE ~x.relu_valid
    BY <1>a, <2>3, UnitQuiet DEF ActRun
  <2> QED
    BY <1>b, <2>2, <2>3
<1>m. may <=> (u.idx < u.len /\ ~u.inflight /\ ~x.relu_valid)
  BY DEF ActMayRead, MayRead
<1>v. ad.rd_valid => u.inflight /\ ~u.rd_en
  BY <1>b DEF ActRun, ReadFlight, NoRead, OneRead, Asked, Missing, Answered
<1>r. /\ UnitShape(r) /\ r.state = "ST_PROCESS" /\ ~r.done /\ r.len = u.len
      /\ r.idx = (IF may THEN u.idx + 1 ELSE u.idx)
      /\ (r.inflight <=> may \/ (u.inflight /\ ~ad.rd_valid)) /\ (r.rd_en <=> may)
      /\ ~r.sub_en /\ r.rd_addr = (IF may THEN u.idx ELSE u.rd_addr)
      /\ (r.wr_en <=> x.relu_valid)
      /\ x.relu_valid => r.wr_addr = x.wr_addr_pipe2
  <2> HIDE DEF wrote
  <2>1. CASE may
    <3>1. r = Reading(wrote, TRUE, Ports)
      BY <2>1 DEF Reading
    <3>2. ~ad.rd_valid
      BY <1>m, <1>v, <2>1
    <3> HIDE DEF r, may
    <3> QED
      BY <1>a, <1>w, <2>1, <3>1, <3>2, UnitReading DEF TypeOK
  <2>2. CASE ~may
    <3>1. r = Reading(wrote, FALSE, Ports)
      BY <2>2 DEF Reading
    <3> HIDE DEF r, may
    <3> QED
      BY <1>w, <2>2, <3>1, UnitWaiting DEF TypeOK
  <2> QED
    BY <2>1, <2>2
<1>1. u' = Move(r, s)
  BY DEF ActProcess, Move
<1>s. s \in States
  BY <1>r DEF States
<1> HIDE DEF r, wrote, may
<1>2. /\ UnitShape(u') /\ u'.state = s /\ ~u'.done /\ u'.len = u.len
      /\ u'.idx = (IF may THEN u.idx + 1 ELSE u.idx)
      /\ (u'.inflight <=> may \/ (u.inflight /\ ~ad.rd_valid)) /\ (u'.rd_en <=> may)
      /\ ~u'.sub_en /\ u'.rd_addr = (IF may THEN u.idx ELSE u.rd_addr)
      /\ (u'.wr_en <=> x.relu_valid)
      /\ x.relu_valid => u'.wr_addr = x.wr_addr_pipe2
  <2> HIDE DEF s
  <2> QED
    BY <1>1, <1>r, <1>s, UnitMove
<1>3. ReadFlight' /\ NoSub'
  <2>1. may \in BOOLEAN
    BY <1>b, <1>m
  <2> QED
    BY <1>2, <1>m, <2>1, ReadingStep DEF ActRun, NoWrite
<1>4. CASE over
  <2>1. ~may /\ ~u.inflight /\ ~ad.rd_valid
    BY <1>4, <1>b, <1>m, <1>v
  <2>2. Still' /\ NoWrite' /\ ~x'.relu_valid
    BY <1>2, <1>3, <1>4, <1>x, <2>1 DEF Still, ReadFlight, NoWrite
  <2> QED
    BY <1>2, <1>4, <1>x, <2>2 DEF ActLast, ActQuiet
<1>5. CASE ~over
  <2>1. u'.state = "ST_PROCESS" /\ u'.idx <= u'.len
    BY <1>2, <1>5, <1>b, <1>m, <1>r DEF ActRun
  <2>2. u'.inflight => ~x'.relu_valid /\ ~u'.wr_en
    BY <1>2, <1>b, <1>m, <1>v, <1>x DEF ActRun
  <2>3. x'.relu_valid => ~u'.wr_en /\ x'.wr_addr_pipe2 = u'.rd_addr
    BY <1>2, <1>b, <1>m, <1>v, <1>x DEF ActRun
  <2>4. u'.wr_en => u'.wr_addr = u'.rd_addr
    BY <1>2, <1>b, <1>m, <1>v, <1>x DEF ActRun
  <2>5. u'.inflight /\ ~u'.rd_en => x'.wr_addr_pipe1 = u'.rd_addr
    BY <1>2, <1>b, <1>m, <1>v, <1>x DEF ActRun
  <2>6. u'.inflight \/ x'.relu_valid \/ u'.wr_en => u'.idx > 0
    BY <1>2, <1>b, <1>m, <1>v, <1>x DEF ActRun
  <2>7. u'.idx > 0 => u'.rd_addr = u'.idx - 1
    BY <1>2, <1>b, <1>m, <1>v, <1>x DEF ActRun
  <2> QED
    BY <1>2, <1>3, <1>x, <2>1, <2>2, <2>3, <2>4, <2>5, <2>6, <2>7 DEF ActRun, ReadHolds
<1> QED
  BY <1>4, <1>5

\* activation done.
LEMMA ActLastStep ==
  ASSUME TypeOK, unit = "act", ActLast, Edge, ActDone(Ports)
  PROVE  UnitShape(u') /\ ActShape(x') /\ ActRest'
<1>a. /\ UnitShape(u) /\ ActShape(x) /\ Ports.valid = ad.rd_valid /\ Ports.valid \in BOOLEAN
  BY PortsType DEF TypeOK, OwnShape
<1>1. /\ UnitShape(u') /\ u'.state = "ST_IDLE" /\ u'.done /\ ~u'.inflight
      /\ ~u'.rd_en /\ ~u'.sub_en /\ ~u'.wr_en
  BY <1>a, UnitFinish DEF ActDone, ActLast, ActQuiet, Still
<1>2. ActShape(x') /\ (x'.relu_valid <=> ad.rd_valid)
  BY <1>a, ActPipedShape DEF ActDone
<1>3. NoRead' /\ NoSub' /\ ~ad.rd_valid
  BY <1>1, StillStep DEF ActLast, ActQuiet, Still
<1> QED
  BY <1>1, <1>2, <1>3 DEF ActRest, ActQuiet, Still, NoWrite

\* activation at rest, and set off.
LEMMA ActRestStep ==
  ASSUME TypeOK, unit = "act", ActRest, Edge, ActIdle(Ports), start => cmd.len \in Nat
  PROVE  /\ UnitShape(u') /\ ActShape(x') /\ ~u'.done
         /\ \/ ActRest' /\ ~start
            \/ ActRun' /\ start /\ u'.len = cmd.len /\ u'.idx = 0
<1>a. /\ UnitShape(u) /\ ActShape(x) /\ Ports.valid = ad.rd_valid /\ Ports.valid \in BOOLEAN
  BY PortsType DEF TypeOK, OwnShape
<1>x. ActShape(x') /\ (x'.relu_valid <=> ad.rd_valid)
  BY <1>a, ActPipedShape DEF ActIdle
<1>1. CASE start
  <2>1. u' = Loaded("ST_PROCESS")
    BY <1>1 DEF ActIdle
  <2>2. /\ UnitShape(u') /\ u'.state = "ST_PROCESS" /\ ~u'.done /\ u'.len = cmd.len
        /\ u'.idx = 0 /\ ~u'.inflight /\ ~u'.rd_en /\ ~u'.sub_en /\ ~u'.wr_en
    BY <1>1, <1>a, <2>1, UnitLoaded DEF States
  <2>3. NoRead' /\ NoSub' /\ ~ad.rd_valid
    BY <2>2, StillStep DEF ActRest, ActQuiet, Still
  <2>5. u'.len \in Nat
    BY <2>2 DEF UnitShape
  <2>6. ActRun'
    BY <1>x, <2>2, <2>3, <2>5 DEF ActRun, ReadFlight
  <2> QED
    BY <1>1, <1>x, <2>2, <2>6
<1>3. CASE ~start
  <2>1. u' = Quiet
    BY <1>3 DEF ActIdle
  <2>2. /\ UnitShape(u') /\ u'.state = "ST_IDLE" /\ ~u'.done
        /\ ~u'.inflight /\ ~u'.rd_en /\ ~u'.sub_en /\ ~u'.wr_en
    BY <1>a, <2>1, UnitQuiet DEF ActRest, ActQuiet, Still
  <2>3. NoRead' /\ NoSub' /\ ~ad.rd_valid
    BY <2>2, StillStep DEF ActRest, ActQuiet, Still
  <2> QED
    BY <1>3, <1>x, <2>2, <2>3 DEF ActRest, ActQuiet, Still, NoWrite
<1> QED
  BY <1>1, <1>3

-----------------------------------------------------------------------------
(* residual_add.v                                                          *)

\* An element at a time: both operands read, each when it comes, and the sum written.
LEMMA ResRunStep ==
  ASSUME TypeOK, unit = "res", ResRun, Edge, ResProcess(Ports)
  PROVE  /\ UnitShape(u') /\ ResShape(x') /\ ~u'.done /\ u'.len = u.len
         /\ (ResRun' /\ ResHolds) \/ ResLast'
<1>a. /\ UnitShape(u) /\ ResShape(x) /\ UnitShape(Quiet)
      /\ Ports.valid = ad.rd_valid /\ Ports.valid \in BOOLEAN
      /\ Ports.sub_valid = dma.rd_valid /\ Ports.sub_valid \in BOOLEAN
  BY PortsType, UnitQuiet DEF TypeOK, OwnShape
<1>b. /\ u.idx \in Nat /\ u.len \in Nat /\ u.inflight \in BOOLEAN /\ u.rd_addr \in Nat
      /\ u.wr_en \in BOOLEAN /\ u.rd_en \in BOOLEAN
      /\ x.got_res \in BOOLEAN /\ x.got_sub \in BOOLEAN
  BY <1>a DEF UnitShape, ResShape
<1>q. /\ Quiet.state = "ST_PROCESS" /\ ~Quiet.done /\ Quiet.len = u.len
      /\ Quiet.idx = u.idx /\ (Quiet.inflight <=> u.inflight) /\ ~Quiet.rd_en
      /\ ~Quiet.sub_en /\ Quiet.rd_addr = u.rd_addr /\ ~Quiet.wr_en
  BY <1>a, UnitQuiet DEF ResRun
<1>e. UnitShape(u') => ReadMoves /\ SubMoves
  BY ReadsEdge, SubsEdge
<1>f. u.inflight => /\ x.got_res => ~ad.rd_valid
                    /\ x.got_sub => ~dma.rd_valid
  BY DEF ResRun, NoRead, NoSub
<1>1. CASE ResBothReady(Ports)
  <2> DEFINE v == saturating_add(IF x.got_res THEN x.res ELSE Ports.data,
                                 IF x.got_sub THEN x.sub ELSE Ports.sub_data)
             w == Writing(Quiet, u.idx, v)
             n == w.idx + 1
  <2>1. /\ u' = [w EXCEPT !.idx = n, !.inflight = FALSE]
        /\ x' = [x EXCEPT !.got_res = FALSE, !.got_sub = FALSE]
    BY <1>1 DEF ResProcess
  <2>2. /\ UnitShape(w) /\ w.state = "ST_PROCESS" /\ ~w.done /\ w.len = u.len
        /\ w.idx = u.idx /\ ~w.rd_en /\ ~w.sub_en /\ w.wr_en /\ w.wr_addr = u.idx
        /\ w.rd_addr = u.rd_addr
    <3> HIDE DEF v
    <3> QED
      BY <1>a, <1>b, <1>q, UnitWriting
  <2>3. n \in Nat /\ n = u.idx + 1
    BY <1>b, <2>2
  <2> HIDE DEF w, n
  <2>4. /\ UnitShape(u') /\ u'.state = "ST_PROCESS" /\ ~u'.done /\ u'.len = u.len
        /\ u'.idx = n /\ ~u'.rd_en /\ ~u'.sub_en /\ u'.wr_en /\ u'.wr_addr = u.idx
        /\ ~u'.inflight /\ u'.rd_addr = u.rd_addr
    BY <2>1, <2>2, <2>3 DEF UnitShape
  <2>5. ResShape(x') /\ ~x'.got_res /\ ~x'.got_sub
    BY <1>a, <2>1 DEF ResShape
  <2>6. u.inflight /\ (x.got_res \/ ad.rd_valid) /\ (x.got_sub \/ dma.rd_valid)
    BY <1>1, <1>a DEF ResBothReady
  <2>7. NoRead' /\ NoSub'
    BY <1>e, <2>4, <2>6 DEF ResRun, ReadMoves, SubMoves, OneRead, NoRead, Asked, Missing,
                            Answered, OneSub, NoSub, SubAsked, SubMissing, SubAnswered
  <2>8. u.idx < u.len /\ u.rd_addr = u.idx
    BY <2>6 DEF ResRun
  <2>9. ResRun'
    BY <1>b, <2>3, <2>4, <2>5, <2>7, <2>8 DEF ResRun
  <2> QED
    BY <2>4, <2>5, <2>6, <2>9 DEF ResHolds
<1>2. CASE ~ResBothReady(Ports)
  <2> DEFINE ask == MayRead
             a == IF ask THEN u.idx ELSE u.rd_addr
             f == u.inflight \/ ask
             over == u.idx = u.len /\ ~u.inflight /\ ~x.got_res /\ ~x.got_sub
             s == IF over THEN "ST_DONE" ELSE "ST_PROCESS"
             gr == x.got_res \/ ad.rd_valid
             gs == x.got_sub \/ dma.rd_valid
             vr == IF ad.rd_valid THEN Ports.data ELSE x.res
             vs == IF dma.rd_valid THEN Ports.sub_data ELSE x.sub
  <2>c. /\ ask \in BOOLEAN /\ a \in Nat /\ f \in BOOLEAN /\ s \in States
        /\ gr \in BOOLEAN /\ gs \in BOOLEAN
    BY <1>a, <1>b DEF MayRead, States
  <2>1. u' = [Quiet EXCEPT !.rd_en = ask, !.sub_en = ask, !.rd_addr = a, !.inflight = f,
                           !.state = s]
    BY <1>2, <1>q, <1>a DEF ResProcess, ResWaiting, UnitShape
  <2>2. x' = [got_res |-> gr, got_sub |-> gs, res |-> vr, sub |-> vs]
    BY <1>2, <1>a DEF ResProcess, ResWaiting
  <2>3. /\ UnitShape(u') /\ u'.state = s /\ ~u'.done /\ u'.len = u.len
        /\ u'.idx = u.idx /\ (u'.inflight <=> f) /\ (u'.rd_en <=> ask)
        /\ (u'.sub_en <=> ask) /\ u'.rd_addr = a /\ ~u'.wr_en
    <3> HIDE DEF ask, a, f, s
    <3> QED
      BY ZenonT(60), <1>a, <1>q, <2>1, <2>c DEF UnitShape
  <2>4. ResShape(x') /\ (x'.got_res <=> gr) /\ (x'.got_sub <=> gs)
    <3> HIDE DEF gr, gs, vr, vs
    <3> QED
      BY <2>2, <2>c DEF ResShape
  <2>m. ask <=> (u.idx < u.len /\ ~u.inflight)
    BY DEF MayRead
  <2> HIDE DEF ask, a, s, f
  <2>e. ReadMoves /\ SubMoves
    BY <1>e, <2>3
  <2>5. CASE ask
    <3>1. ~u.inflight /\ NoRead /\ NoSub /\ ~x.got_res /\ ~x.got_sub /\ u.idx < u.len
      BY <2>5, <2>m DEF ResRun
    <3>2. ~gr /\ ~gs
      BY <3>1 DEF NoRead, NoSub
    <3>3. Asked' /\ SubAsked'
      BY <2>e, <2>3, <2>5, <3>1 DEF ReadMoves, SubMoves
    <3>4. f /\ a = u.idx /\ s = "ST_PROCESS"
      BY <1>b, <2>5, <3>1 DEF f, a, s
    <3>5. ResRun'
      BY <1>b, <2>3, <2>4, <3>1, <3>2, <3>3, <3>4 DEF ResRun, OneRead, OneSub, NoWrite
    <3> QED
      BY <2>3, <2>4, <2>5, <3>5 DEF ResHolds
  <2>6. CASE u.inflight
    <3>1. /\ ~ask /\ f /\ a = u.idx /\ a = u.rd_addr /\ s = "ST_PROCESS" /\ u.idx < u.len
          /\ (IF x.got_res THEN NoRead ELSE OneRead)
          /\ (IF x.got_sub THEN NoSub ELSE OneSub) /\ ~u.wr_en
      BY <1>b, <2>6, <2>m DEF ResRun, NoWrite, f, a, s
    <3>2. IF gr THEN NoRead' ELSE OneRead'
      BY <1>a, <2>e, <2>3, <3>1 DEF ReadMoves, OneRead, NoRead, Asked, Missing, Answered
    <3>3. IF gs THEN NoSub' ELSE OneSub'
      BY <1>a, <2>e, <2>3, <3>1
         DEF SubMoves, OneSub, NoSub, SubAsked, SubMissing, SubAnswered
    <3>5. ResRun'
      BY <1>b, <2>3, <2>4, <2>6, <3>1, <3>2, <3>3 DEF ResRun, NoWrite
    <3> QED
      BY <2>3, <2>4, <2>6, <3>1, <3>5 DEF ResHolds
  <2>7. CASE ~ask /\ ~u.inflight
    <3>1. /\ ~f /\ NoRead /\ NoSub /\ ~x.got_res /\ ~x.got_sub /\ u.idx = u.len
      BY <1>b, <2>7, <2>m DEF ResRun, f
    <3>2. ~gr /\ ~gs
      BY <3>1 DEF NoRead, NoSub
    <3>3. NoRead' /\ NoSub' /\ s = "ST_DONE"
      BY <2>e, <2>3, <2>7, <3>1 DEF ReadMoves, SubMoves, s
    <3>4. ResLast'
      BY <2>3, <3>1, <3>3 DEF ResLast, Still, NoWrite
    <3> QED
      BY <2>3, <2>4, <3>4
  <2> QED
    BY <2>5, <2>6, <2>7
<1> QED
  BY <1>1, <1>2

\* residual_add done.
LEMMA ResLastStep ==
  ASSUME TypeOK, unit = "res", ResLast, Edge, ResDone(Ports)
  PROVE  UnitShape(u') /\ ResShape(x') /\ ResRest'
<1>a. UnitShape(u) /\ ResShape(x)
  BY PortsType DEF TypeOK, OwnShape
<1>1. /\ UnitShape(u') /\ u'.state = "ST_IDLE" /\ u'.done /\ ~u'.inflight
      /\ ~u'.rd_en /\ ~u'.sub_en /\ ~u'.wr_en
  BY <1>a, UnitFinish DEF ResDone, ResLast, Still
<1>3. NoRead' /\ NoSub'
  BY <1>1, StillStep DEF ResLast, Still
<1> QED
  BY <1>a, <1>1, <1>3 DEF ResDone, ResRest, Still, NoWrite

\* residual_add at rest, and set off.
LEMMA ResRestStep ==
  ASSUME TypeOK, unit = "res", ResRest, Edge, ResIdle(Ports), start => cmd.len \in Nat
  PROVE  /\ UnitShape(u') /\ ResShape(x') /\ ~u'.done
         /\ \/ ResRest' /\ ~start
            \/ ResRun' /\ start /\ u'.len = cmd.len /\ ~u'.inflight /\ ~u'.wr_en
<1>a. UnitShape(u) /\ ResShape(x)
  BY PortsType DEF TypeOK, OwnShape
<1>1. CASE start
  <2>1. u' = Loaded("ST_PROCESS") /\ x' = [x EXCEPT !.got_res = FALSE, !.got_sub = FALSE]
    BY <1>1 DEF ResIdle
  <2>2. /\ UnitShape(u') /\ u'.state = "ST_PROCESS" /\ ~u'.done /\ u'.len = cmd.len
        /\ u'.idx = 0 /\ ~u'.inflight /\ ~u'.rd_en /\ ~u'.sub_en /\ ~u'.wr_en
    BY <1>1, <1>a, <2>1, UnitLoaded DEF States
  <2>3. NoRead' /\ NoSub'
    BY <2>2, StillStep DEF ResRest, Still
  <2>4. ResShape(x') /\ ~x'.got_res /\ ~x'.got_sub
    BY <1>a, <2>1 DEF ResShape
  <2>5. u'.len \in Nat
    BY <2>2 DEF UnitShape
  <2>6. ResRun'
    BY <2>2, <2>3, <2>4, <2>5 DEF ResRun
  <2> QED
    BY <1>1, <2>2, <2>4, <2>6
<1>3. CASE ~start
  <2>1. u' = Quiet /\ x' = x
    BY <1>3 DEF ResIdle
  <2>2. /\ UnitShape(u') /\ u'.state = "ST_IDLE" /\ ~u'.done
        /\ ~u'.inflight /\ ~u'.rd_en /\ ~u'.sub_en /\ ~u'.wr_en
    BY <1>a, <2>1, UnitQuiet DEF ResRest, Still
  <2>3. NoRead' /\ NoSub'
    BY <2>2, StillStep DEF ResRest, Still
  <2> QED
    BY <1>a, <1>3, <2>1, <2>2, <2>3 DEF ResRest, Still, NoWrite
<1> QED
  BY <1>1, <1>3

-----------------------------------------------------------------------------
(* The unit and its branch of the controller.                              *)

UnitType == unit \in {"sm", "ln", "act", "res"}

\* A unit stays at rest, sets off at a start, works on, or comes to rest.
Keeps == Rests /\ ~u'.done /\ Rests'
SetsOff == Rests /\ start /\ ~u'.done /\ Works' /\ u'.len = cmd.len
WorksOn == Works /\ ~u'.done /\ Works' /\ u'.len = u.len
Stops == Works /\ Rests'

\* The same, stage by stage.
SmMoves ==
  \/ SmRest /\ ~u'.done /\ (SmRest' \/ (SmRead' /\ u'.idx = 0))
  \/ SmRead /\ SmRead' /\ ReadHolds
  \/ SmRead /\ SmWrite' /\ u.idx = u.len /\ ~u.inflight /\ ~u'.wr_en
  \/ /\ SmWrite /\ (SmWrite' \/ SmLast')
     /\ IF u'.wr_en THEN u'.wr_addr = IF u.wr_en THEN u.wr_addr + 1 ELSE 0
                    ELSE ~u.wr_en
  \/ SmLast /\ SmRest' /\ u'.done
LnMoves ==
  \/ LnRest /\ ~u'.done /\ (LnRest' \/ (LnRead' /\ u'.idx = 0))
  \/ LnRead /\ LnRead' /\ ReadHolds
  \/ LnRead /\ LnVar' /\ u.idx = u.len /\ ~u.inflight /\ ~u.rd_en
  \/ LnVar /\ LnVar'
  \/ LnVar /\ LnWrite' /\ u'.idx = 0 /\ ~u'.inflight /\ ~x'.pipe1.valid /\ ~u'.wr_en
  \/ LnWrite /\ LnWrite' /\ Sent' = Sent + Bit(u.wr_en)
  \/ LnWrite /\ LnLast' /\ Sent + Bit(u.wr_en) = u.len
  \/ LnLast /\ LnRest' /\ u'.done
ActMoves ==
  \/ ActRest /\ (ActRest' \/ (ActRun' /\ u'.idx = 0))
  \/ ActRun /\ ((ActRun' /\ ReadHolds) \/ ActLast')
  \/ ActLast /\ ActRest'
ResMoves ==
  \/ ResRest /\ (ResRest' \/ (ResRun' /\ ~u'.inflight /\ ~u'.wr_en))
  \/ ResRun /\ ((ResRun' /\ ResHolds) \/ ResLast')
  \/ ResLast /\ ResRest'

\* The edges of each unit together.
LEMMA SoftmaxStep ==
  ASSUME TypeOK, unit = "sm", unit' = unit, Rests \/ Works, Edge, start => cmd.len \in Nat,
         Unit(Ports)
  PROVE  UnitShape(u') /\ OwnShape' /\ SmMoves /\ (Keeps \/ SetsOff \/ WorksOn \/ Stops)
<1>1. Softmax(Ports)
  BY DEF Unit, LayerNorm, LnIdle, LnCompMean, LnCompVar, LnNormalize, LnDone, Activation,
         ActIdle, ActProcess, ActDone, Residual, ResIdle, ResProcess, ResDone
<1>2. CASE SmRest
  <2>1. SmIdle(Ports)
    BY <1>1, <1>2 DEF Softmax, SmRest, SmFindMax, SmCompExp, SmNormalize, SmDone, Finish
  <2> QED
    BY <1>2, <2>1, SmRestStep DEF OwnShape, Rests, Works, Keeps, SetsOff, SmMoves
<1>3. CASE SmRead
  <2>1. SmFindMax(Ports) \/ SmCompExp(Ports)
    BY <1>1, <1>3 DEF Softmax, SmRead, SmIdle, SmNormalize, SmDone, Finish
  <2> QED
    BY <1>3, <2>1, SmReadStep DEF OwnShape, Works, WorksOn, SmMoves
<1>4. CASE SmWrite
  <2>1. SmNormalize(Ports)
    BY <1>1, <1>4 DEF Softmax, SmWrite, SmIdle, SmFindMax, SmCompExp, SmDone, Finish
  <2> QED
    BY <1>4, <2>1, SmWriteStep DEF OwnShape, Works, WorksOn, SmMoves
<1>5. CASE SmLast
  <2>1. SmDone(Ports)
    BY <1>1, <1>5 DEF Softmax, SmLast, SmIdle, SmFindMax, SmCompExp, SmNormalize
  <2> QED
    BY <1>5, <2>1, SmLastStep DEF OwnShape, Rests, Works, Stops, SmMoves
<1> QED
  BY <1>2, <1>3, <1>4, <1>5 DEF Rests, Works

LEMMA LayerNormStep ==
  ASSUME TypeOK, unit = "ln", unit' = unit, Rests \/ Works, Edge, start => cmd.len \in Nat,
         Unit(Ports)
  PROVE  UnitShape(u') /\ OwnShape' /\ LnMoves /\ (Keeps \/ SetsOff \/ WorksOn \/ Stops)
<1>1. LayerNorm(Ports)
  BY DEF Unit, Softmax, SmIdle, SmFindMax, SmCompExp, SmNormalize, SmDone, Activation,
         ActIdle, ActProcess, ActDone, Residual, ResIdle, ResProcess, ResDone
<1>2. CASE LnRest
  <2>1. LnIdle(Ports)
    BY <1>1, <1>2 DEF LayerNorm, LnRest, LnCompMean, LnCompVar, LnNormalize, LnDone, Finish
  <2> QED
    BY <1>2, <2>1, LnRestStep DEF OwnShape, Rests, Works, Keeps, SetsOff, LnMoves
<1>3. CASE LnRead
  <2>1. LnCompMean(Ports)
    BY <1>1, <1>3 DEF LayerNorm, LnRead, LnIdle, LnCompVar, LnNormalize, LnDone, Finish
  <2> QED
    BY <1>3, <2>1, LnReadStep DEF OwnShape, Works, WorksOn, LnMoves
<1>4. CASE LnVar
  <2>1. LnCompVar(Ports)
    BY <1>1, <1>4 DEF LayerNorm, LnVar, LnIdle, LnCompMean, LnNormalize, LnDone, Finish
  <2> QED
    BY <1>4, <2>1, LnVarStep DEF OwnShape, Works, WorksOn, LnMoves
<1>5. CASE LnWrite
  <2>1. LnNormalize(Ports)
    BY <1>1, <1>5 DEF LayerNorm, LnWrite, LnIdle, LnCompMean, LnCompVar, LnDone, Finish
  <2> QED
    BY <1>5, <2>1, LnWriteStep DEF OwnShape, Works, WorksOn, LnMoves
<1>6. CASE LnLast
  <2>1. LnDone(Ports)
    BY <1>1, <1>6 DEF LayerNorm, LnLast, LnIdle, LnCompMean, LnCompVar, LnNormalize
  <2> QED
    BY <1>6, <2>1, LnLastStep DEF OwnShape, Rests, Works, Stops, LnMoves
<1> QED
  BY <1>2, <1>3, <1>4, <1>5, <1>6 DEF Rests, Works

LEMMA ActivationStep ==
  ASSUME TypeOK, unit = "act", unit' = unit, Rests \/ Works, Edge, start => cmd.len \in Nat,
         Unit(Ports)
  PROVE  UnitShape(u') /\ OwnShape' /\ ActMoves /\ (Keeps \/ SetsOff \/ WorksOn \/ Stops)
<1>1. Activation(Ports)
  BY DEF Unit, Softmax, SmIdle, SmFindMax, SmCompExp, SmNormalize, SmDone, LayerNorm,
         LnIdle, LnCompMean, LnCompVar, LnNormalize, LnDone, Residual, ResIdle, ResProcess,
         ResDone
<1>2. CASE ActRest
  <2>1. ActIdle(Ports)
    BY <1>1, <1>2 DEF Activation, ActRest, ActProcess, ActDone, Finish
  <2> QED
    BY <1>2, <2>1, ActRestStep DEF OwnShape, Rests, Works, Keeps, SetsOff, ActMoves
<1>3. CASE ActRun
  <2>1. ActProcess(Ports)
    BY <1>1, <1>3 DEF Activation, ActRun, ActIdle, ActDone, Finish
  <2> QED
    BY <1>3, <2>1, ActRunStep DEF OwnShape, Works, WorksOn, ActMoves
<1>4. CASE ActLast
  <2>1. ActDone(Ports)
    BY <1>1, <1>4 DEF Activation, ActLast, ActIdle, ActProcess
  <2> QED
    BY <1>4, <2>1, ActLastStep DEF OwnShape, Rests, Works, Stops, ActMoves
<1> QED
  BY <1>2, <1>3, <1>4 DEF Rests, Works

LEMMA ResidualStep ==
  ASSUME TypeOK, unit = "res", unit' = unit, Rests \/ Works, Edge, start => cmd.len \in Nat,
         Unit(Ports)
  PROVE  UnitShape(u') /\ OwnShape' /\ ResMoves /\ (Keeps \/ SetsOff \/ WorksOn \/ Stops)
<1>1. Residual(Ports)
  BY DEF Unit, Softmax, SmIdle, SmFindMax, SmCompExp, SmNormalize, SmDone, LayerNorm,
         LnIdle, LnCompMean, LnCompVar, LnNormalize, LnDone, Activation, ActIdle,
         ActProcess, ActDone
<1>2. CASE ResRest
  <2>1. ResIdle(Ports)
    BY <1>1, <1>2 DEF Residual, ResRest, ResProcess, ResDone, Finish
  <2> QED
    BY <1>2, <2>1, ResRestStep DEF OwnShape, Rests, Works, Keeps, SetsOff, ResMoves
<1>3. CASE ResRun
  <2>1. ResProcess(Ports)
    BY <1>1, <1>3 DEF Residual, ResRun, ResIdle, ResDone, Finish
  <2> QED
    BY <1>3, <2>1, ResRunStep DEF OwnShape, Works, WorksOn, ResMoves
<1>4. CASE ResLast
  <2>1. ResDone(Ports)
    BY <1>1, <1>4 DEF Residual, ResLast, ResIdle, ResProcess
  <2> QED
    BY <1>4, <2>1, ResLastStep DEF OwnShape, Rests, Works, Stops, ResMoves
<1> QED
  BY <1>2, <1>3, <1>4 DEF Rests, Works

\* The edge of whichever unit runs.
LEMMA UnitStep ==
  ASSUME TypeOK, UnitType, unit' = unit, Rests \/ Works, Edge, start => cmd.len \in Nat,
         Unit(Ports)
  PROVE  /\ UnitShape(u') /\ OwnShape' /\ (Keeps \/ SetsOff \/ WorksOn \/ Stops)
         /\ (unit = "sm" => SmMoves) /\ (unit = "ln" => LnMoves)
         /\ (unit = "act" => ActMoves) /\ (unit = "res" => ResMoves)
BY SoftmaxStep, LayerNormStep, ActivationStep, ResidualStep DEF UnitType

\* A unit does not work and rest at once.
LEMMA RestsOrWorks == ~(Rests /\ Works)
BY DEF Rests, Works, SmRest, SmRead, SmWrite, SmLast, LnRest, LnQuiet, LnRead, LnVar,
       LnWrite, LnLast, ActRest, ActRun, ActLast, ResRest, ResRun, ResLast

JobType == job.unit = unit /\ job \in TopJobs

\* What a job of the controller is.
LEMMA JobFields ==
  ASSUME JobType
  PROVE  /\ UnitType /\ job.rows \in Nat \ {0} /\ job.len \in Nat \ {0}
         /\ job.rows * job.len <= ROWS * ROW_EL
BY JobsAssumption DEF JobType, UnitType

\* Its rows lie in the URAM.
LEMMA RowArithmetic ==
  ASSUME JobType, row \in 0 .. job.rows - 1
  PROVE  Len0 \in Nat \ {0} /\ Base \in Nat /\ Base + Len0 <= job.rows * job.len
<1>1. job.rows \in Nat \ {0} /\ job.len \in Nat \ {0} /\ row \in Nat /\ row + 1 <= job.rows
  BY JobFields
<1>2. row * job.len \in Nat /\ job.rows * job.len \in Nat /\ job.rows * job.len # 0
  BY <1>1
<1>3. (row + 1) * job.len <= job.rows * job.len
  BY <1>1
<1>4. (row + 1) * job.len = row * job.len + job.len
  <2>1. \A a, b \in Nat : (a + 1) * b = a * b + b
    OBVIOUS
  <2> QED
    BY <1>1, <2>1
<1> QED
  BY <1>1, <1>2, <1>3, <1>4 DEF Len0, Base

TopEdge == Top /\ History /\ UNCHANGED <<env, job, unit>>

\* An edge of top_level keeps the invariant, unless a start meets a done.
LEMMA PathStep ==
  ASSUME PathInv, JobType, TopEdge, ~ghost'
  PROVE  PathInv'
<1>a. TypeOK /\ (Rests \/ Works) /\ DriverInv /\ UnitType
  BY JobFields DEF PathInv
<1>b. /\ Controller /\ Unit(Ports) /\ Edge /\ job' = job /\ unit' = unit
      /\ ~(start /\ u.done)
  BY DEF TopEdge, Top, Edge, Ports, History
<1>c. Len0 \in Nat \ {0} /\ Base \in Nat
  BY <1>a, RowArithmetic DEF DriverInv
<1>1. UnitShape(u') /\ OwnShape' /\ (Keeps \/ SetsOff \/ WorksOn \/ Stops)
  BY <1>a, <1>b, <1>c, UnitStep DEF DriverInv
<1>2. AdShape(ad') /\ DmaShape(dma')
  BY <1>a, <1>b, AdapterShape, DmaKeepsShape DEF TypeOK
<1>3. Rests' \/ Works'
  BY <1>1 DEF Keeps, SetsOff, WorksOn, Stops
<1>d. /\ start \in BOOLEAN /\ u.done \in BOOLEAN /\ offset \in Nat /\ row \in Nat
      /\ job.rows \in Nat \ {0} /\ job.len \in Nat \ {0} /\ ByRow' = ByRow /\ Len0' = Len0
  BY <1>a, <1>b, JobFields DEF TypeOK, UnitShape, DriverInv, ByRow, Len0
<1>x. ~(Rests /\ Works) /\ ~(Rests' /\ Works')
  <2>1. (~(Rests /\ Works))'
    BY <1>b DEF Rests, Works, SmRest, SmRead, SmWrite, SmLast, LnRest, LnQuiet, LnRead,
           LnVar, LnWrite, LnLast, ActRest, ActRun, ActLast, ResRest, ResRun, ResLast
  <2> QED
    BY <2>1, RestsOrWorks
<1>e. ~u.done \/ Rests
  BY <1>a DEF DriverInv
<1> USE <1>1, <1>2, <1>3, <1>a, <1>b, <1>c, <1>d, <1>e, <1>x
<1>t. start' \in BOOLEAN /\ adapter_flush' \in BOOLEAN /\ offset' \in Nat => TypeOK'
  BY DEF TypeOK
<1>4. CASE CtlFire
  <2>1. /\ phase = "run" /\ phase' = "run" /\ ~start /\ start' /\ ~u.done /\ row' = row
        /\ cmd'.len = Len0 /\ adapter_flush' = adapter_flush /\ ~adapter_flush
        /\ offset' = Base /\ Base' = Base
    BY <1>4 DEF CtlFire, Len0, Base, DriverInv, ByRow
  <2>2. TypeOK'
    BY <1>t, <2>1 DEF TypeOK
  <2>3. ~Rests' => u'.len = Len0
    BY <2>1 DEF Keeps, SetsOff, WorksOn, Stops, DriverInv
  <2> QED
    BY <2>1, <2>2, <2>3 DEF PathInv, DriverInv, Base, Stops, Keeps, SetsOff, WorksOn
<1>5. CASE CtlWait
  <2>1. /\ phase = "run" /\ phase' = "run" /\ start /\ ~start' /\ ~u.done /\ row' = row
        /\ cmd' = cmd /\ adapter_flush' = adapter_flush /\ ~adapter_flush
        /\ offset' = Base /\ offset = Base /\ Base' = Base /\ cmd.len = Len0
    BY <1>5 DEF CtlWait, driver, DriverInv, Base, ByRow
  <2>2. TypeOK'
    BY <1>5, <1>t, <2>1 DEF TypeOK, CtlWait
  <2>3. ~Rests' => u'.len = Len0
    BY <2>1 DEF Keeps, SetsOff, WorksOn, Stops, DriverInv
  <2>4. u'.done => Rests'
    BY DEF Keeps, SetsOff, WorksOn, Stops
  <2> QED
    BY <2>1, <2>2, <2>3, <2>4 DEF PathInv, DriverInv, Base
<1>r. u.done => Rests' /\ ~u'.done
  BY DEF Keeps, SetsOff, WorksOn, Stops
<1>6. CASE CtlRowDone
  <2>1. /\ phase = "run" /\ phase' = "run" /\ ~start' /\ u.done /\ row' = row + 1
        /\ row # job.rows - 1 /\ ByRow
        /\ adapter_flush' = adapter_flush /\ ~adapter_flush /\ offset' = offset
    BY <1>6 DEF CtlRowDone, DriverInv
  <2>2. TypeOK'
    BY <1>6, <1>t, <2>1 DEF TypeOK, CtlRowDone
  <2>3. row' \in 0 .. job.rows - 1
    BY <2>1 DEF DriverInv
  <2> QED
    BY <1>r, <2>1, <2>2, <2>3 DEF PathInv, DriverInv
<1>7. CASE CtlLastDone
  <2>1. /\ phase = "run" /\ phase' = "flush" /\ ~start' /\ u.done /\ row' = 0
        /\ adapter_flush' = adapter_flush /\ ~adapter_flush /\ offset' = 0
    BY <1>7 DEF CtlLastDone, DriverInv
  <2>2. TypeOK'
    <3>1. start' \in BOOLEAN /\ adapter_flush' \in BOOLEAN /\ offset' \in Nat
      <4>1. start' = FALSE /\ adapter_flush' = adapter_flush /\ offset' = 0
        BY <1>7 DEF CtlLastDone
      <4>2. adapter_flush \in BOOLEAN
        BY DEF TypeOK
      <4> HIDE <1>1, <1>2, <1>3, <1>a, <1>b, <1>c, <1>d, <1>e, <1>x
      <4> QED
        BY <4>1, <4>2
    <3> QED
      BY <1>t, <3>1
  <2>3. row' \in 0 .. job.rows - 1
    BY <2>1
  <2> QED
    BY <1>r, <2>1, <2>2, <2>3 DEF PathInv, DriverInv
<1>8. CASE ~(phase = "run")
  <2>1. ~start /\ ~u.done /\ Rests
    BY <1>8 DEF DriverInv
  <2>2. Rests' /\ ~u'.done
    BY <2>1 DEF Keeps, SetsOff, WorksOn, Stops
  <2>3. /\ start' = start /\ row' = row /\ offset' = offset /\ phase' # "run"
        /\ adapter_flush' \in BOOLEAN /\ (adapter_flush' => phase' = "flush")
    <3>1. CASE CtlFlush
      BY <3>1 DEF CtlFlush
    <3>2. CASE phase = "over" /\ UNCHANGED <<start, cmd, driver>>
      BY <3>2 DEF driver, TypeOK, DriverInv
    <3> QED
      BY <1>8, <3>1, <3>2 DEF Controller, CtlFire, CtlWait, CtlRowDone, CtlLastDone
  <2>4. TypeOK'
    BY <1>t, <2>3
  <2> QED
    BY <2>1, <2>2, <2>3, <2>4 DEF PathInv, DriverInv
<1> QED
  BY <1>4, <1>5, <1>6, <1>7, <1>8 DEF Controller, CtlFlush

\* The invariant at reset.
LEMMA PathStart == ASSUME Init, env = "top" PROVE JobType /\ PathInv
<1>1. /\ job \in TopJobs /\ unit = job.unit /\ start = FALSE /\ row = 0 /\ offset = 0
      /\ adapter_flush = FALSE /\ phase = "run" /\ CommonInit /\ UnitInit(job.len)
      /\ AdapterInit /\ DmaInit
  BY DEF Init
<1>2. JobType /\ UnitType /\ job.rows \in Nat \ {0}
  BY <1>1, JobFields DEF JobType
<1>3. UnitShape(u) /\ ~u.done
  BY <1>1 DEF CommonInit, UnitShape, States
<1>4. <<0, 0>> \in Places /\ 0 \in Word
  BY Sizes DEF Places, Word, RowWords
<1>5. AdShape(ad)
  <2> DEFINE z == Zeros
  <2>1. ad = [state |-> "AD_IDLE",
        cache_valid |-> FALSE, cache_at |-> <<0, 0>>, cache_data |-> z,
        wb_dirty |-> FALSE, wb_at |-> <<0, 0>>, wb_data |-> z,
        rd_data |-> 0, rd_valid |-> FALSE, flush_done |-> FALSE, pending_el |-> 0,
        uram_rd_en |-> FALSE, uram_rd_at |-> <<0, 0>>,
        uram_wr_en |-> FALSE, uram_wr_at |-> <<0, 0>>, uram_wr_data |-> z]
    BY <1>1 DEF AdapterInit
  <2> HIDE DEF z
  <2> QED
    BY <1>4, <2>1 DEF AdShape
<1>6. DmaShape(dma)
  <2> DEFINE z == Zeros
  <2>1. dma = [state |-> "AX_IDLE", rd_data |-> 0, rd_valid |-> FALSE, el_pending |-> 0,
            rcache_valid |-> FALSE, rcache_tag |-> 0, rcache_data |-> z,
            miss_word |-> 0, arvalid |-> FALSE]
    BY <1>1 DEF DmaInit
  <2> HIDE DEF z
  <2> QED
    BY <2>1 DEF DmaShape
<1>7. /\ ad.state = "AD_IDLE" /\ ~ad.rd_valid /\ dma.state = "AX_IDLE" /\ ~dma.rd_valid
      /\ u.state = "ST_IDLE" /\ ~u.inflight /\ ~u.rd_en /\ ~u.sub_en /\ ~u.wr_en
  BY <1>1 DEF CommonInit, AdapterInit, DmaInit
<1>8. OwnShape /\ Rests
  <2>1. Still /\ NoWrite
    BY <1>7 DEF Still, NoRead, NoSub, NoWrite
  <2>2. CASE unit = "sm"
    <3> DEFINE b == [j \in range(job.len) |-> 0]  m == -32768
    <3>1. x = [valid_r |-> FALSE, data_r |-> 0, rx_cnt |-> 0, scale_r |-> 0, row_r |-> 0,
               max_val |-> m, exp_sum |-> 0, exp_buffer |-> b,
               norm_valid |-> FALSE, norm_idx |-> 0, exp_buf |-> 0]
      BY <1>1, <2>2 DEF UnitInit, SoftmaxInit
    <3> HIDE DEF b, m
    <3> QED
      BY <1>7, <2>1, <2>2, <3>1 DEF OwnShape, SmShape, Rests, SmRest
  <2>3. CASE unit = "ln"
    <3> DEFINE b == [j \in range(job.len) |-> 0]
               p == [valid |-> FALSE, normalized |-> 0, gamma |-> 0, beta |-> 0,
                     wr_addr |-> 0]
    <3>1. x = [valid_r |-> FALSE, data_r |-> 0, idx_r |-> 0, sum |-> 0, mean |-> 0,
               var_sum |-> 0, inv_std |-> 0, input_buffer |-> b,
               bram_rd_addr |-> 0, bram_rd_data |-> 0, buf_rd_valid |-> FALSE,
               pipe1 |-> p]
      BY <1>1, <2>3 DEF UnitInit, LayerNormInit
    <3>2. PipeShape(p) /\ ~p.valid
      BY DEF PipeShape
    <3> HIDE DEF b, p
    <3> QED
      BY <1>7, <2>1, <2>3, <3>1, <3>2 DEF OwnShape, LnShape, Rests, LnRest, LnQuiet
  <2>4. CASE unit = "act"
    <3>1. x = [relu_valid |-> FALSE, relu_out |-> 0, wr_addr_pipe1 |-> 0,
               wr_addr_pipe2 |-> 0]
      BY <1>1, <2>4 DEF UnitInit, ActivationInit
    <3> QED
      BY <1>7, <2>1, <2>4, <3>1 DEF OwnShape, ActShape, Rests, ActRest, ActQuiet
  <2>5. CASE unit = "res"
    <3>1. x = [got_res |-> FALSE, got_sub |-> FALSE, res |-> 0, sub |-> 0]
      BY <1>1, <2>5 DEF UnitInit, ResidualInit
    <3> QED
      BY <1>7, <2>1, <2>5, <3>1 DEF OwnShape, ResShape, Rests, ResRest
  <2> QED
    BY <1>2, <2>2, <2>3, <2>4, <2>5 DEF UnitType
<1>9. TypeOK
  BY <1>1, <1>3, <1>5, <1>6, <1>8 DEF TypeOK
<1> QED
  BY <1>1, <1>2, <1>3, <1>8, <1>9 DEF PathInv, DriverInv

\* What no access is lost follows from.
LEMMA PathAccess ==
  ASSUME PathInv, JobType
  PROVE  NoLostAccess
<1>a. TypeOK /\ (Rests \/ Works) /\ DriverInv /\ UnitType
  BY JobFields DEF PathInv
<1>b. /\ u.inflight \in BOOLEAN /\ u.rd_en \in BOOLEAN /\ u.wr_en \in BOOLEAN
      /\ u.sub_en \in BOOLEAN /\ adapter_flush \in BOOLEAN
  BY <1>a DEF TypeOK, UnitShape
<1>1. Rests => ~u.rd_en /\ ~u.wr_en /\ ~u.sub_en /\ ad.state = "AD_IDLE"
  BY DEF Rests, SmRest, LnRest, LnQuiet, ActRest, ActQuiet, ResRest, Still, NoWrite, NoRead,
         NoSub
<1>2. Works => /\ ~(u.rd_en /\ u.wr_en)
               /\ u.rd_en \/ u.wr_en => ad.state = "AD_IDLE"
               /\ u.sub_en => dma.state = "AX_IDLE"
  BY <1>a, <1>b
     DEF UnitType, Works, SmRead, SmWrite, SmLast, LnRead, LnVar, LnWrite, LnLast, LnQuiet,
         ActRun, ActLast, ActQuiet, ResRun, ResLast, Still, NoWrite, ReadFlight, SubFlight,
         OneRead, OneSub, NoRead, Asked, Missing, Answered, NoSub, SubAsked, SubMissing,
         SubAnswered
<1>3. adapter_flush => Rests
  BY <1>a DEF DriverInv
<1> DEFINE asked == {r \in {"rd", "wr", "flush"} :
                       \/ r = "rd" /\ u.rd_en
                       \/ r = "wr" /\ u.wr_en
                       \/ r = "flush" /\ adapter_flush}
<1>4. asked = {} \/ \E r : asked = {r}
  <2>1. CASE u.rd_en
    <3>1. asked = {"rd"}
      BY <1>a, <1>1, <1>2, <1>3, <2>1
    <3> QED
      BY <3>1
  <2>2. CASE u.wr_en
    <3>1. asked = {"wr"}
      BY <1>a, <1>1, <1>2, <1>3, <2>2
    <3> QED
      BY <3>1
  <2>3. CASE ~u.rd_en /\ ~u.wr_en /\ adapter_flush
    <3>1. asked = {"flush"}
      BY <2>3
    <3> QED
      BY <3>1
  <2>4. CASE ~u.rd_en /\ ~u.wr_en /\ ~adapter_flush
    BY <2>4
  <2> QED
    BY <1>b, <2>1, <2>2, <2>3, <2>4
<1>5. Cardinality(asked) <= 1
  <2>1. Cardinality({}) = 0 /\ \A r : Cardinality({r}) = 1
    BY FS_EmptySet, FS_Singleton
  <2> HIDE DEF asked
  <2>2. CASE asked = {}
    BY <2>1, <2>2
  <2>3. ASSUME NEW r, asked = {r} PROVE Cardinality(asked) <= 1
    <3>1. Cardinality(asked) = 1
      BY <2>1, <2>3, Zenon
    <3> QED
      BY <3>1
  <2> QED
    BY <1>4, <2>2, <2>3
<1>6. u.rd_en \/ u.wr_en \/ adapter_flush => ad.state = "AD_IDLE"
  BY <1>a, <1>1, <1>2, <1>3
<1>7. u.sub_en => dma.state = "AX_IDLE"
  BY <1>a, <1>1, <1>2
<1> QED
  BY <1>5, <1>6, <1>7 DEF NoLostAccess

-----------------------------------------------------------------------------
(* The memory at an edge.                                                  *)

\* The word on its way to the URAM lands.
LEMMA Lands ==
  ASSUME Shapes, AdShape(ad), Uram
  PROVE  /\ DOMAIN uram' = Places
         /\ \A p \in Places :
              /\ uram'[p] = IF ad.uram_wr_en /\ ad.uram_wr_at = p THEN ad.uram_wr_data
                            ELSE uram[p]
              /\ DOMAIN uram'[p] = Word
<1>1. /\ DOMAIN uram = Places /\ \A p \in Places : DOMAIN uram[p] = Word
      /\ DOMAIN ad.uram_wr_data = Word
  BY DEF Shapes
<1>2. uram' = IF ad.uram_wr_en THEN [uram EXCEPT ![ad.uram_wr_at] = ad.uram_wr_data]
              ELSE uram
  BY DEF Uram
<1>3. CASE ad.uram_wr_en
  BY <1>1, <1>2, <1>3
<1>4. CASE ~ad.uram_wr_en
  BY <1>1, <1>2, <1>4
<1> QED
  BY <1>3, <1>4

\* The URAM's read pipe moves on.
LEMMA PipeShifts ==
  ASSUME Uram
  PROVE  /\ DOMAIN rd_pipe' = Stages
         /\ \A s \in Stages : s > 1 => rd_pipe'[s] = rd_pipe[s - 1]
         /\ 1 \in Stages /\ (rd_pipe'[1].valid <=> ad.uram_rd_en)
         /\ ad.uram_rd_en => rd_pipe'[1].data = uram[ad.uram_rd_at]
<1>1. rd_pipe' = [s \in Stages |->
       IF s > 1 THEN rd_pipe[s - 1]
       ELSE [valid |-> ad.uram_rd_en,
             data |-> IF ad.uram_rd_en THEN uram[ad.uram_rd_at] ELSE rd_pipe[1].data]]
  BY DEF Uram, Stages
<1>2. 1 \in Stages
  BY Sizes DEF Stages
<1> QED
  BY <1>1, <1>2

\* Nothing on its way before, nothing after, unless a read was asked for.
LEMMA PipeRests ==
  ASSUME Uram, ~ad.uram_rd_en, \A s \in Stages : ~rd_pipe[s].valid
  PROVE  DOMAIN rd_pipe' = Stages /\ \A s \in Stages : ~rd_pipe'[s].valid
<1>1. ASSUME NEW s \in Stages PROVE ~rd_pipe'[s].valid
  <2>1. CASE s > 1
    <3>1. s - 1 \in Stages
      BY <2>1, Sizes DEF Stages
    <3> QED
      BY <2>1, <3>1, PipeShifts
  <2>2. CASE s = 1
    BY <2>2, PipeShifts
  <2> QED
    BY <2>1, <2>2 DEF Stages
<1> QED
  BY <1>1, PipeShifts

Word0(at) == IF Buffered(at) THEN ad.wb_data ELSE Seed(at)
WrittenWord(at, el, d) == [Word0(at) EXCEPT ![el] = d]

\* A write: the word of the write buffer is the shadow's, up to what is still to come.
LEMMA MemWrite ==
  ASSUME AdShape(ad), Shapes, CacheInv, PipeInv, ad.state = "AD_IDLE", Uram,
         NEW at \in Places, NEW el \in Word, NEW d, AdWrite(at, el, d),
         shadow' = [shadow EXCEPT ![at][el] = d]
  PROVE  /\ MemInv' /\ ad'.state = "AD_IDLE"
         /\ \A p \in Places : Buffered(p)' <=> p = at
         /\ View(at)' = WrittenWord(at, el, d)
         /\ \A p \in Places \ {at} : View(p)' = View(p)
         /\ \A p \in Places : Cached(p)' <=> Cached(p) /\ ~(Crossing(at) /\ p = ad.wb_at)
<1> DEFINE b == WrittenWord(at, el, d)
<1>1. /\ ad'.state = ad.state /\ ~ad'.rd_valid /\ ~ad'.uram_rd_en
      /\ ad'.cache_at = ad.cache_at /\ ad'.cache_data = ad.cache_data
      /\ ad'.cache_valid <=>
           (ad.cache_valid /\ ~(Crossing(at) /\ ad.cache_at = ad.wb_at))
      /\ ad'.wb_dirty /\ ad'.wb_at = at
      /\ ad'.wb_data = b
      /\ ad'.uram_wr_en <=> Crossing(at)
      /\ Crossing(at) => ad'.uram_wr_at = ad.wb_at /\ ad'.uram_wr_data = ad.wb_data
  BY WriteStep DEF WrittenWord, Word0
<1>2. DOMAIN Word0(at) = Word
  BY DEF Word0, Seed, Zeros, Shapes
<1>3. DOMAIN b = Word
  BY <1>2 DEF WrittenWord
<1> HIDE DEF b
<1>4. \A p \in Places : /\ Buffered(p)' <=> p = at
                        /\ Cached(p)' <=> Cached(p) /\ ~(Crossing(at) /\ p = ad.wb_at)
  BY <1>1 DEF Buffered, Cached
<1>5. View(at)' = b
  BY <1>1 DEF View, Buffered
<1>6. ASSUME NEW p \in Places, p # at PROVE View(p)' = View(p)
  <2>1. uram'[p] = IF ad.uram_wr_en /\ ad.uram_wr_at = p THEN ad.uram_wr_data ELSE uram[p]
    BY Lands
  <2>2. CASE Crossing(at) /\ p = ad.wb_at
    <3>1. View(p)' = ad.wb_data
      BY <1>1, <1>6, <2>2 DEF View, Buffered
    <3> QED
      BY <2>2, <3>1 DEF View, Buffered, Crossing
  <2>3. CASE ~(Crossing(at) /\ p = ad.wb_at)
    <3>1. ~Buffered(p)
      BY <1>6, <2>3 DEF Crossing, Buffered
    <3>2. View(p)' = uram'[p]
      BY <1>1, <1>6, <2>3 DEF View, Buffered
    <3> QED
      BY <2>1, <3>1, <3>2 DEF View
  <2> QED
    BY <2>2, <2>3
<1>7. ~ad.uram_rd_en /\ \A s \in Stages : ~rd_pipe[s].valid
  BY DEF PipeInv
<1>8. PipeInv'
  <2>1. DOMAIN rd_pipe' = Stages /\ \A s \in Stages : ~rd_pipe'[s].valid
    BY <1>7, PipeRests
  <2> QED
    BY <1>1, <2>1 DEF PipeInv, Stages
<1>9. /\ DOMAIN shadow' = Places /\ \A p \in Places : DOMAIN shadow'[p] = Word
      /\ \A p \in Places : p # at => shadow'[p] = shadow[p]
  BY DEF Shapes
<1>10. Shapes'
  <2>1. DOMAIN ad'.uram_wr_data = Word
    <3>1. CASE Crossing(at)
      BY <1>1, <3>1 DEF Shapes
    <3>2. CASE ~Crossing(at)
      BY <3>2, QuietFields, BufferFields, QuietShape DEF AdWrite, Crossing, Put, Shapes
    <3> QED
      BY <3>1, <3>2
  <2>2. DOMAIN ad'.cache_data = Word /\ DOMAIN ad'.wb_data = Word
    BY <1>1, <1>3 DEF Shapes
  <2> QED
    BY <1>9, <2>1, <2>2, Lands DEF Shapes, Places, Word
<1>11. CacheInv'
  <2> SUFFICES ASSUME ad'.cache_valid, ~Buffered(ad.cache_at)'
               PROVE  \A e \in Word : ad.cache_data[e] = shadow'[ad.cache_at][e]
    BY <1>1 DEF CacheInv, Word, Buffered
  <2>1. ad.cache_at \in Places /\ ad.cache_at # at /\ ad.cache_valid
    BY <1>1 DEF AdShape, Buffered
  <2>2. ~Buffered(ad.cache_at)
    BY <1>1, <2>1 DEF Buffered, Crossing
  <2> QED
    BY <1>9, <2>1, <2>2 DEF CacheInv
<1>12. DueInv'
  BY <1>1 DEF DueInv
<1> QED
  BY <1>1, <1>4, <1>5, <1>6, <1>8, <1>10, <1>11, <1>12 DEF MemInv, b

\* A write to a word that is in the cache or in the write buffer.
LEMMA WriteAll ==
  ASSUME AdShape(ad), Shapes, CacheInv, PipeInv, ad.state = "AD_IDLE", Uram,
         NEW a \in Nat, NEW d, AdWrite(Place(a), El(a), d),
         shadow' = [shadow EXCEPT ![Place(a)][El(a)] = d], AllCoherent, Present(a)
  PROVE  /\ MemInv' /\ AllCoherent' /\ Present(a)'
         /\ Buffered(Place(a))' /\ ad'.state = "AD_IDLE"
<1> DEFINE at == Place(a)  el == El(a)
<1>0. at \in Places /\ el \in Word
  BY PlaceType
<1>1. /\ MemInv' /\ ad'.state = "AD_IDLE"
      /\ \A p \in Places : Buffered(p)' <=> p = at
      /\ View(at)' = WrittenWord(at, el, d)
      /\ \A p \in Places \ {at} : View(p)' = View(p)
  BY <1>0, MemWrite
<1> HIDE DEF at, el
<1>2. ASSUME NEW e \in Word PROVE Word0(at)[e] = shadow[at][e]
  <2>1. CASE Buffered(at)
    BY <1>0, <2>1 DEF Word0, View, AllCoherent
  <2>2. CASE ~Buffered(at)
    BY <1>0, <2>2 DEF Word0, Seed, CacheInv, Present, Cached, at
  <2> QED
    BY <2>1, <2>2
<1>3. DOMAIN Word0(at) = Word /\ DOMAIN shadow = Places /\ DOMAIN shadow[at] = Word
  BY <1>0 DEF Word0, Seed, Zeros, Shapes
<1>4. shadow' = [shadow EXCEPT ![at][el] = d]
  BY DEF at, el
<1>5. ASSUME NEW p \in Places, NEW e \in Word PROVE View(p)'[e] = shadow'[p][e]
  <2>1. CASE p = at
    <3>1. shadow'[at][e] = IF e = el THEN d ELSE shadow[at][e]
      BY <1>0, <1>3, <1>4
    <3>2. WrittenWord(at, el, d)[e] = IF e = el THEN d ELSE Word0(at)[e]
      BY <1>3 DEF WrittenWord
    <3> QED
      BY <1>1, <1>2, <2>1, <3>1, <3>2
  <2>2. CASE p # at
    <3>1. shadow'[p] = shadow[p]
      BY <1>3, <1>4, <2>2
    <3> QED
      BY <1>1, <2>2, <3>1 DEF AllCoherent
  <2> QED
    BY <2>1, <2>2
<1>6. AllCoherent'
  BY <1>5 DEF AllCoherent, Word, Places
<1>7. Buffered(at)'
  BY <1>0, <1>1
<1> QED
  BY <1>1, <1>6, <1>7 DEF Present, at

\* Addresses in order lie in words in order.
LEMMA LinesAscend ==
  ASSUME NEW a \in Nat, NEW b \in Nat, a <= b
  PROVE  Line(a) <= Line(b)
<1>1. /\ Line(a) \in Nat /\ El(a) \in 0 .. BUS_EL - 1 /\ a = Line(a) * BUS_EL + El(a)
      /\ Line(b) \in Nat /\ El(b) \in 0 .. BUS_EL - 1 /\ b = Line(b) * BUS_EL + El(b)
      /\ BUS_EL \in Nat \ {0}
  BY LineElement, Sizes DEF Word
<1>2. ASSUME Line(a) >= Line(b) + 1 PROVE Line(a) * BUS_EL >= Line(b) * BUS_EL + BUS_EL
  <2>1. \A x1, x2, y \in Nat : x1 >= x2 + 1 => x1 * y >= x2 * y + y
    OBVIOUS
  <2> QED
    BY <1>1, <1>2, <2>1
<1>3. Line(a) * BUS_EL \in Nat /\ Line(b) * BUS_EL \in Nat
  BY <1>1
<1> QED
  BY <1>1, <1>2, <1>3

\* An element that opens a word, and the others of the word.
LEMMA NewLine ==
  ASSUME NEW a \in Nat, a > 0 => Line(a - 1) # Line(a), NEW e \in Word
  PROVE  e # El(a) => Line(a + (e - El(a))) = Line(a) /\ El(a + (e - El(a))) = e
                      /\ e > El(a)
<1>1. /\ Line(a) \in Nat /\ El(a) \in 0 .. BUS_EL - 1 /\ a = Line(a) * BUS_EL + El(a)
      /\ BUS_EL \in Nat \ {0}
  BY LineElement, Sizes DEF Word
<1>2. El(a) = 0
  <2> SUFFICES ASSUME El(a) # 0 PROVE FALSE
    OBVIOUS
  <2>1. a - 1 = Line(a) * BUS_EL + (El(a) - 1) /\ El(a) - 1 \in 0 .. BUS_EL - 1
    BY <1>1
  <2>2. Line(a) * BUS_EL \in Nat
    BY <1>1
  <2>3. a > 0
    BY <1>1, <2>2
  <2>4. (Line(a) * BUS_EL + (El(a) - 1)) \div BUS_EL = Line(a)
    <3> DEFINE q == Line(a)  r == El(a) - 1  w == BUS_EL
    <3>1. q \in Int /\ w \in Nat \ {0} /\ r \in 0 .. w - 1
      BY <1>1, <2>1
    <3> HIDE DEF q, r, w
    <3>2. (q * w + r) \div w = q
      BY <3>1, DivMod
    <3> QED
      BY <3>2 DEF q, r, w
  <2> QED
    BY <2>1, <2>3, <2>4 DEF Line
<1>3. a + (e - El(a)) = Line(a) * BUS_EL + e
  <2>1. Line(a) * BUS_EL \in Nat /\ e \in Nat
    BY <1>1 DEF Word
  <2> QED
    BY <1>1, <1>2, <2>1
<1>4. (Line(a) * BUS_EL + e) \div BUS_EL = Line(a) /\ (Line(a) * BUS_EL + e) % BUS_EL = e
  <2> DEFINE q == Line(a)  w == BUS_EL
  <2>1. q \in Int /\ w \in Nat \ {0} /\ e \in 0 .. w - 1
    BY <1>1 DEF Word
  <2> HIDE DEF q, w
  <2>2. (q * w + e) \div w = q /\ (q * w + e) % w = e
    BY <2>1, DivMod
  <2> QED
    BY <2>2 DEF q, w
<1> QED
  BY <1>2, <1>3, <1>4 DEF Line, El, Word

\* The next element of a row: if it opens a word that neither memory holds, the rest of
\* the word is still to be written.
LEMMA WriteRow ==
  ASSUME AdShape(ad), Shapes, CacheInv, PipeInv, ad.state = "AD_IDLE", Uram,
         NEW a \in Nat, NEW hi \in Nat, a < hi, hi <= Capacity,
         NEW d, AdWrite(Place(a), El(a), d),
         shadow' = [shadow EXCEPT ![Place(a)][El(a)] = d],
         Coherent(a, hi), Kept(a), Present(hi - 1)
  PROVE  /\ MemInv' /\ ad'.state = "AD_IDLE"
         /\ Coherent(a + 1, hi)' /\ Kept(a + 1)' /\ Present(hi - 1)'
<1> DEFINE at == Place(a)  el == El(a)  last == Place(hi - 1)
<1>0. /\ at \in Places /\ el \in Word /\ last \in Places /\ hi - 1 \in Nat
      /\ a \in 0 .. Capacity - 1 /\ hi - 1 \in 0 .. Capacity - 1 /\ Capacity \in Nat
  <2>1. Capacity \in Nat
    BY Sizes DEF Capacity
  <2> QED
    BY <2>1, PlaceType
<1>1. /\ MemInv' /\ ad'.state = "AD_IDLE"
      /\ \A p \in Places : Buffered(p)' <=> p = at
      /\ View(at)' = WrittenWord(at, el, d)
      /\ \A p \in Places \ {at} : View(p)' = View(p)
      /\ \A p \in Places : Cached(p)' <=> Cached(p) /\ ~(Crossing(at) /\ p = ad.wb_at)
  BY <1>0, MemWrite
<1>s. shadow' = [shadow EXCEPT ![at][el] = d]
  OBVIOUS
<1>l. \A c \in 0 .. Capacity - 1 : Place(c) = at <=> Line(c) = Line(a)
  BY <1>0, PlaceIsLine
\* The word before.
<1>2. a > 0 => Buffered(Place(a - 1)) /\ a - 1 \in 0 .. Capacity - 1
  BY <1>0 DEF Kept
<1>3. Crossing(at) => a > 0 /\ ad.wb_at = Place(a - 1)
  BY <1>2 DEF Crossing, Kept, Buffered
<1>4. Line(hi - 1) # Line(a) => ~Buffered(last)
  <2> SUFFICES ASSUME Buffered(last) PROVE Line(hi - 1) = Line(a)
    OBVIOUS
  <2>1. a > 0
    BY DEF Kept, Buffered
  <2>2. Place(a - 1) = last /\ a - 1 \in 0 .. Capacity - 1
    BY <1>2, <2>1 DEF Buffered
  <2>3. Line(a - 1) = Line(hi - 1)
    <3> HIDE DEF last
    <3> QED
      BY <1>0, <2>2, PlaceIsLine DEF last
  <2>4. Line(a - 1) <= Line(a) /\ Line(a) <= Line(hi - 1)
    <3>1. a - 1 \in Nat /\ a - 1 <= a /\ a <= hi - 1
      BY <1>0, <2>1
    <3> QED
      BY <1>0, <3>1, LinesAscend
  <2>5. Line(a) \in Nat /\ Line(hi - 1) \in Nat
    BY <1>0, LineElement
  <2> QED
    BY <2>3, <2>4, <2>5
<1>5. Present(hi - 1)'
  <2>1. CASE Line(hi - 1) = Line(a)
    <3>1. last = at
      BY <1>0, <1>l, <2>1
    <3>2. Buffered(last)'
      BY <1>0, <1>1, <3>1
    <3> QED
      BY <3>2 DEF Present
  <2>2. CASE Line(hi - 1) # Line(a)
    <3>1. Cached(last)
      BY <1>4, <2>2 DEF Present
    <3>2. ~(Crossing(at) /\ last = ad.wb_at)
      BY <1>4, <2>2 DEF Crossing, Buffered
    <3>3. Cached(last)'
      BY <1>0, <1>1, <3>1, <3>2
    <3> QED
      BY <3>3 DEF Present
  <2> QED
    BY <2>1, <2>2
<1>6. Kept(a + 1)'
  <2>1. Buffered(at)' /\ a + 1 > 0 /\ (a + 1) - 1 = a
    BY <1>0, <1>1
  <2> QED
    BY <2>1 DEF Kept
<1>d. DOMAIN Word0(at) = Word /\ DOMAIN shadow = Places /\ DOMAIN shadow[at] = Word
  BY <1>0 DEF Word0, Seed, Zeros, Shapes
<1> HIDE DEF at, el, last
<1>7. ASSUME NEW e \in Word, e # el
      PROVE  Among(at, e, a + 1, hi) \/ Word0(at)[e] = shadow[at][e]
  <2>1. CASE Buffered(at)
    <3>1. Among(at, e, a, hi) \/ Word0(at)[e] = shadow[at][e]
      BY <1>0, <2>1 DEF Word0, View, Coherent
    <3>2. Among(at, e, a, hi) => Among(at, e, a + 1, hi)
      BY <1>7 DEF Among, at, el
    <3> QED
      BY <3>1, <3>2
  <2>2. CASE ~Buffered(at) /\ Cached(at)
    BY <1>0, <2>2 DEF Word0, Seed, CacheInv, Cached
  <2>3. CASE ~Buffered(at) /\ ~Cached(at)
    <3>1. Line(hi - 1) # Line(a)
      <4> SUFFICES ASSUME Line(hi - 1) = Line(a) PROVE FALSE
        OBVIOUS
      <4>1. last = at
        BY <1>0, <1>l DEF last
      <4> QED
        BY <2>3, <4>1 DEF Present, last
    <3>2. a > 0 => Line(a - 1) # Line(a)
      BY <1>l, <1>2, <2>3
    <3> DEFINE c == a + (e - el)
    <3>3. Line(c) = Line(a) /\ El(c) = e /\ e > el
      BY <1>7, <3>2, NewLine DEF el
    <3>4. c \in Nat /\ c >= a + 1
      BY <1>0, <3>3 DEF Word
    <3>5. c < hi
      <4> SUFFICES ASSUME c >= hi PROVE FALSE
        BY <3>4
      <4>1. Line(a) <= Line(hi - 1) /\ Line(hi - 1) <= Line(c)
        <5> HIDE DEF c
        <5>1. a <= hi - 1 /\ hi - 1 <= c
          BY <3>4
        <5> QED
          BY <1>0, <3>4, <5>1, LinesAscend
      <4>2. Line(a) \in Nat /\ Line(hi - 1) \in Nat
        BY <1>0, LineElement
      <4> QED
        BY <3>1, <3>3, <4>1, <4>2
    <3>6. Place(c) = at
      BY <1>0, <1>l, <3>3, <3>4, <3>5
    <3> HIDE DEF c
    <3>7. c \in a + 1 .. hi - 1
      BY <3>4, <3>5
    <3> QED
      BY <3>3, <3>6, <3>7 DEF Among
  <2> QED
    BY <2>1, <2>2, <2>3
<1>8. ASSUME NEW p \in Places, NEW e \in Word
      PROVE  Among(p, e, a + 1, hi) \/ View(p)'[e] = shadow'[p][e]
  <2>1. CASE p = at
    <3>1. shadow'[at][e] = IF e = el THEN d ELSE shadow[at][e]
      BY <1>0, <1>d, <1>s
    <3>2. WrittenWord(at, el, d)[e] = IF e = el THEN d ELSE Word0(at)[e]
      BY <1>d DEF WrittenWord
    <3> QED
      BY <1>1, <1>7, <2>1, <3>1, <3>2
  <2>2. CASE p # at
    <3>1. shadow'[p] = shadow[p]
      BY <1>d, <1>s, <2>2
    <3>2. Among(p, e, a, hi) => Among(p, e, a + 1, hi)
      BY <2>2 DEF Among, at
    <3> QED
      BY <1>1, <2>2, <3>1, <3>2 DEF Coherent
  <2> QED
    BY <2>1, <2>2
<1>9. Coherent(a + 1, hi)'
  BY <1>8 DEF Coherent, Among, Word, Places, Place, El
<1> QED
  BY <1>1, <1>5, <1>6, <1>9

\* An edge at which the adapter takes no write.
LEMMA StillViews ==
  ASSUME AdShape(ad), Shapes, Uram, ~ad'.uram_wr_en,
         ad'.wb_dirty = ad.wb_dirty, ad'.wb_at = ad.wb_at, ad'.wb_data = ad.wb_data
  PROVE  \A p \in Places : View(p)' = View(p) /\ (Buffered(p)' <=> Buffered(p))
<1>1. ASSUME NEW p \in Places PROVE View(p)' = View(p) /\ (Buffered(p)' <=> Buffered(p))
  <2>1. uram'[p] = IF ad.uram_wr_en /\ ad.uram_wr_at = p THEN ad.uram_wr_data ELSE uram[p]
    BY Lands
  <2> QED
    BY <2>1 DEF View, Buffered
<1> QED
  BY <1>1

SameMem == /\ MemInv'
           /\ \A p \in Places : View(p)' = View(p) /\ (Buffered(p)' <=> Buffered(p))
           /\ ad'.wb_dirty = ad.wb_dirty

\* The registers of the adapter are quiet, answer or ask.
LEMMA IdleMem ==
  ASSUME AdShape(ad), Shapes, CacheInv, PipeInv, ad.state = "AD_IDLE", Uram,
         shadow' = shadow,
         ~ad'.uram_wr_en, ad'.wb_dirty = ad.wb_dirty, ad'.wb_at = ad.wb_at,
         ad'.wb_data = ad.wb_data, ad'.uram_wr_data = ad.uram_wr_data,
         ad'.cache_valid <=> ad.cache_valid, ad'.cache_at = ad.cache_at,
         ad'.cache_data = ad.cache_data,
         ad'.uram_rd_en => ad'.state # "AD_IDLE" /\ ~Buffered(ad'.uram_rd_at),
         DueInv'
  PROVE  SameMem /\ \A p \in Places : Cached(p)' <=> Cached(p)
<1>1. \A p \in Places : View(p)' = View(p) /\ (Buffered(p)' <=> Buffered(p))
  BY StillViews
<1>2. Shapes'
  BY Lands DEF Shapes, Places, Word
<1>3. CacheInv'
  BY DEF CacheInv, Buffered, Word
<1>4. PipeInv'
  <2>1. ~ad.uram_rd_en /\ \A s \in Stages : ~rd_pipe[s].valid
    BY DEF PipeInv
  <2>2. DOMAIN rd_pipe' = Stages /\ \A s \in Stages : ~rd_pipe'[s].valid
    BY <2>1, PipeRests
  <2> QED
    BY <2>2 DEF PipeInv, Buffered, Stages
<1>5. \A p \in Places : Cached(p)' <=> Cached(p)
  BY DEF Cached
<1> QED
  BY <1>1, <1>2, <1>3, <1>4, <1>5 DEF SameMem, MemInv

\* While a miss waits: the word comes nearer, or is there.
LEMMA WaitMem ==
  ASSUME AdShape(ad), MemInv, ad.state = "AD_RD_WAIT", AdRdWait, Uram,
         shadow' = shadow, due' = due, AllCoherent,
         ad'.state = "AD_RD_WAIT" => Base' + u'.rd_addr = Base + u.rd_addr
  PROVE  /\ SameMem
         /\ ad'.state = "AD_IDLE" => \A p \in Places : p = ad.uram_rd_at => Cached(p)'
<1>a. /\ ad.uram_rd_at \in Places /\ ad.pending_el \in Word /\ RD_LATENCY \in Stages
      /\ Shapes /\ CacheInv /\ PipeInv /\ DueInv
  BY Sizes DEF AdShape, Stages, MemInv
<1>m. \A s \in Stages : s > 1 => s - 1 \in Stages
  BY Sizes DEF Stages
\* What the pipe holds is the word asked for.
<1>p. /\ \A s \in Stages : rd_pipe'[s].valid =>
           /\ DOMAIN rd_pipe'[s].data = Word
           /\ \A e \in Word : rd_pipe'[s].data[e] = shadow[ad.uram_rd_at][e]
           /\ \A t \in Stages : rd_pipe'[t].valid => t = s
      /\ rd_pipe[RD_LATENCY].valid => \A s \in Stages : ~rd_pipe'[s].valid
      /\ DOMAIN rd_pipe' = Stages
  <2>1. ASSUME ad.uram_rd_en
        PROVE  /\ DOMAIN uram[ad.uram_rd_at] = Word
               /\ \A e \in Word : uram[ad.uram_rd_at][e] = shadow[ad.uram_rd_at][e]
    <3>1. View(ad.uram_rd_at) = uram[ad.uram_rd_at]
      BY <1>a, <2>1 DEF View, PipeInv
    <3> QED
      BY <1>a, <3>1 DEF AllCoherent, Shapes
  <2>2. ASSUME NEW s \in Stages, rd_pipe'[s].valid
        PROVE  \/ s > 1 /\ rd_pipe[s - 1].valid /\ rd_pipe'[s] = rd_pipe[s - 1]
               \/ s = 1 /\ ad.uram_rd_en /\ rd_pipe'[s].data = uram[ad.uram_rd_at]
    <3>1. CASE s > 1
      BY <1>m, <2>2, <3>1, PipeShifts
    <3>2. CASE s = 1
      BY <2>2, <3>2, PipeShifts
    <3> QED
      BY <3>1, <3>2 DEF Stages
  <2>3. ASSUME NEW s \in Stages, rd_pipe'[s].valid
        PROVE  /\ DOMAIN rd_pipe'[s].data = Word
               /\ \A e \in Word : rd_pipe'[s].data[e] = shadow[ad.uram_rd_at][e]
               /\ \A t \in Stages : rd_pipe'[t].valid => t = s
    <3>1. CASE s > 1 /\ rd_pipe[s - 1].valid /\ rd_pipe'[s] = rd_pipe[s - 1]
      <4>1. s - 1 \in Stages /\ ~ad.uram_rd_en
        BY <1>a, <1>m, <3>1 DEF PipeInv
      <4>2. \A t \in Stages : rd_pipe[t].valid => t = s - 1
        BY <1>a, <3>1, <4>1 DEF PipeInv
      <4>3. \A t \in Stages : rd_pipe'[t].valid => t = s
        <5> SUFFICES ASSUME NEW t \in Stages, rd_pipe'[t].valid PROVE t = s
          OBVIOUS
        <5>1. t > 1 /\ rd_pipe[t - 1].valid /\ t - 1 \in Stages
          BY <1>m, <2>2, <4>1
        <5>2. t - 1 = s - 1
          BY <4>2, <5>1
        <5> QED
          BY <5>2 DEF Stages
      <4> QED
        BY <1>a, <3>1, <4>1, <4>3 DEF PipeInv
    <3>2. CASE s = 1 /\ ad.uram_rd_en /\ rd_pipe'[s].data = uram[ad.uram_rd_at]
      <4>1. \A t \in Stages : ~rd_pipe[t].valid
        BY <1>a, <3>2 DEF PipeInv
      <4>2. \A t \in Stages : rd_pipe'[t].valid => t = s
        BY <1>m, <2>2, <3>2, <4>1
      <4> QED
        BY <2>1, <3>2, <4>2
    <3> QED
      BY <2>2, <2>3, <3>1, <3>2
  <2>4. ASSUME rd_pipe[RD_LATENCY].valid, NEW s \in Stages PROVE ~rd_pipe'[s].valid
    <3>1. ~ad.uram_rd_en /\ \A t \in Stages : rd_pipe[t].valid => t = RD_LATENCY
      BY <1>a, <2>4 DEF PipeInv
    <3>2. s > 1 => s - 1 \in Stages /\ s - 1 # RD_LATENCY
      BY <1>m, Sizes DEF Stages
    <3> QED
      BY <2>2, <3>1, <3>2
  <2> QED
    BY <2>3, <2>4, PipeShifts
<1>1. CASE ~UramAnswer.valid
  <2>1. ad' = AdQuiet
    BY <1>1 DEF AdRdWait
  <2>2. /\ ad'.state = "AD_RD_WAIT" /\ (ad'.cache_valid <=> ad.cache_valid)
        /\ ad'.cache_at = ad.cache_at /\ ad'.cache_data = ad.cache_data
        /\ ad'.wb_dirty = ad.wb_dirty /\ ad'.wb_at = ad.wb_at /\ ad'.wb_data = ad.wb_data
        /\ ~ad'.rd_valid /\ ad'.pending_el = ad.pending_el /\ ~ad'.uram_rd_en
        /\ ad'.uram_rd_at = ad.uram_rd_at /\ ~ad'.uram_wr_en
        /\ ad'.uram_wr_data = ad.uram_wr_data
    BY <2>1, QuietFields
  <2>3. \A p \in Places : View(p)' = View(p) /\ (Buffered(p)' <=> Buffered(p))
    BY <1>a, <2>2, StillViews
  <2>4. Shapes' /\ CacheInv'
    BY <1>a, <2>2, Lands DEF Shapes, CacheInv, Buffered, Places, Word
  <2>5. PipeInv'
    BY <1>p, <2>2 DEF PipeInv, Stages, Word
  <2>6. DueInv'
    BY <1>a, <2>2 DEF DueInv, Place
  <2> QED
    BY <2>2, <2>3, <2>4, <2>5, <2>6 DEF SameMem, MemInv
<1>2. CASE UramAnswer.valid
  <2> DEFINE word == UramAnswer.data  v == word[ad.pending_el]
  <2>1. ad' = Fill(Answer(AdQuiet, v), ad.uram_rd_at, word)
    BY <1>2 DEF AdRdWait, Fill
  <2>w. /\ rd_pipe[RD_LATENCY].valid /\ DOMAIN word = Word
        /\ \A e \in Word : word[e] = shadow[ad.uram_rd_at][e]
    BY <1>2, <1>a DEF UramAnswer, PipeInv
  <2>v. v = due
    BY <1>a, <2>w DEF DueInv
  <2> HIDE DEF word, v
  <2>2. /\ ad'.state = "AD_IDLE" /\ ad'.rd_valid /\ ~ad'.uram_rd_en /\ ~ad'.uram_wr_en
        /\ ad'.rd_data = v /\ ad'.cache_at = ad.uram_rd_at
        /\ ad'.cache_data = word /\ ad'.cache_valid
        /\ ad'.wb_dirty = ad.wb_dirty /\ ad'.wb_at = ad.wb_at /\ ad'.wb_data = ad.wb_data
        /\ ad'.uram_wr_data = ad.uram_wr_data
    BY <2>1, FillStep
  <2>3. \A p \in Places : View(p)' = View(p) /\ (Buffered(p)' <=> Buffered(p))
    BY <1>a, <2>2, StillViews
  <2>4. Shapes'
    BY <1>a, <2>2, <2>w, Lands DEF Shapes, Places, Word
  <2>5. CacheInv'
    BY <2>2, <2>w DEF CacheInv, Word
  <2>6. PipeInv'
    BY <1>p, <2>2, <2>w DEF PipeInv, Stages
  <2>7. DueInv'
    BY <2>2, <2>v DEF DueInv
  <2>8. \A p \in Places : p = ad.uram_rd_at => Cached(p)'
    BY <2>2 DEF Cached
  <2> QED
    BY <2>2, <2>3, <2>4, <2>5, <2>6, <2>7, <2>8 DEF SameMem, MemInv
<1> QED
  BY <1>1, <1>2

\* An edge at which the unit does not write and the adapter is not flushed.
LEMMA ReadMem ==
  ASSUME TypeOK, MemInv, Edge, Uram, ~u.wr_en, ~adapter_flush,
         shadow' = shadow, NEW n \in Nat,
         u.rd_en => Address(u.rd_addr) = n /\ due' = shadow[Place(n)][El(n)],
         ad.state = "AD_RD_WAIT" => ad.uram_rd_at = Place(n) /\ ~u.rd_en,
         ~u.rd_en => due' = due,
         u.rd_en \/ ad.state = "AD_RD_WAIT" => AllCoherent,
         ad'.state = "AD_RD_WAIT" => Base' + u'.rd_addr = n /\ Base + u.rd_addr = n
  PROVE  /\ SameMem
         /\ ad.state = "AD_IDLE" => \A p \in Places : Cached(p)' <=> Cached(p)
         /\ u.rd_en \/ ad.state = "AD_RD_WAIT" => (ad'.state = "AD_IDLE" => Present(n)')
<1>a. /\ AdShape(ad) /\ Shapes /\ CacheInv /\ PipeInv /\ DueInv /\ UnitShape(u)
      /\ offset \in Nat /\ Place(n) \in Places /\ El(n) \in Word
  BY PlaceType DEF TypeOK, MemInv
<1>1. CASE ad.state = "AD_RD_WAIT"
  <2>1. AdRdWait
    BY <1>1, AdapterCases
  <2>2. /\ SameMem
        /\ ad'.state = "AD_IDLE" => \A p \in Places : p = ad.uram_rd_at => Cached(p)'
    BY <1>1, <1>a, <2>1, WaitMem
  <2> QED
    BY <1>1, <1>a, <2>2 DEF Present
<1>2. CASE ad.state = "AD_IDLE" /\ u.rd_en /\ AdReadHit(Place(n), El(n))
  <2> DEFINE at == Place(n)
             v == IF Buffered(at) THEN ad.wb_data[El(n)] ELSE ad.cache_data[El(n)]
  <2>1. ad' = Answer(AdQuiet, v) /\ (Buffered(at) \/ Cached(at))
    BY <1>2 DEF AdReadHit
  <2>2. v = due'
    <3>1. CASE Buffered(at)
      BY <1>2, <1>a, <3>1 DEF AllCoherent, View
    <3>2. CASE ~Buffered(at)
      BY <1>2, <1>a, <2>1, <3>2 DEF CacheInv, Cached
    <3> QED
      BY <3>1, <3>2
  <2> HIDE DEF v, at
  <2>3. /\ ad'.state = ad.state /\ ad'.rd_valid /\ ~ad'.uram_rd_en /\ ~ad'.uram_wr_en
        /\ ad'.rd_data = v /\ ad'.cache_at = ad.cache_at
        /\ ad'.cache_data = ad.cache_data /\ (ad'.cache_valid <=> ad.cache_valid)
        /\ ad'.wb_dirty = ad.wb_dirty /\ ad'.wb_at = ad.wb_at /\ ad'.wb_data = ad.wb_data
        /\ ad'.uram_wr_data = ad.uram_wr_data
    BY <1>a, <2>1, HitStep
  <2>4. DueInv'
    BY <1>2, <2>2, <2>3 DEF DueInv
  <2>5. SameMem /\ \A p \in Places : Cached(p)' <=> Cached(p)
    BY <1>2, <1>a, <2>3, <2>4, IdleMem
  <2>6. Present(n)'
    BY <1>a, <2>1, <2>5 DEF SameMem, Present, at
  <2> QED
    BY <2>5, <2>6
<1>3. CASE ad.state = "AD_IDLE" /\ u.rd_en /\ AdReadMiss(Place(n), El(n))
  <2>1. /\ ad'.state = "AD_RD_WAIT" /\ (ad'.cache_valid <=> ad.cache_valid)
        /\ ad'.cache_at = ad.cache_at /\ ad'.cache_data = ad.cache_data
        /\ ad'.wb_dirty = ad.wb_dirty /\ ad'.wb_at = ad.wb_at
        /\ ad'.wb_data = ad.wb_data
        /\ ~ad'.rd_valid /\ ad'.pending_el = El(n)
        /\ ad'.uram_rd_at = Place(n) /\ ~ad'.uram_wr_en
        /\ ad'.uram_wr_data = ad.uram_wr_data
    BY <1>3, <1>a, AskFields
  <2>2. DueInv'
    BY <1>3, <2>1 DEF DueInv, Place
  <2>3. ~Buffered(ad'.uram_rd_at)
    BY <1>3, <2>1 DEF AdReadMiss
  <2>5. SameMem /\ \A p \in Places : Cached(p)' <=> Cached(p)
    BY <1>3, <1>a, <2>1, <2>2, <2>3, IdleMem
  <2> QED
    BY <2>1, <2>5
<1>4. CASE ad.state = "AD_IDLE" /\ ~u.rd_en
  <2>1. ad' = AdQuiet
    BY <1>4, AdapterCases
  <2>2. /\ ad'.state = "AD_IDLE" /\ (ad'.cache_valid <=> ad.cache_valid)
        /\ ad'.cache_at = ad.cache_at /\ ad'.cache_data = ad.cache_data
        /\ ad'.wb_dirty = ad.wb_dirty /\ ad'.wb_at = ad.wb_at /\ ad'.wb_data = ad.wb_data
        /\ ~ad'.rd_valid /\ ~ad'.uram_rd_en /\ ~ad'.uram_wr_en
        /\ ad'.uram_wr_data = ad.uram_wr_data
    BY <1>4, <1>a, <2>1, QuietFields
  <2>3. DueInv'
    BY <2>2 DEF DueInv
  <2>5. SameMem /\ \A p \in Places : Cached(p)' <=> Cached(p)
    BY <1>4, <1>a, <2>2, <2>3, IdleMem
  <2> QED
    BY <1>4, <2>5
<1> QED
  BY <1>1, <1>2, <1>3, <1>4, AdapterCases

\* What such an edge keeps.
LEMMA SameMemKeeps ==
  ASSUME SameMem, shadow' = shadow, NEW lo, NEW hi, NEW n \in Nat
  PROVE  /\ Coherent(lo, hi) => Coherent(lo, hi)'
         /\ AllCoherent => AllCoherent'
         /\ Kept(n) => Kept(n)'
         /\ (\A p \in Places : Cached(p)' <=> Cached(p)) => (Present(n) => Present(n)')
<1>1. \A p \in Places : View(p)' = View(p) /\ (Buffered(p)' <=> Buffered(p))
  BY DEF SameMem
<1>2. Coherent(lo, hi) => Coherent(lo, hi)'
  BY <1>1 DEF Coherent, Among, Places, Word, Place, El
<1>3. AllCoherent => AllCoherent'
  BY <1>1 DEF AllCoherent, Places, Word
<1>4. Kept(n) => Kept(n)'
  <2>1. n > 0 => n - 1 \in Nat /\ Place(n - 1) \in Places
    BY PlaceType
  <2> QED
    BY <1>1, <2>1 DEF Kept, SameMem
<1>5. (\A p \in Places : Cached(p)' <=> Cached(p)) => (Present(n) => Present(n)')
  BY <1>1, PlaceType DEF Present
<1> QED
  BY <1>2, <1>3, <1>4, <1>5

\* What holds of every element holds of those outside a range.
LEMMA AllCovers == ASSUME NEW lo, NEW hi, AllCoherent PROVE Coherent(lo, hi)
BY DEF Coherent, AllCoherent

-----------------------------------------------------------------------------
(* The unit at the memory.                                                 *)

\* An edge of a unit that works: it counts from its row.
LEMMA WorkEdge ==
  ASSUME PathInv, JobType, TopEdge, ~Rests
  PROVE  /\ Base' = Base /\ Len0' = Len0 /\ ByRow' = ByRow
         /\ Base \in Nat /\ Len0 \in Nat \ {0} /\ Base + Len0 <= Capacity /\ u.len = Len0
         /\ Edge /\ Uram /\ ~adapter_flush /\ TypeOK /\ UnitType /\ unit' = unit
         /\ u.rd_addr \in Nat /\ u.wr_addr \in Nat
         /\ Address(u.rd_addr) = Base + u.rd_addr /\ Address(u.wr_addr) = Base + u.wr_addr
         /\ ~u.wr_en => shadow' = shadow
         /\ ~u.rd_en => due' = due
<1>1. TypeOK /\ Works /\ DriverInv /\ UnitType /\ Works
  BY JobFields DEF PathInv
<1>2. /\ Controller /\ Edge /\ Uram /\ History /\ job' = job /\ unit' = unit
      /\ env = "top"
  BY DEF TopEdge, Top, Edge
<1>3. ~u.done /\ phase = "run" /\ offset = Base /\ u.len = Len0 /\ ~adapter_flush
  BY <1>1 DEF DriverInv
<1>4. row' = row
  BY <1>2, <1>3 DEF Controller, CtlFire, CtlWait, CtlRowDone, CtlLastDone, CtlFlush, driver
<1>5. Base' = Base /\ Len0' = Len0 /\ ByRow' = ByRow
  BY <1>2, <1>4 DEF Base, Len0, ByRow
<1>6. Base \in Nat /\ Len0 \in Nat \ {0} /\ Base + Len0 <= job.rows * job.len
      /\ job.rows * job.len <= Capacity
  BY <1>1, RowArithmetic, JobFields DEF DriverInv, Capacity
<1>7. job.rows * job.len \in Nat /\ Capacity \in Nat
  BY JobFields, Sizes DEF Capacity
<1>8. u.rd_addr \in Nat /\ u.wr_addr \in Nat
  BY <1>1 DEF TypeOK, UnitShape
<1>9. Address(u.rd_addr) = Base + u.rd_addr /\ Address(u.wr_addr) = Base + u.wr_addr
  BY <1>3, <1>6, <1>8 DEF Address, Base
<1>10. (~u.wr_en => shadow' = shadow) /\ (~u.rd_en => due' = due)
  BY <1>2 DEF History
<1> QED
  BY <1>1, <1>2, <1>3, <1>5, <1>6, <1>7, <1>8, <1>9, <1>10

\* What it writes, it writes to both memories.
LEMMA WorkWrites ==
  ASSUME PathInv, JobType, TopEdge, ~Rests, u.wr_en, ~u.rd_en, ad.state = "AD_IDLE",
         NEW a \in Nat, a = Base + u.wr_addr
  PROVE  /\ AdWrite(Place(a), El(a), u.wr_data)
         /\ shadow' = [shadow EXCEPT ![Place(a)][El(a)] = u.wr_data]
<1>1. /\ Edge /\ TypeOK /\ Address(u.wr_addr) = a /\ History /\ env = "top"
  BY WorkEdge DEF TopEdge, Top
<1>2. AdWrite(Place(a), El(a), u.wr_data)
  BY <1>1, AdapterCases
<1> QED
  BY <1>1, <1>2 DEF History

\* What it asks for is what the shadow holds.
LEMMA WorkReads ==
  ASSUME PathInv, JobType, TopEdge, ~Rests, u.rd_en,
         NEW a \in Nat, a = Base + u.rd_addr
  PROVE  due' = shadow[Place(a)][El(a)]
<1>1. /\ Address(u.rd_addr) = a /\ History /\ env = "top"
  BY WorkEdge DEF TopEdge, Top
<1> QED
  BY <1>1 DEF History

\* An edge of a unit that works and does not write.
LEMMA ReadEdge ==
  ASSUME PathInv, JobType, TopEdge, ~Rests, ~u.wr_en, MemInv,
         NEW n \in Nat, n = Base + u.rd_addr,
         u.rd_en \/ ad.state = "AD_RD_WAIT" => AllCoherent,
         ad.state = "AD_RD_WAIT" => ~u.rd_en,
         ad'.state = "AD_RD_WAIT" => u'.rd_addr = u.rd_addr
  PROVE  /\ SameMem /\ shadow' = shadow
         /\ ad.state = "AD_IDLE" => \A p \in Places : Cached(p)' <=> Cached(p)
         /\ u.rd_en \/ ad.state = "AD_RD_WAIT" => (ad'.state = "AD_IDLE" => Present(n)')
         /\ Read(n) => (ad'.state = "AD_IDLE" => Present(n)')
<1>1. /\ Base' = Base /\ Base \in Nat /\ u.rd_addr \in Nat
      /\ Edge /\ Uram /\ ~adapter_flush /\ TypeOK
      /\ Address(u.rd_addr) = n /\ shadow' = shadow /\ (~u.rd_en => due' = due)
  BY WorkEdge
<1>2. u.rd_en => due' = shadow[Place(n)][El(n)]
  BY WorkReads
<1>3. ad.state = "AD_RD_WAIT" => ad.uram_rd_at = Place(n)
  BY DEF MemInv, DueInv
<1>4. ad'.state = "AD_RD_WAIT" => Base' + u'.rd_addr = n
  BY <1>1
<1>5. /\ SameMem
      /\ ad.state = "AD_IDLE" => \A p \in Places : Cached(p)' <=> Cached(p)
      /\ u.rd_en \/ ad.state = "AD_RD_WAIT" => (ad'.state = "AD_IDLE" => Present(n)')
  BY <1>1, <1>2, <1>3, <1>4, ReadMem
<1>6. ad.state \in {"AD_IDLE", "AD_RD_WAIT"}
  BY <1>1 DEF TypeOK, AdShape
<1>7. Read(n) /\ ~u.rd_en /\ ad.state = "AD_IDLE" => Present(n)'
  BY <1>1, <1>5, SameMemKeeps DEF Read
<1> QED
  BY <1>1, <1>5, <1>6, <1>7

\* What is said of the next state of the memory, about expressions that change.
LEMMA NextKept ==
  ASSUME NEW n \in Nat, Kept(n)'
  PROVE  /\ n = Base' => Kept(Base)'
         /\ n = Base' + Len0' => Kept(Base + Len0)'
         /\ n = (IF u'.done THEN Base' + Len0' ELSE Base') =>
              Kept(IF u.done THEN Base + Len0 ELSE Base)'
BY DEF Kept, Buffered, Place

LEMMA NextRead ==
  ASSUME NEW n \in Nat, ~u'.rd_en /\ ad'.state = "AD_IDLE" => Present(n)'
  PROVE  /\ n = Base' + u'.rd_addr => Read(Base + u.rd_addr)'
         /\ n = u'.rd_addr => Read(u.rd_addr)'
BY DEF Read, Present, Cached, Buffered, Place

LEMMA NextPresent ==
  ASSUME Base' \in Nat, Len0' \in Nat, NEW hi \in Nat, hi = Base' + Len0',
         Present(hi - 1)'
  PROVE  Present(Base + Len0 - 1)'
BY DEF Present, Cached, Buffered, Place

LEMMA NextRow ==
  ASSUME Base' \in Nat, Len0' \in Nat, NEW lo \in Nat, NEW hi \in Nat,
         hi = Base' + Len0',
         Coherent(lo, hi)', Kept(lo)', Present(hi - 1)'
  PROVE  /\ lo = Base' + (IF u'.wr_en THEN u'.wr_addr ELSE 0) =>
              RowMem(IF u.wr_en THEN u.wr_addr ELSE 0)'
         /\ lo = Base' + u'.wr_addr => RowMem(u.wr_addr)'
         /\ lo = Base' + Sent' => RowMem(Sent)'
<1>k. Present(Base + Len0 - 1)'
  BY NextPresent
<1>1. ASSUME lo = Base' + (IF u'.wr_en THEN u'.wr_addr ELSE 0)
      PROVE  RowMem(IF u.wr_en THEN u.wr_addr ELSE 0)'
  <2>1. Coherent(Base + (IF u.wr_en THEN u.wr_addr ELSE 0), Base + Len0)'
    BY <1>1 DEF Coherent, Among
  <2>2. Kept(Base + (IF u.wr_en THEN u.wr_addr ELSE 0))'
    BY <1>1 DEF Kept, Buffered, Place
  <2> QED
    BY <1>k, <2>1, <2>2 DEF RowMem
<1>2. ASSUME lo = Base' + u'.wr_addr PROVE RowMem(u.wr_addr)'
  <2>1. Coherent(Base + u.wr_addr, Base + Len0)'
    BY <1>2 DEF Coherent, Among
  <2>2. Kept(Base + u.wr_addr)'
    BY <1>2 DEF Kept, Buffered, Place
  <2> QED
    BY <1>k, <2>1, <2>2 DEF RowMem
<1>3. ASSUME lo = Base' + Sent' PROVE RowMem(Sent)'
  <2>1. Coherent(Base + Sent, Base + Len0)'
    BY <1>3 DEF Coherent, Among
  <2>2. Kept(Base + Sent)'
    BY <1>3 DEF Kept, Buffered, Place
  <2> QED
    BY <1>k, <2>1, <2>2 DEF RowMem
<1> QED
  BY <1>1, <1>2, <1>3

-----------------------------------------------------------------------------
(* The rows of softmax and layernorm.                                      *)

\* The row is read: the word of the last element asked for is at hand once it is there.
LEMMA RowReads ==
  ASSUME PathInv, PathInv', JobType, TopEdge, ~Rests, ~u.wr_en, MemInv, RowRead,
         ReadFlight, ReadFlight', ReadHolds, u'.inflight => u'.idx > 0
  PROVE  MemInv' /\ RowRead'
<1>a. /\ Base' = Base /\ Base \in Nat /\ u.rd_addr \in Nat /\ AllCoherent /\ Kept(Base)
      /\ u.idx > 0 => Read(Base + u.rd_addr)
  BY WorkEdge DEF RowRead
<1>b. u'.rd_addr \in Nat
  BY DEF PathInv, TypeOK, UnitShape
<1>c. /\ ad.state = "AD_RD_WAIT" => ~u.rd_en
      /\ ad'.state = "AD_RD_WAIT" => u'.inflight /\ ~u'.rd_en
  BY DEF ReadFlight, OneRead, NoRead, Asked, Missing, Answered
<1>d. ad'.state = "AD_RD_WAIT" => u'.rd_addr = u.rd_addr
  BY <1>c DEF ReadHolds
<1>1. PICK n \in Nat : n = Base + u.rd_addr
  BY <1>a
<1>2. PICK b \in Nat : b = Base
  BY <1>a
<1>3. PICK m \in Nat : m = Base' + u'.rd_addr
  BY <1>a, <1>b
<1>4. /\ SameMem /\ shadow' = shadow
      /\ Read(n) => (ad'.state = "AD_IDLE" => Present(n)')
  BY <1>1, <1>a, <1>c, <1>d, ReadEdge
<1>5. AllCoherent' /\ Kept(b)'
  BY <1>2, <1>4, <1>a, SameMemKeeps
<1>6. Kept(Base)'
  BY <1>2, <1>5, <1>a, NextKept
<1>7. ASSUME u'.idx > 0 PROVE Read(Base + u.rd_addr)'
  <2>1. ~u'.rd_en => m = n /\ Read(n)
    BY <1>1, <1>3, <1>7, <1>a DEF ReadHolds
  <2>2. ~u'.rd_en /\ ad'.state = "AD_IDLE" => Present(m)'
    BY <1>4, <2>1
  <2> QED
    BY <1>3, <2>2, NextRead
<1> QED
  BY <1>4, <1>5, <1>6, <1>7 DEF RowRead, SameMem

\* An edge at which the unit asks nothing of the adapter.
LEMMA RowRests ==
  ASSUME PathInv, JobType, TopEdge, ~Rests, NoRead, NoRead', ~u.wr_en, MemInv,
         NEW lo \in Nat, NEW hi \in Nat, NEW k \in Nat
  PROVE  /\ MemInv' /\ (AllCoherent => AllCoherent')
         /\ Coherent(lo, hi) => Coherent(lo, hi)'
         /\ Kept(lo) => Kept(lo)'
         /\ Present(k) => Present(k)'
<1>1. PICK n \in Nat : n = Base + u.rd_addr
  BY WorkEdge
<1>2. ad.state = "AD_IDLE" /\ ~u.rd_en /\ ad'.state = "AD_IDLE"
  BY DEF NoRead
<1>3. SameMem /\ shadow' = shadow /\ \A p \in Places : Cached(p)' <=> Cached(p)
  BY <1>1, <1>2, ReadEdge
<1>4. /\ AllCoherent => AllCoherent'
      /\ Coherent(lo, hi) => Coherent(lo, hi)'
      /\ Kept(lo) => Kept(lo)'
  BY <1>3, SameMemKeeps
<1>5. Present(k) => Present(k)'
  BY <1>3, SameMemKeeps
<1> QED
  BY <1>3, <1>4, <1>5 DEF SameMem

\* One element of the row is written.
LEMMA RowWrites ==
  ASSUME PathInv, JobType, TopEdge, ~Rests, NoRead, u.wr_en, MemInv,
         NEW w \in Nat, w = u.wr_addr, w < Len0, RowMem(w),
         NEW lo \in Nat, NEW hi \in Nat, lo = Base + w + 1, hi = Base + Len0
  PROVE  MemInv' /\ Coherent(lo, hi)' /\ Kept(lo)' /\ Present(hi - 1)'
<1>a. /\ Base \in Nat /\ Len0 \in Nat \ {0} /\ Base + Len0 <= Capacity /\ TypeOK /\ Uram
      /\ Shapes /\ CacheInv /\ PipeInv /\ ad.state = "AD_IDLE" /\ ~u.rd_en
  BY WorkEdge DEF MemInv, NoRead
<1>1. PICK a \in Nat : a = Base + w
  BY <1>a
<1>2. /\ AdWrite(Place(a), El(a), u.wr_data)
      /\ shadow' = [shadow EXCEPT ![Place(a)][El(a)] = u.wr_data]
  BY <1>1, <1>a, WorkWrites
<1>3. Coherent(a, hi) /\ Kept(a) /\ Present(hi - 1)
  BY <1>1, <1>a DEF RowMem
<1>4. a < hi /\ hi <= Capacity /\ lo = a + 1
  BY <1>1, <1>a
<1>5. PICK d : d = u.wr_data
  OBVIOUS
<1>6. AdShape(ad)
  BY <1>a DEF TypeOK
<1>7. /\ AdWrite(Place(a), El(a), d)
      /\ shadow' = [shadow EXCEPT ![Place(a)][El(a)] = d]
  BY <1>2, <1>5
<1>8. MemInv' /\ Coherent(a + 1, hi)' /\ Kept(a + 1)' /\ Present(hi - 1)'
  BY <1>3, <1>4, <1>6, <1>7, <1>a, WriteRow
<1> QED
  BY <1>4, <1>8

\* The edge of the unit, from the invariant.
LEMMA StepMoves ==
  ASSUME PathInv, JobType, TopEdge
  PROVE  /\ unit' = unit /\ UnitType
         /\ (unit = "sm" => SmMoves) /\ (unit = "ln" => LnMoves)
         /\ (unit = "act" => ActMoves) /\ (unit = "res" => ResMoves)
<1>1. TypeOK /\ (Rests \/ Works) /\ DriverInv /\ UnitType
  BY JobFields DEF PathInv
<1>2. Len0 \in Nat
  BY <1>1, RowArithmetic DEF DriverInv
<1>3. /\ Unit(Ports) /\ Edge /\ unit' = unit
  BY DEF TopEdge, Top, Edge, Ports
<1> QED
  BY <1>1, <1>2, <1>3, UnitStep DEF DriverInv

\* The memory's part of the invariant, stage by stage.
LEMMA SmStages ==
  ASSUME unit' = "sm"
  PROVE  /\ SmRead' /\ RowRead' => StageMem'
         /\ SmWrite' /\ RowMem(IF u.wr_en THEN u.wr_addr ELSE 0)' => StageMem'
         /\ SmLast' /\ RowMem(u.wr_addr)' => StageMem'
         /\ SmRest' /\ AllCoherent' /\ Kept(IF u.done THEN Base + Len0 ELSE Base)'
              => StageMem'
<1>1. SmRead' => u'.state \in {"ST_FIND_MAX", "ST_COMP_EXP"}
  BY DEF SmRead
<1>2. SmWrite' => u'.state = "ST_NORMALIZE"
  BY DEF SmWrite
<1>3. SmLast' => u'.state = "ST_DONE"
  BY DEF SmLast
<1>4. SmRest' => u'.state = "ST_IDLE"
  BY DEF SmRest
<1>5. ByRow' /\ (Rests' <=> SmRest')
  BY DEF ByRow, Rests
<1> QED
  BY <1>1, <1>2, <1>3, <1>4, <1>5 DEF StageMem

LEMMA LnStages ==
  ASSUME unit' = "ln"
  PROVE  /\ LnRead' /\ RowRead' => StageMem'
         /\ LnVar' /\ AllCoherent' /\ Kept(Base)' /\ Present(Base + Len0 - 1)' => StageMem'
         /\ LnWrite' /\ RowMem(Sent)' => StageMem'
         /\ LnLast' /\ AllCoherent' /\ Kept(Base + Len0)' => StageMem'
         /\ LnRest' /\ AllCoherent' /\ Kept(IF u.done THEN Base + Len0 ELSE Base)'
              => StageMem'
<1>1. LnRead' => u'.state = "ST_COMP_MEAN"
  BY DEF LnRead
<1>2. LnVar' => u'.state = "ST_COMP_VAR"
  BY DEF LnVar
<1>3. LnWrite' => u'.state = "ST_NORMALIZE"
  BY DEF LnWrite
<1>4. LnLast' => u'.state = "ST_DONE"
  BY DEF LnLast
<1>5. LnRest' => u'.state = "ST_IDLE"
  BY DEF LnRest
<1>6. ByRow' /\ (Rests' <=> LnRest')
  BY DEF ByRow, Rests
<1> QED
  BY <1>1, <1>2, <1>3, <1>4, <1>5, <1>6 DEF StageMem

\* The last element of the row was read.
LEMMA RowWasRead ==
  ASSUME PathInv, JobType, TopEdge, ~Rests, ~u.wr_en, NoRead, NoRead', MemInv, RowRead,
         u.idx = u.len, u.rd_addr = u.idx - 1,
         NEW lo \in Nat, NEW hi \in Nat, lo = Base, hi = Base + Len0
  PROVE  /\ MemInv' /\ AllCoherent' /\ Coherent(lo, hi)' /\ Kept(lo)' /\ Present(hi - 1)'
<1>a. /\ Base \in Nat /\ Len0 \in Nat \ {0} /\ u.len = Len0
      /\ AllCoherent /\ Kept(Base) /\ (u.idx > 0 => Read(Base + u.rd_addr))
  BY WorkEdge DEF RowRead
<1>b. u.idx > 0
  BY <1>a
<1>1. PICK k \in Nat : k = hi - 1
  BY <1>a
<1>2. k = Base + u.rd_addr
  BY <1>1, <1>a
<1>3. Present(k)
  BY <1>2, <1>a, <1>b DEF Read, NoRead
<1>4. Coherent(lo, hi) /\ Kept(lo)
  BY <1>a, AllCovers
<1> QED
  BY <1>1, <1>3, <1>4, <1>a, RowRests

\* All of the row is written.
LEMMA RowIsWritten ==
  ASSUME NEW lo \in Nat, NEW hi \in Nat, lo = hi, Coherent(lo, hi)'
  PROVE  AllCoherent'
BY DEF Coherent, AllCoherent, Among

\* An edge of softmax keeps it.
LEMMA SmMem ==
  ASSUME PathInv, PathInv', JobType, TopEdge, unit = "sm", ~Rests, MemInv, StageMem
  PROVE  MemInv' /\ StageMem'
<1>a. /\ Base' = Base /\ Len0' = Len0 /\ Base \in Nat /\ Len0 \in Nat \ {0}
      /\ u.len = Len0 /\ unit' = "sm" /\ SmMoves /\ SmShape(x) /\ SmShape(x')
      /\ UnitShape(u) /\ UnitShape(u')
  <2>1. unit' = "sm" /\ SmMoves
    BY StepMoves
  <2>2. OwnShape /\ OwnShape' /\ UnitShape(u) /\ UnitShape(u')
    BY DEF PathInv, TypeOK
  <2> QED
    BY <2>1, <2>2, WorkEdge DEF OwnShape
<1>b. /\ u.idx \in Nat /\ u.wr_addr \in Nat /\ u'.wr_addr \in Nat /\ u.wr_en \in BOOLEAN
      /\ u'.wr_en \in BOOLEAN /\ u'.idx \in Nat /\ x.rx_cnt \in Nat /\ x'.rx_cnt \in Nat
  BY <1>a DEF UnitShape, SmShape
<1>p. PICK lo \in Nat, hi \in Nat : lo = Base /\ hi = Base + Len0
  BY <1>a
<1>h. hi = Base' + Len0' /\ Base' \in Nat /\ Len0' \in Nat
  BY <1>a, <1>p
<1> USE <1>a, <1>b
<1>r. ~SmRest
  BY DEF Rests
<1>1. CASE SmRead /\ SmRead' /\ ReadHolds
  <2>1. u'.inflight => u'.idx > 0
    BY <1>1 DEF SmRead, Bit
  <2>2. RowRead /\ ~u.wr_en
    BY <1>1 DEF StageMem, SmRead, NoWrite
  <2>3. MemInv' /\ RowRead'
    BY <1>1, <2>1, <2>2, RowReads DEF SmRead
  <2> QED
    BY <1>1, <2>3, SmStages
<1>2. CASE SmRead /\ SmWrite' /\ u.idx = u.len /\ ~u.inflight /\ ~u'.wr_en
  <2>1. RowRead /\ ~u.wr_en /\ NoRead /\ NoRead' /\ u.rd_addr = u.idx - 1
    BY <1>2 DEF StageMem, SmRead, SmWrite, Still, ReadFlight, NoWrite
  <2>2. MemInv' /\ Coherent(lo, hi)' /\ Kept(lo)' /\ Present(hi - 1)'
    BY <1>2, <1>p, <2>1, RowWasRead
  <2>3. lo = Base' + (IF u'.wr_en THEN u'.wr_addr ELSE 0)
    BY <1>2, <1>p
  <2>4. RowMem(IF u.wr_en THEN u.wr_addr ELSE 0)'
    BY <1>h, <2>2, <2>3, NextRow
  <2> QED
    BY <1>2, <2>2, <2>4, SmStages
<1>3. CASE /\ SmWrite /\ (SmWrite' \/ SmLast') /\ ~u.wr_en
           /\ u'.wr_en => u'.wr_addr = 0
  <2>1. NoRead /\ NoRead' /\ RowMem(IF u.wr_en THEN u.wr_addr ELSE 0)
    BY <1>3 DEF StageMem, SmWrite, SmLast, Still
  <2>2. Coherent(lo, hi) /\ Kept(lo) /\ Present(hi - 1)
    BY <1>3, <1>p, <2>1 DEF RowMem
  <2>3. PICK k \in Nat : k = hi - 1
    BY <1>p
  <2>4. MemInv' /\ Coherent(lo, hi)' /\ Kept(lo)' /\ Present(k)'
    BY <1>3, <2>1, <2>2, <2>3, RowRests
  <2>5. Present(hi - 1)'
    BY <2>3, <2>4
  <2>6. CASE SmWrite'
    <3>1. lo = Base' + (IF u'.wr_en THEN u'.wr_addr ELSE 0)
      BY <1>3, <1>p
    <3>2. RowMem(IF u.wr_en THEN u.wr_addr ELSE 0)'
      BY <1>h, <2>4, <2>5, <3>1, NextRow
    <3> QED
      BY <2>4, <2>6, <3>2, SmStages
  <2>7. CASE SmLast'
    <3>1. lo = Base' + u'.wr_addr
      BY <1>3, <1>p, <2>7 DEF SmLast
    <3>2. RowMem(u.wr_addr)'
      BY <1>h, <2>4, <2>5, <3>1, NextRow
    <3> QED
      BY <2>4, <2>7, <3>2, SmStages
  <2> QED
    BY <1>3, <2>6, <2>7
<1>4. CASE /\ SmWrite /\ (SmWrite' \/ SmLast') /\ u.wr_en
           /\ u'.wr_en /\ u'.wr_addr = u.wr_addr + 1
  <2>1. /\ NoRead /\ RowMem(IF u.wr_en THEN u.wr_addr ELSE 0)
        /\ u.wr_addr < Len0
    BY <1>4 DEF StageMem, SmWrite, Still
  <2>2. PICK w \in Nat : w = u.wr_addr
    OBVIOUS
  <2>3. RowMem(w)
    BY <1>4, <2>1, <2>2
  <2>4. PICK n \in Nat : n = Base + w + 1
    OBVIOUS
  <2>5. MemInv' /\ Coherent(n, hi)' /\ Kept(n)' /\ Present(hi - 1)'
    BY <1>4, <1>p, <2>1, <2>2, <2>3, <2>4, RowWrites
  <2>6. CASE SmWrite'
    <3>1. n = Base' + (IF u'.wr_en THEN u'.wr_addr ELSE 0)
      BY <1>4, <2>2, <2>4
    <3>2. RowMem(IF u.wr_en THEN u.wr_addr ELSE 0)'
      BY <1>h, <2>5, <3>1, NextRow
    <3> QED
      BY <2>5, <2>6, <3>2, SmStages
  <2>7. CASE SmLast'
    <3>1. n = Base' + u'.wr_addr
      BY <1>4, <2>2, <2>4
    <3>2. RowMem(u.wr_addr)'
      BY <1>h, <2>5, <3>1, NextRow
    <3> QED
      BY <2>5, <2>7, <3>2, SmStages
  <2> QED
    BY <1>4, <2>6, <2>7
<1>5. CASE SmLast /\ SmRest' /\ u'.done
  <2>1. NoRead /\ u.wr_en /\ RowMem(u.wr_addr) /\ u.wr_addr = Len0 - 1
    BY <1>5 DEF StageMem, SmLast, Still
  <2>2. PICK w \in Nat : w = u.wr_addr
    OBVIOUS
  <2>3. RowMem(w) /\ w < Len0 /\ hi = Base + w + 1
    BY <1>p, <2>1, <2>2
  <2>5. MemInv' /\ Coherent(hi, hi)' /\ Kept(hi)'
    BY <1>p, <2>1, <2>2, <2>3, RowWrites
  <2>6. AllCoherent'
    BY <2>5, RowIsWritten
  <2>7. Kept(IF u.done THEN Base + Len0 ELSE Base)'
    BY <1>5, <1>h, <2>5, NextKept
  <2> QED
    BY <1>5, <2>5, <2>6, <2>7, SmStages
<1> QED
  BY <1>r, <1>1, <1>2, <1>3, <1>4, <1>5 DEF SmMoves

\* An edge of layernorm keeps it.
LEMMA LnMem ==
  ASSUME PathInv, PathInv', JobType, TopEdge, unit = "ln", ~Rests, MemInv, StageMem
  PROVE  MemInv' /\ StageMem'
<1>a. /\ Base' = Base /\ Len0' = Len0 /\ Base \in Nat /\ Len0 \in Nat \ {0}
      /\ u.len = Len0 /\ unit' = "ln" /\ LnMoves /\ LnShape(x) /\ LnShape(x')
      /\ UnitShape(u) /\ UnitShape(u')
  <2>1. unit' = "ln" /\ LnMoves
    BY StepMoves
  <2>2. OwnShape /\ OwnShape' /\ UnitShape(u) /\ UnitShape(u')
    BY DEF PathInv, TypeOK
  <2> QED
    BY <2>1, <2>2, WorkEdge DEF OwnShape
<1>b. /\ u.idx \in Nat /\ u.wr_addr \in Nat /\ u.wr_en \in BOOLEAN /\ u.inflight \in BOOLEAN
      /\ u'.wr_en \in BOOLEAN /\ u'.idx \in Nat /\ u'.inflight \in BOOLEAN
      /\ x.pipe1.valid \in BOOLEAN /\ x'.pipe1.valid \in BOOLEAN
  <2>1. PipeShape(x.pipe1) /\ PipeShape(x'.pipe1)
    BY <1>a DEF LnShape
  <2> QED
    BY <1>a, <2>1 DEF UnitShape, PipeShape
<1>p. PICK lo \in Nat, hi \in Nat : lo = Base /\ hi = Base + Len0
  BY <1>a
<1>h. hi = Base' + Len0' /\ Base' \in Nat /\ Len0' \in Nat
  BY <1>a, <1>p
<1> USE <1>a, <1>b
<1>r. ~LnRest
  BY DEF Rests
\* How far the row is, while it is written.
<1>s. ASSUME LnWrite
      PROVE  /\ Sent \in Nat /\ Sent <= Len0 /\ NoRead /\ RowMem(Sent)
             /\ u.wr_en => u.wr_addr = Sent /\ Sent < Len0
  BY <1>s DEF LnWrite, Sent, Bit, StageMem
<1>1. CASE LnRead /\ LnRead' /\ ReadHolds
  <2>1. RowRead /\ ~u.wr_en
    BY <1>1 DEF StageMem, LnRead, NoWrite
  <2>2. MemInv' /\ RowRead'
    BY <1>1, <2>1, RowReads DEF LnRead
  <2> QED
    BY <1>1, <2>2, LnStages
<1>2. CASE LnRead /\ LnVar' /\ u.idx = u.len /\ ~u.inflight /\ ~u.rd_en
  <2>1. RowRead /\ ~u.wr_en /\ NoRead /\ NoRead' /\ u.rd_addr = u.idx - 1
    BY <1>2 DEF StageMem, LnRead, LnVar, Still, ReadFlight, NoWrite
  <2>2. MemInv' /\ AllCoherent' /\ Kept(lo)' /\ Present(hi - 1)'
    BY <1>2, <1>p, <2>1, RowWasRead
  <2>3. Kept(Base)' /\ Present(Base + Len0 - 1)'
    BY <1>p, <1>h, <2>2, NextKept, NextPresent
  <2> QED
    BY <1>2, <2>2, <2>3, LnStages
<1>3. CASE LnVar
  <2>1. /\ NoRead /\ ~u.wr_en /\ AllCoherent /\ Kept(Base) /\ Present(Base + Len0 - 1)
    BY <1>3 DEF StageMem, LnVar, Still, NoWrite
  <2>m. \/ LnVar'
        \/ LnWrite' /\ u'.idx = 0 /\ ~u'.inflight /\ ~x'.pipe1.valid /\ ~u'.wr_en
    BY <1>3 DEF LnMoves, LnVar, LnRest, LnRead, LnWrite, LnLast
  <2>2. NoRead'
    BY <2>m DEF LnVar, LnWrite, Still
  <2>3. PICK k \in Nat : k = hi - 1
    BY <1>p
  <2>4. Kept(lo) /\ Present(k) /\ Coherent(lo, hi)
    BY <1>p, <2>1, <2>3, AllCovers
  <2>5. MemInv' /\ AllCoherent' /\ Coherent(lo, hi)' /\ Kept(lo)' /\ Present(k)'
    BY <2>1, <2>2, <2>4, RowRests
  <2>6. Present(hi - 1)'
    BY <2>3, <2>5
  <2>7. CASE LnVar'
    <3>1. Kept(Base)' /\ Present(Base + Len0 - 1)'
      BY <1>p, <1>h, <2>5, <2>6, NextKept, NextPresent
    <3> QED
      BY <2>5, <2>7, <3>1, LnStages
  <2>8. CASE LnWrite' /\ u'.idx = 0 /\ ~u'.inflight /\ ~x'.pipe1.valid /\ ~u'.wr_en
    <3>0. Bit(u.inflight \/ x.pipe1.valid)' = 0 /\ Bit(u.wr_en)' = 0
      BY <2>8 DEF Bit
    <3>1. Sent' = 0
      BY <2>8, <3>0 DEF Sent
    <3>2. lo = Base' + Sent'
      BY <1>p, <3>1
    <3>3. RowMem(Sent)'
      BY <1>h, <2>5, <2>6, <3>2, NextRow
    <3> QED
      BY <2>5, <2>8, <3>3, LnStages
  <2> QED
    BY <2>m, <2>7, <2>8
<1>4. ASSUME LnWrite, LnWrite' \/ LnLast', NEW n \in Nat, n = Base + Sent + Bit(u.wr_en)
      PROVE  MemInv' /\ Coherent(n, hi)' /\ Kept(n)' /\ Present(hi - 1)'
  <2>1. NoRead'
    BY <1>4 DEF LnWrite, LnLast, LnQuiet, Still
  <2>2. PICK w \in Nat : w = Sent
    BY <1>4, <1>s
  <2>3. RowMem(w) /\ NoRead
    BY <1>4, <1>s, <2>2
  <2>4. CASE u.wr_en
    <3>1. w = u.wr_addr /\ w < Len0 /\ n = Base + w + 1
      BY <1>4, <1>s, <2>2, <2>4 DEF Bit
    <3> QED
      BY <1>p, <2>3, <2>4, <3>1, RowWrites
  <2>5. CASE ~u.wr_en
    <3>1. n = Base + w
      BY <1>4, <2>2, <2>5 DEF Bit
    <3>2. Coherent(n, hi) /\ Kept(n) /\ Present(hi - 1)
      BY <1>p, <2>3, <3>1 DEF RowMem
    <3>3. PICK k \in Nat : k = hi - 1
      BY <1>p
    <3>4. MemInv' /\ Coherent(n, hi)' /\ Kept(n)' /\ Present(k)'
      BY <2>1, <2>3, <2>5, <3>2, <3>3, RowRests
    <3> QED
      BY <3>3, <3>4
  <2> QED
    BY <2>4, <2>5
<1>5. CASE LnWrite /\ LnWrite' /\ Sent' = Sent + Bit(u.wr_en)
  <2>1. PICK n \in Nat : n = Base + Sent + Bit(u.wr_en)
    BY <1>5, <1>s DEF Bit
  <2>2. MemInv' /\ Coherent(n, hi)' /\ Kept(n)' /\ Present(hi - 1)'
    BY <1>4, <1>5, <2>1
  <2>3. n = Base' + Sent'
    BY <1>5, <1>s, <2>1 DEF Bit
  <2>4. RowMem(Sent)'
    BY <1>h, <2>2, <2>3, NextRow
  <2> QED
    BY <1>5, <2>2, <2>4, LnStages
<1>6. CASE LnWrite /\ LnLast' /\ Sent + Bit(u.wr_en) = u.len
  <2>1. hi = Base + Sent + Bit(u.wr_en)
    BY <1>6, <1>p, <1>s DEF Bit
  <2>2. MemInv' /\ Coherent(hi, hi)' /\ Kept(hi)'
    BY <1>4, <1>6, <2>1
  <2>3. AllCoherent' /\ Kept(Base + Len0)'
    BY <1>h, <2>2, RowIsWritten, NextKept
  <2> QED
    BY <1>6, <2>2, <2>3, LnStages
<1>7. CASE LnLast /\ LnRest' /\ u'.done
  <2>1. NoRead /\ NoRead' /\ ~u.wr_en /\ AllCoherent /\ Kept(Base + Len0)
    BY <1>7 DEF StageMem, LnLast, LnRest, LnQuiet, Still, NoWrite
  <2>2. Kept(hi)
    BY <1>p, <2>1
  <2>3. MemInv' /\ AllCoherent' /\ Kept(hi)'
    BY <2>1, <2>2, RowRests
  <2>4. Kept(IF u.done THEN Base + Len0 ELSE Base)'
    BY <1>7, <1>h, <2>3, NextKept
  <2> QED
    BY <1>7, <2>3, <2>4, LnStages
<1> QED
  BY <1>r, <1>1, <1>2, <1>3, <1>5, <1>6, <1>7 DEF LnMoves

-----------------------------------------------------------------------------
(* The elements of activation and residual_add.                            *)

\* An element is written where it was read.
LEMMA FlatWrite ==
  ASSUME PathInv, JobType, TopEdge, ~Rests, ~ByRow, NoRead, u.wr_en, MemInv, AllCoherent,
         Read(u.rd_addr), u.wr_addr = u.rd_addr, NEW a \in Nat, a = u.rd_addr
  PROVE  MemInv' /\ AllCoherent' /\ Present(a)'
<1>a. /\ Base = 0 /\ TypeOK /\ Uram /\ Shapes /\ CacheInv /\ PipeInv
      /\ ad.state = "AD_IDLE" /\ ~u.rd_en
  BY WorkEdge DEF MemInv, NoRead, Base
<1>1. Present(a)
  BY <1>a DEF Read
<1>2. PICK d : d = u.wr_data
  OBVIOUS
<1>3. a = Base + u.wr_addr
  BY <1>a
<1>4. /\ AdWrite(Place(a), El(a), u.wr_data)
      /\ shadow' = [shadow EXCEPT ![Place(a)][El(a)] = u.wr_data]
  BY <1>3, <1>a, WorkWrites
<1>5. AdShape(ad)
  BY <1>a DEF TypeOK
<1> QED
  BY <1>1, <1>2, <1>4, <1>5, <1>a, WriteAll

\* An edge without a write.
LEMMA FlatRead ==
  ASSUME PathInv, JobType, TopEdge, ~Rests, ~ByRow, ~u.wr_en, MemInv, AllCoherent,
         ad.state = "AD_RD_WAIT" => ~u.rd_en,
         ad'.state = "AD_RD_WAIT" => u'.rd_addr = u.rd_addr,
         NEW a \in Nat, a = u.rd_addr
  PROVE  /\ MemInv' /\ AllCoherent'
         /\ Read(a) => (ad'.state = "AD_IDLE" => Present(a)')
<1>1. Base = 0 /\ u.rd_addr \in Nat
  BY WorkEdge DEF Base
<1>2. a = Base + u.rd_addr
  BY <1>1
<1>3. /\ SameMem /\ shadow' = shadow
      /\ Read(a) => (ad'.state = "AD_IDLE" => Present(a)')
  BY <1>2, ReadEdge
<1> QED
  BY <1>3, SameMemKeeps DEF SameMem

\* The memory's part of the invariant, stage by stage.
LEMMA FlatStages ==
  ASSUME unit' \in {"act", "res"}, AllCoherent'
  PROVE  /\ unit' = "act" /\ ActRun' /\ (u'.idx > 0 => Read(u.rd_addr)') => StageMem'
         /\ unit' = "res" /\ ResRun' /\ (u'.inflight \/ u'.wr_en => Read(u.rd_addr)')
              => StageMem'
         /\ Rests' \/ ActLast' \/ ResLast' => StageMem'
<1>1. ActRun' \/ ResRun' => u'.state = "ST_PROCESS"
  BY DEF ActRun, ResRun
<1>2. ActLast' \/ ResLast' => u'.state = "ST_DONE"
  BY DEF ActLast, ResLast
<1>3. Rests' => u'.state = "ST_IDLE"
  BY DEF Rests, ActRest, ResRest
<1>4. ~ByRow' /\ unit' # "sm" /\ unit' # "ln"
  BY DEF ByRow
<1> QED
  BY <1>1, <1>2, <1>3, <1>4 DEF StageMem

\* An edge of activation keeps it.
LEMMA ActMem ==
  ASSUME PathInv, PathInv', JobType, TopEdge, unit = "act", ~Rests, MemInv, StageMem
  PROVE  MemInv' /\ StageMem'
<1>a. /\ unit' = "act" /\ ActMoves /\ ~ByRow /\ AllCoherent
      /\ u.rd_addr \in Nat /\ u'.rd_addr \in Nat /\ u'.idx \in Nat
  <2>1. unit' = "act" /\ ActMoves
    BY StepMoves
  <2>2. UnitShape(u) /\ UnitShape(u')
    BY DEF PathInv, TypeOK
  <2> QED
    BY <2>1, <2>2 DEF UnitShape, ByRow, StageMem
<1> USE <1>a
<1>p. PICK a \in Nat, b \in Nat : a = u.rd_addr /\ b = u'.rd_addr
  OBVIOUS
<1>1. CASE ActRun /\ ((ActRun' /\ ReadHolds) \/ ActLast')
  <2>1. /\ ad.state = "AD_RD_WAIT" => ~u.rd_en
        /\ ad'.state = "AD_RD_WAIT" => u'.inflight /\ ~u'.rd_en /\ ActRun'
        /\ u.wr_en => NoRead /\ u.wr_addr = u.rd_addr /\ u.idx > 0
    BY <1>1 DEF ActRun, ActLast, ActQuiet, Still, ReadFlight, OneRead, NoRead, Asked,
                Missing, Answered
  <2>2. ad'.state = "AD_RD_WAIT" => u'.rd_addr = u.rd_addr
    BY <1>1, <2>1 DEF ActRun, ActLast, ReadHolds
  <2>3. u.idx > 0 => Read(u.rd_addr)
    BY <1>1 DEF StageMem
  <2>4. /\ MemInv' /\ AllCoherent'
        /\ u.idx > 0 => (ad'.state = "AD_IDLE" => Present(a)')
    <3>1. CASE u.wr_en
      BY <1>p, <2>1, <2>3, <3>1, FlatWrite
    <3>2. CASE ~u.wr_en
      <4>1. /\ MemInv' /\ AllCoherent'
            /\ Read(a) => (ad'.state = "AD_IDLE" => Present(a)')
        BY <1>p, <2>1, <2>2, <3>2, FlatRead
      <4> QED
        BY <1>p, <2>3, <4>1
    <3> QED
      BY <3>1, <3>2
  <2>5. CASE ActRun' /\ ReadHolds
    <3> SUFFICES ASSUME u'.idx > 0 PROVE Read(u.rd_addr)'
      BY <2>4, <2>5, FlatStages
    <3>1. ~u'.rd_en => b = a /\ u.idx > 0
      BY <1>p, <2>5 DEF ReadHolds
    <3>2. ~u'.rd_en /\ ad'.state = "AD_IDLE" => Present(b)'
      BY <2>4, <3>1
    <3> QED
      BY <1>p, <3>2, NextRead
  <2>6. CASE ActLast'
    BY <2>4, <2>6, FlatStages
  <2> QED
    BY <1>1, <2>5, <2>6
<1>2. CASE ActLast /\ ActRest'
  <2>1. /\ ~u.wr_en /\ ad.state = "AD_IDLE" /\ ad'.state = "AD_IDLE" /\ Rests'
    BY <1>2 DEF ActLast, ActRest, ActQuiet, Still, NoRead, NoWrite, Rests
  <2>2. MemInv' /\ AllCoherent'
    BY <1>p, <2>1, FlatRead
  <2> QED
    BY <2>1, <2>2, FlatStages
<1>3. ~ActRest
  BY DEF Rests
<1> QED
  BY <1>1, <1>2, <1>3 DEF ActMoves

\* An edge of residual_add keeps it.
LEMMA ResMem ==
  ASSUME PathInv, PathInv', JobType, TopEdge, unit = "res", ~Rests, MemInv, StageMem
  PROVE  MemInv' /\ StageMem'
<1>a. /\ unit' = "res" /\ ResMoves /\ ~ByRow /\ AllCoherent
      /\ u.rd_addr \in Nat /\ u'.rd_addr \in Nat /\ u'.idx \in Nat
      /\ u.inflight \in BOOLEAN /\ u.wr_en \in BOOLEAN
  <2>1. unit' = "res" /\ ResMoves
    BY StepMoves
  <2>2. UnitShape(u) /\ UnitShape(u')
    BY DEF PathInv, TypeOK
  <2> QED
    BY <2>1, <2>2 DEF UnitShape, ByRow, StageMem
<1> USE <1>a
<1>p. PICK a \in Nat, b \in Nat : a = u.rd_addr /\ b = u'.rd_addr
  OBVIOUS
<1>1. CASE ResRun /\ ((ResRun' /\ ResHolds) \/ ResLast')
  <2>1. /\ ad.state = "AD_RD_WAIT" => ~u.rd_en
        /\ ad'.state = "AD_RD_WAIT" => u'.inflight /\ ~u'.rd_en /\ ResRun'
        /\ u.wr_en => NoRead /\ u.wr_addr = u.rd_addr /\ ~u.inflight
    BY <1>1 DEF ResRun, ResLast, Still, OneRead, NoRead, NoWrite, Asked, Missing, Answered
  <2>2. ad'.state = "AD_RD_WAIT" => u'.rd_addr = u.rd_addr
    BY <1>1, <2>1 DEF ResRun, ResLast, ResHolds
  <2>3. u.inflight \/ u.wr_en => Read(u.rd_addr)
    BY <1>1 DEF StageMem
  <2>4. /\ MemInv' /\ AllCoherent'
        /\ u.inflight \/ u.wr_en => (ad'.state = "AD_IDLE" => Present(a)')
    <3>1. CASE u.wr_en
      BY <1>p, <2>1, <2>3, <3>1, FlatWrite
    <3>2. CASE ~u.wr_en
      <4>1. /\ MemInv' /\ AllCoherent'
            /\ Read(a) => (ad'.state = "AD_IDLE" => Present(a)')
        BY <1>p, <2>1, <2>2, <3>2, FlatRead
      <4> QED
        BY <1>p, <2>3, <4>1
    <3> QED
      BY <3>1, <3>2
  <2>5. CASE ResRun' /\ ResHolds
    <3> SUFFICES ASSUME u'.inflight \/ u'.wr_en PROVE Read(u.rd_addr)'
      BY <2>4, <2>5, FlatStages
    <3>1. ~u'.rd_en => b = a /\ u.inflight
      BY <1>p, <2>5 DEF ResHolds
    <3>2. ~u'.rd_en /\ ad'.state = "AD_IDLE" => Present(b)'
      BY <2>4, <3>1
    <3> QED
      BY <1>p, <3>2, NextRead
  <2>6. CASE ResLast'
    BY <2>4, <2>6, FlatStages
  <2> QED
    BY <1>1, <2>5, <2>6
<1>2. CASE ResLast /\ ResRest'
  <2>1. /\ ~u.wr_en /\ ad.state = "AD_IDLE" /\ ad'.state = "AD_IDLE" /\ Rests'
    BY <1>2 DEF ResLast, ResRest, Still, NoRead, NoWrite, Rests
  <2>2. MemInv' /\ AllCoherent'
    BY <1>p, <2>1, FlatRead
  <2> QED
    BY <2>1, <2>2, FlatStages
<1>3. ~ResRest
  BY DEF Rests
<1> QED
  BY <1>1, <1>2, <1>3 DEF ResMoves

-----------------------------------------------------------------------------
(* A unit at rest, and every edge.                                         *)

\* Between two rows the memory stays as it is.
LEMMA RestEdge ==
  ASSUME PathInv, JobType, TopEdge, Rests, phase = "run", MemInv, AllCoherent
  PROVE  /\ MemInv' /\ AllCoherent'
         /\ \A k \in Nat : Kept(k) => Kept(k)'
<1>a. TypeOK /\ DriverInv /\ ~adapter_flush
  BY DEF PathInv, DriverInv
<1>b. NoRead /\ ~u.wr_en
  BY DEF Rests, SmRest, LnRest, LnQuiet, ActRest, ActQuiet, ResRest, Still, NoWrite
<1>c. /\ Edge /\ Uram /\ History /\ env = "top"
  BY DEF TopEdge, Top, Edge
<1>d. shadow' = shadow /\ due' = due
  BY <1>b, <1>c DEF History, NoRead
<1>e. ad'.state = "AD_IDLE"
  <2>1. UnitShape(u')
    <3>1. Len0 \in Nat
      BY <1>a, RowArithmetic DEF DriverInv
    <3>2. Unit(Ports) /\ unit' = unit /\ UnitType
      BY JobFields DEF TopEdge, Top, Ports
    <3> QED
      BY <1>a, <1>c, <3>1, <3>2, UnitStep DEF DriverInv
  <2>2. ReadMoves
    BY <1>a, <1>c, <2>1, ReadsEdge
  <2> QED
    BY <1>b, <2>2 DEF ReadMoves, Asked, NoRead
<1>1. PICK n \in Nat : n = 0
  OBVIOUS
<1>2. SameMem
  BY <1>1, <1>a, <1>b, <1>c, <1>d, <1>e, ReadMem DEF NoRead
<1>3. ASSUME NEW k \in Nat PROVE AllCoherent' /\ (Kept(k) => Kept(k)')
  BY <1>2, <1>d, SameMemKeeps
<1> QED
  BY <1>1, <1>2, <1>3 DEF SameMem

\* The end of a row is the beginning of the next.
LEMMA RestMem ==
  ASSUME PathInv, PathInv', JobType, TopEdge, ~ghost', Rests, phase = "run", phase' = "run",
         MemInv, StageMem
  PROVE  MemInv' /\ StageMem'
<1>a. /\ DriverInv /\ TypeOK /\ Controller /\ History /\ env = "top" /\ job' = job
      /\ unit' = unit /\ UnitType
  BY StepMoves DEF PathInv, TopEdge, Top
<1>b. AllCoherent
  BY <1>a DEF StageMem, ByRow
<1>1. MemInv' /\ AllCoherent' /\ \A k \in Nat : Kept(k) => Kept(k)'
  BY <1>b, RestEdge
<1>2. CASE ~ByRow
  <2>1. unit \in {"act", "res"}
    BY <1>a, <1>2 DEF UnitType, ByRow
  <2>2. CASE unit = "act"
    <3>1. ActRest' \/ (ActRun' /\ u'.idx = 0)
      <4>1. ActMoves /\ ActRest
        BY <2>2, StepMoves DEF Rests
      <4> QED
        BY <4>1 DEF ActMoves, ActRest, ActRun, ActLast
    <3> QED
      BY <1>1, <1>a, <2>2, <3>1, FlatStages DEF Rests
  <2>3. CASE unit = "res"
    <3>1. ResRest' \/ (ResRun' /\ ~u'.inflight /\ ~u'.wr_en)
      <4>1. ResMoves /\ ResRest
        BY <2>3, StepMoves DEF Rests
      <4> QED
        BY <4>1 DEF ResMoves, ResRest, ResRun, ResLast
    <3> QED
      BY <1>1, <1>a, <2>3, <3>1, FlatStages DEF Rests
  <2> QED
    BY <2>1, <2>2, <2>3
<1>3. CASE ByRow
  <2>1. Base \in Nat /\ Len0 \in Nat /\ row \in Nat /\ job.len \in Nat
    BY <1>a, RowArithmetic, JobFields DEF DriverInv
  <2>2. Base' = IF u.done THEN Base + Len0 ELSE Base
    <3>1. CASE u.done
      <4>1. row' = row + 1
        BY <1>a, <3>1 DEF Controller, CtlFire, CtlWait, CtlRowDone, CtlLastDone, CtlFlush
      <4>2. \A p, q \in Nat : (p + 1) * q = p * q + q
        OBVIOUS
      <4> QED
        BY <1>3, <1>a, <2>1, <3>1, <4>1, <4>2 DEF Base, Len0, ByRow
    <3>2. CASE ~u.done
      <4>1. row' = row
        BY <1>a, <3>2 DEF Controller, CtlFire, CtlWait, CtlRowDone, CtlLastDone, CtlFlush,
                          driver
      <4> QED
        BY <1>a, <3>2, <4>1 DEF Base, ByRow
    <3> QED
      BY <3>1, <3>2
  <2>3. PICK k \in Nat : k = Base'
    BY <2>1, <2>2
  <2>4. Kept(k)'
    <3>1. Kept(IF u.done THEN Base + Len0 ELSE Base)
      BY <1>3 DEF StageMem
    <3> QED
      BY <1>1, <2>2, <2>3, <3>1
  <2>5. Kept(Base)' /\ (~u'.done => Kept(IF u.done THEN Base + Len0 ELSE Base)')
    BY <2>3, <2>4, NextKept
  <2>6. u'.idx = 0 => RowRead'
    BY <1>1, <2>5 DEF RowRead
  <2>7. CASE unit = "sm"
    <3>1. ~u'.done /\ (SmRest' \/ (SmRead' /\ u'.idx = 0))
      <4>1. SmMoves /\ SmRest
        BY <2>7, StepMoves DEF Rests
      <4> QED
        BY <4>1 DEF SmMoves, SmRest, SmRead, SmWrite, SmLast
    <3> QED
      BY <1>1, <1>a, <2>5, <2>6, <2>7, <3>1, SmStages
  <2>8. CASE unit = "ln"
    <3>1. ~u'.done /\ (LnRest' \/ (LnRead' /\ u'.idx = 0))
      <4>1. LnMoves /\ LnRest
        BY <2>8, StepMoves DEF Rests
      <4> QED
        BY <4>1 DEF LnMoves, LnRest, LnRead, LnVar, LnWrite, LnLast
    <3> QED
      BY <1>1, <1>a, <2>5, <2>6, <2>8, <3>1, LnStages
  <2> QED
    BY <1>3, <2>7, <2>8 DEF ByRow
<1> QED
  BY <1>2, <1>3

\* Every edge of top_level keeps it.
LEMMA CohStep ==
  ASSUME PathInv, PathInv', JobType, TopEdge, ~ghost', CohInv
  PROVE  CohInv'
<1> SUFFICES ASSUME phase' = "run" PROVE MemInv' /\ StageMem'
  BY DEF CohInv
<1>1. phase = "run"
  <2>1. Controller
    BY DEF TopEdge, Top
  <2> QED
    BY <2>1 DEF Controller, CtlFire, CtlWait, CtlRowDone, CtlLastDone, CtlFlush, driver
<1>2. MemInv /\ StageMem
  BY <1>1 DEF CohInv
<1>3. CASE Rests
  BY <1>1, <1>2, <1>3, RestMem
<1>4. CASE ~Rests
  <2>1. UnitType
    BY StepMoves
  <2> QED
    BY <1>2, <1>4, <2>1, SmMem, LnMem, ActMem, ResMem DEF UnitType
<1> QED
  BY <1>3, <1>4

\* The memory at reset.
LEMMA CohStart == ASSUME Init, env = "top" PROVE CohInv
<1>1. /\ uram = Loads(job.data) /\ shadow = uram /\ AdapterInit /\ UramInit /\ row = 0
      /\ CommonInit /\ JobType /\ PathInv
  BY PathStart DEF Init
<1>2. /\ ~ad.cache_valid /\ ~ad.wb_dirty /\ ad.state = "AD_IDLE" /\ ~ad.rd_valid
      /\ ~ad.uram_rd_en /\ ~ad.uram_wr_en /\ DOMAIN ad.cache_data = Word
      /\ DOMAIN ad.wb_data = Word /\ DOMAIN ad.uram_wr_data = Word
  <2> DEFINE z == Zeros
  <2>1. ad = [state |-> "AD_IDLE",
        cache_valid |-> FALSE, cache_at |-> <<0, 0>>, cache_data |-> z,
        wb_dirty |-> FALSE, wb_at |-> <<0, 0>>, wb_data |-> z,
        rd_data |-> 0, rd_valid |-> FALSE, flush_done |-> FALSE, pending_el |-> 0,
        uram_rd_en |-> FALSE, uram_rd_at |-> <<0, 0>>,
        uram_wr_en |-> FALSE, uram_wr_at |-> <<0, 0>>, uram_wr_data |-> z]
    BY <1>1 DEF AdapterInit
  <2>2. DOMAIN z = Word
    BY DEF Zeros
  <2> HIDE DEF z
  <2> QED
    BY <2>1, <2>2
<1>3. DOMAIN rd_pipe = Stages /\ \A s \in Stages : ~rd_pipe[s].valid
  BY <1>1 DEF UramInit, Stages
<1>4. DOMAIN uram = Places /\ \A p \in Places : DOMAIN uram[p] = Word
  BY <1>1 DEF Loads
<1>5. MemInv
  BY <1>1, <1>2, <1>3, <1>4 DEF MemInv, Shapes, CacheInv, PipeInv, DueInv
<1>6. AllCoherent
  BY <1>1, <1>2 DEF AllCoherent, View, Buffered
<1>7. u.state = "ST_IDLE" /\ ~u.done
  BY <1>1 DEF CommonInit
<1>8. Kept(Base)
  <2>1. Base = 0
    BY <1>1, JobFields DEF Base
  <2> QED
    BY <1>2, <2>1 DEF Kept
<1>9. StageMem
  BY <1>6, <1>7, <1>8 DEF StageMem, SmRead, SmWrite, SmLast, LnRead, LnVar, LnWrite,
                          LnLast, ActRun, ResRun
<1> QED
  BY <1>5, <1>9 DEF CohInv

TopPath == env = "top" => JobType /\ (~ghost => PathInv /\ CohInv)

\* The invariant always holds.
LEMMA PathAlways == Spec => []TopPath
<1>1. Init => TopPath
  BY PathStart, CohStart DEF TopPath
<1>2. TopPath /\ [Next]_vars => TopPath'
  <2> SUFFICES ASSUME TopPath, [Next]_vars, env' = "top"
               PROVE  JobType' /\ (~ghost' => PathInv' /\ CohInv')
    BY DEF TopPath
  <2>1. CASE TopEdge
    <3>1. env = "top" /\ JobType /\ JobType'
      BY <2>1 DEF TopEdge, TopPath, JobType
    <3>2. ~ghost' => ~ghost
      BY <2>1 DEF TopEdge, History
    <3> QED
      BY <2>1, <3>1, <3>2, PathStep, CohStep DEF TopPath
  <2>2. CASE UNCHANGED vars
    <3>1. /\ env' = env /\ job' = job /\ unit' = unit /\ u' = u /\ x' = x /\ start' = start
          /\ cmd' = cmd /\ ad' = ad /\ dma' = dma /\ phase' = phase /\ row' = row
          /\ offset' = offset /\ adapter_flush' = adapter_flush /\ ghost' = ghost
          /\ uram' = uram /\ rd_pipe' = rd_pipe /\ shadow' = shadow /\ due' = due
      BY <2>2 DEF vars, driver, memory
    <3>2. TypeOK' <=> TypeOK
      BY <3>1 DEF TypeOK, OwnShape, UnitShape, SmShape, LnShape, PipeShape, ActShape,
                  ResShape, AdShape, DmaShape
    <3>3. /\ Rests' <=> Rests
          /\ Works' <=> Works
          /\ SmRead' <=> SmRead
          /\ SmWrite' <=> SmWrite
          /\ SmLast' <=> SmLast
          /\ LnRead' <=> LnRead
          /\ LnVar' <=> LnVar
          /\ LnWrite' <=> LnWrite
          /\ LnLast' <=> LnLast
          /\ ActRun' <=> ActRun
          /\ ResRun' <=> ResRun
      BY <3>1 DEF Rests, Works, SmRest, SmRead, SmWrite, SmLast, LnRest, LnRead, LnVar,
                  LnWrite, LnLast, LnQuiet, ActRest, ActRun, ActLast, ActQuiet, ResRest,
                  ResRun, ResLast, Still, NoWrite, ReadFlight, SubFlight, OneRead, OneSub,
                  NoRead, Asked, Missing, Answered, NoSub, SubAsked, SubMissing, SubAnswered
    <3>4. DriverInv' <=> DriverInv
      BY <3>1, <3>3 DEF DriverInv, Len0, Base, ByRow
    <3>5. MemInv' <=> MemInv
      BY <3>1 DEF MemInv, Shapes, CacheInv, PipeInv, DueInv, Stages, Buffered, Base, ByRow,
                  Word, Places, Place
    <3>6. /\ AllCoherent' <=> AllCoherent
          /\ RowRead' <=> RowRead
          /\ Read(u.rd_addr)' <=> Read(u.rd_addr)
          /\ Kept(Base)' <=> Kept(Base)
          /\ Kept(Base + Len0)' <=> Kept(Base + Len0)
          /\ Kept(IF u.done THEN Base + Len0 ELSE Base)' <=>
               Kept(IF u.done THEN Base + Len0 ELSE Base)
          /\ Present(Base + Len0 - 1)' <=> Present(Base + Len0 - 1)
      BY <3>1 DEF AllCoherent, RowRead, View, Buffered, Kept, Read, Present, Cached, Base,
                  Len0, ByRow, Word, Places, Place
    <3>7. /\ RowMem(IF u.wr_en THEN u.wr_addr ELSE 0)' <=>
               RowMem(IF u.wr_en THEN u.wr_addr ELSE 0)
          /\ RowMem(u.wr_addr)' <=> RowMem(u.wr_addr)
          /\ RowMem(Sent)' <=> RowMem(Sent)
      BY <3>1
         DEF RowMem, Coherent, Among, View, Buffered, Kept, Present, Cached, Base, Len0,
             ByRow, Word, Places, Place, El, Sent, Bit
    <3>8. CohInv' <=> CohInv
      BY <3>1, <3>3, <3>5, <3>6, <3>7 DEF CohInv, StageMem, ByRow
    <3> QED
      BY <3>1, <3>2, <3>3, <3>4, <3>8 DEF TopPath, JobType, PathInv
  <2>3. CASE Bench /\ History /\ UNCHANGED <<env, job, unit>>
    BY <2>3 DEF Bench
  <2> QED
    BY <2>1, <2>2, <2>3 DEF Next, TopEdge
<1> QED
  BY <1>1, <1>2, PTL DEF Spec

\* The units ask nothing of a memory port in an edge at which it would not look, for
\* every job and every latency of the URAM and of the HBM.
THEOREM NoAccessLost == Spec => []NoLostAccess
<1>1. TopPath => NoLostAccess
  BY PathAccess DEF TopPath, NoLostAccess
<1> QED
  BY <1>1, PathAlways, PTL

\* The adapter answers every read with what was last written there, wherever the word is:
\* cache, write buffer, on its way to the URAM, URAM.  For every job that fits the URAM
\* and every latency.
THEOREM ReadsAlwaysCoherent == Spec => []ReadsCoherent
<1>1. TopPath => ReadsCoherent
  <2> SUFFICES ASSUME env = "top", ~ghost, ad.rd_valid, PathInv, CohInv
               PROVE  ad.rd_data = due
    BY DEF TopPath, ReadsCoherent
  <2>1. CASE phase = "run"
    BY <2>1 DEF CohInv, MemInv, DueInv
  <2>2. CASE phase # "run"
    <3>1. Rests
      BY <2>2 DEF PathInv, DriverInv
    <3> QED
      BY <3>1 DEF Rests, SmRest, LnRest, LnQuiet, ActRest, ActQuiet, ResRest, Still, NoRead
  <2> QED
    BY <2>1, <2>2
<1> QED
  BY <1>1, PathAlways, PTL

=============================================================================
