----------------------------- MODULE ScalarMemory -----------------------------
(***************************************************************************)
(* What the scalar units read and write: rtl/uram_nm_adapter.v with the    *)
(* URAM behind it, and the read path of rtl/act_dma.v with an HBM channel  *)
(* behind it.  Every operator is one clock edge; its parameters are the    *)
(* request wires.                                                          *)
(***************************************************************************)
EXTENDS Integers, Sequences

CONSTANTS
  BUS_EL,        \* elements per bus word
  ROW_EL,        \* elements per row of the URAM: 2^cfg_col_bits
  ROWS,          \* rows of the URAM
  RD_LATENCY,    \* stages of the URAM's read pipe
  HbmWaits       \* cycles a read of the HBM may wait for its data

ASSUME MemoryAssumption ==
  /\ {BUS_EL, ROW_EL, ROWS, RD_LATENCY} \subseteq Nat \ {0}
  /\ ROW_EL % BUS_EL = 0
  /\ HbmWaits \subseteq Nat /\ HbmWaits # {}

VARIABLES
  ad,            \* the adapter's registers
  uram, rd_pipe, \* the URAM and its read pipe
  dma, hbm, wait \* act_dma's registers, the HBM, its cycles until the data

memory == <<ad, uram, rd_pipe, dma, hbm, wait>>

-----------------------------------------------------------------------------
(* Words and addresses.                                                    *)

Word == 0 .. BUS_EL - 1
Zeros == [e \in Word |-> 0]

\* A place is a row and a word of it; the row has $clog2(ROWS) bits.
Places == (0 .. ROWS - 1) \X (0 .. ROW_EL \div BUS_EL - 1)
Place(addr) == <<(addr \div ROW_EL) % ROWS, (addr % ROW_EL) \div BUS_EL>>
El(addr) == addr % BUS_EL

-----------------------------------------------------------------------------
(* uram_nm_adapter.v                                                       *)

AdapterInit ==
  ad = [state |-> "AD_IDLE",
        cache_valid |-> FALSE, cache_at |-> <<0, 0>>, cache_data |-> Zeros,
        wb_dirty |-> FALSE, wb_at |-> <<0, 0>>, wb_data |-> Zeros,
        rd_data |-> 0, rd_valid |-> FALSE, flush_done |-> FALSE, pending_el |-> 0,
        uram_rd_en |-> FALSE, uram_rd_at |-> <<0, 0>>,
        uram_wr_en |-> FALSE, uram_wr_at |-> <<0, 0>>, uram_wr_data |-> Zeros]

\* The registers at an edge that only clears the one-shot signals.
AdQuiet == [ad EXCEPT !.rd_valid = FALSE, !.flush_done = FALSE,
                      !.uram_rd_en = FALSE, !.uram_wr_en = FALSE]

Commit(next) == [next EXCEPT !.uram_wr_en = TRUE, !.uram_wr_at = ad.wb_at,
                             !.uram_wr_data = ad.wb_data]
Answer(next, data) == [next EXCEPT !.rd_valid = TRUE, !.rd_data = data]

Cached(at) == ad.cache_valid /\ ad.cache_at = at
Buffered(at) == ad.wb_dirty /\ ad.wb_at = at

\* Mutant of Seed: a new word of the write buffer always starts from zeros.
Seed_Zeros(at) == Zeros
Seed(at) == IF Cached(at) THEN ad.cache_data ELSE Zeros

\* A write merges into the buffered word, or replaces it: the old word then goes to
\* the URAM, and out of the cache.
AdWrite(at, el, data) ==
  LET crossing == ad.wb_dirty /\ ad.wb_at # at
      base == IF Buffered(at) THEN ad.wb_data ELSE Seed(at)
      sent == IF crossing THEN Commit(AdQuiet) ELSE AdQuiet
  IN ad' = [sent EXCEPT
              !.cache_valid = @ /\ ~(crossing /\ ad.cache_at = ad.wb_at),
              !.wb_dirty = TRUE, !.wb_at = at, !.wb_data = [base EXCEPT ![el] = data]]

AdReadHit(at, el) ==
  /\ Buffered(at) \/ Cached(at)
  /\ ad' = Answer(AdQuiet, IF Buffered(at) THEN ad.wb_data[el] ELSE ad.cache_data[el])

AdReadMiss(at, el) ==
  /\ ~Buffered(at) /\ ~Cached(at)
  /\ ad' = [AdQuiet EXCEPT !.state = "AD_RD_WAIT", !.pending_el = el,
                           !.uram_rd_en = TRUE, !.uram_rd_at = at]

AdFlush ==
  ad' = [(IF ad.wb_dirty THEN Commit(AdQuiet) ELSE AdQuiet) EXCEPT
           !.wb_dirty = FALSE, !.cache_valid = FALSE, !.flush_done = TRUE]

UramAnswer == rd_pipe[RD_LATENCY]

\* While a miss waits, requests are not looked at.
AdRdWait ==
  IF UramAnswer.valid
    THEN ad' = [Answer(AdQuiet, UramAnswer.data[ad.pending_el]) EXCEPT
                  !.state = "AD_IDLE", !.cache_valid = TRUE,
                  !.cache_at = ad.uram_rd_at, !.cache_data = UramAnswer.data]
    ELSE ad' = AdQuiet

\* Writes go before reads, both before a flush; one address decoder, which
\* takes the read address whenever rd_en is high.
Adapter(rd_en, rd_addr, wr_en, wr_addr, wr_data, flush) ==
  LET addr == IF rd_en THEN rd_addr ELSE wr_addr
      at == Place(addr)
  IN \/ ad.state = "AD_RD_WAIT" /\ AdRdWait
     \/ /\ ad.state = "AD_IDLE"
        /\ \/ wr_en /\ AdWrite(at, El(addr), wr_data)
           \/ ~wr_en /\ rd_en /\ AdReadHit(at, El(addr))
           \/ ~wr_en /\ rd_en /\ AdReadMiss(at, El(addr))
           \/ ~wr_en /\ ~rd_en /\ flush /\ AdFlush
           \/ ~wr_en /\ ~rd_en /\ ~flush /\ ad' = AdQuiet

-----------------------------------------------------------------------------
(* uram_accum_buf.v as the adapter uses it: the word to write lands at the *)
(* next edge, a read takes the word before that edge.                      *)

UramInit == rd_pipe = [s \in 1 .. RD_LATENCY |-> [valid |-> FALSE, data |-> Zeros]]

Uram ==
  /\ uram' = IF ad.uram_wr_en THEN [uram EXCEPT ![ad.uram_wr_at] = ad.uram_wr_data]
             ELSE uram
  /\ rd_pipe' = [s \in 1 .. RD_LATENCY |->
       IF s > 1 THEN rd_pipe[s - 1]
       ELSE [valid |-> ad.uram_rd_en,
             data |-> IF ad.uram_rd_en THEN uram[ad.uram_rd_at] ELSE rd_pipe[1].data]]

-----------------------------------------------------------------------------
(* act_dma.v; the write port is tied off in top_level.  hbm is what lies   *)
(* from cfg_rd_base on, element by element.                                *)

DmaInit ==
  /\ dma = [state |-> "AX_IDLE", rd_data |-> 0, rd_valid |-> FALSE, el_pending |-> 0,
            rcache_valid |-> FALSE, rcache_tag |-> 0, rcache_data |-> Zeros,
            miss_word |-> 0, arvalid |-> FALSE]
  /\ wait = 0

DmaHit(addr) == dma.rcache_valid /\ dma.rcache_tag = addr \div BUS_EL

DmaIdle(rd_en, addr) ==
  /\ dma.state = "AX_IDLE" /\ UNCHANGED wait
  /\ dma' = CASE rd_en /\ DmaHit(addr) ->
                   [dma EXCEPT !.rd_valid = TRUE, !.rd_data = dma.rcache_data[El(addr)]]
              [] rd_en /\ ~DmaHit(addr) ->
                   [dma EXCEPT !.rd_valid = FALSE, !.state = "AX_RD_AR",
                               !.miss_word = addr \div BUS_EL, !.el_pending = El(addr)]
              [] OTHER -> [dma EXCEPT !.rd_valid = FALSE]

\* The address is shown one edge after the miss and taken at the next; the
\* channel then chooses how long the data takes.
DmaReadAddress ==
  /\ dma.state = "AX_RD_AR"
  /\ IF dma.arvalid
       THEN /\ wait' \in HbmWaits
            /\ dma' = [dma EXCEPT !.rd_valid = FALSE, !.arvalid = FALSE,
                                  !.state = "AX_RD_DATA"]
       ELSE /\ UNCHANGED wait
            /\ dma' = [dma EXCEPT !.rd_valid = FALSE, !.arvalid = TRUE]

DmaReadData ==
  /\ dma.state = "AX_RD_DATA"
  /\ IF wait > 0
       THEN wait' = wait - 1 /\ dma' = [dma EXCEPT !.rd_valid = FALSE]
       ELSE LET word == [e \in Word |-> hbm[dma.miss_word * BUS_EL + e]]
            IN /\ UNCHANGED wait
               /\ dma' = [dma EXCEPT !.state = "AX_IDLE",
                    !.rcache_valid = TRUE, !.rcache_tag = dma.miss_word,
                    !.rcache_data = word,
                    !.rd_valid = TRUE, !.rd_data = word[dma.el_pending]]

Dma(rd_en, addr) ==
  /\ DmaIdle(rd_en, addr) \/ DmaReadAddress \/ DmaReadData
  /\ UNCHANGED hbm
=============================================================================
