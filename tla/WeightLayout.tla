----------------------------- MODULE WeightLayout -----------------------------
(***************************************************************************)
(* From the trained model to the words the accelerator reads:              *)
(* scripts/export_gpt2.py quantises and packs the weights and writes the   *)
(* embeddings, fpga/host.cpp loads both, and the controller's commands     *)
(* (FsmController, instantiated below as Ctl) address them in the HBM.     *)
(* verify/bram_layout.py lays the same weights out in banks.               *)
(*                                                                         *)
(* A tensor's elements are integers: a scale is the ratio of two of them,  *)
(* and quantisation is exact.                                              *)
(***************************************************************************)
EXTENDS Golden, SequencesExt

CONSTANTS
  N_EMBD, NUM_HEADS, N_FFN, MAX_SEQ_LEN, NUM_LAYERS, WE,   \* n_embd, 4 * n_embd of GPT-2
  VOCAB, MAX_POS,        \* rows of wte and wpe
  Models,                \* the trained models
  Tensor(_, _, _, _),    \* model, name, row, column -> element
  Prompts,               \* [ids, start_pos] to embed
  BankCounts

LayoutAssumption ==
  /\ {N_EMBD, NUM_HEADS, N_FFN, MAX_SEQ_LEN, NUM_LAYERS, WE} \subseteq Nat \ {0}
  /\ N_EMBD % (NUM_HEADS * WE) = 0 /\ N_FFN % WE = 0

MODEL_DIM == N_EMBD
F_DIM == N_FFN
MODEL_STRIDE == MODEL_DIM \div WE
F_STRIDE == F_DIM \div WE

LAYER_WQ_OFFSET == 0
LAYER_WK_OFFSET == (MODEL_DIM * MODEL_DIM) \div WE
LAYER_WV_OFFSET == (2 * MODEL_DIM * MODEL_DIM) \div WE
LAYER_WO_OFFSET == (3 * MODEL_DIM * MODEL_DIM) \div WE
LAYER_FFN1_OFFSET == (4 * MODEL_DIM * MODEL_DIM) \div WE
LAYER_FFN2_OFFSET == LAYER_FFN1_OFFSET + (MODEL_DIM * F_DIM) \div WE
LAYER_LN1_OFFSET == LAYER_FFN2_OFFSET + (F_DIM * MODEL_DIM) \div WE
LAYER_LN2_OFFSET == LAYER_LN1_OFFSET + (2 * MODEL_DIM) \div WE
LAYER_SIZE == LAYER_LN2_OFFSET + (2 * MODEL_DIM) \div WE
TOTAL_WEIGHT_WORDS == LAYER_SIZE * NUM_LAYERS

VARIABLES
  model,
  phase,                 \* "pack", "load", "read", "embed", "banks", "stop"
  layer_idx, call,       \* the packing loop and its next call
  wgt_buf,               \* wgt_buf of the exporter
  weight_map,            \* the weights in the HBM
  read_idx,              \* the next operand the controller asks for
  got,                   \* the operand it got last
  embedded,              \* the activation rows the host wrote, and for which prompt
  banks                  \* what came back from the bank files, and from how many

vars == <<model, phase, layer_idx, call, wgt_buf, weight_map, read_idx, got,
          embedded, banks>>

-----------------------------------------------------------------------------
(* Quantisation.                                                           *)

sd(name, rows, cols) == Matrix(rows, cols, LAMBDA i, j : Tensor(model, name, i, j))
Abs(n) == IF n < 0 THEN -n ELSE n
amax(t) == Largest({Abs(t[i][j]) : i \in DOMAIN t, j \in DOMAIN t[0]})

\* n / d to the nearest integer, to the even one of two as near (np.round).
HalfEven(n, d) ==
  LET twice == 2 * (n % d)
      up == twice > d \/ (twice = d /\ (n \div d) % 2 = 1)
  IN n \div d + (IF up THEN 1 ELSE 0)

\* n / d to the nearest integer, away from zero of two as near (std::round).
HalfAway(n, d) == IF n >= 0 THEN (2 * n + d) \div (2 * d) ELSE -((d - 2 * n) \div (2 * d))

int8_steps == 127

\* Mutant of rounded: the quotient is cut, not rounded.
rounded_Cut(n, d) == n \div d
rounded(n, d) == HalfEven(n, d)

\* scale = amax / 127; clip never binds, as no element is above amax.
quantize_int8_symmetric(t) ==
  LET a == amax(t)
  IN Matrix(len(t), len(t[0]),
       LAMBDA i, j : IF a = 0 THEN 0
                     ELSE int8(clamp(rounded(int8_steps * t[i][j], a), -int8_steps, int8_steps)))

-----------------------------------------------------------------------------
(* The tensors of a layer by the names of their scales; Conv1D weights are *)
(* stored (in, out), and c_attn holds the three projections side by side.  *)

Columns(mat, first, n) == Matrix(len(mat), n, LAMBDA i, j : mat[i][first + j])

LayerTensor(l, name) ==
  LET c_attn == sd(<<l, "c_attn">>, MODEL_DIM, 3 * MODEL_DIM)
  IN CASE name = "wq" -> Columns(c_attn, 0, MODEL_DIM)
       [] name = "wk" -> Columns(c_attn, MODEL_DIM, MODEL_DIM)
       [] name = "wv" -> Columns(c_attn, 2 * MODEL_DIM, MODEL_DIM)
       [] name = "wo" -> sd(<<l, "attn.c_proj">>, MODEL_DIM, MODEL_DIM)
       [] name = "ff1" -> sd(<<l, "c_fc">>, MODEL_DIM, F_DIM)
       [] name = "ff2" -> sd(<<l, "mlp.c_proj">>, F_DIM, MODEL_DIM)
       [] OTHER -> sd(<<l, name>>, 1, MODEL_DIM)      \* ln1_g, ln1_b, ln2_g, ln2_b

Quantised(l, name) == quantize_int8_symmetric(LayerTensor(l, name))

-----------------------------------------------------------------------------
(* Packing.  A call packs rows of words from a base on; of two rows that   *)
(* meet, the later one stays.                                              *)

MatrixCalls ==
  << [name |-> "wq", base |-> LAYER_WQ_OFFSET, rows |-> MODEL_DIM, stride |-> MODEL_STRIDE],
     [name |-> "wk", base |-> LAYER_WK_OFFSET, rows |-> MODEL_DIM, stride |-> MODEL_STRIDE],
     [name |-> "wv", base |-> LAYER_WV_OFFSET, rows |-> MODEL_DIM, stride |-> MODEL_STRIDE],
     [name |-> "wo", base |-> LAYER_WO_OFFSET, rows |-> MODEL_DIM, stride |-> MODEL_STRIDE],
     [name |-> "ff1", base |-> LAYER_FFN1_OFFSET, rows |-> MODEL_DIM, stride |-> F_STRIDE],
     [name |-> "ff2", base |-> LAYER_FFN2_OFFSET, rows |-> F_DIM, stride |-> MODEL_STRIDE] >>
NormCalls ==
  << [gamma |-> "ln1_g", beta |-> "ln1_b", base |-> LAYER_LN1_OFFSET],
     [gamma |-> "ln2_g", beta |-> "ln2_b", base |-> LAYER_LN2_OFFSET] >>

Word(elements) == [e \in range(WE) |-> elements[e]]

pack_weight_matrix(mat, base_word, stride) ==
  LET words_per_row == len(mat[0]) \div WE
      rows(a) == {r \in Index(mat) : a - base_word - r * stride \in range(words_per_row)}
  IN [a \in UNION {{base_word + r * stride + w : w \in range(words_per_row)} :
                     r \in Index(mat)} |->
        LET r == Largest(rows(a))
            w == a - base_word - r * stride
        IN Word([e \in range(WE) |-> mat[r][w * WE + e]])]

\* Mutant of ln_element: gamma and beta change places.
ln_element_Swapped(g, b) == int16(256 * uint8(g) + uint8(b))
ln_element(g, b) == int16(256 * uint8(b) + uint8(g))

pack_ln_params(gamma, beta, base_word) ==
  [a \in base_word .. base_word + MODEL_STRIDE - 1 |->
     LET w == a - base_word
     IN Word([e \in range(WE) |-> ln_element(gamma[w * WE + e], beta[w * WE + e])])]

Pack(words) ==
  /\ wgt_buf' = [a \in DOMAIN wgt_buf |-> IF a \in DOMAIN words THEN words[a] ELSE wgt_buf[a]]
  /\ UNCHANGED <<model, weight_map, read_idx, got, embedded, banks>>

layer_base == layer_idx * LAYER_SIZE

PackMatrix ==
  /\ phase = "pack" /\ call <= Len(MatrixCalls)
  /\ LET c == MatrixCalls[call]
     IN Pack(pack_weight_matrix(Quantised(layer_idx, c.name), layer_base + c.base, c.stride))
  /\ call' = call + 1 /\ UNCHANGED <<phase, layer_idx>>

PackNorm ==
  /\ phase = "pack" /\ call > Len(MatrixCalls)
  /\ LET c == NormCalls[call - Len(MatrixCalls)]
     IN Pack(pack_ln_params(Quantised(layer_idx, c.gamma)[0], Quantised(layer_idx, c.beta)[0],
                            layer_base + c.base))
  /\ IF call < Len(MatrixCalls) + Len(NormCalls)
       THEN call' = call + 1 /\ UNCHANGED <<phase, layer_idx>>
       ELSE /\ call' = 1 /\ layer_idx' = layer_idx + 1
            /\ phase' = IF layer_idx = NUM_LAYERS - 1 THEN "load" ELSE phase

\* weights.bin is the buffer; the host copies all of it, its own LAYER_SIZE being the same.
LoadWeights ==
  /\ phase = "load" /\ phase' = "read" /\ weight_map' = wgt_buf /\ layer_idx' = 0
  /\ UNCHANGED <<model, call, wgt_buf, read_idx, got, embedded, banks>>

-----------------------------------------------------------------------------
(* The controller's reads of a layer, in the order of PROG_PRENORM.        *)

Reads ==
  << [unit |-> "ln", cfg |-> 0, phase |-> 0, name |-> "ln1"],
     [unit |-> "qkv", cfg |-> 1, phase |-> 0, name |-> "wq"],
     [unit |-> "qkv", cfg |-> 1, phase |-> 1, name |-> "wk"],
     [unit |-> "qkv", cfg |-> 1, phase |-> 2, name |-> "wv"],
     [unit |-> "mm", cfg |-> 0, phase |-> 0, name |-> "wo"],
     [unit |-> "ln", cfg |-> 1, phase |-> 0, name |-> "ln2"],
     [unit |-> "mm", cfg |-> 2, phase |-> 0, name |-> "ff1"],
     [unit |-> "mm", cfg |-> 3, phase |-> 0, name |-> "ff2"] >>
Reading == Reads[read_idx]

Ctl == INSTANCE FsmController WITH
  HEAD_WORDS <- MODEL_STRIDE \div NUM_HEADS, NUM_ENC_LAYERS <- NUM_LAYERS,
  ARCH <- 0, SINGLE_MATMUL <- FALSE, CFG_COL_SEQ <- 0, CFG_COL_MOD <- 0, CFG_COL_FFN <- 0,
  weight_base <- 0, act_base <- 0, kv_base <- 6 * MAX_SEQ_LEN * MODEL_STRIDE,
  Jobs <- {}, NONE <- 0, start <- 0, rsp <- {}, state <- "S_DECODE", busy <- TRUE,
  pulse <- "none", req <- [batch |-> 1, seq |-> 1, decode |-> FALSE, cache_len |-> 0],
  layer_cnt <- layer_idx, step_idx <- 0, step_bt <- "none", step_cfg <- Reading.cfg,
  qkv_phase <- Reading.phase, head_cnt <- 0, nm_row_cnt <- 0, nm_flush_phase <- FALSE,
  waiting_mm <- FALSE, flush_sent <- FALSE,
  nm <- [col_bits |-> 0, addr_offset |-> 0, rd_base |-> 0, dim |-> 0, row_idx |-> 0],
  mm_cmd <- 0, flush_r <- 0, uf_cmd <- 0

\* Operand B of a command, as the weight DMA prefetches it.
Prefetched(cmd) ==
  Matrix(cmd.k, cmd.n, LAMBDA k, n :
    weight_map[cmd.b_base + k * cmd.b_stride + n \div WE][n % WE])

\* gamma and beta as layernorm gets them from act_dma.
Parameters(nm) ==
  LET element(i) == weight_map[nm.rd_base + i \div WE][i % WE]
  IN <<[i \in range(nm.dim) |-> int8(element(i))],
       [i \in range(nm.dim) |-> int8(element(i) \div 256)]>>

Read ==
  /\ phase = "read"
  /\ got' = [layer |-> layer_idx, name |-> Reading.name,
             operand |-> CASE Reading.unit = "ln" -> Parameters(Ctl!UnitSetup("ln"))
                           [] Reading.unit = "qkv" -> Prefetched(Ctl!QkvCommand)
                           [] OTHER -> Prefetched(Ctl!RunCommand)]
  /\ IF read_idx < Len(Reads)
       THEN read_idx' = read_idx + 1 /\ UNCHANGED <<phase, layer_idx>>
       ELSE /\ read_idx' = 1
            /\ IF layer_idx < NUM_LAYERS - 1 THEN layer_idx' = layer_idx + 1 /\ UNCHANGED phase
               ELSE phase' = "embed" /\ UNCHANGED layer_idx
  /\ UNCHANGED <<model, call, wgt_buf, weight_map, embedded, banks>>

-----------------------------------------------------------------------------
(* embed.bin: a header of four words, wte, wpe and the last layernorm.     *)

wte == sd(<<-1, "wte">>, VOCAB, MODEL_DIM)
wpe == sd(<<-1, "wpe">>, MAX_POS, MODEL_DIM)
ln_f == sd(<<-1, "ln_f">>, 2, MODEL_DIM)

ToSeq0(v) == [i \in 1 .. len(v) |-> v[i - 1]]
FlatRows(mat) == FlattenSeq([i \in 1 .. len(mat) |-> ToSeq0(mat[i - 1])])

embed_file ==
  <<VOCAB, MODEL_DIM, MAX_POS, 0>> \o FlatRows(wte) \o FlatRows(wpe) \o FlatRows(ln_f)

\* The reader takes every size from the header.
load_embed ==
  LET vocab_size == embed_file[1]
      model_dim == embed_file[2]
      max_pos == embed_file[3]
      cut(first, n) == SubSeq(embed_file, first + 1, first + n)
      wpe_at == 4 + vocab_size * model_dim
      ln_at == wpe_at + max_pos * model_dim
  IN [wte |-> cut(4, vocab_size * model_dim), wpe |-> cut(wpe_at, max_pos * model_dim),
      ln_f_g |-> cut(ln_at, model_dim), ln_f_b |-> cut(ln_at + model_dim, model_dim)]

\* Mutant of Position: a decode embeds its token at the first position.
Position_First(prompt, s) == s
Position(prompt, s) == prompt.start_pos + s

compute_embedding(prompt) ==
  LET ed == load_embed
  IN Matrix(Len(prompt.ids), MODEL_DIM, LAMBDA s, d :
       ed.wte[prompt.ids[s + 1] * MODEL_DIM + d + 1]
         + ed.wpe[Position(prompt, s) * MODEL_DIM + d + 1])

quantize_embed_to_int16(embed) ==
  LET a == amax(embed)
      q(s, d) == IF a = 0 THEN 0 ELSE clamp(HalfAway(32767 * embed[s][d], a), -32768, 32767)
  IN [at \in range(len(embed) * MODEL_STRIDE) |->
        Word([e \in range(WE) |-> q(at \div MODEL_STRIDE, (at % MODEL_STRIDE) * WE + e)])]

Embed ==
  /\ phase = "embed" /\ phase' = "banks"
  /\ \E p \in Prompts : embedded' = [prompt |-> p,
                                     act_map |-> quantize_embed_to_int16(compute_embedding(p))]
  /\ UNCHANGED <<model, layer_idx, call, wgt_buf, weight_map, read_idx, got, banks>>

-----------------------------------------------------------------------------
(* verify/bram_layout.py, on the quantised weights of all layers.          *)

flatten_weight_layout ==
  LET layer(l) ==
        FlattenSeq([i \in 1 .. 6 |-> FlatRows(Quantised(l, MatrixCalls[i].name))])
          \o FlattenSeq([i \in 1 .. 4 |->
               ToSeq0(Quantised(l, <<"ln1_g", "ln1_b", "ln2_g", "ln2_b">>[i])[0])])
  IN FlatRows(quantize_int8_symmetric(sd(<<-1, "W_proj">>, WE, MODEL_DIM)))
       \o [i \in 1 .. MAX_SEQ_LEN * MODEL_DIM |-> 0]
       \o FlattenSeq([l \in 1 .. NUM_LAYERS |-> layer(l - 1)])

\* Mutant of depth: the last, partial row of the banks is left out.
depth_Floor(n, num_banks) == n \div num_banks
depth(n, num_banks) == (n + num_banks - 1) \div num_banks

encode_to_banks(flat, num_banks) ==
  [b \in range(num_banks) |-> [addr \in range(depth(Len(flat), num_banks)) |->
     LET i == addr * num_banks + b IN IF i < Len(flat) THEN flat[i + 1] ELSE 0]]

decode_from_banks(bs) ==
  LET n == len(bs)
  IN [i \in 1 .. n * len(bs[0]) |-> bs[(i - 1) % n][(i - 1) \div n]]

write_bank_hex_files(bs, width) == [b \in DOMAIN bs |-> write_hex_file(bs[b], width)]
read_bank_hex_files(files, width) == [b \in DOMAIN files |-> read_hex_file(files[b], width)]

Bank ==
  /\ phase = "banks" /\ phase' = "stop"
  /\ \E n \in BankCounts :
       banks' = [count |-> n,
                 flat |-> decode_from_banks(read_bank_hex_files(
                   write_bank_hex_files(encode_to_banks(flatten_weight_layout, n), 8), 8))]
  /\ UNCHANGED <<model, layer_idx, call, wgt_buf, weight_map, read_idx, got, embedded>>

-----------------------------------------------------------------------------
Start(first, words) ==
  /\ phase = first /\ layer_idx = 0 /\ call = 1 /\ wgt_buf = words
  /\ weight_map = <<>> /\ read_idx = 1
  /\ got = [layer |-> 0, name |-> "none", operand |-> <<>>]
  /\ embedded = [prompt |-> [ids |-> <<>>, start_pos |-> 0], act_map |-> <<>>]
  /\ banks = [count |-> 0, flat |-> <<>>]

Init == /\ model \in Models
        /\ Start("pack", [a \in range(TOTAL_WEIGHT_WORDS) |-> Word([e \in range(WE) |-> 0])])

\* No buffer, and nothing to do.
NoRun == model = (CHOOSE m \in Models : TRUE) /\ Start("stop", <<>>)

Next == PackMatrix \/ PackNorm \/ LoadWeights \/ Read \/ Embed \/ Bank

Spec == Init /\ [][Next]_vars

-----------------------------------------------------------------------------
(* Properties.                                                             *)

\* Every operand the controller reads is the matrix, or the parameters, of that name and
\* layer: the exporter's offsets and strides are the controller's.
OperandsFound ==
  got.name # "none" =>
    got.operand = IF got.name \in {"ln1", "ln2"}
      THEN LET suffix == IF got.name = "ln1" THEN <<"ln1_g", "ln1_b">> ELSE <<"ln2_g", "ln2_b">>
           IN <<Quantised(got.layer, suffix[1])[0], Quantised(got.layer, suffix[2])[0]>>
      ELSE Quantised(got.layer, got.name)

\* What the accelerator multiplies with is within half a scale of the trained weight.
WithinHalfScale ==
  got.name \notin {"none", "ln1", "ln2"} =>
    LET t == LayerTensor(got.layer, got.name)
        a == amax(t)
    IN \A i \in DOMAIN t : \A j \in DOMAIN t[0] :
         2 * Abs(got.operand[i][j] * a - 127 * t[i][j]) <= a

\* The activation words the first step reads hold, to half a step, the sum of each token's
\* embedding and its position's.
EmbeddingsPlaced ==
  LET p == embedded.prompt
      sum(s, d) == wte[p.ids[s + 1]][d] + wpe[p.start_pos + s][d]
      a == Largest({0} \cup {Abs(sum(s, d)) : s \in range(Len(p.ids)), d \in range(MODEL_DIM)})
      at(s, d) == Ctl!ACT_EMBED_OFFSET + s * MODEL_STRIDE + d \div WE
  IN \A s \in range(Len(p.ids)), d \in range(MODEL_DIM) :
       2 * Abs(embedded.act_map[at(s, d)][d % WE] * a - 32767 * sum(s, d)) <= a

\* The bank files give back the flat list, padded to whole rows of banks.
BanksRoundTrip ==
  banks.count > 0 =>
    /\ IsPrefix(flatten_weight_layout, banks.flat)
    /\ Len(banks.flat) - Len(flatten_weight_layout) \in range(banks.count)
=============================================================================
