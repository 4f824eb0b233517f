----------------------------- MODULE ScalarUnits -----------------------------
(***************************************************************************)
(* rtl/softmax.v, layernorm.v, activation.v and residual_add.v, one clock  *)
(* edge per action.  One unit runs per behaviour, so the registers that    *)
(* play the same part in all of them are one record (u); those of one unit *)
(* alone are in x.                                                         *)
(*                                                                         *)
(* An action's parameter in is the read ports in this cycle: in.valid and  *)
(* in.data of the data port, in.sub_valid and in.sub_data of the second    *)
(* port (layernorm's parameters, residual_add's other operand).            *)
(***************************************************************************)
EXTENDS Golden

VARIABLES
  unit,      \* which unit runs: "sm", "ln", "act" or "res"
  start,     \* its start input
  cmd,       \* its command inputs: len (seq_len or dim), row_idx, scale_shift, causal
  u, x       \* its registers

\* u: rd_en and sub_en ask for rd_addr on the two ports.  For residual_add,
\* inflight is reads_issued.
CommonInit ==
  u = [state |-> "ST_IDLE", done |-> FALSE, len |-> 0, idx |-> 0, inflight |-> FALSE,
       rd_en |-> FALSE, sub_en |-> FALSE, rd_addr |-> 0,
       wr_en |-> FALSE, wr_addr |-> 0, wr_data |-> 0]

\* The registers at an edge that only clears the one-shot outputs.
Quiet == [u EXCEPT !.done = FALSE, !.rd_en = FALSE, !.sub_en = FALSE, !.wr_en = FALSE]

MayRead == u.idx < u.len /\ ~u.inflight

\* One read at a time on the data port; next is the registers as set so far.
Reading(next, may, in) ==
  IF may THEN [next EXCEPT !.rd_en = TRUE, !.rd_addr = u.idx, !.idx = u.idx + 1,
                           !.inflight = ~in.valid]
  ELSE [next EXCEPT !.inflight = @ /\ ~in.valid]

Writing(next, addr, val) ==
  [next EXCEPT !.wr_en = TRUE, !.wr_addr = addr, !.wr_data = int16(val)]

Loaded(state) == [Quiet EXCEPT !.state = state, !.len = cmd.len, !.idx = 0,
                               !.inflight = FALSE]

Finish == /\ u.state = "ST_DONE"
          /\ u' = [Quiet EXCEPT !.done = TRUE, !.state = "ST_IDLE"]

-----------------------------------------------------------------------------
(* softmax.v                                                               *)

SoftmaxInit(max_len) ==
  x = [valid_r |-> FALSE, data_r |-> 0, rx_cnt |-> 0, scale_r |-> 0, row_r |-> 0,
       max_val |-> -32768, exp_sum |-> 0, exp_buffer |-> [j \in range(max_len) |-> 0],
       norm_valid |-> FALSE, norm_idx |-> 0, exp_buf |-> 0]

\* The pipeline stage outside the state machine.
SmPiped(in) == [x EXCEPT !.valid_r = in.valid, !.data_r = in.data \div 2^x.scale_r]

SmIdle(in) ==
  /\ unit = "sm" /\ u.state = "ST_IDLE"
  /\ IF start /\ cmd.len > 0
       THEN /\ u' = Loaded("ST_FIND_MAX")
            /\ x' = [SmPiped(in) EXCEPT !.rx_cnt = 0, !.max_val = -32768, !.exp_sum = 0,
                                        !.scale_r = cmd.scale_shift, !.row_r = cmd.row_idx]
       ELSE u' = Quiet /\ x' = SmPiped(in)

\* Mutant of SmMasked: the column after the diagonal is let through.
SmMasked_Late == cmd.causal /\ x.rx_cnt > x.row_r + 1
SmMasked == cmd.causal /\ x.rx_cnt > x.row_r

SmFindMax(in) ==
  LET got == [SmPiped(in) EXCEPT
                !.rx_cnt = IF x.valid_r THEN @ + 1 ELSE @,
                !.max_val = IF x.valid_r /\ ~SmMasked /\ x.data_r > @ THEN x.data_r ELSE @]
  IN /\ unit = "sm" /\ u.state = "ST_FIND_MAX"
     /\ IF x.rx_cnt # u.len
          THEN u' = Reading(Quiet, MayRead, in) /\ x' = got
          ELSE /\ u' = [Reading(Quiet, MayRead, in) EXCEPT
                          !.state = "ST_COMP_EXP", !.idx = 0, !.inflight = FALSE]
               /\ x' = [got EXCEPT !.rx_cnt = 0]

SmCompExp(in) ==
  LET exp == IF SmMasked THEN 0 ELSE compute_exp(x.data_r, x.max_val)
  IN /\ unit = "sm" /\ u.state = "ST_COMP_EXP"
     /\ x' = IF ~x.valid_r THEN SmPiped(in)
             ELSE [SmPiped(in) EXCEPT !.rx_cnt = @ + 1, !.exp_buffer[x.rx_cnt] = exp,
                                      !.exp_sum = @ + exp]
     /\ u' = IF x.rx_cnt # u.len THEN Reading(Quiet, MayRead, in)
             ELSE [Reading(Quiet, MayRead, in) EXCEPT
                     !.state = "ST_NORMALIZE", !.idx = 0, !.inflight = FALSE]

SmNormalize(in) ==
  LET more == u.idx < u.len
      read == [Quiet EXCEPT !.idx = IF more THEN @ + 1 ELSE @]
  IN /\ unit = "sm" /\ u.state = "ST_NORMALIZE"
     /\ x' = [SmPiped(in) EXCEPT
                !.norm_valid = more, !.norm_idx = IF more THEN u.idx ELSE @,
                !.exp_buf = IF more THEN x.exp_buffer[u.idx] ELSE @]
     /\ u' = IF ~x.norm_valid THEN read
             ELSE [Writing(read, x.norm_idx, normalize(x.exp_buf, x.exp_sum)) EXCEPT
                     !.state = IF x.norm_idx = u.len - 1 THEN "ST_DONE" ELSE @]

SmDone(in) == unit = "sm" /\ Finish /\ x' = SmPiped(in)

Softmax(in) ==
  SmIdle(in) \/ SmFindMax(in) \/ SmCompExp(in) \/ SmNormalize(in) \/ SmDone(in)

-----------------------------------------------------------------------------
(* layernorm.v                                                             *)

LayerNormInit(max_dim) ==
  x = [valid_r |-> FALSE, data_r |-> 0, idx_r |-> 0, sum |-> 0, mean |-> 0,
       var_sum |-> 0, inv_std |-> 0, input_buffer |-> [j \in range(max_dim) |-> 0],
       bram_rd_addr |-> 0, bram_rd_data |-> 0, buf_rd_valid |-> FALSE,
       pipe1 |-> [valid |-> FALSE, normalized |-> 0, gamma |-> 0, beta |-> 0,
                  wr_addr |-> 0]]

\* The stages outside the state machine: the received element and its place, the
\* buffer's write and its registered read.
LnPiped(in) ==
  [x EXCEPT !.valid_r = in.valid, !.data_r = in.data, !.idx_r = u.idx - 1,
            !.input_buffer = IF x.valid_r /\ u.state = "ST_COMP_MEAN"
                               THEN [@ EXCEPT ![x.idx_r] = x.data_r] ELSE @,
            !.bram_rd_data = x.input_buffer[x.bram_rd_addr],
            !.pipe1.valid = FALSE]

\* Stage 2 of the normalisation, outside the state machine as well.
LnWritten ==
  LET p == x.pipe1
      result == (p.normalized * p.gamma) \div 128 + p.beta
  IN IF p.valid THEN Writing(Quiet, p.wr_addr, saturate_int16(result)) ELSE Quiet

LnIdle(in) ==
  /\ unit = "ln" /\ u.state = "ST_IDLE"
  /\ IF start
       THEN /\ u' = Loaded("ST_COMP_MEAN")
            /\ x' = [LnPiped(in) EXCEPT !.buf_rd_valid = FALSE, !.sum = 0, !.var_sum = 0]
       ELSE u' = LnWritten /\ x' = LnPiped(in)

\* Mutant of LnAllReceived: the last element may still be on its way.
LnAllReceived_Early == u.idx = u.len
LnAllReceived == u.idx = u.len /\ ~x.valid_r /\ ~u.rd_en /\ ~u.inflight

LnCompMean(in) ==
  LET got == [LnPiped(in) EXCEPT !.sum = IF x.valid_r THEN @ + x.data_r ELSE @]
  IN /\ unit = "ln" /\ u.state = "ST_COMP_MEAN"
     /\ IF ~LnAllReceived
          THEN u' = Reading(LnWritten, MayRead, in) /\ x' = got
          ELSE /\ u' = [LnWritten EXCEPT !.state = "ST_COMP_VAR", !.idx = 0,
                                         !.inflight = FALSE]
               /\ x' = [got EXCEPT !.mean = divide_by_dim(x.sum, u.len)]

LnCompVar(in) ==
  LET over == u.idx > u.len /\ ~x.buf_rd_valid
      variance == divide_by_dim(x.var_sum, u.len)
  IN /\ unit = "ln" /\ u.state = "ST_COMP_VAR"
     /\ u' = [LnWritten EXCEPT
                !.idx = IF over THEN 0 ELSE IF @ <= u.len THEN @ + 1 ELSE @,
                !.state = IF over THEN "ST_NORMALIZE" ELSE @]
     /\ x' = [LnPiped(in) EXCEPT
                !.bram_rd_addr = IF u.idx < u.len THEN u.idx ELSE @,
                !.buf_rd_valid = u.idx > 0 /\ u.idx <= u.len,
                !.var_sum = IF x.buf_rd_valid
                  THEN int32_add(@, compute_sq_diff(x.bram_rd_data, x.mean)) ELSE @,
                !.inv_std = IF over THEN compute_rsqrt(int32_add(variance, 1)) ELSE @]

\* Parameters are read on the second port.  The product keeps its 48 bits.
LnNormalize(in) ==
  LET ask == [LnWritten EXCEPT !.sub_en = MayRead,
                               !.rd_addr = IF MayRead THEN u.idx ELSE @,
                               !.idx = IF MayRead THEN @ + 1 ELSE @,
                               !.inflight = (@ \/ MayRead) /\ ~in.sub_valid]
      over == u.idx = u.len /\ ~u.sub_en /\ ~u.inflight /\ ~x.pipe1.valid
      asked == [LnPiped(in) EXCEPT !.bram_rd_addr = IF MayRead THEN u.idx ELSE @]
  IN /\ unit = "ln" /\ u.state = "ST_NORMALIZE"
     /\ u' = IF over THEN [ask EXCEPT !.state = "ST_DONE"] ELSE ask
     /\ x' = IF ~(in.sub_valid /\ u.idx > 0) THEN asked
             ELSE [asked EXCEPT !.pipe1 =
                     [valid |-> TRUE,
                      normalized |-> mul_shift8(x.bram_rd_data - x.mean, x.inv_std),
                      gamma |-> int8(in.sub_data), beta |-> int8(in.sub_data \div 256),
                      wr_addr |-> u.idx - 1]]

LnDone(in) == unit = "ln" /\ Finish /\ x' = LnPiped(in)

LayerNorm(in) ==
  LnIdle(in) \/ LnCompMean(in) \/ LnCompVar(in) \/ LnNormalize(in) \/ LnDone(in)

-----------------------------------------------------------------------------
(* activation.v                                                            *)

ActivationInit ==
  x = [relu_valid |-> FALSE, relu_out |-> 0, wr_addr_pipe1 |-> 0, wr_addr_pipe2 |-> 0]

ActPiped(in) == [relu_valid |-> in.valid, relu_out |-> relu_golden(in.data),
                 wr_addr_pipe1 |-> u.rd_addr, wr_addr_pipe2 |-> x.wr_addr_pipe1]

ActIdle(in) ==
  /\ unit = "act" /\ u.state = "ST_IDLE" /\ x' = ActPiped(in)
  /\ u' = IF start THEN Loaded("ST_PROCESS") ELSE Quiet

\* Mutant of ActMayRead: a read may go out beside a write.
ActMayRead_Beside == MayRead
ActMayRead == MayRead /\ ~x.relu_valid

\* A write first; a read only in a cycle without a write.
ActProcess(in) ==
  LET wrote == IF x.relu_valid THEN Writing(Quiet, x.wr_addr_pipe2, x.relu_out) ELSE Quiet
      over == u.idx = u.len /\ ~x.relu_valid /\ ~u.rd_en /\ ~u.inflight
  IN /\ unit = "act" /\ u.state = "ST_PROCESS" /\ x' = ActPiped(in)
     /\ u' = [Reading(wrote, ActMayRead, in) EXCEPT !.state = IF over THEN "ST_DONE" ELSE @]

ActDone(in) == unit = "act" /\ Finish /\ x' = ActPiped(in)

Activation(in) == ActIdle(in) \/ ActProcess(in) \/ ActDone(in)

-----------------------------------------------------------------------------
(* residual_add.v                                                          *)

ResidualInit == x = [got_res |-> FALSE, got_sub |-> FALSE, res |-> 0, sub |-> 0]

ResIdle(in) ==
  /\ unit = "res" /\ u.state = "ST_IDLE"
  /\ IF start THEN /\ u' = Loaded("ST_PROCESS")
                   /\ x' = [x EXCEPT !.got_res = FALSE, !.got_sub = FALSE]
     ELSE u' = Quiet /\ UNCHANGED x

\* Each answer is kept until the other one is there.
ResWaiting(in) ==
  LET ask == MayRead
  IN /\ u' = [Quiet EXCEPT
                !.rd_en = ask, !.sub_en = ask, !.rd_addr = IF ask THEN u.idx ELSE @,
                !.inflight = @ \/ ask,
                !.state = IF u.idx = u.len /\ ~u.inflight /\ ~x.got_res /\ ~x.got_sub
                            THEN "ST_DONE" ELSE @]
     /\ x' = [got_res |-> x.got_res \/ in.valid, got_sub |-> x.got_sub \/ in.sub_valid,
              res |-> IF in.valid THEN in.data ELSE x.res,
              sub |-> IF in.sub_valid THEN in.sub_data ELSE x.sub]

\* Mutant of ResBothReady: an answer that came before the other one does not count.
ResBothReady_Together(in) == u.inflight /\ in.valid /\ in.sub_valid
ResBothReady(in) ==
  u.inflight /\ (x.got_res \/ in.valid) /\ (x.got_sub \/ in.sub_valid)

ResProcess(in) ==
  /\ unit = "res" /\ u.state = "ST_PROCESS"
  /\ IF ~ResBothReady(in) THEN ResWaiting(in)
     ELSE /\ u' = [Writing(Quiet, u.idx,
                     saturating_add(IF x.got_res THEN x.res ELSE in.data,
                                    IF x.got_sub THEN x.sub ELSE in.sub_data)) EXCEPT
                     !.idx = @ + 1, !.inflight = FALSE]
          /\ x' = [x EXCEPT !.got_res = FALSE, !.got_sub = FALSE]

ResDone(in) == unit = "res" /\ Finish /\ UNCHANGED x

Residual(in) == ResIdle(in) \/ ResProcess(in) \/ ResDone(in)

Unit(in) == Softmax(in) \/ LayerNorm(in) \/ Activation(in) \/ Residual(in)
=============================================================================
