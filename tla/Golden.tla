-------------------------------- MODULE Golden --------------------------------
(***************************************************************************)
(* The per-module golden models of verify/golden: softmax.py, layernorm.py,*)
(* residual_add.py, activation.py and matmul_engine.py.  A Python list is  *)
(* a function on 0 .. n - 1, a matrix a list of rows.                      *)
(***************************************************************************)
EXTENDS FixedPoint, FiniteSets

len(v) == Cardinality(DOMAIN v)
range(n) == 0 .. n - 1
Index(v) == range(len(v))

\* The loop "for j in range(n): acc = acc + f[j]" in 32 bits.
Sum32(f, n) ==
  LET acc[j \in 0 .. n] == IF j = 0 THEN 0 ELSE int32_add(acc[j - 1], f[j - 1])
  IN acc[n]

Largest(S) == CHOOSE x \in S : \A y \in S : y <= x

-----------------------------------------------------------------------------
(* softmax.py                                                              *)

NoRow == -1                     \* row_idx=None: no causal mask

EXP_LUT == [i \in range(256) |-> IF i = 255 THEN 256 ELSE 1 + i]
RECIP_LUT == [i \in range(256) |-> IF i = 0 THEN 65535 ELSE 65535 \div i]

\* Mutant of compute_exp: the table is addressed without the wrap to 8 bits
\* and the lower clamp one entry late.
compute_exp_Late(x, max_x) ==
  LET diff == int16(x - max_x)
  IN EXP_LUT[IF diff < -2047 THEN 0 ELSE ((diff + 2040) \div 8) % 256]

compute_exp(x, max_x) ==
  LET diff == int16(x - max_x)
      lut_addr == IF diff <= -2040 THEN 0 ELSE (diff + 2040) \div 8
  IN EXP_LUT[lut_addr % 256]

normalize(exp_val, exp_sum) ==
  LET byte2 == (exp_sum \div 65536) % 256
      byte1 == (exp_sum \div 256) % 256
      byte0 == exp_sum % 256
      product(addr) == exp_val * RECIP_LUT[addr]
      scaled == CASE byte2 # 0 -> product(byte2) \div 65536
                  [] byte2 = 0 /\ byte1 # 0 -> product(byte1) \div 256
                  [] OTHER -> product(IF byte0 # 0 THEN byte0 ELSE 1)
  IN IF scaled > 65535 THEN 65535 ELSE scaled

scale(input_vec, scale_shift) ==
  [j \in Index(input_vec) |->
     int16(arithmetic_right_shift(int16(input_vec[j]), scale_shift))]

Masked(row_idx, j) == row_idx # NoRow /\ j > row_idx

max_val(scaled, row_idx) ==
  Largest({-32768} \cup {scaled[j] : j \in {k \in Index(scaled) : ~Masked(row_idx, k)}})

softmax_golden(input_vec, scale_shift, row_idx) ==
  LET scaled == scale(input_vec, scale_shift)
      max == max_val(scaled, row_idx)
      exp_buffer == [j \in Index(scaled) |->
                       IF Masked(row_idx, j) THEN 0 ELSE compute_exp(scaled[j], max)]
      exp_sum == Sum32(exp_buffer, len(scaled))
  IN [j \in Index(scaled) |-> normalize(exp_buffer[j], exp_sum)]

-----------------------------------------------------------------------------
(* layernorm.py                                                            *)

RSQRT_LUT == [i \in range(256) |-> IF i = 0 THEN 65535 ELSE (256 * 16) \div i]

DIM_SHIFT(dim) ==
  IF dim \in {4, 8, 16, 32, 64, 128, 256, 512, 1024}
    THEN CHOOSE s \in 2 .. 10 : 2^s = dim ELSE 8

divide_by_dim(val, dim) == arithmetic_right_shift(val, DIM_SHIFT(dim))

compute_rsqrt(var_in) ==
  RSQRT_LUT[CASE uint32_lt(var_in, 8) -> 1
              [] uint32_lt(65535, var_in) -> 255
              [] OTHER -> var_in \div 256]

\* int32(centered * inv_std) >> 8 keeps bits 8 to 31 of the product.
normalize_elem(x, mean, inv_std, gamma, beta) ==
  LET normalized == Wrap(mul_shift8(int16(x) - mean, inv_std), 24)
      scaled == (normalized * int8(gamma)) \div 128
  IN uint16(saturate_int16(scaled + int8(beta)))

compute_sq_diff(x, mean) == square32(int16(x) - mean)

layernorm_golden(input_vec, gamma_vec, beta_vec, dim) ==
  LET mean == divide_by_dim(Sum32([i \in range(dim) |-> int16(input_vec[i])], dim), dim)
      var_sum == Sum32([i \in range(dim) |-> compute_sq_diff(input_vec[i], mean)], dim)
      inv_std == compute_rsqrt(int32_add(divide_by_dim(var_sum, dim), 1))
  IN [i \in range(dim) |->
        normalize_elem(input_vec[i], mean, inv_std, gamma_vec[i], beta_vec[i])]

-----------------------------------------------------------------------------
(* residual_add.py, activation.py, matmul_engine.py                        *)

saturating_add(a, b) == saturate_int16(int16(a) + int16(b))

residual_add_golden(residual_vec, sublayer_vec) ==
  [i \in Index(residual_vec) |-> saturating_add(residual_vec[i], sublayer_vec[i])]

relu_golden(x) == IF x > 0 THEN x ELSE 0

Matrix(rows, cols, Elem(_, _)) ==
  [i \in range(rows) |-> [j \in range(cols) |-> Elem(i, j)]]

\* tile_size plays no part: the product is summed over the whole k dimension.
matmul_golden(mat_a, mat_b) ==
  LET k_dim == len(mat_a[0])
      acc(i, j) == Sum32([k \in range(k_dim) |-> int16(mat_a[i][k]) * int16(mat_b[k][j])],
                         k_dim)
  IN Matrix(len(mat_a), len(mat_b[0]), LAMBDA i, j : saturate_int16(acc(i, j)))
-----------------------------------------------------------------------------
(* Helpers the forward passes share.                                       *)

Rows(mat) == len(mat)
Cols(mat) == len(mat[0])
transpose(mat) == Matrix(Cols(mat), Rows(mat), LAMBDA i, j : mat[j][i])

AddRows(residual, sublayer) ==
  [t \in DOMAIN residual |-> residual_add_golden(residual[t], sublayer[t])]
=============================================================================
