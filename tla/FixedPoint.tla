------------------------------ MODULE FixedPoint ------------------------------
(***************************************************************************)
(* The fixed-point helpers of verify/golden/common.py and the conversion   *)
(* of verify/hex_utils.py.  A 32-bit register is the signed integer with   *)
(* its bits: TLC's integers have 32 bits themselves, so sums and products  *)
(* that leave them are computed modulo 2^32 from parts that do not.        *)
(***************************************************************************)
EXTENDS Integers

clamp(val, lo, hi) == IF val < lo THEN lo ELSE IF val > hi THEN hi ELSE val

\* The signed value of the low w bits of val.
Wrap(val, w) == LET low == val % 2^w
                IN IF low >= 2^(w - 1) THEN low - 2^w ELSE low

int8(val) == Wrap(val, 8)
int16(val) == Wrap(val, 16)
uint16(val) == val % 2^16                 \* val & 0xFFFF
uint8(val) == val % 2^8                   \* val & 0xFF

saturate_int16(val) == clamp(val, -32768, 32767)
saturate_int8(val) == clamp(val, -128, 127)

arithmetic_right_shift(val, shift) == val \div 2^shift

MaxInt32 == 2147483647
MinInt32 == -2147483647 - 1

\* int32(a + b) and, bit for bit, uint32(a + b).
int32_add(a, b) ==
  CASE a >= 0 /\ b > MaxInt32 - a -> (a + MinInt32) + (b + MinInt32)
    [] a < 0 /\ b < MinInt32 - a -> (a - MinInt32) + (b - MinInt32)
    [] OTHER -> a + b

\* The low 32 bits of d * d, for a difference d of 17 bits.
square32(d) ==
  LET n == IF d < 0 THEN -d ELSE d
      h == n \div 256
      l == n % 256
  IN int32_add(int16(h * h) * 65536, 512 * h * l + l * l)

\* (c * y) >> 8 without losing a bit, for c of 17 and y of 16 unsigned bits.
mul_shift8(c, y) == c * (y \div 256) + ((c * (y % 256)) \div 256)

\* Comparisons of the registers read as unsigned.
uint32_lt(a, b) == IF (a < 0) = (b < 0) THEN a < b ELSE b < 0

-----------------------------------------------------------------------------
(* Hexadecimal files: a value of width bits is written as its two's        *)
(* complement and read back as signed.  The text is the unsigned number.   *)

to_hex(val, width) == val % 2^width
from_hex(s, width) == IF s >= 2^(width - 1) THEN s - 2^width ELSE s

write_hex_file(values, width) == [i \in DOMAIN values |-> to_hex(values[i], width)]
read_hex_file(file, width) == [i \in DOMAIN file |-> from_hex(file[i], width)]
=============================================================================
