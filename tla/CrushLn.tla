------------------------------ MODULE CrushLn -------------------------------
(***************************************************************************)
(* crush_ln of include/rseudo_random_number.h: the logarithm of a 16-bit   *)
(* hash, in fixed point, from two tables.  2^44 times the logarithm to the *)
(* base 2 of xin + 1 is what it approximates.                              *)
(*                                                                         *)
(* Numbers of up to 49 bits are pairs of an upper part and 24 lower bits,  *)
(* products are formed in digits of 12 bits.                               *)
(***************************************************************************)
EXTENDS Integers, Sequences, SequencesExt, CrushLnTable

Low == 2 ^ 24

Plus(m, n) ==
  <<m[1] + n[1] + (m[2] + n[2]) \div Low, (m[2] + n[2]) % Low>>
AtMost(m, n) == m[1] < n[1] \/ (m[1] = n[1] /\ m[2] <= n[2])

(* n >> s, for s up to 24. *)
ShiftRight(n, s) ==
  <<n[1] \div 2 ^ s, (n[1] % 2 ^ s) * 2 ^ (24 - s) + n[2] \div 2 ^ s>>

(* The digits of a number, the lowest first. *)
Digits(n) ==
  <<n[2] % 4096, n[2] \div 4096, n[1] % 4096, n[1] \div 4096>>

(* (x * n) >> 48, carried from digit to digit. *)
ProductAbove48(x, n) ==
  FoldLeft(LAMBDA carry, d : (carry + x * d) \div 4096, 0, Digits(n))

(* The number of leading zeros of x in 16 bits. *)
LeadingZeros(x) ==
  IF x >= 2 ^ 15 THEN 0 ELSE CHOOSE b \in 1 .. 15 : x * 2 ^ b \in 2 ^ 15 .. 2 ^ 16 - 1

(* x++ and the shift that brings x to at least 2^15. *)
Normalize(u) ==
  LET bits == LeadingZeros(u + 1)
  IN  [x |-> (u + 1) * 2 ^ bits, iexpon |-> 15 - bits]

(* The first table has two columns: (x >> 8) << 1, less 256, is even. *)
Index1(x) == 2 * (x \div 256) - 256

(* Bug: the low bits are those of x, without the division by its high ones. *)
BugIndex2(x) == x % 256
Index2(x) == ProductAbove48(x, RH_LH_tbl[Index1(x) + 1]) % 256

crush_ln(u) ==
  LET n == Normalize(u)
      LH == Plus(RH_LH_tbl[Index1(n.x) + 2], LL_tbl[Index2(n.x) + 1])
  IN  Plus(<<n.iexpon * 2 ^ 20, 0>>, ShiftRight(LH, 4))
=============================================================================
