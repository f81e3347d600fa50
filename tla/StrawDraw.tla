----------------------------- MODULE StrawDraw ------------------------------
(***************************************************************************)
(* The straws of a straw2 bucket: generate_exponential_distribution and    *)
(* bucket_straw2_choose, with the arithmetic of the code.  A weight is a   *)
(* number as in CrushLn, of 32 bits; a draw has a sign, so that its upper  *)
(* part may be negative.                                                   *)
(***************************************************************************)
EXTENDS CrushLn

Zero == <<0, 0>>
Negated(n) == IF n[2] = 0 THEN <<-n[1], 0>> ELSE <<-n[1] - 1, Low - n[2]>>
Difference(m, n) == Plus(m, Negated(n))

Times(n, d) == Plus(<<d * n[1], d * n[2]>>, Zero)

(* A number below 2^52 by its digits to the base 16, the highest first. *)
HexDigits(n) ==
  [k \in 1 .. 13 |-> IF k <= 7 THEN (n[1] \div 16 ^ (7 - k)) % 16
                              ELSE (n[2] \div 16 ^ (13 - k)) % 16]

(* m \div n, digit by digit: what a further digit makes of the quotient    *)
(* and the remainder.                                                      *)
NextDigit(sofar, digit, n) ==
  LET rem == Plus(Times(sofar.rem, 16), <<0, digit>>)
      d == CHOOSE d \in 0 .. 15 : AtMost(Times(n, d), rem) /\ ~AtMost(Times(n, d + 1), rem)
  IN  [quot |-> Plus(Times(sofar.quot, 16), <<0, d>>),
       rem |-> Difference(rem, Times(n, d))]

Division(m, n) ==
  LET f[k \in 0 .. 13] == IF k = 0 THEN [quot |-> Zero, rem |-> Zero]
                          ELSE NextDigit(f[k - 1], HexDigits(m)[k], n)
  IN  f

Quotient(m, n) == Division(m, n)[13].quot

(* The parameter weight is an int: the upper half of the 32-bit numbers    *)
(* becomes negative.                                                       *)
AsInt(weight) == IF weight[1] >= 128 THEN Difference(weight, <<256, 0>>) ELSE weight

(* The logarithm of a hash is below 2^48: 64 bits hold the difference, and *)
(* it is negative.                                                         *)
IsBelow48(ln) == ln \in (0 .. Low - 1) \X (0 .. Low - 1)

(* The logarithm, less 2^48, divided by the weight; C truncates towards 0. *)
(* hash is the lower half of crush_hash32_3.                               *)
generate_exponential_distribution(hash, weight) ==
  LET ln == Difference(<<Low, 0>>, crush_ln(hash))
      divisor == AsInt(weight)
  IN  IF divisor[1] >= 0 THEN Negated(Quotient(ln, divisor))
                         ELSE Quotient(ln, Negated(divisor))

(* Below every draw that is divided by a weight. *)
S64_MIN == <<-(2 ^ 30), 0>>

(* Bug: a weightless item draws the number 0. *)
BugStraw(hash, weight) ==
  IF weight # Zero THEN generate_exponential_distribution(hash, weight) ELSE Zero

Straw(hash, weight) ==
  IF weight # Zero THEN generate_exponential_distribution(hash, weight) ELSE S64_MIN

(* bucket_straw2_choose: the first of the highest draws. *)
Highest(draws) ==
  CHOOSE i \in DOMAIN draws :
    /\ \A j \in DOMAIN draws : AtMost(draws[j], draws[i])
    /\ \A j \in 1 .. i - 1 : ~AtMost(draws[i], draws[j])
=============================================================================
