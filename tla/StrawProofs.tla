----------------------------- MODULE StrawProofs -----------------------------
(***************************************************************************)
(* Theorems about Straw2: the arithmetic of a draw for all operands, and   *)
(* what the draws of a bucket promise for any items, weights and hashes.   *)
(***************************************************************************)
EXTENDS Straw2, Induction, SequenceTheorems, TLAPS

-----------------------------------------------------------------------------
(* Numbers of two parts                                                    *)

Val(n) == n[1] * 16777216 + n[2]

IsNumber(n) == n[1] \in Int /\ n[2] \in Nat /\ n[2] < 16777216

(* 13 digits to the base 16 are enough. *)
Fits52(n) == IsNumber(n) /\ 0 <= n[1] /\ n[1] < 268435456

LEMMA LowValue == Low = 16777216
  BY DEF Low

LEMMA LowInt == Low \in Int
  BY LowValue, SMT

LEMMA OrderedByValue ==
  ASSUME NEW m, IsNumber(m), NEW n, IsNumber(n)
  PROVE  /\ AtMost(m, n) <=> Val(m) <= Val(n)
         /\ Val(m) \in Int /\ Val(n) \in Int
<1>1. PICK a, b, c, d \in Int : /\ a = m[1] /\ b = m[2] /\ c = n[1] /\ d = n[2]
                                /\ 0 <= b /\ b < 16777216 /\ 0 <= d /\ d < 16777216
  BY SMT DEF IsNumber
<1>2. CASE a < c
  BY <1>1, <1>2, SMT DEF AtMost, Val
<1>3. CASE a = c
  BY <1>1, <1>3, SMT DEF AtMost, Val
<1>4. CASE a > c
  BY <1>1, <1>4, SMT DEF AtMost, Val
<1> QED
  BY <1>1, <1>2, <1>3, <1>4, SMT

LEMMA SumValue ==
  ASSUME NEW m, m[1] \in Int, m[2] \in Int, NEW n, n[1] \in Int, n[2] \in Int
  PROVE  IsNumber(Plus(m, n)) /\ Val(Plus(m, n)) = Val(m) + Val(n)
<1>1. PICK a, b, c, d, x \in Int : /\ a = m[1] /\ b = m[2] /\ c = n[1] /\ d = n[2]
                                   /\ x = b + d
  BY SMT
<1>2. PICK q, r \in Int : q = x \div 16777216 /\ r = x % 16777216
  BY <1>1, SMT
<1>3. r \in Nat /\ r < 16777216 /\ q * 16777216 + r = x
  BY <1>2, SMT
<1>4. Plus(m, n)[1] = a + c + q /\ Plus(m, n)[2] = r
  BY <1>1, <1>2, LowValue, SMT DEF Plus
<1>5. IsNumber(Plus(m, n))
  BY <1>3, <1>4, SMT DEF IsNumber
<1>6. /\ Val(m) = a * 16777216 + b /\ Val(n) = c * 16777216 + d
      /\ Val(Plus(m, n)) = (a + c + q) * 16777216 + r
  BY <1>1, <1>4 DEF Val
<1>7. (a + c + q) * 16777216 + r = (a * 16777216 + b) + (c * 16777216 + d)
  BY <1>1, <1>3, SMT
<1> QED
  BY <1>5, <1>6, <1>7

LEMMA NumbersAdd ==
  ASSUME NEW m, IsNumber(m), NEW n, IsNumber(n)
  PROVE  IsNumber(Plus(m, n)) /\ Val(Plus(m, n)) = Val(m) + Val(n)
  BY SumValue DEF IsNumber

LEMMA NegatedValue ==
  ASSUME NEW n, IsNumber(n)
  PROVE  IsNumber(Negated(n)) /\ Val(Negated(n)) = -Val(n)
  BY LowValue DEF IsNumber, Negated, Val

LEMMA DifferenceValue ==
  ASSUME NEW m, IsNumber(m), NEW n, IsNumber(n)
  PROVE  IsNumber(Difference(m, n)) /\ Val(Difference(m, n)) = Val(m) - Val(n)
<1>1. IsNumber(Negated(n)) /\ Val(Negated(n)) = -Val(n) /\ Val(n) \in Int /\ Val(m) \in Int
  BY NegatedValue DEF IsNumber, Val
<1>2. IsNumber(Plus(m, Negated(n))) /\ Val(Plus(m, Negated(n))) = Val(m) + Val(Negated(n))
  BY <1>1, SumValue DEF IsNumber
<1> QED
  BY <1>1, <1>2 DEF Difference

LEMMA TimesValue ==
  ASSUME NEW n, IsNumber(n), NEW d \in Int
  PROVE  IsNumber(Times(n, d)) /\ Val(Times(n, d)) = d * Val(n)
<1> DEFINE m == <<d * n[1], d * n[2]>>
<1>1. m[1] \in Int /\ m[2] \in Int /\ Zero[1] = 0 /\ Zero[2] = 0 /\ n[1] \in Int /\ n[2] \in Int
  BY DEF IsNumber, Zero
<1>2. IsNumber(Plus(m, Zero)) /\ Val(Plus(m, Zero)) = Val(m) + Val(Zero)
  BY <1>1, SumValue
<1>3. Val(Zero) = 0
  BY <1>1 DEF Val
<1>4. Val(m) = d * Val(n)
  <2>1. PICK a \in Int, b \in Int : a = n[1] /\ b = n[2]
    BY <1>1
  <2>2. (d * a) * 16777216 + d * b = d * (a * 16777216 + b)
    BY <2>1
  <2>3. m[1] = d * a /\ m[2] = d * b
    BY <2>1
  <2> QED
    BY <2>1, <2>2, <2>3 DEF Val
<1>5. Val(m) \in Int
  BY <1>1 DEF Val
<1> QED
  BY <1>2, <1>3, <1>4, <1>5 DEF Times

-----------------------------------------------------------------------------
(* Division                                                                *)

(* The number that the first k digits make. *)
Prefix(m, k) ==
  IF k <= 7 THEN m[1] \div 16 ^ (7 - k)
            ELSE m[1] * 16 ^ (k - 7) + (m[2] \div 16 ^ (13 - k))

Sixteens == {1, 16, 256, 4096, 65536, 1048576, 16777216}

LEMMA SixteenPowers ==
  \A e \in 0 .. 6 : 16 ^ e \in Sixteens /\ 16 ^ e \in Int /\ 16 ^ (e + 1) = 16 * 16 ^ e
<1>1. /\ 16 ^ 0 = 1 /\ 16 ^ 1 = 16 /\ 16 ^ 2 = 256 /\ 16 ^ 3 = 4096 /\ 16 ^ 4 = 65536
      /\ 16 ^ 5 = 1048576 /\ 16 ^ 6 = 16777216 /\ 16 ^ 7 = 268435456
  BY SMT
<1> TAKE e \in 0 .. 6
<1>2. CASE e = 0
  BY <1>1, <1>2, SMT DEF Sixteens
<1>3. CASE e = 1
  BY <1>1, <1>3, SMT DEF Sixteens
<1>4. CASE e = 2
  BY <1>1, <1>4, SMT DEF Sixteens
<1>5. CASE e = 3
  BY <1>1, <1>5, SMT DEF Sixteens
<1>6. CASE e = 4
  BY <1>1, <1>6, SMT DEF Sixteens
<1>7. CASE e = 5
  BY <1>1, <1>7, SMT DEF Sixteens
<1>8. CASE e = 6
  BY <1>1, <1>8, SMT DEF Sixteens
<1> QED
  BY <1>2, <1>3, <1>4, <1>5, <1>6, <1>7, <1>8, SMT

LEMMA NextDigitOf ==
  ASSUME NEW a \in Int, NEW p \in Sixteens
  PROVE  /\ (a \div p) \in Int /\ (a \div (16 * p)) \in Int
         /\ ((a \div p) % 16) \in 0 .. 15
         /\ a \div p = 16 * (a \div (16 * p)) + ((a \div p) % 16)
<1>1. CASE p = 1
  BY <1>1, SMT
<1>2. CASE p = 16
  BY <1>2, SMT
<1>3. CASE p = 256
  BY <1>3, SMT
<1>4. CASE p = 4096
  BY <1>4, SMT
<1>5. CASE p = 65536
  BY <1>5, SMT
<1>6. CASE p = 1048576
  BY <1>6, SMT
<1>7. CASE p = 16777216
  BY <1>7, SMT
<1> QED
  BY <1>1, <1>2, <1>3, <1>4, <1>5, <1>6, <1>7, SMT DEF Sixteens

LEMMA NextPrefix ==
  ASSUME NEW m, IsNumber(m), NEW k \in 1 .. 13
  PROVE  /\ HexDigits(m)[k] \in 0 .. 15
         /\ Prefix(m, k - 1) \in Int /\ Prefix(m, k) \in Int
         /\ Prefix(m, k) = 16 * Prefix(m, k - 1) + HexDigits(m)[k]
<1>1. PICK a, b \in Int : a = m[1] /\ b = m[2]
  BY SMT DEF IsNumber
<1>2. 0 <= b /\ b < 16777216
  BY <1>1, SMT DEF IsNumber
<1>3. CASE k <= 7
  <2>1. PICK e \in 0 .. 6 : e = 7 - k
    BY <1>3, SMT
  <2>2. PICK p \in Sixteens : p = 16 ^ e /\ 16 ^ (e + 1) = 16 * p
    BY SixteenPowers
  <2>3. e + 1 = 7 - (k - 1) /\ k - 1 <= 7
    BY <1>3, <2>1, SMT
  <2>4. HexDigits(m)[k] = (a \div p) % 16
    BY <1>1, <1>3, <2>1, <2>2 DEF HexDigits
  <2>5. Prefix(m, k) = a \div p /\ Prefix(m, k - 1) = a \div (16 * p)
    BY <1>1, <1>3, <2>1, <2>2, <2>3 DEF Prefix
  <2>6. /\ ((a \div p) % 16) \in 0 .. 15 /\ (a \div p) \in Int /\ (a \div (16 * p)) \in Int
        /\ a \div p = 16 * (a \div (16 * p)) + ((a \div p) % 16)
    BY NextDigitOf
  <2> QED
    BY <2>4, <2>5, <2>6
<1>4. CASE k >= 8
  <2>1. PICK e \in 0 .. 6 : e = 13 - k
    BY <1>4, SMT
  <2>2. PICK p \in Sixteens : p = 16 ^ e /\ 16 ^ (e + 1) = 16 * p
    BY SixteenPowers
  <2>3. HexDigits(m)[k] = (b \div p) % 16
    BY <1>1, <1>4, <2>1, <2>2 DEF HexDigits
  <2>4. /\ ((b \div p) % 16) \in 0 .. 15 /\ (b \div p) \in Int /\ (b \div (16 * p)) \in Int
        /\ b \div p = 16 * (b \div (16 * p)) + ((b \div p) % 16)
    BY NextDigitOf
  <2>5. CASE k = 8
    <3>1. p = 1048576
      BY <2>1, <2>2, <2>5, SMT
    <3>2. 16 ^ 0 = 1 /\ 16 ^ 1 = 16
      BY SMT
    <3>3. Prefix(m, k) = 16 * a + (b \div p)
      BY <1>1, <2>1, <2>2, <2>5, <3>2, SMT DEF Prefix
    <3>4. Prefix(m, k - 1) = a
      BY <1>1, <2>5, <3>2, SMT DEF Prefix
    <3>5. b \div (16 * p) = 0
      BY <1>2, <3>1, SMT
    <3> QED
      BY <1>1, <2>3, <2>4, <3>3, <3>4, <3>5
  <2>6. CASE k >= 9
    <3>1. PICK f \in 0 .. 6 : f = k - 8
      BY <2>6, SMT
    <3>2. PICK g \in Int : g = 16 ^ f /\ 16 ^ (f + 1) = 16 * g
      BY <3>1, SixteenPowers
    <3>3. f + 1 = k - 7 /\ f = (k - 1) - 7 /\ e + 1 = 13 - (k - 1) /\ ~(k <= 7) /\ ~(k - 1 <= 7)
      BY <2>1, <2>6, <3>1, SMT
    <3>4. PICK h \in Int : h = a * g
      BY <1>1, <3>2, SMT
    <3>5. /\ Prefix(m, k) = a * (16 * g) + (b \div p)
          /\ Prefix(m, k - 1) = a * g + (b \div (16 * p))
      BY <1>1, <2>1, <2>2, <3>1, <3>2, <3>3, Zenon DEF Prefix
    <3>6. a * (16 * g) = 16 * h
      BY <1>1, <3>2, <3>4, SMT
    <3>7. PICK y, z \in Int : y = b \div p /\ z = b \div (16 * p)
      BY <2>4, Zenon
    <3>8. PICK digit \in 0 .. 15 : digit = (b \div p) % 16
      BY <2>4, Zenon
    <3>9. y = 16 * z + digit /\ Prefix(m, k) = 16 * h + y /\ Prefix(m, k - 1) = h + z
      BY <2>4, <3>4, <3>5, <3>6, <3>7, <3>8, Zenon
    <3>10. digit \in 0 .. 15 /\ HexDigits(m)[k] = digit
      BY <2>3, <2>4, <3>8, Zenon
    <3>11. h + z \in Int /\ 16 * h + y \in Int /\ 16 * h + y = 16 * (h + z) + digit
      BY <3>9, SMT
    <3> QED
      BY <3>9, <3>10, <3>11, Zenon
  <2> QED
    BY <1>4, <2>5, <2>6, SMT
<1> QED
  BY <1>3, <1>4, SMT

LEMMA FirstPrefix ==
  ASSUME NEW m, IsNumber(m)
  PROVE  /\ Fits52(m) => Prefix(m, 0) = 0
         /\ Prefix(m, 13) = Val(m)
<1>1. PICK a, b \in Int : a = m[1] /\ b = m[2]
  BY SMT DEF IsNumber
<1>2. 16 ^ 7 = 268435456 /\ 16 ^ 6 = 16777216 /\ 16 ^ 0 = 1
  BY SMT
<1>3. Prefix(m, 0) = a \div 268435456
  BY <1>1, <1>2, SMT DEF Prefix
<1>4. Prefix(m, 13) = a * 16777216 + (b \div 1)
  BY <1>1, <1>2, SMT DEF Prefix
<1> QED
  BY <1>1, <1>3, <1>4, SMT DEF Val, Fits52

(* What is known of a quotient and a remainder on the way. *)
IsPartial(sofar, n) ==
  /\ IsNumber(sofar.quot) /\ IsNumber(sofar.rem)
  /\ 0 <= Val(sofar.rem) /\ Val(sofar.rem) < Val(n)

LEMMA NextDigitValue ==
  ASSUME NEW sofar, NEW n, IsNumber(n), IsPartial(sofar, n), NEW digit \in 0 .. 15
  PROVE  /\ IsPartial(NextDigit(sofar, digit, n), n)
         /\ \E d \in 0 .. 15 :
              /\ Val(NextDigit(sofar, digit, n).quot) = 16 * Val(sofar.quot) + d
              /\ 16 * Val(sofar.rem) + digit
                   = d * Val(n) + Val(NextDigit(sofar, digit, n).rem)
<1>1. PICK q, r : /\ q = sofar.quot /\ r = sofar.rem /\ IsNumber(q) /\ IsNumber(r)
                  /\ 0 <= Val(r) /\ Val(r) < Val(n)
  BY Zenon DEF IsPartial
<1> DEFINE rem == Plus(Times(r, 16), <<0, digit>>)
           Fits(d) == AtMost(Times(n, d), rem) /\ ~AtMost(Times(n, d + 1), rem)
           d == CHOOSE d \in 0 .. 15 : Fits(d)
           q2 == Plus(Times(q, 16), <<0, d>>)
           r2 == Difference(rem, Times(n, d))
<1>2. NextDigit(sofar, digit, n).quot = q2 /\ NextDigit(sofar, digit, n).rem = r2
  BY <1>1 DEF NextDigit
<1>3. PICK Q, R, N \in Int : /\ Q = Val(q) /\ R = Val(r) /\ N = Val(n)
                             /\ 0 <= R /\ R < N
  BY <1>1, OrderedByValue
<1>4. \A c \in 0 .. 15 : IsNumber(<<0, c>>) /\ Val(<<0, c>>) = c
  BY SMT DEF IsNumber, Val
<1>5. IsNumber(rem) /\ Val(rem) = 16 * R + digit
  <2>1. IsNumber(Times(r, 16)) /\ Val(Times(r, 16)) = 16 * R
    <3>1. PICK s \in Int : s = 16
      BY SMT
    <3>2. IsNumber(Times(r, s)) /\ Val(Times(r, s)) = s * R
      BY <1>1, <1>3, TimesValue
    <3> QED
      BY <3>1, <3>2
  <2>2. IsNumber(<<0, digit>>) /\ Val(<<0, digit>>) = digit
    BY <1>4
  <2> QED
    BY <2>1, <2>2, NumbersAdd
<1>6. \A c \in Int : IsNumber(Times(n, c)) /\ Val(Times(n, c)) = c * N
  BY <1>1, <1>3, TimesValue
<1> HIDE DEF rem
<1>7. \A c \in 0 .. 15 : Fits(c) <=> c * N <= 16 * R + digit /\ 16 * R + digit < (c + 1) * N
  <2> TAKE c \in 0 .. 15
  <2>1. PICK c1 \in Int : c1 = c + 1 /\ c \in Int
    BY SMT
  <2>2. /\ IsNumber(Times(n, c)) /\ Val(Times(n, c)) = c * N
        /\ IsNumber(Times(n, c1)) /\ Val(Times(n, c1)) = c1 * N
    BY <1>6, <2>1
  <2>3. /\ AtMost(Times(n, c), rem) <=> c * N <= 16 * R + digit
        /\ AtMost(Times(n, c1), rem) <=> c1 * N <= 16 * R + digit
    BY <1>5, <2>2, OrderedByValue
  <2>4. c1 * N \in Int
    BY <2>1, SMT
  <2>5. Fits(c) <=> AtMost(Times(n, c), rem) /\ ~AtMost(Times(n, c1), rem)
    BY <2>1, Zenon
  <2>6. PICK x, y, z \in Int : x = c * N /\ y = c1 * N /\ z = 16 * R + digit
    BY <2>1, SMT
  <2> QED
    BY <2>1, <2>3, <2>5, <2>6
<1>8. \E c \in 0 .. 15 : c * N <= 16 * R + digit /\ 16 * R + digit < (c + 1) * N
  <2>1. PICK x \in Int : x = 16 * R + digit
    BY SMT
  <2>2. 0 <= x /\ x < 16 * N
    BY <1>3, <2>1, SMT
  <2>3. \E c \in {0, 1, 2, 3, 4, 5, 6, 7, 8, 9, 10, 11, 12, 13, 14, 15} :
          c * N <= x /\ x < (c + 1) * N
    BY <2>2, SMT
  <2> QED
    BY <2>1, <2>3, SMT
<1> HIDE DEF Fits
<1>9. d \in 0 .. 15 /\ Fits(d)
  BY <1>7, <1>8, Zenon
<1> HIDE DEF d
<1>10. PICK e \in 0 .. 15 : /\ e = d /\ e \in Int
                           /\ e * N <= 16 * R + digit /\ 16 * R + digit < (e + 1) * N
  BY <1>7, <1>9
<1>11. IsNumber(q2) /\ Val(q2) = 16 * Q + e
  <2>1. IsNumber(Times(q, 16)) /\ Val(Times(q, 16)) = 16 * Q
    <3>1. PICK s \in Int : s = 16
      BY SMT
    <3>2. IsNumber(Times(q, s)) /\ Val(Times(q, s)) = s * Q
      BY <1>1, <1>3, TimesValue
    <3> QED
      BY <3>1, <3>2
  <2>2. IsNumber(<<0, e>>) /\ Val(<<0, e>>) = e
    BY <1>4
  <2> QED
    BY <1>10, <2>1, <2>2, NumbersAdd
<1>12. IsNumber(r2) /\ Val(r2) = (16 * R + digit) - e * N
  <2>1. IsNumber(Times(n, e)) /\ Val(Times(n, e)) = e * N
    BY <1>6, <1>10
  <2> QED
    BY <1>5, <1>10, <2>1, DifferenceValue
<1> HIDE DEF q2, r2
<1>13. PICK Q2, R2 \in Int : Q2 = Val(q2) /\ R2 = Val(r2)
  BY <1>11, <1>12, OrderedByValue
<1>14. 0 <= R2 /\ R2 < N /\ Q2 = 16 * Q + e /\ 16 * R + digit = e * N + R2
  <2>1. PICK y \in Int : y = e * N /\ (e + 1) * N = y + N
    BY <1>10, SMT
  <2> QED
    BY <1>10, <1>11, <1>12, <1>13, <2>1, SMT
<1> QED
  BY <1>1, <1>2, <1>3, <1>10, <1>11, <1>12, <1>13, <1>14, Zenon DEF IsPartial

(* The recursion of Division up to digit k. *)
Start(m, n, g, k) ==
  g = [j \in 0 .. k |-> IF j = 0 THEN [quot |-> Zero, rem |-> Zero]
                        ELSE NextDigit(g[j - 1], HexDigits(m)[j], n)]

LEMMA DivisionDefined ==
  ASSUME NEW m, NEW n
  PROVE  /\ Division(m, n)[0] = [quot |-> Zero, rem |-> Zero]
         /\ \A k \in 1 .. 13 :
              Division(m, n)[k] = NextDigit(Division(m, n)[k - 1], HexDigits(m)[k], n)
<1> DEFINE S == {k \in Nat : \E g : Start(m, n, g, k)}
<1>1. 0 \in S
  <2> DEFINE g == [j \in 0 .. 0 |-> [quot |-> Zero, rem |-> Zero]]
  <2>1. g = [j \in 0 .. 0 |-> IF j = 0 THEN [quot |-> Zero, rem |-> Zero]
                              ELSE NextDigit(g[j - 1], HexDigits(m)[j], n)]
    OBVIOUS
  <2>2. Start(m, n, g, 0)
    BY <2>1 DEF Start
  <2> QED
    BY <2>2
<1>2. ASSUME NEW k \in Nat, k \in S
      PROVE  k + 1 \in S
  <2>1. PICK g : Start(m, n, g, k)
    BY <1>2
  <2> DEFINE h == [j \in 0 .. k + 1 |-> IF j <= k THEN g[j]
                                        ELSE NextDigit(g[k], HexDigits(m)[k + 1], n)]
  <2>2. \A j \in 0 .. k + 1 :
          h[j] = IF j = 0 THEN [quot |-> Zero, rem |-> Zero]
                 ELSE NextDigit(h[j - 1], HexDigits(m)[j], n)
    <3> TAKE j \in 0 .. k + 1
    <3>1. CASE j = 0
      BY <2>1, <3>1 DEF Start
    <3>2. CASE j \in 1 .. k
      <4>1. /\ j \in 0 .. k /\ j - 1 \in 0 .. k /\ j # 0
            /\ j - 1 <= k /\ j <= k /\ j - 1 \in 0 .. k + 1
        BY <3>2
      <4>2. g[j] = NextDigit(g[j - 1], HexDigits(m)[j], n)
        BY <2>1, <4>1 DEF Start
      <4> QED
        BY <4>1, <4>2
    <3>3. CASE j = k + 1
      <4>1. ~(j <= k) /\ j - 1 = k /\ j - 1 \in 0 .. k + 1 /\ k <= k /\ j # 0
        BY <3>3
      <4> QED
        BY <3>3, <4>1
    <3> QED
      BY <3>1, <3>2, <3>3
  <2>3. h = [j \in 0 .. k + 1 |-> IF j = 0 THEN [quot |-> Zero, rem |-> Zero]
                                  ELSE NextDigit(h[j - 1], HexDigits(m)[j], n)]
    BY <2>2, Zenon
  <2>4. Start(m, n, h, k + 1)
    BY <2>3 DEF Start
  <2> QED
    BY <2>4
<1>3. 13 \in S
  <2> HIDE DEF S
  <2>1. Nat \subseteq S
    BY <1>1, <1>2, NumberInduction
  <2> QED
    BY <2>1
<1>4. \E g : g = [k \in 0 .. 13 |-> IF k = 0 THEN [quot |-> Zero, rem |-> Zero]
                                    ELSE NextDigit(g[k - 1], HexDigits(m)[k], n)]
  BY <1>3 DEF Start
<1>5. Division(m, n) =
        CHOOSE g : g = [k \in 0 .. 13 |-> IF k = 0 THEN [quot |-> Zero, rem |-> Zero]
                                          ELSE NextDigit(g[k - 1], HexDigits(m)[k], n)]
  BY DEF Division
<1>6. PICK f : /\ f = Division(m, n)
               /\ f = [k \in 0 .. 13 |-> IF k = 0 THEN [quot |-> Zero, rem |-> Zero]
                                         ELSE NextDigit(f[k - 1], HexDigits(m)[k], n)]
  BY <1>4, <1>5, Zenon
<1>7. 0 \in 0 .. 13 /\ \A k \in 1 .. 13 : k \in 0 .. 13 /\ k # 0
  OBVIOUS
<1> QED
  BY <1>6, <1>7, Zenon

(* Dividing digit by digit, as Quotient does in the place of div64_s64, is *)
(* the division of all dividends below 2^52 by all positive divisors.      *)
THEOREM QuotientValue ==
  ASSUME NEW m, IsNumber(m), Fits52(m), NEW n, IsNumber(n), 0 < Val(n)
  PROVE  /\ IsNumber(Quotient(m, n))
         /\ \E R \in Int : /\ Val(m) = Val(Quotient(m, n)) * Val(n) + R
                           /\ 0 <= R /\ R < Val(n)
<1>1. PICK N \in Int : N = Val(n)
  BY OrderedByValue
<1> DEFINE D == Division(m, n)
           Inv(k) == IsPartial(D[k], n) /\ Prefix(m, k) = Val(D[k].quot) * N + Val(D[k].rem)
           S == {k \in Nat : k <= 13 => Inv(k)}
<1>2. \A k \in Nat : k \in S <=> (k <= 13 => Inv(k))
  BY Zenon
<1> HIDE DEF S, Inv
<1>3. 0 \in S
  <2>1. IsNumber(Zero) /\ Val(Zero) = 0
    BY SMT DEF IsNumber, Val, Zero
  <2>2. Prefix(m, 0) = 0 /\ 0 * N + 0 = 0 /\ 0 < N /\ 0 <= 0
    BY <1>1, FirstPrefix
  <2>3. D[0].quot = Zero /\ D[0].rem = Zero
    BY DivisionDefined
  <2>4. Inv(0)
    BY <1>1, <2>1, <2>2, <2>3, Zenon DEF Inv, IsPartial
  <2> QED
    BY <1>2, <2>4
<1>4. ASSUME NEW k \in Nat, k \in S
      PROVE  k + 1 \in S
  <2> SUFFICES ASSUME k + 1 <= 13
               PROVE  Inv(k + 1)
    BY <1>2
  <2>1. k <= 13 /\ k + 1 \in 1 .. 13 /\ (k + 1) - 1 = k
    BY SMT
  <2>2. IsPartial(D[k], n) /\ Prefix(m, k) = Val(D[k].quot) * N + Val(D[k].rem)
    BY <1>2, <1>4, <2>1, Zenon DEF Inv
  <2>3. PICK digit \in 0 .. 15 : /\ digit = HexDigits(m)[k + 1]
                                 /\ Prefix(m, k + 1) = 16 * Prefix(m, k) + digit
    BY <2>1, NextPrefix
  <2>4. D[k + 1] = NextDigit(D[k], digit, n)
    BY <2>1, <2>3, DivisionDefined
  <2> HIDE DEF D
  <2>5. /\ IsPartial(D[k + 1], n)
        /\ \E d \in 0 .. 15 : /\ Val(D[k + 1].quot) = 16 * Val(D[k].quot) + d
                              /\ 16 * Val(D[k].rem) + digit = d * Val(n) + Val(D[k + 1].rem)
    <3>1. PICK sofar : sofar = D[k] /\ IsPartial(sofar, n)
      BY <2>2, Zenon
    <3>2. /\ IsPartial(NextDigit(sofar, digit, n), n)
          /\ \E d \in 0 .. 15 :
               /\ Val(NextDigit(sofar, digit, n).quot) = 16 * Val(sofar.quot) + d
               /\ 16 * Val(sofar.rem) + digit
                    = d * Val(n) + Val(NextDigit(sofar, digit, n).rem)
      BY <3>1, NextDigitValue
    <3> QED
      BY <2>4, <3>1, <3>2, Zenon
  <2>6. PICK Q, R, Q2, R2 \in Int : /\ Q = Val(D[k].quot) /\ R = Val(D[k].rem)
                                    /\ Q2 = Val(D[k + 1].quot) /\ R2 = Val(D[k + 1].rem)
    BY <2>2, <2>5, OrderedByValue, Zenon DEF IsPartial
  <2>7. PICK d \in 0 .. 15 : Q2 = 16 * Q + d /\ 16 * R + digit = d * N + R2
    BY <1>1, <2>5, <2>6, Zenon
  <2>8. Prefix(m, k + 1) = Q2 * N + R2
    <3>1. PICK x, y \in Int : x = Q * N /\ y = d * N
      BY SMT
    <3>2. Q2 * N = 16 * x + y
      BY <2>7, <3>1, SMT
    <3>3. Prefix(m, k) = x + R
      BY <2>2, <2>6, <3>1, Zenon
    <3>4. 16 * (x + R) + digit = (16 * x + y) + R2
      BY <2>7, <3>1, SMT
    <3> QED
      BY <2>3, <3>2, <3>3, <3>4, Zenon
  <2> QED
    BY <2>5, <2>6, <2>8, Zenon DEF Inv
<1>5. 13 \in S
  <2>1. Nat \subseteq S
    BY <1>3, <1>4, NumberInduction
  <2> QED
    BY <2>1
<1>6. IsPartial(D[13], n) /\ Prefix(m, 13) = Val(D[13].quot) * N + Val(D[13].rem)
  BY <1>2, <1>5 DEF Inv
<1>7. Quotient(m, n) = D[13].quot
  BY DEF Quotient
<1>8. Prefix(m, 13) = Val(m)
  BY FirstPrefix
<1> HIDE DEF D
<1>9. Val(D[13].rem) \in Int
  BY <1>6, OrderedByValue, Zenon DEF IsPartial
<1> QED
  BY <1>1, <1>6, <1>7, <1>8, <1>9, Zenon DEF IsPartial

-----------------------------------------------------------------------------
(* Draws                                                                   *)

(* A larger dividend and a smaller divisor make a larger quotient.         *)
LEMMA QuotientGrows ==
  ASSUME NEW m1 \in Int, NEW n1 \in Int, NEW q1 \in Int, NEW r1 \in Int,
         NEW m2 \in Int, NEW n2 \in Int, NEW q2 \in Int, NEW r2 \in Int,
         m1 = q1 * n1 + r1, 0 <= r1, r1 < n1,
         m2 = q2 * n2 + r2, 0 <= r2, r2 < n2,
         m1 <= m2, n2 <= n1
  PROVE  q1 <= q2 \/ q2 < 0
<1> SUFFICES ASSUME q2 + 1 <= q1, 0 <= q2
             PROVE  FALSE
  BY SMT
<1>1. (q2 + 1) * n2 <= q1 * n2
  <2>1. \A a, b, c \in Int : a <= b /\ 0 <= c => a * c <= b * c
    BY SMT
  <2> QED
    BY <2>1, SMT
<1>2. q1 * n2 <= q1 * n1
  BY SMT
<1>3. (q2 + 1) * n2 = q2 * n2 + n2
  BY SMT
<1> QED
  BY <1>1, <1>2, <1>3, SMT

LEMMA QuotientBounds ==
  ASSUME NEW m \in Nat, NEW n \in Int, NEW q \in Int, NEW r \in Int,
         m = q * n + r, 0 <= r, r < n
  PROVE  0 <= q /\ q <= m
<1>1. 0 <= q
  <2> SUFFICES ASSUME q + 1 <= 0 PROVE FALSE
    BY SMT
  <2>1. (q + 1) * n <= 0
    BY SMT
  <2> QED
    BY <2>1, SMT
<1>2. q * 1 <= q * n
  BY <1>1, SMT
<1> QED
  BY <1>1, <1>2, SMT

(* The hypothesis about the tables, which TLC evaluates for every hash.    *)
LogarithmsFit == \A u \in Hashes : IsBelow48(crush_ln(u))

IsWeight(w) == w \in (0 .. 255) \X (0 .. Low - 1)

LEMMA WeightNumber ==
  ASSUME NEW w, IsWeight(w)
  PROVE  IsNumber(w) /\ 0 <= Val(w) /\ Val(w) < 4294967296 /\ (w = Zero <=> Val(w) = 0)
<1>1. PICK a, b \in Int : w = <<a, b>> /\ 0 <= a /\ a < 256 /\ 0 <= b /\ b < Low
  BY LowInt, SMT DEF IsWeight
<1>2. Val(w) = a * 16777216 + b
  BY <1>1, SMT DEF Val
<1>3. IsNumber(w)
  BY <1>1, LowValue, SMT DEF IsNumber
<1>4. w = Zero <=> a = 0 /\ b = 0
  BY <1>1, SMT DEF Zero
<1> QED
  BY <1>1, <1>2, <1>3, <1>4, LowValue, SMT

LEMMA WeightAsInt ==
  ASSUME NEW w, IsWeight(w)
  PROVE  /\ IsNumber(AsInt(w))
         /\ Val(w) < 2147483648 => Val(AsInt(w)) = Val(w) /\ AsInt(w)[1] >= 0
         /\ 2147483648 <= Val(w) =>
              /\ Val(AsInt(w)) = Val(w) - 4294967296 /\ Val(AsInt(w)) < 0
              /\ ~(AsInt(w)[1] >= 0)
<1>1. PICK a, b \in Int : w = <<a, b>> /\ 0 <= a /\ a < 256 /\ 0 <= b /\ b < Low
  BY LowInt, SMT DEF IsWeight
<1>2. w = <<a, b>> /\ 0 <= a /\ a < 256 /\ 0 <= b /\ b < 16777216
  BY <1>1, LowValue, SMT
<1>3. Val(w) = a * 16777216 + b /\ w[1] = a
  BY <1>2, SMT DEF Val
<1>4. IsNumber(w)
  BY WeightNumber
<1>5. CASE a >= 128
  <2>1. IsNumber(<<256, 0>>) /\ Val(<<256, 0>>) = 4294967296
    BY SMT DEF IsNumber, Val
  <2>2. AsInt(w) = Difference(w, <<256, 0>>)
    BY <1>3, <1>5 DEF AsInt
  <2>3. IsNumber(AsInt(w)) /\ Val(AsInt(w)) = Val(w) - 4294967296
    BY <1>4, <2>1, <2>2, DifferenceValue, SMT
  <2>4. PICK c, d \in Int : c = AsInt(w)[1] /\ d = AsInt(w)[2] /\ 0 <= d
    BY <2>3, SMT DEF IsNumber
  <2>5. Val(AsInt(w)) = c * 16777216 + d
    BY <2>4 , SMT DEF Val
  <2> QED
    BY <1>2, <1>3, <1>5, <2>3, <2>4, <2>5, SMT
<1>6. CASE a < 128
  <2>1. AsInt(w) = w
    BY <1>2, <1>3, <1>6, SMT DEF AsInt
  <2> QED
    BY <1>2, <1>3, <1>4, <1>6, <2>1, SMT
<1> QED
  BY <1>2, <1>5, <1>6, SMT

(* What the dividend is: 2^48 less the logarithm. *)
Dividend(u) == Val(<<Low, 0>>) - Val(crush_ln(u))

LEMMA DividendBounds ==
  ASSUME NEW u, IsBelow48(crush_ln(u))
  PROVE  /\ IsNumber(Difference(<<Low, 0>>, crush_ln(u)))
         /\ Fits52(Difference(<<Low, 0>>, crush_ln(u)))
         /\ Val(Difference(<<Low, 0>>, crush_ln(u))) = Dividend(u)
         /\ IsNumber(crush_ln(u))
         /\ Dividend(u) \in Nat /\ Dividend(u) <= 281474976710656
<1>1. PICK a, b \in Int : crush_ln(u) = <<a, b>> /\ 0 <= a /\ a < Low /\ 0 <= b /\ b < Low
  BY LowInt, SMT DEF IsBelow48
<1>2. /\ crush_ln(u) = <<a, b>> /\ 0 <= a /\ a < 16777216 /\ 0 <= b /\ b < 16777216
  BY <1>1, LowValue, SMT
<1>3. Val(crush_ln(u)) = a * 16777216 + b /\ IsNumber(crush_ln(u))
  BY <1>2, SMT DEF Val, IsNumber
<1>4. Val(<<Low, 0>>) = 281474976710656 /\ IsNumber(<<Low, 0>>)
  BY LowValue, SMT DEF Val, IsNumber
<1>5. /\ IsNumber(Difference(<<Low, 0>>, crush_ln(u)))
      /\ Val(Difference(<<Low, 0>>, crush_ln(u))) = Dividend(u)
  BY <1>3, <1>4, DifferenceValue, SMT DEF Dividend
<1>6. Dividend(u) = 281474976710656 - (a * 16777216 + b)
  BY <1>3, <1>4, SMT DEF Dividend
<1>7. PICK x : x = Difference(<<Low, 0>>, crush_ln(u))
  OBVIOUS
<1>8. PICK c, d \in Int : c = x[1] /\ d = x[2] /\ 0 <= d /\ d < 16777216
  BY <1>5, <1>7, SMT DEF IsNumber
<1>9. c * 16777216 + d = Dividend(u)
  BY <1>5, <1>7, <1>8, SMT DEF Val
<1>10. 0 <= c /\ c < 268435456
  BY <1>2, <1>6, <1>8, <1>9, SMT
<1>11. Fits52(x)
  BY <1>5, <1>7, <1>8, <1>10, SMT DEF Fits52
<1> QED
  BY <1>2, <1>3, <1>5, <1>6, <1>7, <1>11, SMT

LEMMA WeightlessStraw ==
  ASSUME NEW u
  PROVE  IsNumber(Straw(u, Zero)) /\ Val(Straw(u, Zero)) = -18014398509481984
<1>1. Straw(u, Zero) = S64_MIN
  BY SMT DEF Straw
<1>2. S64_MIN[1] = -1073741824 /\ S64_MIN[2] = 0
  BY SMT DEF S64_MIN
<1> QED
  BY <1>1, <1>2, SMT DEF IsNumber, Val

(* The value of a draw, by the sign that the weight has as an int.         *)
LEMMA StrawValue ==
  ASSUME NEW u, IsBelow48(crush_ln(u)), NEW w, IsWeight(w)
  PROVE  /\ IsNumber(Straw(u, w))
         /\ Val(w) = 0 => Val(Straw(u, w)) = -18014398509481984
         /\ 0 < Val(w) /\ Val(w) < 2147483648 =>
              \E q, r \in Int : /\ Val(Straw(u, w)) = -q
                                /\ Dividend(u) = q * Val(w) + r
                                /\ 0 <= r /\ r < Val(w)
         /\ 2147483648 <= Val(w) =>
              \E q, r \in Int : /\ Val(Straw(u, w)) = q
                                /\ Dividend(u) = q * (4294967296 - Val(w)) + r
                                /\ 0 <= r /\ r < 4294967296 - Val(w)
<1> DEFINE ln == Difference(<<Low, 0>>, crush_ln(u))
<1>1. /\ IsNumber(ln) /\ Fits52(ln) /\ Val(ln) = Dividend(u) /\ Dividend(u) \in Int
  BY DividendBounds, SMT
<1>2. IsNumber(w) /\ Val(w) \in Int /\ 0 <= Val(w) /\ (w = Zero <=> Val(w) = 0)
  BY WeightNumber, OrderedByValue, SMT
<1>3. w # Zero =>
        Straw(u, w) = IF AsInt(w)[1] >= 0 THEN Negated(Quotient(ln, AsInt(w)))
                                          ELSE Quotient(ln, Negated(AsInt(w)))
  BY SMT DEF Straw, generate_exponential_distribution
<1> HIDE DEF ln
<1>4. CASE Val(w) = 0
  <2>1. w = Zero
    BY <1>2, <1>4, SMT
  <2> QED
    BY <1>4, <2>1, WeightlessStraw, SMT
<1>5. CASE 0 < Val(w) /\ Val(w) < 2147483648
  <2>1. PICK n : n = AsInt(w) /\ IsNumber(n) /\ Val(n) = Val(w) /\ n[1] >= 0
    BY <1>5, WeightAsInt, SMT
  <2>2. Straw(u, w) = Negated(Quotient(ln, n))
    BY <1>2, <1>3, <1>5, <2>1, SMT
  <2>3. IsNumber(Quotient(ln, n)) /\ 0 < Val(n)
    BY <1>1, <1>5, <2>1, QuotientValue, SMT
  <2>4. PICK r \in Int : /\ Val(ln) = Val(Quotient(ln, n)) * Val(n) + r
                         /\ 0 <= r /\ r < Val(n)
    BY <1>1, <2>1, <2>3, QuotientValue, SMT
  <2>5. PICK q \in Int : q = Val(Quotient(ln, n))
    BY <2>3, OrderedByValue, SMT
  <2>6. IsNumber(Straw(u, w)) /\ Val(Straw(u, w)) = -q
    BY <2>2, <2>3, <2>5, NegatedValue, SMT
  <2>7. /\ Val(Straw(u, w)) = -q /\ Dividend(u) = q * Val(w) + r
        /\ 0 <= r /\ r < Val(w)
    BY <1>1, <2>1, <2>4, <2>5, <2>6, SMT
  <2> QED
    BY <1>2, <1>5, <2>6, <2>7, SMT
<1>6. CASE 2147483648 <= Val(w)
  <2>1. /\ ~(AsInt(w)[1] >= 0) /\ IsNumber(AsInt(w)) /\ Val(AsInt(w)) = Val(w) - 4294967296
        /\ Val(AsInt(w)) < 0
    BY <1>6, WeightAsInt, SMT
  <2>2. PICK n : /\ n = Negated(AsInt(w)) /\ IsNumber(n)
                 /\ Val(n) = 4294967296 - Val(w) /\ 0 < Val(n)
    BY <1>2, <2>1, NegatedValue, SMT
  <2>3. Straw(u, w) = Quotient(ln, n)
    BY <1>2, <1>3, <1>6, <2>1, <2>2, SMT
  <2>4. IsNumber(Quotient(ln, n))
    BY <1>1, <2>2, QuotientValue, SMT
  <2>5. PICK r \in Int : /\ Val(ln) = Val(Quotient(ln, n)) * Val(n) + r
                         /\ 0 <= r /\ r < Val(n)
    BY <1>1, <2>2, QuotientValue, SMT
  <2>6. PICK q \in Int : q = Val(Quotient(ln, n))
    BY <2>4, OrderedByValue, SMT
  <2>7. /\ Val(Straw(u, w)) = q /\ Dividend(u) = q * (4294967296 - Val(w)) + r
        /\ 0 <= r /\ r < 4294967296 - Val(w)
    BY <1>1, <2>2, <2>3, <2>5, <2>6, SMT
  <2> QED
    BY <1>2, <1>6, <2>3, <2>4, <2>7, SMT
<1> QED
  BY <1>2, <1>4, <1>5, <1>6, SMT

(* A draw lies within 49 bits, or is that of an item without weight.       *)
LEMMA StrawBounds ==
  ASSUME NEW u, IsBelow48(crush_ln(u)), NEW w, IsWeight(w)
  PROVE  /\ Val(Straw(u, w)) \in Int
         /\ Val(w) = 0 => Val(Straw(u, w)) = -18014398509481984
         /\ 0 < Val(w) => -281474976710656 <= Val(Straw(u, w))
         /\ 0 < Val(w) /\ Val(w) < 2147483648 => Val(Straw(u, w)) <= 0
         /\ 2147483648 <= Val(w) => 0 <= Val(Straw(u, w))
<1>1. PICK m \in Nat : m = Dividend(u) /\ m <= 281474976710656
  BY DividendBounds, SMT
<1>2. PICK v \in Int : v = Val(w) /\ 0 <= v /\ v < 4294967296
  BY WeightNumber, OrderedByValue, SMT
<1>3. PICK straw \in Int : straw = Val(Straw(u, w))
  BY StrawValue, OrderedByValue, SMT
<1>4. v = 0 => straw = -18014398509481984
  <2>1. w = Zero <=> Val(w) = 0
    BY WeightNumber, SMT
  <2> QED
    BY <1>2, <1>3, <2>1, WeightlessStraw, SMT
<1>5. CASE 0 < v /\ v < 2147483648
  <2>1. PICK q, r \in Int : straw = -q /\ m = q * v + r /\ 0 <= r /\ r < v
    BY <1>1, <1>2, <1>3, <1>5, StrawValue, SMT
  <2>2. 0 <= q /\ q <= m
    BY <2>1, QuotientBounds
  <2> QED
    BY <1>1, <1>2, <1>3, <1>5, <2>1, <2>2, SMT
<1>6. CASE 2147483648 <= v
  <2>1. PICK n \in Int : n = 4294967296 - v
    BY SMT
  <2>2. PICK q, r \in Int : straw = q /\ m = q * n + r /\ 0 <= r /\ r < n
    BY <1>1, <1>2, <1>3, <1>6, <2>1, StrawValue, SMT
  <2>3. 0 <= q /\ q <= m
    BY <2>2, QuotientBounds
  <2> QED
    BY <1>1, <1>2, <1>3, <1>6, <2>2, <2>3, SMT
<1> QED
  BY <1>2, <1>3, <1>5, <1>6, <1>4, SMT

(* The straw of the same hash grows with the weight, over all 32 bits; as  *)
(* long as the weights are positive as ints, it grows with the logarithm   *)
(* as well.                                                                *)
LEMMA StrawGrows ==
  ASSUME NEW u1, IsBelow48(crush_ln(u1)), NEW w1, IsWeight(w1),
         NEW u2, IsBelow48(crush_ln(u2)), NEW w2, IsWeight(w2),
         Val(w1) <= Val(w2), Dividend(u2) <= Dividend(u1),
         u1 = u2 \/ Val(w2) < 2147483648
  PROVE  Val(Straw(u1, w1)) <= Val(Straw(u2, w2))
<1>1. PICK m1, m2 \in Int : m1 = Dividend(u1) /\ m2 = Dividend(u2) /\ m2 <= m1 /\ 0 <= m2
  BY DividendBounds, SMT
<1>2. PICK v1, v2 \in Int : v1 = Val(w1) /\ v2 = Val(w2) /\ 0 <= v1 /\ v1 <= v2
  BY WeightNumber, OrderedByValue, SMT
<1>3. PICK s1, s2 \in Int : s1 = Val(Straw(u1, w1)) /\ s2 = Val(Straw(u2, w2))
  BY StrawBounds, SMT
<1>4. CASE v1 = 0
  <2>1. s1 = -18014398509481984
    <3>1. w1 = Zero <=> Val(w1) = 0
      BY WeightNumber, SMT
    <3> QED
      BY <1>2, <1>3, <1>4, <3>1, WeightlessStraw, SMT
  <2>2. v2 = 0 => s2 = -18014398509481984
    <3>1. w2 = Zero <=> Val(w2) = 0
      BY WeightNumber, SMT
    <3> QED
      BY <1>2, <1>3, <3>1, WeightlessStraw, SMT
  <2>3. 0 < v2 => -281474976710656 <= s2
    BY <1>2, <1>3, StrawBounds, SMT
  <2> QED
    BY <1>2, <1>3, <2>1, <2>2, <2>3, SMT
<1>5. CASE 0 < v1 /\ v2 < 2147483648
  <2>1. PICK q1, r1 \in Int : s1 = -q1 /\ m1 = q1 * v1 + r1 /\ 0 <= r1 /\ r1 < v1
    BY <1>1, <1>2, <1>3, <1>5, StrawValue, SMT
  <2>2. PICK q2, r2 \in Int : s2 = -q2 /\ m2 = q2 * v2 + r2 /\ 0 <= r2 /\ r2 < v2
    BY <1>1, <1>2, <1>3, <1>5, StrawValue, SMT
  <2>3. q2 <= q1 \/ q1 < 0
    BY <1>1, <1>2, <2>1, <2>2, QuotientGrows
  <2>4. 0 <= q1
    BY <1>1, <2>1, QuotientBounds, SMT
  <2> QED
    BY <1>3, <2>1, <2>2, <2>3, <2>4, SMT
<1>6. CASE 0 < v1 /\ v1 < 2147483648 /\ 2147483648 <= v2
  <2>1. s1 <= 0 /\ 0 <= s2
    BY <1>2, <1>3, <1>6, StrawBounds, SMT
  <2> QED
    BY <1>3, <2>1, SMT
<1>7. CASE 2147483648 <= v1
  <2>1. m1 = m2
    BY <1>1, <1>2, <1>7, SMT
  <2>2. PICK n1, n2 \in Int : n1 = 4294967296 - v1 /\ n2 = 4294967296 - v2 /\ n2 <= n1
    BY <1>2, SMT
  <2>3. PICK q1, r1 \in Int : s1 = q1 /\ m1 = q1 * n1 + r1 /\ 0 <= r1 /\ r1 < n1
    BY <1>1, <1>2, <1>3, <1>7, <2>2, StrawValue, SMT
  <2>4. PICK q2, r2 \in Int : s2 = q2 /\ m1 = q2 * n2 + r2 /\ 0 <= r2 /\ r2 < n2
    BY <1>1, <1>2, <1>3, <1>7, <2>1, <2>2, StrawValue, SMT
  <2>5. q1 <= q2 \/ q2 < 0
    BY <2>2, <2>3, <2>4, QuotientGrows
  <2>6. 0 <= q2
    BY <1>1, <2>1, <2>4, QuotientBounds, SMT
  <2> QED
    BY <1>3, <2>3, <2>4, <2>5, <2>6, SMT
<1> QED
  BY <1>2, <1>3, <1>4, <1>5, <1>6, <1>7, SMT

(* The first of the highest draws is one of them.                          *)
LEMMA HighestIsFirst ==
  ASSUME NEW k \in Nat, NEW draws, DOMAIN draws = 1 .. k + 1,
         \A i \in 1 .. k + 1 : IsNumber(draws[i])
  PROVE  /\ Highest(draws) \in 1 .. k + 1
         /\ \A j \in 1 .. k + 1 : Val(draws[j]) <= Val(draws[Highest(draws)])
         /\ \A j \in 1 .. Highest(draws) - 1 : Val(draws[j]) < Val(draws[Highest(draws)])
<1>1. PICK v : v = [i \in 1 .. k + 1 |-> Val(draws[i])]
  OBVIOUS
<1>2. \A i \in 1 .. k + 1 : v[i] = Val(draws[i]) /\ v[i] \in Int
  BY <1>1, OrderedByValue
<1>3. \A i, j \in 1 .. k + 1 : AtMost(draws[i], draws[j]) <=> v[i] <= v[j]
  BY <1>2, OrderedByValue
<1> DEFINE First(h, n) == /\ h \in 1 .. n + 1
                          /\ \A j \in 1 .. n + 1 : v[j] <= v[h]
                          /\ \A j \in 1 .. h - 1 : v[j] < v[h]
           S == {n \in Nat : n <= k => \E h \in 1 .. n + 1 : First(h, n)}
<1>4. 0 \in S
  <2>1. 1 \in 1 .. 0 + 1 /\ (\A j \in 1 .. 0 + 1 : j = 1) /\ (\A j \in 1 .. 1 - 1 : FALSE)
    BY SMT
  <2>2. v[1] <= v[1]
    BY <1>2, SMT
  <2>3. First(1, 0)
    BY <2>1, <2>2, Zenon
  <2> QED
    BY <2>1, <2>3, Zenon
<1>5. ASSUME NEW n \in Nat, n \in S
      PROVE  n + 1 \in S
  <2> SUFFICES ASSUME n + 1 <= k
               PROVE  \E h \in 1 .. (n + 1) + 1 : First(h, n + 1)
    OBVIOUS
  <2>1. PICK h \in 1 .. n + 1 : First(h, n)
    BY <1>5, SMT
  <2>2. n + 2 \in 1 .. k + 1 /\ h \in 1 .. k + 1 /\ v[h] \in Int /\ v[n + 2] \in Int
    BY <1>2, SMT
  <2>3. CASE v[n + 2] <= v[h]
    <3>1. First(h, n + 1)
      BY <1>2, <2>1, <2>2, <2>3, SMT
    <3> QED
      BY <3>1
  <2>4. CASE v[h] < v[n + 2]
    <3>1. \A j \in 1 .. n + 1 : v[j] < v[n + 2]
      BY <1>2, <2>1, <2>2, <2>4, SMT
    <3>2. First(n + 2, n + 1)
      BY <1>2, <2>2, <3>1, SMT
    <3> QED
      BY <3>2, SMT
  <2> QED
    BY <2>2, <2>3, <2>4, SMT
<1>6. k \in S
  <2> HIDE DEF S
  <2>1. Nat \subseteq S
    BY <1>4, <1>5, NumberInduction
  <2> QED
    BY <2>1
<1>7. PICK h \in 1 .. k + 1 : First(h, k)
  BY <1>6, SMT
<1> DEFINE Best(i) == /\ \A j \in DOMAIN draws : AtMost(draws[j], draws[i])
                      /\ \A j \in 1 .. i - 1 : ~AtMost(draws[i], draws[j])
<1>8. \A i \in 1 .. k + 1 : Best(i) <=> First(i, k)
  <2> TAKE i \in 1 .. k + 1
  <2>1. \A j \in 1 .. i - 1 : j \in 1 .. k + 1
    BY SMT
  <2>2. \A j \in 1 .. i - 1 : ~(v[i] <= v[j]) <=> v[j] < v[i]
    BY <1>2, <2>1, SMT
  <2> QED
    BY <1>3, <2>1, <2>2, Zenon
<1>9. Highest(draws) \in 1 .. k + 1 /\ Best(Highest(draws))
  <2>1. Highest(draws) = CHOOSE i \in 1 .. k + 1 : Best(i)
    BY DEF Highest
  <2> HIDE DEF Best, First
  <2> QED
    BY <1>7, <1>8, <2>1, Zenon
<1>10. First(Highest(draws), k)
  BY <1>8, <1>9, Zenon
<1>11. \A j \in 1 .. Highest(draws) - 1 : j \in 1 .. k + 1
  BY <1>9, SMT
<1> QED
  BY <1>2, <1>9, <1>10, <1>11, Zenon

-----------------------------------------------------------------------------
(* Buckets                                                                 *)

(* The three sequences of a bucket. *)
Fit(items, weights, sets) ==
  /\ items \in Seq(Ids) /\ weights \in Seq(Weights) /\ sets \in Seq(Seq(Weights))
  /\ Len(items) # 0
  /\ \A i, j \in 1 .. Len(items) : items[i] = items[j] => i = j
  /\ Len(weights) = Len(items)
  /\ \A p \in 1 .. Len(sets) : Len(sets[p]) = Len(items)

IsBucket(b) ==
  /\ b = [items |-> b.items, item_weights |-> b.item_weights, weight_set |-> b.weight_set]
  /\ Fit(b.items, b.item_weights, b.weight_set)

BucketInv ==
  /\ hashOf \in [Ids -> Hashes]
  /\ IsBucket(bucket)
  /\ placed = Placed(bucket)

(* A bucket taken apart, and put together. *)
LEMMA BucketParts ==
  ASSUME NEW b, IsBucket(b)
  PROVE  /\ b.items \in Seq(Ids) /\ b.item_weights \in Seq(Weights)
         /\ b.weight_set \in Seq(Seq(Weights))
         /\ Len(b.items) \in Nat /\ Len(b.items) # 0 /\ Len(b.weight_set) \in Nat
         /\ DOMAIN b.items = 1 .. Len(b.items)
         /\ DOMAIN b.weight_set = 1 .. Len(b.weight_set)
         /\ \A i \in 1 .. Len(b.items) : b.items[i] \in Ids
         /\ \A i, j \in 1 .. Len(b.items) : b.items[i] = b.items[j] => i = j
         /\ Len(b.item_weights) = Len(b.items)
         /\ \A p \in 1 .. Len(b.weight_set) :
              b.weight_set[p] \in Seq(Weights) /\ Len(b.weight_set[p]) = Len(b.items)
<1>1. PICK items, weights, sets :
        /\ items = b.items /\ weights = b.item_weights /\ sets = b.weight_set
        /\ Fit(items, weights, sets)
  BY Zenon DEF IsBucket
<1>2. items \in Seq(Ids) /\ weights \in Seq(Weights) /\ sets \in Seq(Seq(Weights))
  BY <1>1, Zenon DEF Fit
<1>3. /\ Len(items) \in Nat /\ DOMAIN items = 1 .. Len(items)
      /\ Len(sets) \in Nat /\ DOMAIN sets = 1 .. Len(sets)
      /\ \A i \in 1 .. Len(items) : items[i] \in Ids
      /\ \A p \in 1 .. Len(sets) : sets[p] \in Seq(Weights)
  BY <1>2
<1>4. /\ Len(items) # 0 /\ Len(weights) = Len(items)
      /\ \A i, j \in 1 .. Len(items) : items[i] = items[j] => i = j
      /\ \A p \in 1 .. Len(sets) : Len(sets[p]) = Len(items)
  BY <1>1, Zenon DEF Fit
<1> QED
  BY <1>1, <1>2, <1>3, <1>4, Zenon

LEMMA BucketMade ==
  ASSUME NEW items, NEW weights, NEW sets, Fit(items, weights, sets)
  PROVE  IsBucket([items |-> items, item_weights |-> weights, weight_set |-> sets])
  BY DEF IsBucket

(* The weights in use at a position. *)
LEMMA WeightsInUse ==
  ASSUME NEW b, IsBucket(b), NEW n \in Positions(b)
  PROVE  /\ get_choose_arg_weights(b, n) \in Seq(Weights)
         /\ Len(get_choose_arg_weights(b, n)) = Len(b.items)
         /\ \A i \in 1 .. Len(b.items) : /\ get_choose_arg_weights(b, n)[i] \in Weights
                                         /\ IsWeight(get_choose_arg_weights(b, n)[i])
         /\ get_choose_arg_weights(b, n)
              = LET p == IF n < Len(b.weight_set) THEN n + 1 ELSE Len(b.weight_set)
                IN  IF p = 0 THEN b.item_weights ELSE b.weight_set[p]
<1>1. PICK k \in Nat : k = Len(b.weight_set)
  BY BucketParts, Zenon
<1>2. n \in 0 .. k + 1
  BY <1>1 DEF Positions
<1>3. /\ b.weight_set \in Seq(Seq(Weights)) /\ b.item_weights \in Seq(Weights)
      /\ b.items \in Seq(Ids) /\ (b.weight_set = <<>> <=> k = 0)
  BY <1>1, BucketParts, SMT
<1>4. get_choose_arg_weights(b, n)
              = LET p == IF n < Len(b.weight_set) THEN n + 1 ELSE Len(b.weight_set)
                IN  IF p = 0 THEN b.item_weights ELSE b.weight_set[p]
  BY <1>1, <1>2, <1>3, SMT DEF get_choose_arg_weights
<1>5. \A w \in Weights : IsWeight(w)
  BY WeightsAssumption DEF IsWeight
<1>6. PICK weights : weights = get_choose_arg_weights(b, n)
  OBVIOUS
<1>7. /\ weights \in Seq(Weights)
      /\ Len(weights) = Len(b.items)
      /\ \A i \in 1 .. Len(b.items) : weights[i] \in Weights
  <2>1. CASE k = 0
    <3>1. weights = b.item_weights
      BY <1>3, <1>6, <2>1 DEF get_choose_arg_weights
    <3>2. \A i \in 1 .. Len(b.items) : b.item_weights[i] \in Weights
      BY <1>3, BucketParts
    <3> QED
      BY <1>3, <3>1, <3>2, BucketParts, Zenon
  <2>2. CASE k # 0
    <3>1. PICK p \in 1 .. k : weights = b.weight_set[p]
      <4>1. CASE n < k
        <5>1. n + 1 \in 1 .. k /\ ~(n >= k)
          BY <1>2, <4>1, SMT
        <5>2. weights = b.weight_set[n + 1]
          BY <1>1, <1>3, <1>6, <2>2, <5>1, Zenon DEF get_choose_arg_weights
        <5> QED
          BY <5>1, <5>2, Zenon
      <4>2. CASE n >= k
        <5>1. k \in 1 .. k
          BY <2>2, SMT
        <5>2. weights = b.weight_set[k]
          BY <1>1, <1>3, <1>6, <2>2, <4>2, Zenon DEF get_choose_arg_weights
        <5> QED
          BY <5>1, <5>2, Zenon
      <4> QED
        BY <1>2, <4>1, <4>2, SMT
    <3>2. b.weight_set[p] \in Seq(Weights) /\ Len(b.weight_set[p]) = Len(b.items)
      BY <1>1, <1>3, <3>1, BucketParts
    <3>3. \A i \in 1 .. Len(b.items) : b.weight_set[p][i] \in Weights
      BY <1>3, <3>2
    <3> QED
      BY <3>1, <3>2, <3>3
  <2> QED
    BY <2>1, <2>2
<1> QED
  BY <1>4, <1>5, <1>6, <1>7, Zenon

(* The value of the draw of the i-th item. *)
DrawOf(b, i, n) == Val(Straw(hashOf[b.items[i]], get_choose_arg_weights(b, n)[i]))

(* bucket_straw2_choose places the object on the first of the highest      *)
(* draws.                                                                  *)
LEMMA Winner ==
  ASSUME LogarithmsFit, hashOf \in [Ids -> Hashes],
         NEW b, IsBucket(b), NEW n \in Positions(b)
  PROVE  /\ \A i \in 1 .. Len(b.items) : DrawOf(b, i, n) \in Int
         /\ \E h \in 1 .. Len(b.items) :
              /\ Placed(b)[n] = b.items[h]
              /\ \A j \in 1 .. Len(b.items) : DrawOf(b, j, n) <= DrawOf(b, h, n)
              /\ \A j \in 1 .. h - 1 : DrawOf(b, j, n) < DrawOf(b, h, n)
<1>1. PICK k \in Nat : k + 1 = Len(b.items)
  <2>1. Len(b.items) \in Nat /\ Len(b.items) # 0
    BY BucketParts, Zenon
  <2>2. Len(b.items) - 1 \in Nat /\ (Len(b.items) - 1) + 1 = Len(b.items)
    BY <2>1
  <2> QED
    BY <2>2
<1>2. DOMAIN b.items = 1 .. k + 1 /\ \A i \in 1 .. k + 1 : b.items[i] \in Ids
  BY <1>1, BucketParts, SMT
<1>3. PICK weights : /\ weights = get_choose_arg_weights(b, n)
                     /\ \A i \in 1 .. k + 1 : weights[i] \in Weights /\ IsWeight(weights[i])
  BY <1>1, WeightsInUse
<1>4. \A i \in 1 .. k + 1 : hashOf[b.items[i]] \in Hashes
  BY <1>2
<1>5. \A u \in Hashes, w \in Weights : StrawOf[u][w] = Straw(u, w)
  BY DEF StrawOf
<1>6. PICK draws : /\ draws = Draws(b, n)
                   /\ DOMAIN draws = 1 .. k + 1
                   /\ \A i \in 1 .. k + 1 : draws[i] = Straw(hashOf[b.items[i]], weights[i])
  <2>1. Draws(b, n) = [i \in 1 .. k + 1 |-> StrawOf[hashOf[b.items[i]]][weights[i]]]
    BY <1>2, <1>3 DEF Draws
  <2>2. \A i \in 1 .. k + 1 : Draws(b, n)[i] = Straw(hashOf[b.items[i]], weights[i])
    BY <1>3, <1>4, <1>5, <2>1
  <2> QED
    BY <2>1, <2>2
<1>7. \A i \in 1 .. k + 1 : IsNumber(draws[i])
  <2> TAKE i \in 1 .. k + 1
  <2>1. PICK u, w : /\ u = hashOf[b.items[i]] /\ w = weights[i]
                    /\ IsBelow48(crush_ln(u)) /\ IsWeight(w)
    BY <1>3, <1>4, Zenon DEF LogarithmsFit
  <2>2. IsNumber(Straw(u, w))
    BY <2>1, StrawValue, SMT
  <2> QED
    BY <1>6, <2>1, <2>2, Zenon
<1>8. \A i \in 1 .. k + 1 : DrawOf(b, i, n) = Val(draws[i]) /\ Val(draws[i]) \in Int
  BY <1>3, <1>6, <1>7, OrderedByValue, Zenon DEF DrawOf
<1>9. PICK h : h = Highest(draws)
  OBVIOUS
<1>10. /\ h \in 1 .. k + 1
       /\ \A j \in 1 .. k + 1 : Val(draws[j]) <= Val(draws[h])
       /\ \A j \in 1 .. h - 1 : Val(draws[j]) < Val(draws[h])
  BY <1>6, <1>7, <1>9, HighestIsFirst, Zenon
<1>11. \A j \in 1 .. h - 1 : j \in 1 .. k + 1
  BY <1>10, SMT
<1>12. Placed(b)[n] = b.items[h]
  BY <1>6, <1>9, Zenon DEF Placed, bucket_straw2_choose
<1> QED
  BY <1>1, <1>8, <1>10, <1>11, <1>12, Zenon

(* The weight of an item as the property reads it. *)
LEMMA WeightOfItem ==
  ASSUME NEW b, IsBucket(b), NEW n \in Positions(b), NEW i \in 1 .. Len(b.items)
  PROVE  WeightOf(b, b.items[i], n) = get_choose_arg_weights(b, n)[i]
<1>1. PICK p : p = IF n < Len(b.weight_set) THEN n + 1 ELSE Len(b.weight_set)
  OBVIOUS
<1>2. get_choose_arg_weights(b, n) = IF p = 0 THEN b.item_weights ELSE b.weight_set[p]
  BY <1>1, WeightsInUse, Zenon
<1>3. DOMAIN b.items = 1 .. Len(b.items)
  BY BucketParts, Zenon
<1>4. b.items[i] \in ToSet(b.items)
  BY <1>3 DEF ToSet
<1>5. PICK id, c : /\ id = b.items[i]
                   /\ c = CHOOSE j \in DOMAIN b.items : b.items[j] = id
  OBVIOUS
<1>6. c = i
  <2>1. \A j \in DOMAIN b.items : b.items[j] = id <=> j = i
    BY <1>3, <1>5, BucketParts, Zenon
  <2> QED
    BY <1>3, <1>5, <2>1, Zenon
<1>7. WeightOf(b, id, n) = IF p = 0 THEN b.item_weights[c] ELSE b.weight_set[p][c]
  <2>1. WeightOf(b, id, n)
          = LET q == IF n < Len(b.weight_set) THEN n + 1 ELSE Len(b.weight_set)
            IN  IF q = 0 THEN b.item_weights[c] ELSE b.weight_set[q][c]
    <3>1. WeightOf(b, id, n)
            = IF id \notin ToSet(b.items) THEN <<-1, 0>>
              ELSE LET i1 == CHOOSE j \in DOMAIN b.items : b.items[j] = id
                       q == IF n < Len(b.weight_set) THEN n + 1 ELSE Len(b.weight_set)
                   IN  IF q = 0 THEN b.item_weights[i1] ELSE b.weight_set[q][i1]
      BY DEF WeightOf
    <3> QED
      BY <1>4, <1>5, <3>1
  <2> QED
    BY <1>1, <2>1, Zenon
<1> QED
  BY <1>2, <1>5, <1>6, <1>7, Zenon

LEMMA NoWeight ==
  ASSUME NEW b, IsBucket(b), NEW id, \A i \in 1 .. Len(b.items) : b.items[i] # id, NEW n
  PROVE  WeightOf(b, id, n) = <<-1, 0>>
<1>1. DOMAIN b.items = 1 .. Len(b.items)
  BY BucketParts, Zenon
<1>2. id \notin ToSet(b.items)
  BY <1>1 DEF ToSet
<1> QED
  BY <1>2 DEF WeightOf

-----------------------------------------------------------------------------
(* Changes of a bucket                                                     *)

(* Items that stay keep their order. *)
OrderKept(b, c) ==
  \A i1, i2 \in 1 .. Len(b.items), j1, j2 \in 1 .. Len(c.items) :
    b.items[i1] = c.items[j1] /\ b.items[i2] = c.items[j2] /\ i1 < i2 => j1 < j2

Succeeds(c, b) ==
  IsBucket(c) /\ Len(c.weight_set) = Len(b.weight_set) /\ OrderKept(b, c)

LEMMA ReplaceOne ==
  ASSUME NEW T, NEW s \in Seq(T), NEW i \in 1 .. Len(s), NEW w \in T
  PROVE  [s EXCEPT ![i] = w] \in Seq(T) /\ Len([s EXCEPT ![i] = w]) = Len(s)
  OBVIOUS

LEMMA AddOne ==
  ASSUME NEW T, NEW s \in Seq(T), NEW w \in T
  PROVE  /\ Append(s, w) \in Seq(T) /\ Len(Append(s, w)) = Len(s) + 1
         /\ \A j \in 1 .. Len(s) : Append(s, w)[j] = s[j]
         /\ Append(s, w)[Len(s) + 1] = w
  OBVIOUS

LEMMA RemoveOne ==
  ASSUME NEW T, NEW s \in Seq(T), NEW i \in 1 .. Len(s)
  PROVE  /\ RemoveAt(s, i) \in Seq(T) /\ Len(RemoveAt(s, i)) = Len(s) - 1
         /\ \A j \in 1 .. Len(s) - 1 : RemoveAt(s, i)[j] = IF j < i THEN s[j] ELSE s[j + 1]
<1>1. PICK n \in Nat : n = Len(s)
  OBVIOUS
<1>2. PICK s1 : /\ s1 = SubSeq(s, 1, i - 1) /\ s1 \in Seq(T) /\ Len(s1) = i - 1
                /\ \A j \in 1 .. i - 1 : s1[j] = s[j]
  <2>1. PICK m \in Int : m = i - 1 /\ m >= 0 /\ \A j \in 1 .. m : s[j] \in T
    BY <1>1
  <2>2. /\ SubSeq(s, 1, m) \in Seq(T)
        /\ Len(SubSeq(s, 1, m)) = IF 1 <= m THEN (m - 1) + 1 ELSE 0
        /\ \A j \in 1 .. (m - 1) + 1 : SubSeq(s, 1, m)[j] = s[(1 + j) - 1]
    BY <2>1, SubSeqProperties
  <2>3. Len(SubSeq(s, 1, m)) = m /\ \A j \in 1 .. m : SubSeq(s, 1, m)[j] = s[j]
    BY <2>1, <2>2
  <2> QED
    BY <2>1, <2>2, <2>3
<1>3. PICK s2 : /\ s2 = SubSeq(s, i + 1, n) /\ s2 \in Seq(T) /\ Len(s2) = n - i
                /\ \A j \in 1 .. n - i : s2[j] = s[i + j]
  <2>1. SubSeq(s, i + 1, n) \in Seq(T) /\ Len(SubSeq(s, i + 1, n)) = n - i
    BY <1>1, SubSeqProperties
  <2>2. \A j \in 1 .. n - i : SubSeq(s, i + 1, n)[j] = s[i + j]
    BY <1>1, SubSeqProperties
  <2> QED
    BY <2>1, <2>2
<1>4. /\ s1 \o s2 \in Seq(T) /\ Len(s1 \o s2) = n - 1
      /\ \A j \in 1 .. n - 1 : (s1 \o s2)[j] = IF j <= i - 1 THEN s1[j] ELSE s2[j - (i - 1)]
  <2>1. i - 1 \in Nat /\ n - i \in Nat
    BY <1>1
  <2>2. PICK l1, l2 \in Nat : l1 = Len(s1) /\ l2 = Len(s2) /\ l1 = i - 1 /\ l2 = n - i
    BY <1>2, <1>3, <2>1, Zenon
  <2>3. /\ s1 \o s2 \in Seq(T) /\ Len(s1 \o s2) = l1 + l2
        /\ \A j \in 1 .. l1 + l2 : (s1 \o s2)[j] = IF j <= l1 THEN s1[j] ELSE s2[j - l1]
    <3>1. /\ s1 \o s2 \in Seq(T) /\ Len(s1 \o s2) = Len(s1) + Len(s2)
          /\ \A j \in 1 .. Len(s1) + Len(s2) :
               (s1 \o s2)[j] = IF j <= Len(s1) THEN s1[j] ELSE s2[j - Len(s1)]
      BY <1>2, <1>3, ConcatProperties
    <3> QED
      BY <2>2, <3>1, Zenon
  <2>4. l1 + l2 = n - 1
    BY <1>1, <2>2
  <2> QED
    BY <2>2, <2>3, <2>4, Zenon
<1>5. ASSUME NEW j \in 1 .. n - 1
      PROVE  (s1 \o s2)[j] = IF j < i THEN s[j] ELSE s[j + 1]
  <2>1. CASE j < i
    BY <1>1, <1>2, <1>4, <2>1
  <2>2. CASE ~(j < i)
    <3>1. PICK k \in 1 .. n - i : k = j - (i - 1) /\ i + k = j + 1
      BY <1>1, <2>2
    <3>2. (s1 \o s2)[j] = s2[k]
      BY <1>4, <2>2, <3>1
    <3> QED
      BY <1>3, <2>2, <3>1, <3>2
  <2> QED
    BY <2>1, <2>2
<1>6. RemoveAt(s, i) = s1 \o s2
  BY <1>1, <1>2, <1>3 DEF RemoveAt
<1> QED
  BY <1>1, <1>4, <1>5, <1>6

LEMMA SameOrder ==
  ASSUME NEW b, IsBucket(b), NEW c, c.items = b.items
  PROVE  OrderKept(b, c)
<1>1. \A i, j \in 1 .. Len(b.items) : b.items[i] = b.items[j] => i = j
  BY BucketParts
<1>2. ASSUME NEW i1 \in 1 .. Len(b.items), NEW i2 \in 1 .. Len(b.items),
             NEW j1 \in 1 .. Len(b.items), NEW j2 \in 1 .. Len(b.items),
             b.items[i1] = b.items[j1], b.items[i2] = b.items[j2], i1 < i2
      PROVE  j1 < j2
  <2>1. i1 = j1 /\ i2 = j2
    BY <1>1, <1>2, Zenon
  <2> QED
    BY <1>2, <2>1, Zenon
<1> QED
  BY <1>2, Zenon DEF OrderKept

LEMMA ItemReweighedSucceeds ==
  ASSUME IsBucket(bucket), NEW i \in 1 .. Len(bucket.items), NEW w \in Weights,
         NEW c, c = [bucket EXCEPT !.item_weights[i] = w]
  PROVE  Succeeds(c, bucket)
<1>1. PICK s : /\ s = [bucket.item_weights EXCEPT ![i] = w]
               /\ s \in Seq(Weights) /\ Len(s) = Len(bucket.items)
  <2>1. /\ bucket.item_weights \in Seq(Weights) /\ i \in 1 .. Len(bucket.item_weights)
        /\ Len(bucket.item_weights) = Len(bucket.items)
    BY BucketParts
  <2>2. /\ [bucket.item_weights EXCEPT ![i] = w] \in Seq(Weights)
        /\ Len([bucket.item_weights EXCEPT ![i] = w]) = Len(bucket.item_weights)
    BY <2>1, ReplaceOne
  <2> QED
    BY <2>1, <2>2, Zenon
<1>2. c = [items |-> bucket.items, item_weights |-> s, weight_set |-> bucket.weight_set]
  BY <1>1 DEF IsBucket
<1>3. Fit(bucket.items, s, bucket.weight_set)
  BY <1>1, Zenon DEF IsBucket, Fit
<1>4. /\ IsBucket(c) /\ c.items = bucket.items /\ Len(c.weight_set) = Len(bucket.weight_set)
  <2>1. c.items = bucket.items /\ c.weight_set = bucket.weight_set
    BY <1>2
  <2>2. IsBucket(c)
    <3>1. IsBucket([items |-> bucket.items, item_weights |-> s,
                    weight_set |-> bucket.weight_set])
      BY <1>3, BucketMade, Zenon
    <3> QED
      BY <1>2, <3>1, Zenon
  <2> QED
    BY <2>1, <2>2, Zenon
<1> QED
  BY <1>4, SameOrder, Zenon DEF Succeeds

LEMMA PositionReweighedSucceeds ==
  ASSUME IsBucket(bucket), NEW p \in 1 .. Len(bucket.weight_set),
         NEW i \in 1 .. Len(bucket.items), NEW w \in Weights,
         NEW c, c = [bucket EXCEPT !.weight_set[p][i] = w]
  PROVE  Succeeds(c, bucket)
<1>1. /\ bucket.weight_set[p] \in Seq(Weights) /\ i \in 1 .. Len(bucket.weight_set[p])
      /\ Len(bucket.weight_set[p]) = Len(bucket.items)
  BY BucketParts
<1>2. PICK s : /\ s = [bucket.weight_set[p] EXCEPT ![i] = w]
               /\ s \in Seq(Weights) /\ Len(s) = Len(bucket.items)
  <2>1. /\ [bucket.weight_set[p] EXCEPT ![i] = w] \in Seq(Weights)
        /\ Len([bucket.weight_set[p] EXCEPT ![i] = w]) = Len(bucket.weight_set[p])
    BY <1>1, ReplaceOne
  <2> QED
    BY <1>1, <2>1, Zenon
<1>3. PICK t : /\ t = [bucket.weight_set EXCEPT ![p] = s]
               /\ t \in Seq(Seq(Weights)) /\ Len(t) = Len(bucket.weight_set)
  <2>1. bucket.weight_set \in Seq(Seq(Weights)) /\ s \in Seq(Weights)
    BY <1>2, BucketParts, Zenon
  <2>2. /\ [bucket.weight_set EXCEPT ![p] = s] \in Seq(Seq(Weights))
        /\ Len([bucket.weight_set EXCEPT ![p] = s]) = Len(bucket.weight_set)
    BY <2>1, ReplaceOne
  <2> QED
    BY <2>2, Zenon
<1>4. \A q \in 1 .. Len(bucket.weight_set) : Len(t[q]) = Len(bucket.items)
  BY <1>2, <1>3, BucketParts
<1>5. c = [items |-> bucket.items, item_weights |-> bucket.item_weights, weight_set |-> t]
  BY <1>2, <1>3 DEF IsBucket
<1>6. Fit(bucket.items, bucket.item_weights, t)
  BY <1>3, <1>4, Zenon DEF IsBucket, Fit
<1>7. /\ IsBucket(c) /\ c.items = bucket.items /\ Len(c.weight_set) = Len(bucket.weight_set)
  <2>1. c.items = bucket.items /\ c.weight_set = t
    BY <1>5
  <2>2. IsBucket(c)
    <3>1. IsBucket([items |-> bucket.items, item_weights |-> bucket.item_weights,
                    weight_set |-> t])
      BY <1>6, BucketMade, Zenon
    <3> QED
      BY <1>5, <3>1, Zenon
  <2> QED
    BY <1>3, <2>1, <2>2, Zenon
<1> QED
  BY <1>7, SameOrder, Zenon DEF Succeeds

(* The set of weights of each position, changed alike. *)
LEMMA EveryPosition ==
  ASSUME NEW p \in Nat, NEW k \in Nat, NEW f, DOMAIN f = 1 .. p, f = [q \in 1 .. p |-> f[q]],
         \A q \in 1 .. p : f[q] \in Seq(Weights) /\ Len(f[q]) = k
  PROVE  f \in Seq(Seq(Weights)) /\ Len(f) = p
<1>1. PICK g : g = f
  OBVIOUS
<1>2. g = [q \in 1 .. p |-> g[q]] /\ \A q \in 1 .. p : g[q] \in Seq(Weights)
  BY <1>1, Zenon
<1>3. g \in [1 .. p -> Seq(Weights)]
  BY <1>2, Zenon
<1>4. g \in Seq(Seq(Weights))
  BY <1>3, SeqDef
<1>5. Len(g) = p
  BY <1>3, <1>4
<1> QED
  BY <1>1, <1>4, <1>5

LEMMA AddedSucceeds ==
  ASSUME IsBucket(bucket), NEW id \in Ids \ ToSet(bucket.items), NEW w \in Weights,
         NEW c,
         c = [items |-> Append(bucket.items, id),
              item_weights |-> Append(bucket.item_weights, w),
              weight_set |-> [q \in DOMAIN bucket.weight_set |->
                                Append(bucket.weight_set[q], w)]]
  PROVE  Succeeds(c, bucket)
<1>1. PICK k \in Nat, p \in Nat : k = Len(bucket.items) /\ p = Len(bucket.weight_set)
  BY BucketParts, Zenon
<1>2. /\ bucket.items \in Seq(Ids) /\ bucket.item_weights \in Seq(Weights)
      /\ DOMAIN bucket.weight_set = 1 .. p /\ Len(bucket.item_weights) = k
      /\ \A q \in 1 .. p : /\ bucket.weight_set[q] \in Seq(Weights)
                          /\ Len(bucket.weight_set[q]) = k
      /\ \A i, j \in 1 .. k : bucket.items[i] = bucket.items[j] => i = j
      /\ DOMAIN bucket.items = 1 .. k
  BY <1>1, BucketParts, Zenon
<1>3. PICK items : /\ items = Append(bucket.items, id)
                   /\ items \in Seq(Ids) /\ Len(items) = k + 1
                   /\ \A j \in 1 .. k : items[j] = bucket.items[j]
                   /\ items[k + 1] = id
  <2>1. /\ Append(bucket.items, id) \in Seq(Ids)
        /\ Len(Append(bucket.items, id)) = Len(bucket.items) + 1
        /\ \A j \in 1 .. Len(bucket.items) : Append(bucket.items, id)[j] = bucket.items[j]
        /\ Append(bucket.items, id)[Len(bucket.items) + 1] = id
    BY <1>2, AddOne
  <2> QED
    BY <1>1, <2>1, Zenon
<1>4. PICK weights : /\ weights = Append(bucket.item_weights, w)
                     /\ weights \in Seq(Weights) /\ Len(weights) = k + 1
  <2>1. /\ Append(bucket.item_weights, w) \in Seq(Weights)
        /\ Len(Append(bucket.item_weights, w)) = Len(bucket.item_weights) + 1
    BY <1>2, AddOne
  <2> QED
    BY <1>2, <2>1, Zenon
<1>5. PICK f : f = [q \in 1 .. p |-> Append(bucket.weight_set[q], w)]
  OBVIOUS
<1>6. \A q \in 1 .. p : f[q] \in Seq(Weights) /\ Len(f[q]) = k + 1
  <2> TAKE q \in 1 .. p
  <2>1. PICK sq \in Seq(Weights) : sq = bucket.weight_set[q] /\ Len(sq) = k
    BY <1>2, Zenon
  <2>2. Append(sq, w) \in Seq(Weights) /\ Len(Append(sq, w)) = Len(sq) + 1
    BY AddOne
  <2> QED
    BY <1>5, <2>1, <2>2
<1>7. f \in Seq(Seq(Weights)) /\ Len(f) = p
  <2>1. k + 1 \in Nat /\ DOMAIN f = 1 .. p /\ f = [q \in 1 .. p |-> f[q]]
    BY <1>5
  <2> QED
    BY <1>6, <2>1, EveryPosition
<1>8. c = [items |-> items, item_weights |-> weights, weight_set |-> f]
  BY <1>2, <1>3, <1>4, <1>5
<1>9. \A j \in 1 .. k : bucket.items[j] # id
  BY <1>2 DEF ToSet
<1>10. \A i, j \in 1 .. k + 1 : items[i] = items[j] => i = j
  <2> SUFFICES ASSUME NEW i \in 1 .. k + 1, NEW j \in 1 .. k + 1, items[i] = items[j]
               PROVE  i = j
    OBVIOUS
  <2>1. CASE i \in 1 .. k /\ j \in 1 .. k
    BY <1>2, <1>3, <2>1, Zenon
  <2>2. CASE i = k + 1 /\ j \in 1 .. k
    BY <1>3, <1>9, <2>2, Zenon
  <2>3. CASE i \in 1 .. k /\ j = k + 1
    BY <1>3, <1>9, <2>3, Zenon
  <2>4. CASE i = k + 1 /\ j = k + 1
    BY <2>4
  <2> QED
    BY <2>1, <2>2, <2>3, <2>4
<1>11. IsBucket(c) /\ c.items = items /\ Len(c.items) = k + 1 /\ Len(c.weight_set) = p
  <2>1. k + 1 # 0
    OBVIOUS
  <2>2. Fit(items, weights, f)
    BY <1>3, <1>4, <1>6, <1>7, <1>10, <2>1, Zenon DEF Fit
  <2>3. c.items = items /\ c.weight_set = f
    BY <1>8
  <2>4. IsBucket(c)
    BY <1>8, <2>2, BucketMade, Zenon
  <2> QED
    BY <1>3, <1>7, <2>3, <2>4, Zenon
<1>12. OrderKept(bucket, c)
  <2> SUFFICES ASSUME NEW i1 \in 1 .. Len(bucket.items), NEW i2 \in 1 .. Len(bucket.items),
                      NEW j1 \in 1 .. Len(c.items), NEW j2 \in 1 .. Len(c.items),
                      bucket.items[i1] = c.items[j1], bucket.items[i2] = c.items[j2], i1 < i2
               PROVE  j1 < j2
    BY Zenon DEF OrderKept
  <2>1. /\ i1 \in 1 .. k /\ i2 \in 1 .. k /\ j1 \in 1 .. k + 1 /\ j2 \in 1 .. k + 1
        /\ bucket.items[i1] = items[j1] /\ bucket.items[i2] = items[j2]
    BY <1>1, <1>11, Zenon
  <2>2. items[i1] = items[j1] /\ items[i2] = items[j2] /\ i1 \in 1 .. k + 1 /\ i2 \in 1 .. k + 1
    BY <1>3, <2>1
  <2>3. i1 = j1 /\ i2 = j2
    BY <1>10, <2>1, <2>2, Zenon
  <2> QED
    BY <2>3
<1> QED
  BY <1>1, <1>11, <1>12 DEF Succeeds

LEMMA RemovedSucceeds ==
  ASSUME IsBucket(bucket), NEW i \in 1 .. Len(bucket.items), Len(bucket.items) > 1,
         NEW c,
         c = [items |-> RemoveAt(bucket.items, i),
              item_weights |-> RemoveAt(bucket.item_weights, i),
              weight_set |-> [q \in DOMAIN bucket.weight_set |->
                                RemoveAt(bucket.weight_set[q], i)]]
  PROVE  Succeeds(c, bucket)
<1>1. PICK k \in Nat, p \in Nat : k = Len(bucket.items) /\ p = Len(bucket.weight_set)
  BY BucketParts, Zenon
<1>2. /\ bucket.items \in Seq(Ids) /\ bucket.item_weights \in Seq(Weights)
      /\ DOMAIN bucket.weight_set = 1 .. p /\ Len(bucket.item_weights) = k
      /\ \A q \in 1 .. p : /\ bucket.weight_set[q] \in Seq(Weights)
                          /\ Len(bucket.weight_set[q]) = k
      /\ \A i1, j \in 1 .. k : bucket.items[i1] = bucket.items[j] => i1 = j
      /\ i \in 1 .. k /\ k > 1 /\ k # 0
  BY <1>1, BucketParts, Zenon
<1>3. PICK items : /\ items = RemoveAt(bucket.items, i)
                   /\ items \in Seq(Ids) /\ Len(items) = k - 1
                   /\ \A j \in 1 .. k - 1 : items[j] = IF j < i THEN bucket.items[j]
                                                                 ELSE bucket.items[j + 1]
  <2>1. PICK sq \in Seq(Ids) : sq = bucket.items /\ Len(sq) = k /\ i \in 1 .. Len(sq)
    BY <1>1, <1>2, Zenon
  <2>2. /\ RemoveAt(sq, i) \in Seq(Ids) /\ Len(RemoveAt(sq, i)) = Len(sq) - 1
        /\ \A j \in 1 .. Len(sq) - 1 : RemoveAt(sq, i)[j] = IF j < i THEN sq[j] ELSE sq[j + 1]
    BY <2>1, RemoveOne
  <2> QED
    BY <2>1, <2>2, Zenon
<1>4. PICK weights : /\ weights = RemoveAt(bucket.item_weights, i)
                     /\ weights \in Seq(Weights) /\ Len(weights) = k - 1
  <2>1. bucket.item_weights \in Seq(Weights) /\ i \in 1 .. Len(bucket.item_weights)
    BY <1>2
  <2>2. /\ RemoveAt(bucket.item_weights, i) \in Seq(Weights)
        /\ Len(RemoveAt(bucket.item_weights, i)) = Len(bucket.item_weights) - 1
    BY <2>1, RemoveOne
  <2> QED
    BY <1>2, <2>2, Zenon
<1>5. PICK f : f = [q \in 1 .. p |-> RemoveAt(bucket.weight_set[q], i)]
  OBVIOUS
<1>6. \A q \in 1 .. p : f[q] \in Seq(Weights) /\ Len(f[q]) = k - 1
  <2> TAKE q \in 1 .. p
  <2>1. PICK sq \in Seq(Weights) : sq = bucket.weight_set[q] /\ Len(sq) = k
    BY <1>2, Zenon
  <2>2. i \in 1 .. Len(sq)
    BY <1>2, <2>1
  <2>3. RemoveAt(sq, i) \in Seq(Weights) /\ Len(RemoveAt(sq, i)) = Len(sq) - 1
    BY <2>2, RemoveOne
  <2> QED
    BY <1>5, <2>1, <2>3
<1>7. f \in Seq(Seq(Weights)) /\ Len(f) = p
  <2>1. k - 1 \in Nat /\ DOMAIN f = 1 .. p /\ f = [q \in 1 .. p |-> f[q]]
    BY <1>2, <1>5
  <2> QED
    BY <1>6, <2>1, EveryPosition
<1>8. c = [items |-> items, item_weights |-> weights, weight_set |-> f]
  BY <1>2, <1>3, <1>4, <1>5
(* Where an item of the new bucket was in the old one. *)
<1> DEFINE Was(j) == IF j < i THEN j ELSE j + 1
<1>9. \A j \in 1 .. k - 1 : Was(j) \in 1 .. k /\ items[j] = bucket.items[Was(j)]
  BY <1>2, <1>3
<1>10. \A j1, j2 \in 1 .. k - 1 : /\ Was(j1) = Was(j2) => j1 = j2
                                  /\ Was(j1) < Was(j2) => j1 < j2
  BY <1>2
<1> HIDE DEF Was
<1>11. \A j1, j2 \in 1 .. k - 1 : items[j1] = items[j2] => j1 = j2
  <2> SUFFICES ASSUME NEW j1 \in 1 .. k - 1, NEW j2 \in 1 .. k - 1, items[j1] = items[j2]
               PROVE  j1 = j2
    OBVIOUS
  <2>1. /\ Was(j1) \in 1 .. k /\ Was(j2) \in 1 .. k
        /\ bucket.items[Was(j1)] = bucket.items[Was(j2)]
    BY <1>9
  <2>2. Was(j1) = Was(j2)
    BY <1>2, <2>1, Zenon
  <2> QED
    BY <1>10, <2>2, Zenon
<1>12. IsBucket(c) /\ c.items = items /\ Len(c.items) = k - 1 /\ Len(c.weight_set) = p
  <2>1. k - 1 # 0
    BY <1>2
  <2>2. Fit(items, weights, f)
    BY <1>3, <1>4, <1>6, <1>7, <1>11, <2>1, Zenon DEF Fit
  <2>3. c.items = items /\ c.weight_set = f
    BY <1>8
  <2>4. IsBucket(c)
    BY <1>8, <2>2, BucketMade, Zenon
  <2> QED
    BY <1>3, <1>7, <2>3, <2>4, Zenon
<1>13. OrderKept(bucket, c)
  <2> SUFFICES ASSUME NEW i1 \in 1 .. Len(bucket.items), NEW i2 \in 1 .. Len(bucket.items),
                      NEW j1 \in 1 .. Len(c.items), NEW j2 \in 1 .. Len(c.items),
                      bucket.items[i1] = c.items[j1], bucket.items[i2] = c.items[j2], i1 < i2
               PROVE  j1 < j2
    BY Zenon DEF OrderKept
  <2>1. /\ i1 \in 1 .. k /\ i2 \in 1 .. k /\ j1 \in 1 .. k - 1 /\ j2 \in 1 .. k - 1
        /\ bucket.items[i1] = items[j1] /\ bucket.items[i2] = items[j2]
    BY <1>1, <1>12, Zenon
  <2>2. i1 = Was(j1) /\ i2 = Was(j2)
    <3>1. /\ Was(j1) \in 1 .. k /\ bucket.items[i1] = bucket.items[Was(j1)]
          /\ Was(j2) \in 1 .. k /\ bucket.items[i2] = bucket.items[Was(j2)]
      BY <1>9, <2>1, Zenon
    <3> QED
      BY <1>2, <2>1, <3>1, Zenon
  <2> QED
    BY <1>10, <2>1, <2>2, Zenon
<1> QED
  BY <1>1, <1>12, <1>13 DEF Succeeds

LEMMA NextSucceeds ==
  ASSUME IsBucket(bucket), Next
  PROVE  Succeeds(bucket', bucket)
<1>1. DOMAIN bucket.items = 1 .. Len(bucket.items)
      /\ DOMAIN bucket.weight_set = 1 .. Len(bucket.weight_set)
  BY BucketParts, Zenon
<1>2. ASSUME NEW i \in DOMAIN bucket.items, NEW w \in Weights, ItemReweighed(i, w)
      PROVE  Succeeds(bucket', bucket)
  BY <1>1, <1>2, ItemReweighedSucceeds DEF ItemReweighed
<1>3. ASSUME NEW i \in DOMAIN bucket.items, NEW w \in Weights,
             NEW p \in DOMAIN bucket.weight_set, PositionReweighed(p, i, w)
      PROVE  Succeeds(bucket', bucket)
  BY <1>1, <1>3, PositionReweighedSucceeds DEF PositionReweighed
<1>4. ASSUME NEW id \in Ids \ ToSet(bucket.items), NEW w \in Weights, ItemAdded(id, w)
      PROVE  Succeeds(bucket', bucket)
  BY <1>1, <1>4, AddedSucceeds DEF ItemAdded
<1>5. ASSUME NEW i \in DOMAIN bucket.items, ItemRemoved(i)
      PROVE  Succeeds(bucket', bucket)
  BY <1>1, <1>5, RemovedSucceeds DEF ItemRemoved
<1> QED
  BY <1>2, <1>3, <1>4, <1>5, Zenon DEF Next

-----------------------------------------------------------------------------
(* The invariant                                                           *)

LEMMA InitBucket == Init => BucketInv
<1> SUFFICES ASSUME Init PROVE BucketInv
  OBVIOUS
<1>1. PICK id \in Ids, w \in Weights, positions \in DOMAIN MaxItems :
        bucket = [items |-> <<id>>, item_weights |-> <<w>>,
                  weight_set |-> [p \in 1 .. positions |-> <<w>>]]
  BY DEF Init
<1>2. positions \in Nat
  BY MaxItemsAssumption
<1>3. PICK sets : sets = [p \in 1 .. positions |-> <<w>>]
  OBVIOUS
<1>4. <<w>> \in Seq(Weights) /\ Len(<<w>>) = 1
  OBVIOUS
<1>5. sets \in Seq(Seq(Weights)) /\ Len(sets) = positions
  <2>1. DOMAIN sets = 1 .. positions /\ sets = [p \in 1 .. positions |-> sets[p]]
    BY <1>3
  <2>2. \A p \in 1 .. positions : sets[p] \in Seq(Weights) /\ Len(sets[p]) = 1
    BY <1>3, <1>4
  <2> QED
    BY <1>2, <2>1, <2>2, EveryPosition
<1>6. Fit(<<id>>, <<w>>, sets)
  <2>1. <<id>> \in Seq(Ids) /\ Len(<<id>>) = 1
    OBVIOUS
  <2>2. \A i, j \in 1 .. Len(<<id>>) : i = j
    BY <2>1
  <2>3. \A p \in 1 .. Len(sets) : Len(sets[p]) = 1
    BY <1>3, <1>4, <1>5
  <2> QED
    BY <1>4, <1>5, <2>1, <2>2, <2>3 DEF Fit
<1>7. IsBucket(bucket)
  BY <1>1, <1>3, <1>6, BucketMade
<1> QED
  BY <1>7 DEF Init, BucketInv

LEMMA NextBucket == BucketInv /\ [Next]_vars => BucketInv'
<1>1. CASE BucketInv /\ Next
  <2>1. IsBucket(bucket)'
    BY <1>1, NextSucceeds, Zenon DEF BucketInv, Succeeds, IsBucket
  <2>2. hashOf' = hashOf /\ placed' = Placed(bucket')
    BY <1>1, Zenon DEF Next
  <2>3. Placed(bucket)' = Placed(bucket')
    BY <2>2, Zenon DEF Placed, bucket_straw2_choose, Draws
  <2> QED
    BY <1>1, <2>1, <2>2, <2>3, Zenon DEF BucketInv
<1>2. CASE BucketInv /\ UNCHANGED vars
  BY <1>2, Zenon DEF BucketInv, IsBucket, vars, Placed, bucket_straw2_choose, Draws
<1> QED
  BY <1>1, <1>2, Zenon

(* A bucket keeps its shape whatever changes: its sequences are as long as *)
(* its items are many, no item is in it twice, and each object is where    *)
(* the draws put it.                                                       *)
THEOREM BucketInvariant == Spec => []BucketInv
  BY InitBucket, NextBucket, PTL DEF Spec

-----------------------------------------------------------------------------
(* Who wins                                                                *)

(* An item that c has not made lighter than it is in b is in c, and its    *)
(* straw is as long as it was.                                             *)
LEMMA StaysAsLong ==
  ASSUME LogarithmsFit, hashOf \in [Ids -> Hashes],
         NEW b, IsBucket(b), NEW c, IsBucket(c),
         NEW n \in Positions(b), n \in Positions(c),
         NEW i \in 1 .. Len(b.items), ~Heavier(b, c, b.items[i], n)
  PROVE  \E j \in 1 .. Len(c.items) :
           c.items[j] = b.items[i] /\ DrawOf(b, i, n) <= DrawOf(c, j, n)
<1>1. PICK w1 : w1 = get_choose_arg_weights(b, n)[i] /\ IsWeight(w1)
  BY WeightsInUse
<1>2. PICK w : w = WeightOf(c, b.items[i], n) /\ AtMost(w1, w)
  BY <1>1, WeightOfItem, Zenon DEF Heavier
<1>3. IsNumber(w1) /\ 0 <= Val(w1) /\ Val(w1) \in Int
  BY <1>1, WeightNumber, OrderedByValue, SMT
<1>4. PICK j \in 1 .. Len(c.items) : c.items[j] = b.items[i]
  <2> SUFFICES ASSUME \A j \in 1 .. Len(c.items) : c.items[j] # b.items[i] PROVE FALSE
    OBVIOUS
  <2>1. w = <<-1, 0>>
    BY <1>2, NoWeight, Zenon
  <2>2. IsNumber(w) /\ Val(w) = -16777216
    BY <2>1, SMT DEF IsNumber, Val
  <2>3. Val(w1) <= Val(w)
    BY <1>2, <1>3, <2>2, OrderedByValue, SMT
  <2> QED
    BY <1>3, <2>2, <2>3, SMT
<1>5. w = get_choose_arg_weights(c, n)[j] /\ IsWeight(w)
  <2>1. IsWeight(get_choose_arg_weights(c, n)[j])
    BY WeightsInUse
  <2> QED
    BY <1>2, <1>4, <2>1, WeightOfItem, Zenon
<1>6. Val(w1) <= Val(w)
  BY <1>2, <1>3, <1>5, WeightNumber, OrderedByValue, SMT
<1>7. PICK u : u = hashOf[b.items[i]] /\ IsBelow48(crush_ln(u))
  BY BucketParts, Zenon DEF LogarithmsFit
<1>8. Dividend(u) <= Dividend(u)
  BY <1>7, DividendBounds, SMT
<1>9. Val(Straw(u, w1)) <= Val(Straw(u, w))
  BY <1>1, <1>5, <1>6, <1>7, <1>8, StrawGrows, SMT
<1> QED
  BY <1>1, <1>4, <1>5, <1>7, <1>9, Zenon DEF DrawOf

LEMMA MovedByWeight ==
  ASSUME LogarithmsFit, hashOf \in [Ids -> Hashes],
         NEW b, IsBucket(b), NEW c, Succeeds(c, b), NEW n \in Positions(b)
  PROVE  Placed(c)[n] # Placed(b)[n] => \/ Heavier(c, b, Placed(c)[n], n)
                                        \/ Heavier(b, c, Placed(b)[n], n)
<1> SUFFICES ASSUME Placed(c)[n] # Placed(b)[n],
                    ~Heavier(c, b, Placed(c)[n], n), ~Heavier(b, c, Placed(b)[n], n)
             PROVE  FALSE
  OBVIOUS
<1>1. IsBucket(c) /\ OrderKept(b, c) /\ n \in Positions(c)
  BY Zenon DEF Succeeds, Positions
<1>2. PICK h \in 1 .. Len(b.items) :
        /\ Placed(b)[n] = b.items[h]
        /\ \A j \in 1 .. Len(b.items) : DrawOf(b, j, n) <= DrawOf(b, h, n)
        /\ \A j \in 1 .. h - 1 : DrawOf(b, j, n) < DrawOf(b, h, n)
  BY Winner, Zenon
<1>3. PICK h2 \in 1 .. Len(c.items) :
        /\ Placed(c)[n] = c.items[h2]
        /\ \A j \in 1 .. Len(c.items) : DrawOf(c, j, n) <= DrawOf(c, h2, n)
        /\ \A j \in 1 .. h2 - 1 : DrawOf(c, j, n) < DrawOf(c, h2, n)
  BY <1>1, Winner, Zenon
<1>4. PICK k2 \in 1 .. Len(c.items) :
        c.items[k2] = b.items[h] /\ DrawOf(b, h, n) <= DrawOf(c, k2, n)
  BY <1>1, <1>2, StaysAsLong, Zenon
<1>5. PICK k \in 1 .. Len(b.items) :
        b.items[k] = c.items[h2] /\ DrawOf(c, h2, n) <= DrawOf(b, k, n)
  BY <1>1, <1>3, StaysAsLong, Zenon
<1>6. /\ DrawOf(b, h, n) \in Int /\ DrawOf(b, k, n) \in Int
      /\ DrawOf(c, h2, n) \in Int /\ DrawOf(c, k2, n) \in Int
  BY <1>1, Winner, Zenon
<1>7. DrawOf(b, k, n) <= DrawOf(b, h, n) /\ DrawOf(c, k2, n) <= DrawOf(c, h2, n)
  BY <1>2, <1>3, Zenon
<1>8. DrawOf(b, k, n) = DrawOf(b, h, n) /\ DrawOf(c, k2, n) = DrawOf(c, h2, n)
  BY <1>4, <1>5, <1>6, <1>7, SMT
<1>9. h # k /\ h2 # k2
  BY <1>2, <1>3, <1>4, <1>5, Zenon
<1>10. ~(k \in 1 .. h - 1) /\ ~(k2 \in 1 .. h2 - 1)
  BY <1>2, <1>3, <1>6, <1>8, SMT
<1>11. h < k /\ h2 < k2
  <2>1. Len(b.items) \in Nat /\ Len(c.items) \in Nat
    BY <1>1, BucketParts, Zenon
  <2>2. h \in Int /\ k \in Int /\ h2 \in Int /\ k2 \in Int /\ 1 <= k /\ 1 <= k2
    BY <2>1
  <2> HIDE <2>1
  <2> QED
    BY <1>9, <1>10, <2>2, SMT
<1>12. k2 < h2
  BY <1>1, <1>4, <1>5, <1>11, Zenon DEF OrderKept
<1>13. h2 \in Int /\ k2 \in Int
  <2>1. Len(c.items) \in Nat
    BY <1>1, BucketParts, Zenon
  <2> QED
    BY <2>1
<1> QED
  BY <1>11, <1>12, <1>13, SMT

(* The least movement, for buckets of any size and all weights of 32 bits: *)
(* when an epoch changes the bucket, an object moves only to an item that  *)
(* has become heavier or away from one that has become lighter             *)
(* (bucket_straw2_choose, crush_calc_straw's replacement).                 *)
THEOREM LeastMovement ==
  ASSUME LogarithmsFit
  PROVE  Spec => MovesOnlyWithWeight
<1>1. BucketInv /\ [Next]_vars =>
        [\A n \in Positions(bucket) :
           placed'[n] # placed[n] => \/ Heavier(bucket', bucket, placed'[n], n)
                                    \/ Heavier(bucket, bucket', placed[n], n)]_vars
  <2> SUFFICES ASSUME BucketInv, Next, NEW n \in Positions(bucket)
               PROVE  placed'[n] # placed[n] => \/ Heavier(bucket', bucket, placed'[n], n)
                                               \/ Heavier(bucket, bucket', placed[n], n)
    BY Zenon
  <2>1. IsBucket(bucket) /\ hashOf \in [Ids -> Hashes] /\ placed = Placed(bucket)
    BY Zenon DEF BucketInv
  <2>2. placed' = Placed(bucket')
    BY Zenon DEF Next
  <2>3. Succeeds(bucket', bucket)
    BY <2>1, NextSucceeds
  <2> QED
    BY <2>1, <2>2, <2>3, MovedByWeight, Zenon
<1> QED
  BY <1>1, BucketInvariant, PTL DEF Spec, MovesOnlyWithWeight

(* Beside an item with a weight, the item of the longest straw has one;    *)
(* where none has a weight, it is the first.                               *)
LEMMA WeightedWins ==
  ASSUME LogarithmsFit, BucketInv, NEW n \in Positions(bucket),
         NEW h \in 1 .. Len(bucket.items),
         \A j \in 1 .. Len(bucket.items) : DrawOf(bucket, j, n) <= DrawOf(bucket, h, n),
         \A j \in 1 .. h - 1 : DrawOf(bucket, j, n) < DrawOf(bucket, h, n)
  PROVE  bucket.items[h] \in Seen(n)!Drawable(0)
<1>1. PICK weights : weights = get_choose_arg_weights(bucket, n)
  OBVIOUS
<1>2. IsBucket(bucket) /\ hashOf \in [Ids -> Hashes]
  BY Zenon DEF BucketInv
<1>3. PICK k \in Nat : k = Len(bucket.items) /\ h \in 1 .. k
  BY <1>2, BucketParts, Zenon
<1>4. \A j \in 1 .. k : IsWeight(weights[j]) /\ hashOf[bucket.items[j]] \in Hashes
  BY <1>1, <1>2, <1>3, WeightsInUse, BucketParts
<1>5. PICK none, least \in Int : none = -18014398509481984 /\ least = -281474976710656
  BY SMT
<1>6. \A j \in 1 .. k : /\ DrawOf(bucket, j, n) \in Int
                       /\ (weights[j] = Zero => DrawOf(bucket, j, n) = none)
                       /\ (weights[j] # Zero => least <= DrawOf(bucket, j, n))
  <2> TAKE j \in 1 .. k
  <2>1. PICK u, w : /\ u = hashOf[bucket.items[j]] /\ w = weights[j]
                    /\ IsBelow48(crush_ln(u)) /\ IsWeight(w)
    BY <1>4, Zenon DEF LogarithmsFit
  <2>2. /\ Val(Straw(u, w)) \in Int
        /\ Val(w) = 0 => Val(Straw(u, w)) = none
        /\ 0 < Val(w) => least <= Val(Straw(u, w))
    BY <1>5, <2>1, StrawBounds, SMT
  <2>3. PICK v \in Int : v = Val(w) /\ 0 <= v /\ (w = Zero <=> v = 0)
    BY <2>1, WeightNumber, OrderedByValue, SMT
  <2>4. /\ Val(Straw(u, w)) \in Int
        /\ w = Zero => Val(Straw(u, w)) = none
        /\ w # Zero => least <= Val(Straw(u, w))
    BY <2>2, <2>3, SMT
  <2>5. DrawOf(bucket, j, n) = Val(Straw(u, w))
    BY <1>1, <2>1, Zenon DEF DrawOf
  <2> QED
    BY <2>1, <2>4, <2>5, SMT
<1>7. none < least
  BY <1>5, SMT
<1> HIDE <1>5
<1>8. CASE \E j \in 1 .. k : weights[j] # Zero
  <2>1. PICK j \in 1 .. k : weights[j] # Zero
    BY <1>8
  <2>2. DrawOf(bucket, j, n) <= DrawOf(bucket, h, n)
    BY <1>3
  <2>3. /\ DrawOf(bucket, j, n) \in Int /\ DrawOf(bucket, h, n) \in Int
        /\ least <= DrawOf(bucket, j, n)
        /\ weights[h] = Zero => DrawOf(bucket, h, n) = none
    BY <1>3, <1>6, <2>1
  <2>4. weights[h] # Zero
    BY <1>7, <2>2, <2>3, SMT
  <2> QED
    BY <1>1, <1>3, <2>4 DEF Seen!Drawable, Zero
<1>9. CASE \A j \in 1 .. k : weights[j] = Zero
  <2>1. h = 1
    <3> SUFFICES ASSUME h # 1 PROVE FALSE
      OBVIOUS
    <3>1. 1 \in 1 .. h - 1 /\ 1 \in 1 .. k
      BY <1>3
    <3>2. DrawOf(bucket, 1, n) < DrawOf(bucket, h, n)
      BY <3>1
    <3>3. DrawOf(bucket, 1, n) = none /\ DrawOf(bucket, h, n) = none
      BY <1>3, <1>6, <1>9, <3>1
    <3> QED
      BY <3>2, <3>3, SMT
  <2>2. \A j \in 1 .. Len(bucket.items) : get_choose_arg_weights(bucket, n)[j] = Zero
    BY <1>1, <1>3, <1>9
  <2>3. 1 \in 1 .. Len(bucket.items)
    BY <1>3, <2>1
  <2>4. 1 \in (1 .. Len(bucket.items)) \intersect {1}
    BY <2>3
  <2>5. PICK f : f = [b \in {0} |-> [i \in DOMAIN bucket.items |->
                      IF get_choose_arg_weights(bucket, n)[i] = <<0, 0>> THEN 0 ELSE 1]]
    OBVIOUS
  <2>6. {i \in 1 .. Len(bucket.items) : f[0][i] # 0} = {}
    <3>1. DOMAIN bucket.items = 1 .. Len(bucket.items)
      BY <1>2, BucketParts, Zenon
    <3> QED
      BY <2>2, <2>5, <3>1 DEF Zero
  <2>7. Seen(n)!Drawable(0) = {bucket.items[i] : i \in (1 .. Len(bucket.items)) \intersect {1}}
    BY <2>5, <2>6 DEF Seen!Drawable, Zero
  <2> QED
    BY <2>1, <2>4, <2>7
<1> QED
  BY <1>8, <1>9

LEMMA LightWeight ==
  ASSUME NEW w, IsWeight(w), w[1] < 128
  PROVE  Val(w) < 2147483648
<1>1. PICK x, y \in Int : w = <<x, y>> /\ 0 <= x /\ x < 256 /\ 0 <= y /\ y < Low
  BY LowInt, SMT DEF IsWeight
<1>2. x < 128
  BY <1>1
<1>3. Val(w) = x * 16777216 + y
  BY <1>1, SMT DEF Val
<1> QED
  BY <1>1, <1>2, <1>3, LowValue, SMT

(* The longest straw wins, in buckets of any size whose weights the int    *)
(* parameter of the draw holds (a weight of 2^31 or more counts as         *)
(* negative: among those, a longer logarithm draws a shorter straw).       *)
THEOREM LongestWins ==
  ASSUME LogarithmsFit, \A w \in Weights : w[1] < 128
  PROVE  Spec => []LongestStrawWins
<1>1. BucketInv => LongestStrawWins
  <2> SUFFICES ASSUME BucketInv, NEW n \in Positions(bucket), NEW high,
                      high = CHOOSE i \in DOMAIN bucket.items : bucket.items[i] = placed[n]
               PROVE  /\ placed[n] \in Seen(n)!Drawable(0)
                      /\ \A i \in 1 .. high - 1 :
                           ~(/\ AtMost(WeightOf(bucket, placed[n], n),
                                       WeightOf(bucket, bucket.items[i], n))
                             /\ AtMost(crush_ln(hashOf[placed[n]]),
                                       crush_ln(hashOf[bucket.items[i]])))
    BY Zenon DEF LongestStrawWins
  <2>1. IsBucket(bucket) /\ hashOf \in [Ids -> Hashes] /\ placed = Placed(bucket)
    BY Zenon DEF BucketInv
  <2>2. PICK h \in 1 .. Len(bucket.items) :
          /\ placed[n] = bucket.items[h]
          /\ \A j \in 1 .. Len(bucket.items) : DrawOf(bucket, j, n) <= DrawOf(bucket, h, n)
          /\ \A j \in 1 .. h - 1 : DrawOf(bucket, j, n) < DrawOf(bucket, h, n)
    BY <2>1, Winner, Zenon
  <2>3. high = h
    <3>1. DOMAIN bucket.items = 1 .. Len(bucket.items)
      BY <2>1, BucketParts, Zenon
    <3>2. \A i \in DOMAIN bucket.items : bucket.items[i] = placed[n] <=> i = h
      BY <2>1, <2>2, <3>1, BucketParts, Zenon
    <3> QED
      BY <2>2, <3>1, <3>2, Zenon
  <2>4. placed[n] \in Seen(n)!Drawable(0)
    BY <2>2, WeightedWins, Zenon
  <2>5. ASSUME NEW i \in 1 .. h - 1,
               AtMost(WeightOf(bucket, bucket.items[h], n),
                      WeightOf(bucket, bucket.items[i], n)),
               AtMost(crush_ln(hashOf[bucket.items[h]]), crush_ln(hashOf[bucket.items[i]]))
        PROVE  FALSE
    <3>1. i \in 1 .. Len(bucket.items)
      <4>1. Len(bucket.items) \in Nat
        BY <2>1, BucketParts, Zenon
      <4> QED
        BY <4>1
    <3>2. PICK u1, u2, w1, w2 :
            /\ u1 = hashOf[bucket.items[h]] /\ u2 = hashOf[bucket.items[i]]
            /\ w1 = get_choose_arg_weights(bucket, n)[h]
            /\ w2 = get_choose_arg_weights(bucket, n)[i]
      OBVIOUS
    <3>3. u1 \in Hashes /\ u2 \in Hashes
      BY <2>1, <3>1, <3>2, BucketParts
    <3>4. /\ w1 \in Weights /\ IsWeight(w1) /\ w2 \in Weights /\ IsWeight(w2)
          /\ AtMost(w1, w2)
      <4>1. w1 \in Weights /\ IsWeight(w1) /\ w2 \in Weights /\ IsWeight(w2)
        BY <2>1, <3>1, <3>2, WeightsInUse, SMT
      <4>2. /\ WeightOf(bucket, bucket.items[h], n) = w1
            /\ WeightOf(bucket, bucket.items[i], n) = w2
        BY <2>1, <3>1, <3>2, WeightOfItem, SMT
      <4> QED
        BY <2>5, <4>1, <4>2, SMT
    <3>5. Val(w1) <= Val(w2) /\ Val(w2) < 2147483648
      <4>1. Val(w2) < 2147483648
        BY <3>4, LightWeight, SMT
      <4>2. IsNumber(w1) /\ IsNumber(w2)
        BY <3>4, WeightNumber, SMT
      <4>3. Val(w1) <= Val(w2)
        BY <3>4, <4>2, OrderedByValue, SMT
      <4> QED
        BY <4>1, <4>3
    <3>6. IsBelow48(crush_ln(u1)) /\ IsBelow48(crush_ln(u2))
      BY <3>3, Zenon DEF LogarithmsFit
    <3>7. Dividend(u2) <= Dividend(u1)
      <4>1. IsNumber(crush_ln(u1)) /\ IsNumber(crush_ln(u2))
        BY <3>6, DividendBounds, SMT
      <4>2. AtMost(crush_ln(u1), crush_ln(u2))
        BY <2>5, <3>2, Zenon
      <4>3. PICK x, y \in Int : x = Val(crush_ln(u1)) /\ y = Val(crush_ln(u2)) /\ x <= y
        BY <4>1, <4>2, OrderedByValue, Zenon
      <4>4. PICK z \in Int : z = Val(<<Low, 0>>)
        BY LowValue, SMT DEF Val
      <4> QED
        BY <4>3, <4>4, SMT DEF Dividend
    <3>8. Val(Straw(u1, w1)) <= Val(Straw(u2, w2))
      BY <3>4, <3>5, <3>6, <3>7, StrawGrows, SMT
    <3>9. DrawOf(bucket, h, n) <= DrawOf(bucket, i, n)
      BY <3>2, <3>8, Zenon DEF DrawOf
    <3>10. /\ DrawOf(bucket, h, n) \in Int /\ DrawOf(bucket, i, n) \in Int
           /\ DrawOf(bucket, i, n) < DrawOf(bucket, h, n)
      BY <2>1, <2>2, <2>5, <3>1, Winner, Zenon
    <3> QED
      BY <3>9, <3>10, SMT
  <2> QED
    BY <2>2, <2>3, <2>4, <2>5, Zenon
<1> QED
  BY <1>1, BucketInvariant, PTL
=============================================================================
