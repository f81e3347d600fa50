--------------------------- MODULE MessageProofs ---------------------------
(***************************************************************************)
(* The messages of an upload, from the bytes on the wire to the handler:   *)
(* who owns the objects on the heap, that decoding inverts encoding, and   *)
(* what UploadFile stores, for any messages, texts, sizes, chunks and      *)
(* streams and whatever a peer sends.                                      *)
(***************************************************************************)
EXTENDS UploadStream, Induction, FiniteSetTheorems, SequenceTheorems, TLAPS

-----------------------------------------------------------------------------
(* The wire: varints                                                       *)

Bytes == 0 .. 255

LEMMA BytesAreNumbers ==
  ASSUME NEW b \in Bytes
  PROVE  b \in Nat /\ b \in Int
  BY DEF Bytes

(* Where the varint at the start of a wire ends.                           *)
LEMMA VarintEnds ==
  ASSUME NEW wire \in Seq(Bytes)
  PROVE  VarintLength(wire) \in 0 .. Len(wire)
<1>1. CASE \A i \in DOMAIN wire : wire[i] >= 128
  BY <1>1 DEF VarintLength
<1>2. CASE ~\A i \in DOMAIN wire : wire[i] >= 128
  <2> DEFINE T == {i \in DOMAIN wire : wire[i] < 128}
  <2>1. T \in SUBSET Nat /\ \A i \in DOMAIN wire : wire[i] \in Int
    <3>1. DOMAIN wire \subseteq Nat
      BY LenProperties
    <3>2. \A i \in DOMAIN wire : wire[i] \in Bytes
      BY LenProperties, ElementOfSeq
    <3> QED
      BY <3>1, <3>2, BytesAreNumbers
  <2>2. T # {}
    BY <1>2, <2>1
  <2>3. PICK n \in T : \A m \in T : n <= m
    BY <2>1, <2>2, LeastElement
  <2>4. n \in DOMAIN wire /\ wire[n] < 128 /\ n \in Nat
    BY <2>1, <2>3
  <2>5. \A i \in 1 .. n - 1 : wire[i] >= 128
    <3> TAKE i \in 1 .. n - 1
    <3>1. i \in DOMAIN wire /\ i < n
      BY <2>4
    <3>2. i \notin T
      BY <2>3, <2>4, <3>1
    <3> QED
      BY <2>1, <3>1, <3>2
  <2>6. \E k \in DOMAIN wire : wire[k] < 128 /\ \A i \in 1 .. k - 1 : wire[i] >= 128
    BY <2>4, <2>5
  <2>7. VarintLength(wire) \in DOMAIN wire
    BY <1>2, <2>6, Zenon DEF VarintLength
  <2> QED
    BY <2>7
<1> QED
  BY <1>1, <1>2

Upper(wire, n) ==
  LET upper[k \in 0 .. n] == IF k = 0 THEN 0 ELSE 128 * upper[k - 1] + (wire[n - k + 1] % 128)
  IN  upper

UpperStart(wire, n, g, l) ==
  g = [k \in 0 .. l |-> IF k = 0 THEN 0 ELSE 128 * g[k - 1] + (wire[n - k + 1] % 128)]

LEMMA UpperDefined ==
  ASSUME NEW wire, NEW n \in Nat
  PROVE  UpperStart(wire, n, Upper(wire, n), n)
<1> DEFINE S == {k \in Nat : \E g : UpperStart(wire, n, g, k)}
<1>1. 0 \in S
  <2> DEFINE g == [k \in 0 .. 0 |-> 0]
  <2>1. g = [k \in 0 .. 0 |-> IF k = 0 THEN 0 ELSE 128 * g[k - 1] + (wire[n - k + 1] % 128)]
    OBVIOUS
  <2>2. UpperStart(wire, n, g, 0)
    BY <2>1 DEF UpperStart
  <2> QED
    BY <2>2
<1>2. ASSUME NEW l \in Nat, l \in S
      PROVE  l + 1 \in S
  <2>1. PICK g : UpperStart(wire, n, g, l)
    BY <1>2
  <2> DEFINE h == [k \in 0 .. l + 1 |->
                     IF k <= l THEN g[k] ELSE 128 * g[l] + (wire[n - (l + 1) + 1] % 128)]
  <2>2. \A k \in 0 .. l + 1 :
          h[k] = IF k = 0 THEN 0 ELSE 128 * h[k - 1] + (wire[n - k + 1] % 128)
    <3> TAKE k \in 0 .. l + 1
    <3>1. CASE k = 0
      BY <2>1, <3>1 DEF UpperStart
    <3>2. CASE k \in 1 .. l
      <4>1. /\ k \in 0 .. l /\ k - 1 \in 0 .. l /\ k # 0
            /\ k - 1 <= l /\ k <= l /\ k - 1 \in 0 .. l + 1
        BY <3>2
      <4>2. g[k] = 128 * g[k - 1] + (wire[n - k + 1] % 128)
        BY <2>1, <4>1 DEF UpperStart
      <4> QED
        BY <4>1, <4>2
    <3>3. CASE k = l + 1
      <4>1. ~(k <= l) /\ k - 1 = l /\ k - 1 \in 0 .. l + 1 /\ l <= l /\ k # 0
        BY <3>3
      <4> QED
        BY <3>3, <4>1
    <3> QED
      BY <3>1, <3>2, <3>3
  <2>3. h = [k \in 0 .. l + 1 |-> IF k = 0 THEN 0 ELSE 128 * h[k - 1] + (wire[n - k + 1] % 128)]
    BY <2>2
  <2>4. UpperStart(wire, n, h, l + 1)
    BY <2>3, Zenon DEF UpperStart
  <2> QED
    BY <2>4
<1>3. \E g : UpperStart(wire, n, g, n)
  <2> HIDE DEF S
  <2>1. Nat \subseteq S
    BY <1>1, <1>2, NumberInduction
  <2>2. n \in S
    BY <2>1
  <2> QED
    BY <2>2 DEF S
<1>4. Upper(wire, n) = CHOOSE g : UpperStart(wire, n, g, n)
  BY DEF Upper, UpperStart
<1> QED
  BY <1>3, <1>4, Zenon

LEMMA VarintIsNumber ==
  ASSUME NEW wire \in Seq(Bytes)
  PROVE  VarintValue(wire) \in Nat
<1>1. PICK n \in Nat : n = VarintLength(wire) /\ n <= Len(wire)
  BY VarintEnds
<1>2. PICK f : f = Upper(wire, n)
  OBVIOUS
<1>3. UpperStart(wire, n, f, n)
  BY <1>2, UpperDefined, Zenon
<1>4. \A k \in 0 .. n : f[k] = IF k = 0 THEN 0 ELSE 128 * f[k - 1] + (wire[n - k + 1] % 128)
  BY <1>3, Zenon DEF UpperStart
<1> DEFINE S == {k \in Nat : k <= n => f[k] \in Nat}
<1>5. 0 \in S
  BY <1>4
<1>6. ASSUME NEW k \in Nat, k \in S PROVE k + 1 \in S
  <2> SUFFICES ASSUME k + 1 <= n PROVE f[k + 1] \in Nat
    OBVIOUS
  <2>1. f[k] \in Nat
    BY <1>6
  <2>2. k + 1 \in 0 .. n /\ (k + 1) - 1 = k /\ k + 1 # 0
    OBVIOUS
  <2>3. f[k + 1] = 128 * f[k] + (wire[n - (k + 1) + 1] % 128)
    BY <1>4, <2>2, Zenon
  <2>4. wire[n - (k + 1) + 1] \in Nat
    <3>1. Len(wire) \in Nat
      BY LenProperties
    <3>2. n - (k + 1) + 1 \in 1 .. Len(wire)
      BY <1>1, <3>1
    <3>3. wire[n - (k + 1) + 1] \in Bytes
      BY <3>2, ElementOfSeq
    <3> QED
      BY <3>3, BytesAreNumbers
  <2> QED
    BY <2>1, <2>3, <2>4
<1>7. f[n] \in Nat
  <2>1. n \in S
    <3> HIDE DEF S
    <3>1. Nat \subseteq S
      BY <1>5, <1>6, NumberInduction
    <3> QED
      BY <3>1
  <2> QED
    BY <2>1
<1>8. VarintValue(wire) = f[n]
  BY <1>1, <1>2 DEF VarintValue, Upper
<1> QED
  BY <1>7, <1>8
(* The wires u and w start with the same n bytes.                          *)
Agree(u, w, n) == n <= Len(u) /\ n <= Len(w) /\ \A i \in 1 .. n : u[i] = w[i]

(* The varint at the start of a wire has n bytes.                          *)
VarintAt(wire, n) ==
  n \in 1 .. Len(wire) /\ wire[n] < 128 /\ \A i \in 1 .. n - 1 : wire[i] >= 128

LEMMA WireBytes ==
  ASSUME NEW wire \in Seq(Bytes)
  PROVE  /\ Len(wire) \in Nat /\ DOMAIN wire = 1 .. Len(wire)
         /\ \A i \in 1 .. Len(wire) : wire[i] \in Bytes /\ wire[i] \in Nat
  BY LenProperties, ElementOfSeq, BytesAreNumbers

LEMMA VarintIs ==
  ASSUME NEW wire \in Seq(Bytes), NEW n, VarintAt(wire, n)
  PROVE  VarintLength(wire) = n
<1>1. /\ n \in 1 .. Len(wire) /\ wire[n] < 128
      /\ \A i \in 1 .. n - 1 : wire[i] >= 128
  BY Zenon DEF VarintAt
<1>2. n \in DOMAIN wire /\ \A i \in DOMAIN wire : wire[i] \in Nat
  BY <1>1, WireBytes
<1>3. ~\A i \in DOMAIN wire : wire[i] >= 128
  BY <1>1, <1>2
<1>4. ASSUME NEW k \in DOMAIN wire, wire[k] < 128, \A i \in 1 .. k - 1 : wire[i] >= 128
      PROVE  k = n
  <2>1. k \in Nat /\ n \in Nat /\ k >= 1 /\ n >= 1 /\ wire[k] \in Nat /\ wire[n] \in Nat
    BY <1>1, <1>2, WireBytes
  <2>2. ~(k < n)
    BY <1>1, <1>4, <2>1
  <2>3. ~(n < k)
    BY <1>1, <1>4, <2>1
  <2> QED
    BY <2>1, <2>2, <2>3
<1>5. (CHOOSE k \in DOMAIN wire : wire[k] < 128 /\ \A i \in 1 .. k - 1 : wire[i] >= 128) = n
  BY <1>1, <1>2, <1>4, Zenon
<1> QED
  BY <1>3, <1>5, Zenon DEF VarintLength

LEMMA VarintIsAt ==
  ASSUME NEW wire \in Seq(Bytes), VarintLength(wire) # 0
  PROVE  VarintAt(wire, VarintLength(wire))
<1>1. ~\A i \in DOMAIN wire : wire[i] >= 128
  BY Zenon DEF VarintLength
<1> DEFINE T == {i \in DOMAIN wire : wire[i] < 128}
<1>2. T \in SUBSET Nat /\ T # {} /\ \A i \in DOMAIN wire : wire[i] \in Nat
  <2>1. DOMAIN wire \subseteq Nat /\ \A i \in DOMAIN wire : wire[i] \in Nat
    BY WireBytes
  <2> QED
    BY <1>1, <2>1
<1>3. PICK n \in T : \A m \in T : n <= m
  BY <1>2, LeastElement
<1>4. \A i \in 1 .. n - 1 : wire[i] >= 128
  <2> TAKE i \in 1 .. n - 1
  <2>1. n \in 1 .. Len(wire) /\ i \in DOMAIN wire /\ i < n
    BY <1>3, WireBytes
  <2>2. i \notin T
    BY <1>2, <1>3, <2>1
  <2> QED
    BY <1>2, <2>1, <2>2
<1>5. VarintAt(wire, n)
  BY <1>3, <1>4, WireBytes DEF VarintAt
<1> QED
  BY <1>5, VarintIs, Zenon

(* f[k] is the value of the upper k bytes of the varint at the start.      *)
Counts(wire, n, f) ==
  f[0] = 0 /\ \A k \in Nat : k < n => f[k + 1] = 128 * f[k] + (wire[n - k] % 128)

LEMMA ValueCounted ==
  ASSUME NEW wire \in Seq(Bytes), NEW n \in Nat, VarintAt(wire, n)
  PROVE  \E f : Counts(wire, n, f) /\ VarintValue(wire) = f[n]
<1>1. VarintLength(wire) = n
  BY VarintIs, Zenon
<1>2. PICK f : f = Upper(wire, n)
  OBVIOUS
<1>3. VarintValue(wire) = f[n]
  BY <1>1, <1>2 DEF VarintValue, Upper
<1>4. UpperStart(wire, n, f, n)
  BY <1>2, UpperDefined, Zenon
<1>5. \A k \in 0 .. n : f[k] = IF k = 0 THEN 0 ELSE 128 * f[k - 1] + (wire[n - k + 1] % 128)
  BY <1>4, Zenon DEF UpperStart
<1>6. f[0] = 0
  BY <1>5
<1>7. ASSUME NEW k \in Nat, k < n
      PROVE  f[k + 1] = 128 * f[k] + (wire[n - k] % 128)
  <2>1. k + 1 \in 0 .. n /\ k + 1 # 0 /\ (k + 1) - 1 = k /\ n - (k + 1) + 1 = n - k
    BY <1>7
  <2> QED
    BY <1>5, <2>1, Zenon
<1> QED
  BY <1>3, <1>6, <1>7, Zenon DEF Counts

(* A varint is read from its bytes, whatever follows.                      *)
LEMMA VarintLocal ==
  ASSUME NEW w \in Seq(Bytes), NEW u \in Seq(Bytes), NEW n \in Nat,
         VarintAt(w, n), Agree(u, w, n)
  PROVE  VarintAt(u, n) /\ VarintValue(u) = VarintValue(w)
<1>1. VarintAt(u, n)
  BY WireBytes DEF VarintAt, Agree
<1>2. PICK f : Counts(w, n, f) /\ VarintValue(w) = f[n]
  BY ValueCounted, Zenon
<1>3. PICK g : Counts(u, n, g) /\ VarintValue(u) = g[n]
  BY <1>1, ValueCounted, Zenon
<1> DEFINE S == {k \in Nat : k <= n => f[k] = g[k]}
<1>4. 0 \in S
  BY <1>2, <1>3 DEF Counts
<1>5. ASSUME NEW k \in Nat, k \in S PROVE k + 1 \in S
  <2> SUFFICES ASSUME k + 1 <= n PROVE f[k + 1] = g[k + 1]
    OBVIOUS
  <2>1. k < n /\ n - k \in 1 .. n
    OBVIOUS
  <2>2. f[k] = g[k]
    BY <1>5
  <2>3. w[n - k] = u[n - k]
    BY <2>1, Zenon DEF Agree
  <2>4. /\ f[k + 1] = 128 * f[k] + (w[n - k] % 128)
        /\ g[k + 1] = 128 * g[k] + (u[n - k] % 128)
    BY <1>2, <1>3, <2>1, Zenon DEF Counts
  <2> QED
    BY <2>2, <2>3, <2>4, Zenon
<1> HIDE DEF S
<1>6. Nat \subseteq S
  BY <1>4, <1>5, NumberInduction
<1>7. f[n] = g[n]
  BY <1>6 DEF S
<1> QED
  BY <1>1, <1>2, <1>3, <1>7, Zenon

(* A byte before a varint counts for the lower seven bits.                 *)
Shifted(m, b) == 128 * m + (b % 128)
Continues(b) == b \in Bytes /\ b >= 128

LEMMA VarintMore ==
  ASSUME NEW w \in Seq(Bytes), NEW n \in Nat, VarintAt(w, n),
         NEW b, Continues(b), NEW u, u = <<b>> \o w
  PROVE  /\ u \in Seq(Bytes) /\ VarintAt(u, n + 1)
         /\ VarintValue(u) = Shifted(VarintValue(w), b)
<1>1. /\ u \in Seq(Bytes) /\ Len(u) = Len(w) + 1 /\ Len(w) \in Nat
      /\ u[1] = b /\ \A i \in 1 .. Len(w) : u[i + 1] = w[i]
  <2>1. <<b>> \in Seq(Bytes) /\ Len(<<b>>) = 1
    BY DEF Continues
  <2>2. /\ u \in Seq(Bytes) /\ Len(u) = 1 + Len(w)
        /\ \A i \in 1 .. 1 + Len(w) : u[i] = IF i <= 1 THEN <<b>>[i] ELSE w[i - 1]
    BY <2>1, ConcatProperties
  <2> QED
    BY <2>2, WireBytes
<1>2. /\ n \in 1 .. Len(w) /\ w[n] < 128
      /\ \A i \in 1 .. n - 1 : w[i] >= 128
  BY Zenon DEF VarintAt
<1>3. VarintAt(u, n + 1)
  <2>1. \A i \in 1 .. (n + 1) - 1 : u[i] >= 128
    <3> TAKE i \in 1 .. (n + 1) - 1
    <3>1. CASE i = 1
      BY <1>1, <3>1 DEF Continues
    <3>2. CASE i # 1
      <4>1. i - 1 \in 1 .. n - 1 /\ i - 1 \in 1 .. Len(w) /\ (i - 1) + 1 = i
        BY <1>1, <1>2, <3>2
      <4> QED
        BY <1>1, <1>2, <4>1
    <3> QED
      BY <3>1, <3>2
  <2>2. n + 1 \in 1 .. Len(u) /\ u[n + 1] < 128
    BY <1>1, <1>2
  <2> QED
    BY <2>1, <2>2, Zenon DEF VarintAt
<1>4. PICK f : Counts(w, n, f) /\ VarintValue(w) = f[n]
  BY ValueCounted, Zenon
<1>5. PICK g : Counts(u, n + 1, g) /\ VarintValue(u) = g[n + 1]
  <2>1. n + 1 \in Nat
    OBVIOUS
  <2> QED
    BY <1>1, <1>3, <2>1, ValueCounted, Zenon
<1> DEFINE S == {k \in Nat : k <= n => f[k] = g[k]}
<1>6. 0 \in S
  BY <1>4, <1>5 DEF Counts
<1>7. ASSUME NEW k \in Nat, k \in S PROVE k + 1 \in S
  <2> SUFFICES ASSUME k + 1 <= n PROVE f[k + 1] = g[k + 1]
    OBVIOUS
  <2>1. k < n /\ k < n + 1 /\ n - k \in 1 .. Len(w) /\ (n + 1) - k = (n - k) + 1
    BY <1>1, <1>2
  <2>2. f[k] = g[k]
    BY <1>7
  <2>3. w[n - k] = u[(n + 1) - k]
    BY <1>1, <2>1
  <2>4. /\ f[k + 1] = 128 * f[k] + (w[n - k] % 128)
        /\ g[k + 1] = 128 * g[k] + (u[(n + 1) - k] % 128)
    BY <1>4, <1>5, <2>1, Zenon DEF Counts
  <2> QED
    BY <2>2, <2>3, <2>4, Zenon
<1> HIDE DEF S
<1>8. Nat \subseteq S
  BY <1>6, <1>7, NumberInduction
<1>9. f[n] = g[n]
  BY <1>8 DEF S
<1>10. g[n + 1] = Shifted(g[n], b)
  <2>1. n < n + 1 /\ (n + 1) - n = 1
    OBVIOUS
  <2>2. g[n + 1] = 128 * g[n] + (u[(n + 1) - n] % 128)
    BY <1>5, <2>1, Zenon DEF Counts
  <2> QED
    BY <1>1, <2>1, <2>2 DEF Shifted
<1> QED
  BY <1>1, <1>3, <1>4, <1>5, <1>9, <1>10, Zenon

(* The bytes of n, given those of the smaller numbers.                     *)
VarintOf(n, g) == IF n < 128 THEN <<n>> ELSE <<128 + (n % 128)>> \o g[n \div 128]

LEMMA HigherBits ==
  ASSUME NEW n \in Nat, n >= 128
  PROVE  /\ n \div 128 \in Nat /\ n \div 128 < n
         /\ n % 128 \in 0 .. 127 /\ n = 128 * (n \div 128) + (n % 128)
  OBVIOUS

Varints(value) ==
  LET bytes[n \in 0 .. value] == IF n < 128 THEN <<n>> ELSE <<128 + (n % 128)>> \o bytes[n \div 128]
  IN  bytes

LEMMA VarintsDefined ==
  ASSUME NEW value \in Nat
  PROVE  \A n \in 0 .. value : Varints(value)[n] = VarintOf(n, Varints(value))
<1> DEFINE Domain == 0 .. value
           Correct(g, m) == /\ g = [n \in Domain |-> g[n]]
                            /\ \A n \in Domain : n < m => g[n] = VarintOf(n, g)
           S == {m \in Nat : \E g : Correct(g, m)}
<1>1. 0 \in S
  <2> DEFINE g == [n \in Domain |-> <<>>]
  <2>1. Correct(g, 0)
    OBVIOUS
  <2> QED
    BY <2>1
<1>2. ASSUME NEW m \in Nat, m \in S PROVE m + 1 \in S
  <2>1. PICK g : Correct(g, m)
    BY <1>2
  <2>2. PICK h : h = [n \in Domain |-> IF n < m THEN g[n] ELSE VarintOf(n, g)]
    OBVIOUS
  <2>3. \A n \in Domain : n < m => h[n] = g[n]
    BY <2>2
  <2>4. ASSUME NEW n \in Domain, n < m + 1
        PROVE  h[n] = VarintOf(n, h)
    <3>1. h[n] = VarintOf(n, g)
      BY <2>1, <2>2
    <3>2. n >= 128 => h[n \div 128] = g[n \div 128]
      <4>1. n \in Nat /\ n <= value
        OBVIOUS
      <4>2. n >= 128 => n \div 128 \in Domain /\ n \div 128 < m
        BY <2>4, <4>1, HigherBits
      <4> QED
        BY <2>3, <4>2, Zenon
    <3>3. n < 128 \/ n >= 128
      OBVIOUS
    <3>4. VarintOf(n, h) = VarintOf(n, g)
      BY <3>2, <3>3, Zenon DEF VarintOf
    <3> QED
      BY <3>1, <3>4, Zenon
  <2>5. Correct(h, m + 1)
    BY <2>2, <2>4
  <2>6. m + 1 \in Nat
    OBVIOUS
  <2> HIDE DEF Correct
  <2> QED
    BY <2>5, <2>6, Zenon
<1>3. \E g : Correct(g, value + 1)
  <2> HIDE DEF S
  <2>1. Nat \subseteq S
    BY <1>1, <1>2, NumberInduction
  <2>2. value + 1 \in S
    BY <2>1
  <2> QED
    BY <2>2 DEF S
<1>4. \E g : g = [n \in 0 .. value |-> VarintOf(n, g)]
  <2>1. PICK g : Correct(g, value + 1)
    BY <1>3
  <2>2. \A n \in Domain : n < value + 1
    OBVIOUS
  <2>3. \A n \in Domain : g[n] = VarintOf(n, g)
    BY <2>1, <2>2, Zenon
  <2>4. g = [n \in Domain |-> VarintOf(n, g)]
    BY <2>1, <2>3, Zenon
  <2> QED
    BY <2>4, Zenon
<1>5. Varints(value) = CHOOSE g : g = [n \in 0 .. value |-> VarintOf(n, g)]
  BY Zenon DEF Varints, VarintOf
<1>6. Varints(value) = [n \in 0 .. value |-> VarintOf(n, Varints(value))]
  BY <1>4, <1>5, Zenon
<1> QED
  BY <1>6, Zenon

(* These bytes are a varint of the value n.                                *)
Encodes(bytes, n) ==
  /\ bytes \in Seq(Bytes)
  /\ Len(bytes) \in Nat \ {0} /\ VarintAt(bytes, Len(bytes))
  /\ VarintValue(bytes) = n

LEMMA ByteEncodes ==
  ASSUME NEW n \in Nat, n < 128
  PROVE  Encodes(<<n>>, n)
<1>1. PICK w : w = <<n>>
  OBVIOUS
<1>2. w \in Seq(Bytes) /\ Len(w) = 1 /\ w[1] = n
  <2>1. n \in Bytes
    BY DEF Bytes
  <2> QED
    BY <1>1, <2>1
<1>3. VarintAt(w, 1)
  BY <1>2 DEF VarintAt
<1>4. PICK f : Counts(w, 1, f) /\ VarintValue(w) = f[1]
  BY <1>2, <1>3, ValueCounted
<1>5. f[1] = n % 128
  <2>1. 0 < 1 /\ 0 \in Nat /\ 0 + 1 = 1 /\ 1 - 0 = 1
    OBVIOUS
  <2>2. f[0] = 0 /\ f[0 + 1] = 128 * f[0] + (w[1 - 0] % 128)
    BY <1>4, <2>1, Zenon DEF Counts
  <2> QED
    BY <1>2, <2>1, <2>2
<1> QED
  BY <1>1, <1>2, <1>3, <1>4, <1>5 DEF Encodes

LEMMA ByteBeforeEncodes ==
  ASSUME NEW w, NEW m, Encodes(w, m), NEW b, Continues(b)
  PROVE  Encodes(<<b>> \o w, Shifted(m, b))
<1>1. PICK l, u : l = Len(w) /\ u = <<b>> \o w
  OBVIOUS
<1>2. l \in Nat /\ w \in Seq(Bytes) /\ VarintAt(w, l)
  BY <1>1, Zenon DEF Encodes
<1>3. u \in Seq(Bytes) /\ VarintAt(u, l + 1) /\ VarintValue(u) = Shifted(VarintValue(w), b)
  BY <1>1, <1>2, VarintMore, Zenon
<1>4. VarintValue(u) = Shifted(m, b)
  BY <1>3, Zenon DEF Encodes
<1>5. Len(u) = l + 1
  <2>1. <<b>> \in Seq(Bytes) /\ Len(<<b>>) = 1
    BY DEF Continues
  <2>2. Len(u) = 1 + Len(w)
    BY <1>1, <1>2, <2>1, ConcatProperties
  <2> QED
    BY <1>1, <1>2, <2>2
<1>6. l + 1 \in Nat \ {0}
  BY <1>2
<1> QED
  BY <1>1, <1>3, <1>4, <1>5, <1>6, Zenon DEF Encodes

(* A number is read from the bytes that Varint makes of it.                *)
LEMMA VarintEncodes ==
  ASSUME NEW value \in Nat
  PROVE  Encodes(Varint(value), value)
<1>1. PICK g : g = Varints(value)
  OBVIOUS
<1>2. \A n \in 0 .. value : g[n] = VarintOf(n, g)
  BY <1>1, VarintsDefined, Zenon
<1> DEFINE S == {n \in Nat : n <= value => Encodes(g[n], n)}
<1>3. ASSUME NEW n \in Nat, \A m \in Nat : m < n => m \in S
      PROVE  n \in S
  <2> SUFFICES ASSUME n <= value PROVE Encodes(g[n], n)
    OBVIOUS
  <2>1. n \in 0 .. value
    OBVIOUS
  <2>2. g[n] = VarintOf(n, g)
    BY <1>2, <2>1, Zenon
  <2>3. CASE n < 128
    <3>1. g[n] = <<n>>
      BY <2>2, <2>3, Zenon DEF VarintOf
    <3> QED
      BY <2>3, <3>1, ByteEncodes, Zenon
  <2>4. CASE ~(n < 128)
    <3>1. PICK m, b, w : m = n \div 128 /\ b = 128 + (n % 128) /\ w = g[m]
      OBVIOUS
    <3>2. m \in Nat /\ m < n /\ m <= value /\ n = Shifted(m, b) /\ Continues(b)
      <4>1. n >= 128
        BY <2>4
      <4> QED
        BY <3>1, <4>1, HigherBits DEF Bytes, Shifted, Continues
    <3>3. Encodes(w, m)
      BY <1>3, <3>1, <3>2
    <3>4. g[n] = <<b>> \o w
      BY <2>2, <2>4, <3>1, Zenon DEF VarintOf
    <3>5. Encodes(<<b>> \o w, n)
      BY <3>2, <3>3, ByteBeforeEncodes, Zenon
    <3> QED
      BY <3>4, <3>5, Zenon
  <2> QED
    BY <2>3, <2>4
<1>4. value \in S
  <2> HIDE DEF S
  <2>1. Nat \subseteq S
    BY <1>3, StrongInduction, Zenon
  <2> QED
    BY <2>1
<1>5. Encodes(g[value], value)
  BY <1>4
<1>6. Varint(value) = g[value]
  BY <1>1, Zenon DEF Varint, Varints
<1> QED
  BY <1>5, <1>6, Zenon

-----------------------------------------------------------------------------
(* Fields                                                                  *)

(* The field at the start of a wire whose varint has n bytes and value v;  *)
(* l bytes follow the tag.                                                 *)
FieldAt(w, n, v, l) ==
  [tag |-> w[1],
   value |-> IF Type(w[1]) = 0 THEN v ELSE SubSeq(w, n + 2, l + 1),
   raw |-> SubSeq(w, 1, l + 1)]

ReadsTo(w, n, v, l) ==
  /\ n \in Nat \ {0} /\ v \in Nat /\ VarintAt(Tail(w), n) /\ VarintValue(Tail(w)) = v
  /\ l = IF Type(w[1]) = 0 THEN n ELSE n + v

IsWire(w) == w \in Seq(Bytes) /\ w # <<>>

LEMMA TailBytes ==
  ASSUME NEW w, IsWire(w)
  PROVE  /\ Tail(w) \in Seq(Bytes) /\ Len(w) \in Nat \ {0} /\ Len(Tail(w)) = Len(w) - 1
         /\ \A i \in 1 .. Len(w) - 1 : Tail(w)[i] = w[i + 1]
         /\ w[1] \in Bytes
<1>1. w \in Seq(Bytes) /\ w # <<>>
  BY DEF IsWire
<1>2. Len(w) \in Nat \ {0}
  BY <1>1, EmptySeq
<1>3. /\ Tail(w) \in Seq(Bytes) /\ Len(Tail(w)) = Len(w) - 1
      /\ \A i \in 1 .. Len(Tail(w)) : Tail(w)[i] = w[i + 1]
  BY <1>1, HeadTailProperties
<1> QED
  BY <1>1, <1>2, <1>3, WireBytes

LEMMA FieldIs ==
  ASSUME NEW w, IsWire(w), NEW n, NEW v, NEW l, ReadsTo(w, n, v, l), l <= Len(w) - 1
  PROVE  FirstField(w) = FieldAt(w, n, v, l)
<1>1. VarintLength(Tail(w)) = n
  BY TailBytes, VarintIs, Zenon DEF ReadsTo
<1>2. FirstField(w) = FieldOf(w, n, v)
  BY <1>1, Zenon DEF FirstField, ReadsTo
<1>3. n # 0 /\ ~(l > Len(w) - 1)
  <2>1. n \in Nat /\ n # 0 /\ v \in Nat
    BY DEF ReadsTo
  <2>2. l \in Nat
    BY <2>1 DEF ReadsTo
  <2> QED
    BY <2>1, <2>2, TailBytes
<1>4. l = IF Type(w[1]) = 0 THEN n ELSE n + v
  BY Zenon DEF ReadsTo
<1> QED
  BY <1>2, <1>3, <1>4, Zenon DEF FieldOf, FieldAt

(* The first field of w, whole or cut short.                               *)
FieldParts(w, n, v, l) ==
  FirstField(w) =
    [tag |-> w[1],
     value |-> IF Type(w[1]) = 0 THEN v
               ELSE SubSeq(w, n + 2, IF n = 0 \/ l > Len(w) - 1 THEN Len(w) ELSE l + 1),
     raw |-> IF n = 0 \/ l > Len(w) - 1 THEN <<>> ELSE SubSeq(w, 1, l + 1)]

LEMMA PartsOfField ==
  ASSUME NEW w, NEW n, NEW v, NEW l, n = VarintLength(Tail(w)), v = VarintValue(Tail(w)),
         l = IF Type(w[1]) = 0 THEN n ELSE n + v
  PROVE  FieldParts(w, n, v, l)
  BY Zenon DEF FieldParts, FirstField, FieldOf

LEMMA FieldReads ==
  ASSUME NEW w, IsWire(w), ~IsCut(FirstField(w))
  PROVE  \E n, v, l : ReadsTo(w, n, v, l) /\ l <= Len(w) - 1 /\ FirstField(w) = FieldAt(w, n, v, l)
<1>1. PICK n, v : n = VarintLength(Tail(w)) /\ v = VarintValue(Tail(w))
  OBVIOUS
<1>2. n \in Nat /\ v \in Nat
  <2>1. Tail(w) \in Seq(Bytes) /\ Len(Tail(w)) \in Nat
    BY TailBytes, WireBytes, Zenon
  <2>2. v \in Nat /\ n \in 0 .. Len(Tail(w))
    BY <1>1, <2>1, VarintEnds, VarintIsNumber, Zenon
  <2> QED
    BY <2>1, <2>2
<1>3. PICK l : l = IF Type(w[1]) = 0 THEN n ELSE n + v
  OBVIOUS
<1>4. FieldParts(w, n, v, l)
  BY <1>1, <1>3, PartsOfField
<1>5. ~(n = 0 \/ l > Len(w) - 1)
  <2>1. FirstField(w).raw = IF n = 0 \/ l > Len(w) - 1 THEN <<>> ELSE SubSeq(w, 1, l + 1)
    BY <1>4 DEF FieldParts
  <2> QED
    BY <2>1, Zenon DEF IsCut
<1>6. VarintAt(Tail(w), n)
  BY <1>1, <1>5, TailBytes, VarintIsAt, Zenon
<1>7. l \in Nat /\ l <= Len(w) - 1
  BY <1>2, <1>3, <1>5, TailBytes
<1>8. ReadsTo(w, n, v, l)
  <2>1. n \in Nat \ {0}
    BY <1>2, <1>5
  <2> QED
    BY <1>1, <1>2, <1>3, <1>6, <2>1, Zenon DEF ReadsTo
<1>9. FirstField(w) = FieldAt(w, n, v, l)
  BY <1>4, <1>5, Zenon DEF FieldParts, FieldAt
<1> QED
  BY <1>7, <1>8, <1>9, Zenon

LEMMA SubWire ==
  ASSUME NEW w \in Seq(Bytes), NEW i \in Nat \ {0}, NEW j \in Nat, j <= Len(w)
  PROVE  /\ SubSeq(w, i, j) \in Seq(Bytes)
         /\ Len(SubSeq(w, i, j)) = IF i <= j THEN j - i + 1 ELSE 0
         /\ \A k \in 1 .. j - i + 1 : SubSeq(w, i, j)[k] = w[i + k - 1]
<1>1. \A k \in i .. j : w[k] \in Bytes
  BY WireBytes
<1> QED
  BY <1>1, SubSeqProperties

SamePart(u, w, i, j) == SubSeq(u, i, j) = SubSeq(w, i, j)

LEMMA SameParts ==
  ASSUME NEW w \in Seq(Bytes), NEW u \in Seq(Bytes), NEW n \in Nat, Agree(u, w, n),
         NEW i \in Nat \ {0}, NEW j \in Nat, j <= n
  PROVE  SamePart(u, w, i, j)
<1>1. j <= Len(u) /\ j <= Len(w) /\ \A k \in 1 .. n : u[k] = w[k]
  BY WireBytes DEF Agree
<1>2. PICK x, y : x = SubSeq(u, i, j) /\ y = SubSeq(w, i, j)
  OBVIOUS
<1>3. /\ x \in Seq(Bytes) /\ Len(x) = IF i <= j THEN j - i + 1 ELSE 0
      /\ \A k \in 1 .. j - i + 1 : x[k] = u[i + k - 1]
  BY <1>1, <1>2, SubWire
<1>4. /\ y \in Seq(Bytes) /\ Len(y) = IF i <= j THEN j - i + 1 ELSE 0
      /\ \A k \in 1 .. j - i + 1 : y[k] = w[i + k - 1]
  BY <1>1, <1>2, SubWire
<1>5. \A k \in 1 .. Len(x) : x[k] = y[k]
  <2> TAKE k \in 1 .. Len(x)
  <2>1. k \in 1 .. j - i + 1 /\ i + k - 1 \in 1 .. n
    BY <1>3
  <2> QED
    BY <1>1, <1>3, <1>4, <2>1
<1>6. Len(x) = Len(y)
  BY <1>3, <1>4
<1>7. x = y
  BY <1>3, <1>4, <1>5, <1>6, SeqEqual
<1> QED
  BY <1>2, <1>7, Zenon DEF SamePart

(* A field is read from its own bytes, whatever follows.                   *)
LEMMA FieldLocal ==
  ASSUME NEW w, IsWire(w), NEW u, IsWire(u), NEW n, NEW v, NEW l,
         ReadsTo(w, n, v, l), l \in Nat, Agree(u, w, l + 1)
  PROVE  FirstField(u) = FieldAt(w, n, v, l)
<1>1. /\ n \in Nat \ {0} /\ v \in Nat /\ n <= l /\ l + 1 \in Nat
      /\ l = IF Type(w[1]) = 0 THEN n ELSE n + v
  BY DEF ReadsTo
<1>2. VarintAt(Tail(w), n) /\ VarintValue(Tail(w)) = v
  BY Zenon DEF ReadsTo
<1>3. /\ l + 1 <= Len(u) /\ l + 1 <= Len(w)
      /\ \A i \in 1 .. l + 1 : u[i] = w[i]
  BY Zenon DEF Agree
<1>4. Agree(Tail(u), Tail(w), n)
  <2>1. n <= Len(Tail(u)) /\ n <= Len(Tail(w))
    BY <1>1, <1>3, TailBytes
  <2>2. ASSUME NEW i \in 1 .. n PROVE Tail(u)[i] = Tail(w)[i]
    <3>1. i \in 1 .. Len(u) - 1 /\ i \in 1 .. Len(w) - 1 /\ i + 1 \in 1 .. l + 1
      BY <1>1, <1>3, TailBytes
    <3>2. Tail(u)[i] = u[i + 1] /\ Tail(w)[i] = w[i + 1]
      BY <3>1, TailBytes
    <3> QED
      BY <1>3, <3>1, <3>2, Zenon
  <2> QED
    BY <2>1, <2>2, Zenon DEF Agree
<1>5. VarintAt(Tail(u), n) /\ VarintValue(Tail(u)) = v
  <2>1. n \in Nat /\ Tail(u) \in Seq(Bytes) /\ Tail(w) \in Seq(Bytes)
    BY <1>1, TailBytes
  <2> QED
    BY <1>2, <1>4, <2>1, VarintLocal, Zenon
<1>6. u[1] = w[1]
  BY <1>1, <1>3
<1>7. ReadsTo(u, n, v, l)
  BY <1>1, <1>5, <1>6, Zenon DEF ReadsTo
<1>8. l <= Len(u) - 1
  BY <1>3, TailBytes
<1>9. FirstField(u) = FieldAt(u, n, v, l)
  BY <1>7, <1>8, FieldIs, Zenon
<1>10. SubSeq(u, n + 2, l + 1) = SubSeq(w, n + 2, l + 1) /\ SubSeq(u, 1, l + 1) = SubSeq(w, 1, l + 1)
  <2>1. w \in Seq(Bytes) /\ u \in Seq(Bytes)
    BY DEF IsWire
  <2>2. PICK m : m = l + 1
    OBVIOUS
  <2>3. m \in Nat /\ m <= m /\ Agree(u, w, m)
    BY <1>1, <2>2
  <2>4. \A i \in Nat \ {0} : SamePart(u, w, i, m)
    BY <2>1, <2>3, SameParts, Zenon
  <2>5. n + 2 \in Nat \ {0} /\ 1 \in Nat \ {0}
    BY <1>1
  <2> QED
    BY <2>2, <2>4, <2>5, Zenon DEF SamePart
<1> QED
  BY <1>6, <1>9, <1>10, Zenon DEF FieldAt

(* What is read as a field.                                                *)
IsField(f) ==
  /\ IsWire(f.raw) /\ FirstField(f.raw) = f
  /\ IF Type(f.tag) = 0 THEN f.value \in Nat ELSE f.value \in Seq(Bytes)

WellFormed == {f \in [tag : Bytes, value : Nat \union Seq(Bytes), raw : Seq(Bytes)] : IsField(f)}

(* What there is of a field that is cut short.                             *)
Remnant ==
  {f \in [tag : Bytes, value : Nat \union Seq(Bytes), raw : {<<>>}] :
     IF Type(f.tag) = 0 THEN f.value \in Nat ELSE f.value \in Seq(Bytes)}

Field == WellFormed \union Remnant

LEMMA WellFormedParts ==
  ASSUME NEW f \in WellFormed
  PROVE  /\ IsField(f) /\ ~IsCut(f)
         /\ f.raw \in Seq(Bytes) /\ Len(f.raw) \in Nat \ {0}
         /\ f = [tag |-> f.tag, value |-> f.value, raw |-> f.raw]
<1>1. /\ IsField(f) /\ f.raw \in Seq(Bytes)
      /\ f = [tag |-> f.tag, value |-> f.value, raw |-> f.raw]
  BY DEF WellFormed
<1>2. ~IsCut(f)
  <2>1. f.raw # <<>>
    BY <1>1 DEF IsField, IsWire
  <2> QED
    BY <2>1 DEF IsCut
<1>3. Len(f.raw) \in Nat \ {0}
  BY <1>1, TailBytes, Zenon DEF IsField
<1> QED
  BY <1>1, <1>2, <1>3

(* What is left of a field has the type of its value.                      *)
LEMMA CutIsRemnant ==
  ASSUME NEW w, IsWire(w), IsCut(FirstField(w))
  PROVE  FirstField(w) \in Remnant
<1>1. PICK n, v, l : /\ n = VarintLength(Tail(w)) /\ v = VarintValue(Tail(w))
                     /\ l = IF Type(w[1]) = 0 THEN n ELSE n + v
  OBVIOUS
<1>2. FieldParts(w, n, v, l)
  BY <1>1, PartsOfField, Zenon
<1>3. /\ n \in Nat /\ v \in Nat /\ l \in Nat
      /\ w \in Seq(Bytes) /\ Len(w) \in Nat /\ w[1] \in Bytes
  <2>1. Tail(w) \in Seq(Bytes) /\ Len(Tail(w)) \in Nat
    BY TailBytes, WireBytes, Zenon
  <2>2. v \in Nat /\ n \in 0 .. Len(Tail(w))
    BY <1>1, <2>1, VarintEnds, VarintIsNumber, Zenon
  <2> QED
    BY <1>1, <2>1, <2>2, TailBytes DEF IsWire
<1>4. n = 0 \/ l > Len(w) - 1
  <2> SUFFICES ASSUME ~(n = 0 \/ l > Len(w) - 1) PROVE FALSE
    OBVIOUS
  <2>1. PICK x : x = SubSeq(w, 1, l + 1)
    OBVIOUS
  <2>2. l + 1 \in Nat /\ l + 1 <= Len(w) /\ 1 \in Nat \ {0}
    BY <1>3
  <2>3. Len(x) = l + 1
    <3>1. Len(x) = IF 1 <= l + 1 THEN l + 1 - 1 + 1 ELSE 0
      BY <1>3, <2>1, <2>2, SubWire
    <3> QED
      BY <1>3, <3>1
  <2>4. x = <<>>
    <3>1. PICK y : y = IF n = 0 \/ l > Len(w) - 1 THEN Len(w) ELSE l + 1
      OBVIOUS
    <3>2. PICK z : z = IF Type(w[1]) = 0 THEN v ELSE SubSeq(w, n + 2, y)
      OBVIOUS
    <3>3. FirstField(w) = [tag |-> w[1], value |-> z, raw |-> x]
      BY <1>2, <2>1, <3>1, <3>2, Zenon DEF FieldParts
    <3>4. FirstField(w).raw = x
      BY <3>3
    <3> QED
      BY <3>4, Zenon DEF IsCut
  <2> QED
    BY <1>3, <2>3, <2>4, EmptySeq
<1>5. PICK x : x = IF Type(w[1]) = 0 THEN v ELSE SubSeq(w, n + 2, Len(w))
  OBVIOUS
<1>6. FirstField(w) = [tag |-> w[1], value |-> x, raw |-> <<>>]
  BY <1>2, <1>4, <1>5, Zenon DEF FieldParts
<1>7. IF Type(w[1]) = 0 THEN x \in Nat ELSE x \in Seq(Bytes)
  <2>1. n + 2 \in Nat \ {0} /\ Len(w) <= Len(w)
    BY <1>3
  <2>2. SubSeq(w, n + 2, Len(w)) \in Seq(Bytes)
    BY <1>3, <2>1, SubWire
  <2> QED
    BY <1>3, <1>5, <2>2, Zenon
<1> HIDE <1>5
<1>8. FirstField(w).tag = w[1] /\ FirstField(w).value = x
  BY <1>6
<1>9. FirstField(w) \in [tag : Bytes, value : Nat \union Seq(Bytes), raw : {<<>>}]
  <2>1. x \in Nat \union Seq(Bytes)
    BY <1>7
  <2> QED
    BY <1>3, <1>6, <2>1
<1> QED
  BY <1>7, <1>8, <1>9, Zenon DEF Remnant

LEMMA FirstIsField ==
  ASSUME NEW w, IsWire(w), ~IsCut(FirstField(w))
  PROVE  /\ FirstField(w) \in WellFormed
         /\ Len(FirstField(w).raw) \in 1 .. Len(w)
         /\ FirstField(w).raw = SubSeq(w, 1, Len(FirstField(w).raw))
<1>1. PICK n, v, l : /\ ReadsTo(w, n, v, l) /\ l <= Len(w) - 1
                     /\ FirstField(w) = FieldAt(w, n, v, l)
  BY FieldReads, Zenon
<1>2. /\ n \in Nat \ {0} /\ v \in Nat /\ l \in Nat /\ n <= l
      /\ l = IF Type(w[1]) = 0 THEN n ELSE n + v
  BY <1>1 DEF ReadsTo
<1>3. Len(w) \in Nat \ {0} /\ w \in Seq(Bytes) /\ w[1] \in Bytes
  BY TailBytes DEF IsWire
<1>4. PICK f, x, y : /\ f = FirstField(w) /\ y = SubSeq(w, 1, l + 1)
                     /\ x = IF Type(w[1]) = 0 THEN v ELSE SubSeq(w, n + 2, l + 1)
  OBVIOUS
<1>5. f = [tag |-> w[1], value |-> x, raw |-> y]
  BY <1>1, <1>4, Zenon DEF FieldAt
<1>6. f.tag = w[1] /\ f.value = x /\ f.raw = y
  BY <1>5
<1>7. /\ y \in Seq(Bytes) /\ Len(y) = l + 1 /\ l + 1 \in 1 .. Len(w)
      /\ \A k \in 1 .. l + 1 : y[k] = w[k]
  <2>1. 1 \in Nat \ {0} /\ l + 1 \in Nat /\ l + 1 <= Len(w)
    BY <1>1, <1>2, <1>3
  <2>2. /\ y \in Seq(Bytes) /\ Len(y) = IF 1 <= l + 1 THEN (l + 1) - 1 + 1 ELSE 0
        /\ \A k \in 1 .. (l + 1) - 1 + 1 : y[k] = w[1 + k - 1]
    BY <1>3, <1>4, <2>1, SubWire
  <2> QED
    BY <1>2, <2>1, <2>2
<1>8. IF Type(f.tag) = 0 THEN x \in Nat ELSE x \in Seq(Bytes)
  <2>1. SubSeq(w, n + 2, l + 1) \in Seq(Bytes)
    <3>1. n + 2 \in Nat \ {0} /\ l + 1 \in Nat /\ l + 1 <= Len(w)
      BY <1>2, <1>3, <1>7
    <3> QED
      BY <1>3, <3>1, SubWire
  <2> QED
    BY <1>2, <1>4, <1>6, <2>1, Zenon
<1>9. IsWire(y)
  <2>1. Len(y) # 0
    BY <1>2, <1>7
  <2> QED
    BY <1>7, <2>1 DEF IsWire
<1>10. FirstField(y) = f
  <2>1. Agree(y, w, l + 1)
    BY <1>7 DEF Agree
  <2>2. IsWire(w)
    OBVIOUS
  <2>3. l \in Nat /\ ReadsTo(w, n, v, l)
    BY <1>1, <1>2, Zenon
  <2>4. FirstField(y) = FieldAt(w, n, v, l)
    BY ONLY <1>9, <2>1, <2>2, <2>3, FieldLocal
  <2> QED
    BY <1>1, <1>4, <2>4, Zenon
<1>11. IsField(f)
  BY <1>6, <1>8, <1>9, <1>10, Zenon DEF IsField
<1>12. f \in [tag : Bytes, value : Nat \union Seq(Bytes), raw : Seq(Bytes)]
  BY <1>3, <1>5, <1>7, <1>8
<1>13. f \in WellFormed
  BY <1>11, <1>12 DEF WellFormed
<1> QED
  BY <1>4, <1>6, <1>7, <1>13, Zenon

LEMMA FieldJoined ==
  ASSUME NEW w, IsWire(w), ~IsCut(FirstField(w)), NEW v \in Seq(Bytes)
  PROVE  IsWire(w \o v) /\ FirstField(w \o v) = FirstField(w)
<1>1. PICK n, x, l : /\ ReadsTo(w, n, x, l) /\ l <= Len(w) - 1
                     /\ FirstField(w) = FieldAt(w, n, x, l)
  BY FieldReads, Zenon
<1>2. l \in Nat
  BY <1>1 DEF ReadsTo
<1>3. w \in Seq(Bytes) /\ Len(w) \in Nat \ {0}
  BY TailBytes DEF IsWire
<1>4. PICK u : u = w \o v
  OBVIOUS
<1>5. /\ u \in Seq(Bytes) /\ Len(u) = Len(w) + Len(v) /\ Len(v) \in Nat
      /\ \A i \in 1 .. Len(w) + Len(v) : u[i] = IF i <= Len(w) THEN w[i] ELSE v[i - Len(w)]
  BY <1>3, <1>4, ConcatProperties, WireBytes
<1>6. IsWire(u)
  BY <1>3, <1>5 DEF IsWire
<1>7. Agree(u, w, l + 1)
  BY <1>1, <1>2, <1>3, <1>5 DEF Agree
<1>8. FirstField(u) = FieldAt(w, n, x, l)
  <2>1. IsWire(w)
    OBVIOUS
  <2>2. l \in Nat /\ ReadsTo(w, n, x, l)
    BY <1>1, <1>2, Zenon
  <2> QED
    BY ONLY <1>6, <1>7, <2>1, <2>2, FieldLocal
<1> QED
  BY <1>1, <1>4, <1>6, <1>8, Zenon

-----------------------------------------------------------------------------
(* The fields of a wire                                                    *)

Rest(wire, k) == SubSeq(wire, k, Len(wire))
At(wire, k) == FirstField(Rest(wire, k))

LEMMA RestIsWire ==
  ASSUME NEW wire \in Seq(Bytes), NEW k \in 1 .. Len(wire)
  PROVE  /\ IsWire(Rest(wire, k)) /\ Len(Rest(wire, k)) = Len(wire) - k + 1
         /\ \A i \in 1 .. Len(wire) - k + 1 : Rest(wire, k)[i] = wire[k + i - 1]
<1>1. Len(wire) \in Nat /\ k \in Nat \ {0} /\ k <= Len(wire)
  BY WireBytes
<1>2. PICK w : w = Rest(wire, k)
  OBVIOUS
<1>3. /\ w \in Seq(Bytes) /\ Len(w) = Len(wire) - k + 1
      /\ \A i \in 1 .. Len(wire) - k + 1 : w[i] = wire[k + i - 1]
  BY <1>1, <1>2, SubWire DEF Rest
<1>4. IsWire(w)
  BY <1>1, <1>3 DEF IsWire
<1> QED
  BY <1>2, <1>3, <1>4, Zenon

LEMMA NextField ==
  ASSUME NEW wire \in Seq(Bytes), NEW k \in 1 .. Len(wire), ~IsCut(At(wire, k))
  PROVE  /\ At(wire, k) \in WellFormed
         /\ Len(At(wire, k).raw) \in 1 .. Len(wire) - k + 1
<1>1. IsWire(Rest(wire, k)) /\ Len(Rest(wire, k)) = Len(wire) - k + 1
  BY RestIsWire, Zenon
<1> QED
  BY <1>1, FirstIsField, Zenon DEF At

(* The fields from the k-th byte on, given those from later bytes on.      *)
FieldsFrom(wire, k, g) == IF k > Len(wire) THEN <<>> ELSE Followed(At(wire, k), k, g)

Rests(wire) ==
  LET from[k \in 1 .. Len(wire) + 1] ==
        IF k > Len(wire) THEN <<>>
        ELSE Followed(FirstField(SubSeq(wire, k, Len(wire))), k, from)
  IN  from

LEMMA FromAgrees ==
  ASSUME NEW wire \in Seq(Bytes), NEW k \in 1 .. Len(wire) + 1, NEW g, NEW h,
         \A j \in 1 .. Len(wire) + 1 : j > k => h[j] = g[j]
  PROVE  FieldsFrom(wire, k, h) = FieldsFrom(wire, k, g)
<1>1. CASE k \in 1 .. Len(wire) /\ ~IsCut(At(wire, k))
  <2>1. PICK n, l : n = Len(At(wire, k).raw) /\ l = Len(wire) /\ l \in Nat
    BY LenProperties
  <2>2. n \in 1 .. l - k + 1
    BY <1>1, <2>1, NextField, Zenon
  <2>3. k + n \in 1 .. l + 1 /\ k + n > k
    BY <2>1, <2>2
  <2>4. h[k + n] = g[k + n]
    BY <2>1, <2>3
  <2> QED
    BY <2>1, <2>4, Zenon DEF FieldsFrom, Followed
<1>2. CASE k \notin 1 .. Len(wire) \/ IsCut(At(wire, k))
  <2>1. k > Len(wire) \/ IsCut(At(wire, k))
    BY <1>2, LenProperties
  <2> QED
    BY <2>1, Zenon DEF FieldsFrom, Followed
<1> QED
  BY <1>1, <1>2

LEMMA RestsDefined ==
  ASSUME NEW wire \in Seq(Bytes)
  PROVE  \A k \in 1 .. Len(wire) + 1 : Rests(wire)[k] = FieldsFrom(wire, k, Rests(wire))
<1>1. PICK l : l = Len(wire) /\ l \in Nat
  BY LenProperties
<1> DEFINE Domain == 1 .. l + 1
           Correct(g, m) == /\ g = [k \in Domain |-> g[k]]
                            /\ \A k \in Domain : k + m > l + 1 => g[k] = FieldsFrom(wire, k, g)
           S == {m \in Nat : \E g : Correct(g, m)}
<1>2. 0 \in S
  <2> DEFINE g == [k \in Domain |-> <<>>]
  <2>1. Correct(g, 0)
    BY <1>1
  <2> QED
    BY <2>1
<1>3. ASSUME NEW m \in Nat, m \in S PROVE m + 1 \in S
  <2>1. PICK g : Correct(g, m)
    BY <1>3
  <2>2. PICK h : h = [k \in Domain |-> IF k + m > l + 1 THEN g[k] ELSE FieldsFrom(wire, k, g)]
    OBVIOUS
  <2>3. \A k \in Domain : k + m > l + 1 => h[k] = g[k]
    BY <2>2
  <2>4. ASSUME NEW k \in Domain, k + (m + 1) > l + 1
        PROVE  h[k] = FieldsFrom(wire, k, h)
    <3>1. h[k] = FieldsFrom(wire, k, g)
      BY <2>1, <2>2
    <3>2. \A j \in Domain : j > k => h[j] = g[j]
      <4>1. \A j \in Domain : j > k => j + m > l + 1
        BY <1>1, <2>4
      <4> QED
        BY <2>3, <4>1, Zenon
    <3>3. FieldsFrom(wire, k, h) = FieldsFrom(wire, k, g)
      BY <1>1, <3>2, FromAgrees, Zenon
    <3> QED
      BY <3>1, <3>3, Zenon
  <2>5. Correct(h, m + 1)
    BY <2>2, <2>4
  <2>6. m + 1 \in Nat
    OBVIOUS
  <2> HIDE DEF Correct
  <2> QED
    BY <2>5, <2>6, Zenon
<1>4. \E g : Correct(g, l + 1)
  <2> HIDE DEF S
  <2>1. Nat \subseteq S
    BY <1>2, <1>3, NumberInduction
  <2>2. l + 1 \in S
    BY <1>1, <2>1
  <2> QED
    BY <2>2 DEF S
<1>5. \E g : g = [k \in 1 .. Len(wire) + 1 |-> FieldsFrom(wire, k, g)]
  <2>1. PICK g : Correct(g, l + 1)
    BY <1>4
  <2>2. \A k \in Domain : k + (l + 1) > l + 1
    BY <1>1
  <2>3. \A k \in Domain : g[k] = FieldsFrom(wire, k, g)
    BY <2>1, <2>2, Zenon
  <2>4. g = [k \in Domain |-> FieldsFrom(wire, k, g)]
    BY <2>1, <2>3, Zenon
  <2> QED
    BY <1>1, <2>4, Zenon
<1>6. Rests(wire) = CHOOSE g : g = [k \in 1 .. Len(wire) + 1 |-> FieldsFrom(wire, k, g)]
  BY Zenon DEF Rests, FieldsFrom, At, Rest
<1>7. Rests(wire) = [k \in 1 .. Len(wire) + 1 |-> FieldsFrom(wire, k, Rests(wire))]
  BY <1>5, <1>6, Zenon
<1> QED
  BY <1>7, Zenon

LEMMA FieldsAreASequence ==
  ASSUME NEW wire \in Seq(Bytes)
  PROVE  Fields(wire) \in Seq(Field)
<1>1. PICK f, l : f = Rests(wire) /\ l = Len(wire) /\ l \in Nat
  BY LenProperties
<1>2. \A k \in 1 .. l + 1 : f[k] = FieldsFrom(wire, k, f)
  BY <1>1, RestsDefined, Zenon
<1> DEFINE S == {m \in Nat : \A k \in 1 .. l + 1 : k + m > l + 1 => f[k] \in Seq(Field)}
<1>3. 0 \in S
  BY <1>1
<1>4. ASSUME NEW m \in Nat, m \in S PROVE m + 1 \in S
  <2> SUFFICES ASSUME NEW k \in 1 .. l + 1, k + (m + 1) > l + 1 PROVE f[k] \in Seq(Field)
    OBVIOUS
  <2>1. f[k] = FieldsFrom(wire, k, f)
    BY <1>2, Zenon
  <2>2. CASE k > l \/ IsCut(At(wire, k))
    <3>1. CASE k > l
      <4>1. f[k] = <<>>
        BY <1>1, <2>1, <3>1, Zenon DEF FieldsFrom
      <4> QED
        BY <4>1
    <3>2. CASE ~(k > l)
      <4>1. PICK x : x = At(wire, k)
        OBVIOUS
      <4>2. f[k] = <<x>>
        BY <1>1, <2>1, <2>2, <3>2, <4>1, Zenon DEF FieldsFrom, Followed
      <4>3. k \in 1 .. Len(wire)
        BY <1>1, <3>2
      <4>4. x \in Field
        <5>1. IsWire(Rest(wire, k))
          BY <4>3, RestIsWire, Zenon
        <5> QED
          BY <2>2, <1>1, <3>2, <4>1, <5>1, CutIsRemnant, Zenon DEF At, Field
      <4>5. <<x>> \in Seq(Field)
        BY <4>4
      <4> QED
        BY <4>2, <4>5, Zenon
    <3> QED
      BY <3>1, <3>2
  <2>3. CASE ~(k > l) /\ ~IsCut(At(wire, k))
    <3>1. k \in 1 .. l
      BY <1>1, <2>3
    <3>2. PICK x, n : x = At(wire, k) /\ n = Len(x.raw)
      OBVIOUS
    <3>3. x \in WellFormed /\ n \in 1 .. l - k + 1
      BY <1>1, <2>3, <3>1, <3>2, NextField, Zenon
    <3>4. f[k] = <<x>> \o f[k + n]
      BY <1>1, <2>1, <2>3, <3>2, Zenon DEF FieldsFrom, Followed
    <3>5. k + n \in 1 .. l + 1 /\ (k + n) + m > l + 1
      BY <1>1, <3>3
    <3>6. f[k + n] \in Seq(Field)
      BY <1>4, <3>5
    <3>7. x \in Field
      BY <3>3, Zenon DEF Field
    <3>8. <<x>> \in Seq(Field)
      BY <3>7
    <3> QED
      BY <3>4, <3>6, <3>8, ConcatProperties
  <2> QED
    BY <2>2, <2>3
<1>5. f[1] \in Seq(Field)
  <2>1. l + 1 \in S
    <3> HIDE DEF S
    <3>1. Nat \subseteq S
      BY <1>3, <1>4, NumberInduction
    <3> QED
      BY <1>1, <3>1
  <2>2. 1 \in 1 .. l + 1 /\ 1 + (l + 1) > l + 1
    BY <1>1
  <2> QED
    BY <2>1, <2>2
<1>6. Fields(wire) = f[1]
  BY <1>1, Zenon DEF Fields, Rests
<1> QED
  BY <1>5, <1>6, Zenon

LEMMA FieldsOfNothing == Fields(<<>>) = <<>>
<1>1. <<>> \in Seq(Bytes) /\ Len(<<>>) = 0
  BY EmptySeq
<1>2. PICK w : w = <<>>
  OBVIOUS
<1>3. Rests(w)[1] = FieldsFrom(w, 1, Rests(w))
  <2>1. 1 \in 1 .. Len(w) + 1
    BY <1>1, <1>2
  <2> QED
    BY <1>1, <1>2, <2>1, RestsDefined, Zenon
<1>4. 1 > Len(w)
  BY <1>1, <1>2
<1>5. Fields(w) = Rests(w)[1]
  BY Zenon DEF Fields, Rests
<1> QED
  BY <1>2, <1>3, <1>4, <1>5, Zenon DEF FieldsFrom

(* What follows the field that the wire w starts with.                     *)
Beyond(w) == Rest(w, Len(FirstField(w).raw) + 1)

LEMMA BeyondFirst ==
  ASSUME NEW w, IsWire(w), ~IsCut(FirstField(w))
  PROVE  /\ Beyond(w) \in Seq(Bytes)
         /\ Len(Beyond(w)) = Len(w) - Len(FirstField(w).raw)
         /\ Len(Beyond(w)) < Len(w)
         /\ w = FirstField(w).raw \o Beyond(w)
<1>1. PICK d, y : y = FirstField(w).raw /\ d = Len(y)
  OBVIOUS
<1>2. d \in 1 .. Len(w) /\ y = SubSeq(w, 1, d) /\ w \in Seq(Bytes) /\ Len(w) \in Nat
  BY <1>1, FirstIsField, TailBytes DEF IsWire
<1>3. PICK r : r = SubSeq(w, d + 1, Len(w)) /\ r = Beyond(w)
  BY <1>1, Zenon DEF Beyond, Rest
<1>4. r \in Seq(Bytes) /\ Len(r) = Len(w) - d
  <2>1. d + 1 \in Nat \ {0} /\ Len(w) <= Len(w) /\ Len(w) \in Nat
    BY <1>2
  <2>2. r \in Seq(Bytes) /\ Len(r) = IF d + 1 <= Len(w) THEN Len(w) - (d + 1) + 1 ELSE 0
    BY <1>2, <1>3, <2>1, SubWire
  <2> QED
    BY <1>2, <2>2
<1>5. SubSeq(w, 1, d) \o SubSeq(w, d + 1, Len(w)) = SubSeq(w, 1, Len(w))
  <2>1. 1 \in 1 .. Len(w) + 1 /\ d \in 1 - 1 .. Len(w) /\ Len(w) \in d .. Len(w)
    BY <1>2
  <2> QED
    BY <1>2, <2>1, ConcatAdjacentSubSeq
<1>6. SubSeq(w, 1, Len(w)) = w
  BY <1>2, SubSeqFull
<1>7. w = y \o r
  BY <1>2, <1>3, <1>5, <1>6, Zenon
<1>8. Len(r) < Len(w)
  BY <1>2, <1>4
<1> QED
  BY <1>1, <1>3, <1>4, <1>7, <1>8, Zenon

(* The first field, and the fields of what follows it.                     *)
LEMMA FieldsStep ==
  ASSUME NEW w, IsWire(w), ~IsCut(FirstField(w))
  PROVE  Fields(w) = <<FirstField(w)>> \o Fields(Beyond(w))
<1>1. PICK d, r, l : d = Len(FirstField(w).raw) /\ r = Beyond(w) /\ l = Len(r)
  OBVIOUS
<1>2. /\ w \in Seq(Bytes) /\ r \in Seq(Bytes) /\ d \in Nat \ {0} /\ l \in Nat
      /\ Len(w) = l + d /\ Len(r) = l
  <2>1. d \in 1 .. Len(w) /\ w \in Seq(Bytes) /\ Len(w) \in Nat
    BY <1>1, FirstIsField, TailBytes DEF IsWire
  <2>2. r \in Seq(Bytes) /\ l = Len(w) - d
    BY <1>1, BeyondFirst, Zenon
  <2> QED
    BY <1>1, <2>1, <2>2
<1>3. PICK f, g : f = Rests(w) /\ g = Rests(r)
  OBVIOUS
<1>4. \A k \in 1 .. Len(w) + 1 : f[k] = FieldsFrom(w, k, f)
  BY <1>2, <1>3, RestsDefined, Zenon
<1>5. \A k \in 1 .. l + 1 : g[k] = FieldsFrom(r, k, g)
  BY <1>1, <1>2, <1>3, RestsDefined, Zenon
<1>6. ASSUME NEW k \in 1 .. l PROVE At(w, k + d) = At(r, k)
  <2>1. r = SubSeq(w, d + 1, Len(w))
    BY <1>1, Zenon DEF Beyond, Rest
  <2>2. PICK x, y : x = Rest(w, k + d) /\ y = Rest(r, k)
    OBVIOUS
  <2>3. k + d \in 1 .. Len(w) /\ k \in 1 .. Len(r) /\ d + 1 \in 1 .. Len(w)
    BY <1>1, <1>2
  <2>4. /\ x \in Seq(Bytes) /\ Len(x) = Len(w) - (k + d) + 1
        /\ \A i \in 1 .. Len(w) - (k + d) + 1 : x[i] = w[k + d + i - 1]
    BY <1>2, <2>2, <2>3, RestIsWire DEF IsWire
  <2>5. /\ y \in Seq(Bytes) /\ Len(y) = Len(r) - k + 1
        /\ \A i \in 1 .. Len(r) - k + 1 : y[i] = r[k + i - 1]
    BY <1>2, <2>2, <2>3, RestIsWire DEF IsWire
  <2>6. \A i \in 1 .. Len(w) - (d + 1) + 1 : r[i] = w[d + 1 + i - 1]
    BY <1>2, <2>1, <2>3, RestIsWire DEF Rest
  <2>7. Len(x) = Len(y) /\ Len(x) = l - k + 1
    BY <1>2, <2>4, <2>5
  <2>8. \A i \in 1 .. Len(x) : x[i] = y[i]
    <3> TAKE i \in 1 .. Len(x)
    <3>1. /\ i \in 1 .. Len(w) - (k + d) + 1 /\ i \in 1 .. Len(r) - k + 1
          /\ k + i - 1 \in 1 .. Len(w) - (d + 1) + 1
          /\ d + 1 + (k + i - 1) - 1 = k + d + i - 1
      <4>1. i \in Nat /\ i >= 1 /\ i <= l - k + 1 /\ k \in Nat /\ k >= 1 /\ k <= l
        BY <1>2, <2>7
      <4> QED
        BY <1>2, <4>1
    <3> QED
      BY <2>4, <2>5, <2>6, <3>1
  <2>9. x = y
    BY <2>4, <2>5, <2>7, <2>8, SeqEqual
  <2> QED
    BY <2>2, <2>9, Zenon DEF At
<1> DEFINE S == {m \in Nat : \A k \in 1 .. l + 1 : k + m > l + 1 => f[k + d] = g[k]}
<1>7. 0 \in S
  BY <1>2
<1>8. ASSUME NEW m \in Nat, m \in S PROVE m + 1 \in S
  <2> SUFFICES ASSUME NEW k \in 1 .. l + 1, k + (m + 1) > l + 1 PROVE f[k + d] = g[k]
    OBVIOUS
  <2>1. k + d \in 1 .. Len(w) + 1
    BY <1>2
  <2>2. f[k + d] = FieldsFrom(w, k + d, f) /\ g[k] = FieldsFrom(r, k, g)
    BY <1>4, <1>5, <2>1, Zenon
  <2>3. CASE k > l
    <3>1. k + d > Len(w) /\ k > Len(r)
      BY <1>1, <1>2, <2>3
    <3> QED
      BY <2>2, <3>1, Zenon DEF FieldsFrom
  <2>4. CASE ~(k > l)
    <3>1. k \in 1 .. l /\ ~(k + d > Len(w)) /\ ~(k > Len(r)) /\ k \in 1 .. Len(r)
      BY <1>1, <1>2, <2>4
    <3>2. PICK x, n : x = At(r, k) /\ n = Len(x.raw)
      OBVIOUS
    <3>3. At(w, k + d) = x
      BY <1>6, <3>1, <3>2, Zenon
    <3>4. f[k + d] = Followed(x, k + d, f) /\ g[k] = Followed(x, k, g)
      BY <2>2, <3>1, <3>2, <3>3, Zenon DEF FieldsFrom
    <3>5. CASE IsCut(x)
      BY <3>4, <3>5, Zenon DEF Followed
    <3>6. CASE ~IsCut(x)
      <4>1. n \in 1 .. l - k + 1
        BY <1>1, <1>2, <3>1, <3>2, <3>6, NextField, Zenon
      <4>2. /\ k + n \in 1 .. l + 1 /\ (k + n) + m > l + 1
            /\ (k + d) + n = (k + n) + d
        BY <1>2, <4>1
      <4>3. f[(k + n) + d] = g[k + n]
        BY <1>8, <4>2
      <4> QED
        BY <3>2, <3>4, <3>6, <4>2, <4>3, Zenon DEF Followed
    <3> QED
      BY <3>5, <3>6
  <2> QED
    BY <2>3, <2>4
<1> HIDE DEF S
<1>9. f[1 + d] = g[1]
  <2>1. Nat \subseteq S
    BY <1>7, <1>8, NumberInduction
  <2>2. l + 1 \in S
    BY <1>2, <2>1
  <2>3. 1 \in 1 .. l + 1 /\ 1 + (l + 1) > l + 1
    BY <1>2
  <2> QED
    BY <2>2, <2>3 DEF S
<1>10. At(w, 1) = FirstField(w)
  BY <1>2, SubSeqFull, Zenon DEF At, Rest
<1>11. f[1] = <<FirstField(w)>> \o f[1 + d]
  <2>1. 1 \in 1 .. Len(w) + 1 /\ ~(1 > Len(w))
    BY <1>2
  <2>2. f[1] = FieldsFrom(w, 1, f)
    BY <1>4, <2>1, Zenon
  <2> QED
    BY <1>1, <1>10, <2>1, <2>2, Zenon DEF FieldsFrom, Followed
<1>12. Fields(w) = f[1] /\ Fields(r) = g[1]
  BY <1>3, Zenon DEF Fields, Rests
<1> QED
  BY <1>1, <1>9, <1>11, <1>12, Zenon

LEMMA FieldsCut ==
  ASSUME NEW w, IsWire(w), IsCut(FirstField(w))
  PROVE  Fields(w) = <<FirstField(w)>>
<1>1. w \in Seq(Bytes) /\ Len(w) \in Nat \ {0}
  BY TailBytes DEF IsWire
<1>2. 1 \in 1 .. Len(w) + 1 /\ ~(1 > Len(w))
  BY <1>1
<1>3. Rests(w)[1] = FieldsFrom(w, 1, Rests(w))
  BY <1>1, <1>2, RestsDefined, Zenon
<1>4. At(w, 1) = FirstField(w)
  BY <1>1, SubSeqFull, Zenon DEF At, Rest
<1>5. Fields(w) = Rests(w)[1]
  BY Zenon DEF Fields, Rests
<1> QED
  BY <1>2, <1>3, <1>4, <1>5, Zenon DEF FieldsFrom, Followed

LEMMA Associates ==
  ASSUME NEW u \in Seq(Bytes), NEW v \in Seq(Bytes), NEW w \in Seq(Bytes)
  PROVE  u \o (v \o w) = (u \o v) \o w
  OBVIOUS

LEMMA BeyondJoined ==
  ASSUME NEW w, IsWire(w), ~IsCut(FirstField(w)), NEW v \in Seq(Bytes)
  PROVE  Beyond(w \o v) = Beyond(w) \o v
<1>1. PICK u : u = w \o v
  OBVIOUS
<1>2. IsWire(u) /\ FirstField(u) = FirstField(w)
  BY <1>1, FieldJoined, Zenon
<1>3. PICK x, y, z : x = FirstField(w).raw /\ y = Beyond(w) /\ z = Beyond(u)
  OBVIOUS
<1>4. /\ x \in Seq(Bytes) /\ y \in Seq(Bytes) /\ z \in Seq(Bytes)
      /\ w = x \o y /\ u = x \o z
  <2>1. x \in Seq(Bytes)
    BY <1>3, FirstIsField, WellFormedParts, Zenon
  <2>2. y \in Seq(Bytes) /\ w = x \o y
    BY <1>3, BeyondFirst, Zenon
  <2>3. z \in Seq(Bytes) /\ u = x \o z
    BY <1>2, <1>3, BeyondFirst, Zenon
  <2> QED
    BY <2>1, <2>2, <2>3
<1>5. u = x \o (y \o v) /\ y \o v \in Seq(Bytes)
  <2>1. x \o (y \o v) = (x \o y) \o v
    BY <1>4, Associates, Zenon
  <2>2. y \o v \in Seq(Bytes)
    BY <1>4, ConcatProperties, Zenon
  <2> QED
    BY <1>1, <1>4, <2>1, <2>2, Zenon
<1>6. z = y \o v
  BY <1>4, <1>5, ConcatSimplifications, Zenon
<1> QED
  BY <1>1, <1>3, <1>6, Zenon

LEMMA FieldThen ==
  ASSUME NEW f \in WellFormed, NEW v \in Seq(Bytes)
  PROVE  Fields(f.raw \o v) = <<f>> \o Fields(v)
<1>1. PICK w : w = f.raw
  OBVIOUS
<1>2. IsWire(w) /\ FirstField(w) = f /\ ~IsCut(f)
  BY <1>1, WellFormedParts, Zenon DEF IsField
<1>3. Beyond(w) = <<>>
  <2>1. Beyond(w) \in Seq(Bytes) /\ Len(Beyond(w)) = Len(w) - Len(w)
    BY <1>1, <1>2, BeyondFirst, Zenon
  <2>2. Len(w) \in Nat
    BY <1>2, TailBytes
  <2> QED
    BY <2>1, <2>2, EmptySeq
<1>4. IsWire(w \o v) /\ FirstField(w \o v) = f /\ Beyond(w \o v) = <<>> \o v
  BY <1>2, <1>3, FieldJoined, BeyondJoined, Zenon
<1>5. <<>> \o v = v
  BY ConcatEmptySeq
<1>6. Fields(w \o v) = <<FirstField(w \o v)>> \o Fields(Beyond(w \o v))
  BY <1>2, <1>4, FieldsStep, Zenon
<1> QED
  BY <1>1, <1>4, <1>5, <1>6, Zenon

LEMMA FieldAlone ==
  ASSUME NEW f \in WellFormed
  PROVE  Fields(f.raw) = <<f>>
<1>1. f.raw \in Seq(Bytes) /\ <<>> \in Seq(Bytes)
  BY WellFormedParts, EmptySeq
<1>2. f.raw \o <<>> = f.raw
  BY <1>1, ConcatEmptySeq
<1>3. Fields(f.raw \o <<>>) = <<f>> \o <<>>
  BY <1>1, FieldThen, FieldsOfNothing, Zenon
<1>4. <<f>> \o <<>> = <<f>>
  OBVIOUS
<1> QED
  BY <1>2, <1>3, <1>4, Zenon

-----------------------------------------------------------------------------
(* Fields of another version                                               *)

(* The wire u has whole fields only, none with a tag of T.                 *)
Plain(u, T) ==
  /\ u \in Seq(Bytes)
  /\ \A i \in 1 .. Len(Fields(u)) : Fields(u)[i] \in WellFormed /\ Fields(u)[i].tag \notin T

LEMMA PlainNothing ==
  ASSUME NEW T
  PROVE  Plain(<<>>, T)
  BY FieldsOfNothing, EmptySeq DEF Plain

(* The first of a sequence, and the others.                                *)
IsLonger(s, x, t) ==
  /\ Len(s) = Len(t) + 1 /\ Len(t) \in Nat
  /\ s[1] = x /\ \A i \in 1 .. Len(t) : s[i + 1] = t[i]

LEMMA Longer ==
  ASSUME NEW S, NEW x \in S, NEW t \in Seq(S)
  PROVE  <<x>> \o t \in Seq(S) /\ IsLonger(<<x>> \o t, x, t)
<1>1. <<x>> \in Seq(S) /\ Len(<<x>>) = 1 /\ Len(t) \in Nat
  BY LenProperties
<1> DEFINE s == <<x>> \o t
<1>2. /\ s \in Seq(S) /\ Len(s) = 1 + Len(t)
      /\ \A i \in 1 .. 1 + Len(t) : s[i] = IF i <= 1 THEN <<x>>[i] ELSE t[i - 1]
  BY <1>1, ConcatProperties
<1> QED
  BY <1>1, <1>2 DEF IsLonger

LEMMA PlainFirst ==
  ASSUME NEW T, NEW u, IsWire(u), Plain(u, T)
  PROVE  ~IsCut(FirstField(u)) /\ FirstField(u).tag \notin T /\ Plain(Beyond(u), T)
<1>1. \A i \in 1 .. Len(Fields(u)) : Fields(u)[i] \in WellFormed /\ Fields(u)[i].tag \notin T
  BY Zenon DEF Plain
<1>2. ~IsCut(FirstField(u))
  <2> SUFFICES ASSUME IsCut(FirstField(u)) PROVE FALSE
    OBVIOUS
  <2>1. PICK f : f = FirstField(u)
    OBVIOUS
  <2>2. Fields(u) = <<f>>
    BY <2>1, FieldsCut, Zenon
  <2>3. f \in WellFormed
    BY <1>1, <2>2
  <2> QED
    BY <2>1, <2>3, WellFormedParts, Zenon
<1>3. PICK f, v, s, t : f = FirstField(u) /\ v = Beyond(u) /\ s = Fields(u) /\ t = Fields(v)
  OBVIOUS
<1>4. f \in WellFormed /\ v \in Seq(Bytes) /\ s = <<f>> \o t
  BY <1>2, <1>3, FirstIsField, BeyondFirst, FieldsStep, Zenon
<1>5. f \in Field /\ t \in Seq(Field)
  BY <1>3, <1>4, FieldsAreASequence, Zenon DEF Field
<1>6. /\ Len(s) = Len(t) + 1 /\ Len(t) \in Nat
      /\ s[1] = f /\ \A i \in 1 .. Len(t) : s[i + 1] = t[i]
  <2>1. IsLonger(s, f, t)
    BY <1>4, <1>5, Longer, Zenon
  <2> QED
    BY <2>1, Zenon DEF IsLonger
<1>7. f.tag \notin T
  BY <1>1, <1>3, <1>6
<1>8. \A i \in 1 .. Len(t) : t[i] \in WellFormed /\ t[i].tag \notin T
  <2> TAKE i \in 1 .. Len(t)
  <2>1. i + 1 \in 1 .. Len(s)
    BY <1>6
  <2> QED
    BY <1>1, <1>3, <1>6, <2>1, Zenon
<1> QED
  BY <1>2, <1>3, <1>4, <1>7, <1>8, Zenon DEF Plain

LEMMA PlainMore ==
  ASSUME NEW T, NEW u, IsWire(u), ~IsCut(FirstField(u)), FirstField(u).tag \notin T,
         Plain(Beyond(u), T)
  PROVE  Plain(u, T)
<1>1. PICK f, v, s, t : f = FirstField(u) /\ v = Beyond(u) /\ s = Fields(u) /\ t = Fields(v)
  OBVIOUS
<1>2. f \in WellFormed /\ v \in Seq(Bytes) /\ s = <<f>> \o t
  BY <1>1, FirstIsField, BeyondFirst, FieldsStep, Zenon
<1>3. f \in Field /\ t \in Seq(Field)
  BY <1>1, <1>2, FieldsAreASequence, Zenon DEF Field
<1>4. /\ Len(s) = Len(t) + 1 /\ Len(t) \in Nat
      /\ s[1] = f /\ \A i \in 1 .. Len(t) : s[i + 1] = t[i]
  <2>1. IsLonger(s, f, t)
    BY <1>2, <1>3, Longer, Zenon
  <2> QED
    BY <2>1, Zenon DEF IsLonger
<1>5. \A i \in 1 .. Len(t) : t[i] \in WellFormed /\ t[i].tag \notin T
  BY <1>1, Zenon DEF Plain
<1>6. \A i \in 1 .. Len(s) : s[i] \in WellFormed /\ s[i].tag \notin T
  <2> TAKE i \in 1 .. Len(s)
  <2>1. CASE i = 1
    BY <1>1, <1>2, <1>4, <2>1, Zenon
  <2>2. CASE i # 1
    <3>1. i - 1 \in 1 .. Len(t) /\ (i - 1) + 1 = i
      BY <1>4, <2>2
    <3> QED
      BY <1>4, <1>5, <3>1
  <2> QED
    BY <2>1, <2>2
<1> QED
  BY <1>1, <1>6, Zenon DEF Plain, IsWire

LEMMA PlainField ==
  ASSUME NEW T, NEW f \in WellFormed, f.tag \notin T
  PROVE  Plain(f.raw, T)
<1>1. PICK u : u = f.raw
  OBVIOUS
<1>2. IsWire(u) /\ FirstField(u) = f /\ ~IsCut(f)
  BY <1>1, WellFormedParts, Zenon DEF IsField
<1>3. Beyond(u) = <<>>
  <2>1. Beyond(u) \in Seq(Bytes) /\ Len(Beyond(u)) = Len(u) - Len(u)
    BY <1>1, <1>2, BeyondFirst, Zenon
  <2>2. Len(u) \in Nat
    BY <1>2, TailBytes
  <2> QED
    BY <2>1, <2>2, EmptySeq
<1> QED
  BY <1>1, <1>2, <1>3, PlainNothing, PlainMore, Zenon

(* Unknown fields are kept by appending them.                              *)
LEMMA PlainJoined ==
  ASSUME NEW T, NEW u, Plain(u, T), NEW v, Plain(v, T)
  PROVE  Plain(u \o v, T)
<1> DEFINE S == {n \in Nat : \A x \in Seq(Bytes) : Len(x) = n /\ Plain(x, T) => Plain(x \o v, T)}
<1>1. v \in Seq(Bytes) /\ u \in Seq(Bytes)
  BY DEF Plain
<1>2. ASSUME NEW n \in Nat, \A m \in Nat : m < n => m \in S
      PROVE  n \in S
  <2> SUFFICES ASSUME NEW x \in Seq(Bytes), Len(x) = n, Plain(x, T) PROVE Plain(x \o v, T)
    OBVIOUS
  <2>1. CASE x = <<>>
    <3>1. <<>> \o v = v
      BY <1>1, ConcatEmptySeq
    <3> QED
      BY <2>1, <3>1, Zenon
  <2>2. CASE x # <<>>
    <3>1. IsWire(x)
      BY <2>2 DEF IsWire
    <3>2. ~IsCut(FirstField(x)) /\ FirstField(x).tag \notin T /\ Plain(Beyond(x), T)
      BY <3>1, PlainFirst, Zenon
    <3>3. PICK y, m : y = Beyond(x) /\ m = Len(y)
      OBVIOUS
    <3>4. y \in Seq(Bytes) /\ m \in Nat /\ m < n
      BY <3>1, <3>2, <3>3, BeyondFirst, WireBytes
    <3>5. Plain(y \o v, T)
      BY <1>2, <3>2, <3>3, <3>4
    <3>6. /\ IsWire(x \o v) /\ FirstField(x \o v) = FirstField(x)
          /\ Beyond(x \o v) = y \o v
      BY <1>1, <3>1, <3>2, <3>3, FieldJoined, BeyondJoined, Zenon
    <3> QED
      BY <3>2, <3>5, <3>6, PlainMore, Zenon
  <2> QED
    BY <2>1, <2>2
<1>3. Len(u) \in S
  <2> HIDE DEF S
  <2>1. Nat \subseteq S
    BY <1>2, StrongInduction, Zenon
  <2> QED
    BY <1>1, <2>1, WireBytes
<1> QED
  BY <1>1, <1>3

-----------------------------------------------------------------------------
(* What is written is read                                                 *)

IsBehind(w, t, x) == IsWire(w) /\ Tail(w) = x /\ IsLonger(w, t, x)

LEMMA BehindTag ==
  ASSUME NEW t \in Bytes, NEW x \in Seq(Bytes)
  PROVE  IsBehind(<<t>> \o x, t, x)
<1>1. PICK w : w = <<t>> \o x
  OBVIOUS
<1>2. w \in Seq(Bytes) /\ IsLonger(w, t, x)
  BY <1>1, Longer, Zenon
<1>3. IsWire(w)
  <2>1. <<>> \in Seq(Bytes) /\ Len(<<>>) = 0
    BY EmptySeq
  <2>2. Len(w) # 0
    BY <1>2 DEF IsLonger
  <2> QED
    BY <1>2, <2>1, <2>2, Zenon DEF IsWire
<1>4. /\ Tail(w) \in Seq(Bytes) /\ Len(Tail(w)) = Len(x)
      /\ \A i \in 1 .. Len(x) : Tail(w)[i] = x[i]
  BY <1>2, <1>3, TailBytes DEF IsLonger
<1>5. Tail(w) = x
  BY <1>4, SeqEqual
<1> QED
  BY <1>1, <1>2, <1>3, <1>5, Zenon DEF IsBehind

LEMMA VarintFieldRead ==
  ASSUME NEW number \in 1 .. 3, NEW n \in Nat
  PROVE  \E f \in WellFormed :
           f = [tag |-> Tag(number, 0), value |-> n, raw |-> VarintField(number, n)]
<1>1. PICK x, t, w, l : /\ x = Varint(n) /\ t = Tag(number, 0) /\ l = Len(x)
                        /\ w = VarintField(number, n)
  OBVIOUS
<1>2. /\ x \in Seq(Bytes) /\ l \in Nat \ {0} /\ VarintAt(x, l) /\ VarintValue(x) = n
  BY <1>1, VarintEncodes, Zenon DEF Encodes
<1>3. t \in Bytes /\ Type(t) = 0
  BY <1>1 DEF Tag, Type, Bytes
<1>4. w = <<t>> \o x
  BY <1>1, Zenon DEF VarintField
<1>5. IsWire(w) /\ Tail(w) = x /\ w[1] = t /\ Len(w) = l + 1
  <2>1. IsBehind(w, t, x)
    BY <1>2, <1>3, <1>4, BehindTag, Zenon
  <2> QED
    BY <1>1, <2>1, Zenon DEF IsBehind, IsLonger
<1>6. ReadsTo(w, l, n, l)
  BY <1>2, <1>3, <1>5, Zenon DEF ReadsTo
<1>7. l <= Len(w) - 1
  BY <1>2, <1>5
<1>8. FirstField(w) = FieldAt(w, l, n, l)
  BY <1>5, <1>6, <1>7, FieldIs, Zenon
<1>9. SubSeq(w, 1, l + 1) = w
  BY <1>5, SubSeqFull, Zenon DEF IsWire
<1>10. FirstField(w) = [tag |-> t, value |-> n, raw |-> w]
  BY <1>3, <1>5, <1>8, <1>9, Zenon DEF FieldAt
<1>11. ~IsCut(FirstField(w))
  <2>1. w # <<>>
    BY <1>5 DEF IsWire
  <2>2. FirstField(w).raw = w
    BY <1>10
  <2> QED
    BY <2>1, <2>2, Zenon DEF IsCut
<1>12. FirstField(w) \in WellFormed
  BY <1>5, <1>11, FirstIsField, Zenon
<1> QED
  BY <1>1, <1>10, <1>12, Zenon

LEMMA DelimitedFieldRead ==
  ASSUME NEW number \in 1 .. 3, NEW b \in Seq(Bytes)
  PROVE  \E f \in WellFormed :
           f = [tag |-> Tag(number, 2), value |-> b, raw |-> DelimitedField(number, b)]
<1>1. PICK m, x, t, w, n, y, l : /\ m = Len(b) /\ x = Varint(m) /\ t = Tag(number, 2)
                                 /\ n = Len(x) /\ w = DelimitedField(number, b)
                                 /\ y = x \o b /\ l = n + m
  OBVIOUS
<1>2. m \in Nat
  BY <1>1, WireBytes
<1>3. /\ x \in Seq(Bytes) /\ n \in Nat \ {0} /\ VarintAt(x, n) /\ VarintValue(x) = m
  BY <1>1, <1>2, VarintEncodes, Zenon DEF Encodes
<1>4. t \in Bytes /\ Type(t) # 0
  BY <1>1 DEF Tag, Type, Bytes
<1>5. /\ y \in Seq(Bytes) /\ Len(y) = l
      /\ \A i \in 1 .. l : y[i] = IF i <= n THEN x[i] ELSE b[i - n]
  BY <1>1, <1>3, ConcatProperties
<1>6. w = <<t>> \o y
  <2>1. w = (<<t>> \o x) \o b
    BY <1>1, Zenon DEF DelimitedField
  <2>2. <<t>> \in Seq(Bytes)
    BY <1>4
  <2>3. <<t>> \o (x \o b) = (<<t>> \o x) \o b
    BY <1>3, <2>2, Associates, Zenon
  <2> QED
    BY <1>1, <2>1, <2>3, Zenon
<1>7. /\ IsWire(w) /\ Tail(w) = y /\ w[1] = t /\ Len(w) = l + 1
      /\ \A i \in 1 .. l : w[i + 1] = y[i]
  <2>1. IsBehind(w, t, y)
    BY <1>4, <1>5, <1>6, BehindTag, Zenon
  <2> QED
    BY <1>5, <2>1, Zenon DEF IsBehind, IsLonger
<1>8. VarintAt(y, n) /\ VarintValue(y) = m
  <2>1. n \in Nat /\ Agree(y, x, n)
    BY <1>1, <1>2, <1>3, <1>5 DEF Agree
  <2> QED
    BY <1>3, <1>5, <2>1, VarintLocal, Zenon
<1>9. ReadsTo(w, n, m, l)
  BY <1>1, <1>2, <1>3, <1>4, <1>7, <1>8, Zenon DEF ReadsTo
<1>10. l \in Nat /\ l <= Len(w) - 1
  BY <1>1, <1>2, <1>3, <1>7
<1>11. FirstField(w) = FieldAt(w, n, m, l)
  BY <1>7, <1>9, <1>10, FieldIs, Zenon
<1>12. SubSeq(w, 1, l + 1) = w
  BY <1>7, SubSeqFull, Zenon DEF IsWire
<1>13. SubSeq(w, n + 2, l + 1) = b
  <2>1. PICK z : z = SubSeq(w, n + 2, l + 1)
    OBVIOUS
  <2>2. n + 2 \in Nat \ {0} /\ l + 1 \in Nat /\ l + 1 <= Len(w) /\ w \in Seq(Bytes)
    BY <1>3, <1>7, <1>10 DEF IsWire
  <2>3. /\ z \in Seq(Bytes) /\ Len(z) = IF n + 2 <= l + 1 THEN (l + 1) - (n + 2) + 1 ELSE 0
        /\ \A k \in 1 .. (l + 1) - (n + 2) + 1 : z[k] = w[n + 2 + k - 1]
    BY <2>1, <2>2, SubWire
  <2>4. Len(z) = m
    BY <1>1, <1>2, <1>3, <2>3
  <2>5. \A k \in 1 .. m : z[k] = b[k]
    <3> TAKE k \in 1 .. m
    <3>1. /\ k \in 1 .. (l + 1) - (n + 2) + 1 /\ n + k \in 1 .. l /\ ~(n + k <= n)
          /\ n + 2 + k - 1 = (n + k) + 1 /\ (n + k) - n = k
      BY <1>1, <1>2, <1>3
    <3>2. z[k] = w[(n + k) + 1] /\ w[(n + k) + 1] = y[n + k] /\ y[n + k] = b[(n + k) - n]
      BY <1>5, <1>7, <2>3, <3>1
    <3> QED
      BY <3>1, <3>2, Zenon
  <2>6. z = b
    BY <1>1, <2>3, <2>4, <2>5, SeqEqual
  <2> QED
    BY <2>1, <2>6, Zenon
<1>14. FirstField(w) = [tag |-> t, value |-> b, raw |-> w]
  BY <1>4, <1>7, <1>11, <1>12, <1>13, Zenon DEF FieldAt
<1>15. ~IsCut(FirstField(w))
  <2>1. w # <<>>
    BY <1>7 DEF IsWire
  <2>2. FirstField(w).raw = w
    BY <1>14
  <2> QED
    BY <2>1, <2>2, Zenon DEF IsCut
<1>16. FirstField(w) \in WellFormed
  BY <1>7, <1>15, FirstIsField, Zenon
<1> QED
  BY <1>1, <1>14, <1>16, Zenon

-----------------------------------------------------------------------------
(* Memories                                                                *)

(* The tags of the fields that the messages of this version have.          *)
InfoTags == {Tag(1, 2), Tag(2, 0)}
RequestTags == {Tag(1, 2), Tag(2, 2)}

IsInfo(x) ==
  /\ x = [kind |-> "FileInfo", name |-> x.name, size |-> x.size, unknown |-> x.unknown]
  /\ x.name \in Seq(Bytes) /\ x.size \in Nat /\ Plain(x.unknown, InfoTags)
IsString(x) == x = [kind |-> "string", bytes |-> x.bytes] /\ x.bytes \in Seq(Bytes)
IsRequest(q) ==
  /\ q = [live |-> q.live, case |-> q.case, data |-> q.data, unknown |-> q.unknown]
  /\ Plain(q.unknown, RequestTags)

IsMemory(s) ==
  /\ s = [heap |-> s.heap, request |-> s.request, caller |-> s.caller]
  /\ s.heap = [a \in DOMAIN s.heap |-> s.heap[a]]
  /\ s.request = [r \in Request |-> s.request[r]]
  /\ \A r \in Request : IsRequest(s.request[r])

(* The object x is of the kind that the case c announces.                  *)
Fits(c, x) == (c = "kInfo" /\ IsInfo(x)) \/ (c = "kChunkData" /\ IsString(x))

IsSet(p) == p.case # "DATA_NOT_SET"

(* Every object on the heap h has one owner, a message of m or the caller, *)
(* who has the objects o.                                                  *)
Objects(h, o) ==
  /\ IsFiniteSet(DOMAIN h) /\ o \subseteq DOMAIN h
  /\ \A a \in DOMAIN h : IsInfo(h[a]) \/ IsString(h[a])

Points(h, p, o) ==
  IsSet(p) => p.live /\ p.data \in DOMAIN h /\ p.data \notin o /\ Fits(p.case, h[p.data])

Share(p, q) == IsSet(p) /\ IsSet(q) /\ p.data = q.data

Leaked(h, m, o) ==
  \E a \in DOMAIN h : a \notin o /\ \A r \in Request : IsSet(m[r]) => m[r].data # a

Owned(h, m, o) ==
  /\ Objects(h, o)
  /\ \A r \in Request : Points(h, m[r], o)
  /\ \A q, r \in Request : Share(m[q], m[r]) => q = r
  /\ ~Leaked(h, m, o)

Sound(s) == IsMemory(s) /\ Owned(s.heap, s.request, s.caller)

(* The messages other than those of R hold in t what they hold in s.       *)
Apart(s, t, R) ==
  \A q \in Request \ R :
    /\ t.request[q] = s.request[q]
    /\ IsSet(s.request[q]) => /\ s.request[q].data \in DOMAIN t.heap
                    /\ t.heap[s.request[q].data] = s.heap[s.request[q].data]

(* An operation on the message r leads from s to t.                        *)
After(s, t, r) ==
  /\ Sound(t)
  /\ Apart(s, t, {r})
  /\ s.request[r].live => t.request[r].live

LEMMA AfterNothing ==
  ASSUME NEW s, Sound(s), NEW r \in Request
  PROVE  After(s, s, r)
  BY Zenon DEF After, Apart, Sound, Owned, Points

LEMMA ApartBoth ==
  ASSUME NEW s, NEW t, NEW u, NEW r \in Request, Apart(s, t, {r}), Apart(t, u, {r})
  PROVE  Apart(s, u, {r})
<1> SUFFICES ASSUME NEW q \in Request \ {r}
             PROVE  /\ u.request[q] = s.request[q]
                    /\ IsSet(s.request[q]) => /\ s.request[q].data \in DOMAIN u.heap
                                              /\ u.heap[s.request[q].data] = s.heap[s.request[q].data]
  BY Zenon DEF Apart
<1>1. /\ t.request[q] = s.request[q] /\ u.request[q] = t.request[q]
      /\ IsSet(s.request[q]) => /\ s.request[q].data \in DOMAIN t.heap
                                /\ t.heap[s.request[q].data] = s.heap[s.request[q].data]
      /\ IsSet(t.request[q]) => /\ t.request[q].data \in DOMAIN u.heap
                                /\ u.heap[t.request[q].data] = t.heap[t.request[q].data]
  BY Zenon DEF Apart
<1>2. IsSet(t.request[q]) = IsSet(s.request[q])
  BY <1>1, Zenon
<1> QED
  BY <1>1, <1>2, Zenon

LEMMA AfterBoth ==
  ASSUME NEW s, NEW t, NEW u, NEW r \in Request, After(s, t, r), After(t, u, r)
  PROVE  After(s, u, r)
  BY ApartBoth, Zenon DEF After

-----------------------------------------------------------------------------
(* The steps that operations are made of                                   *)

(* A memory taken apart, and put together.                                 *)
Parts(h, m) ==
  /\ h = [a \in DOMAIN h |-> h[a]]
  /\ m = [q \in Request |-> m[q]]
  /\ \A q \in Request : IsRequest(m[q])

LEMMA MemoryParts ==
  ASSUME NEW s, IsMemory(s)
  PROVE  /\ s = [heap |-> s.heap, request |-> s.request, caller |-> s.caller]
         /\ Parts(s.heap, s.request)
  BY Zenon DEF IsMemory, Parts

LEMMA MemoryMade ==
  ASSUME NEW s, NEW h, NEW m, NEW o, s = [heap |-> h, request |-> m, caller |-> o], Parts(h, m)
  PROVE  IsMemory(s) /\ s.heap = h /\ s.request = m /\ s.caller = o
<1>1. s.heap = h /\ s.request = m /\ s.caller = o
  OBVIOUS
<1> QED
  BY <1>1, Zenon DEF IsMemory, Parts

(* All messages but r are the same in two tables.                          *)
Kept(m, n, r) == \A q \in Request : q # r => n[q] = m[q]

(* The table of messages with another message r.                           *)
TableIs(h, m, n, r, p) == Parts(h, n) /\ n[r] = p /\ Kept(m, n, r)

LEMMA TableSet ==
  ASSUME NEW h, NEW m, Parts(h, m), NEW r \in Request, NEW p, IsRequest(p),
         NEW n, n = [m EXCEPT ![r] = p]
  PROVE  TableIs(h, m, n, r, p)
<1>1. m = [q \in Request |-> m[q]]
  BY Zenon DEF Parts
<1>2. n[r] = p /\ Kept(m, n, r)
  BY <1>1, Zenon DEF Kept
<1>3. n = [q \in Request |-> n[q]]
  BY <1>1, Zenon
<1>4. \A q \in Request : IsRequest(n[q])
  BY <1>2, Zenon DEF Parts, Kept
<1> QED
  BY <1>2, <1>3, <1>4, Zenon DEF Parts, TableIs

LEMMA MessageSet ==
  ASSUME NEW s, NEW h, NEW m, NEW o, s = [heap |-> h, request |-> m, caller |-> o],
         NEW r, NEW p, NEW n, n = [m EXCEPT ![r] = p],
         NEW t, t = [s EXCEPT !.request[r] = p]
  PROVE  t = [heap |-> h, request |-> n, caller |-> o]
  OBVIOUS

(* A memory with another message r, another case and pointer of r, other   *)
(* unknown fields of r, another heap, or other objects of the caller.      *)
WithRequest(s, r, p) == [s EXCEPT !.request[r] = p]
WithPointer(s, r, c, d) == [s EXCEPT !.request[r].case = c, !.request[r].data = d]
WithUnknown(s, r, u) == [s EXCEPT !.request[r].unknown = u]
WithHeap(s, h) == [s EXCEPT !.heap = h]
WithCaller(s, o) == [s EXCEPT !.caller = o]

(* Only the message r is another one.                                      *)
OnlyRequest(s, t, r) ==
  IsMemory(t) /\ t.heap = s.heap /\ t.caller = s.caller /\ Kept(s.request, t.request, r)

RequestIs(s, t, r, p) == OnlyRequest(s, t, r) /\ t.request[r] = p

LEMMA RequestSet ==
  ASSUME NEW s, IsMemory(s), NEW r \in Request, NEW p, IsRequest(p)
  PROVE  RequestIs(s, WithRequest(s, r, p), r, p)
<1>1. PICK h, m, o : h = s.heap /\ m = s.request /\ o = s.caller
  OBVIOUS
<1>2. s = [heap |-> h, request |-> m, caller |-> o]
  BY <1>1, MemoryParts, Zenon
<1>3. Parts(h, m)
  BY <1>1, MemoryParts, Zenon
<1>4. PICK n : n = [m EXCEPT ![r] = p]
  OBVIOUS
<1>5. Parts(h, n) /\ n[r] = p /\ Kept(m, n, r)
  <2>1. TableIs(h, m, n, r, p)
    BY <1>3, <1>4, TableSet, Zenon
  <2> QED
    BY <2>1, Zenon DEF TableIs
<1>6. PICK t : t = [s EXCEPT !.request[r] = p]
  OBVIOUS
<1>7. t = [heap |-> h, request |-> n, caller |-> o]
  BY <1>2, <1>4, <1>6, MessageSet, Zenon
<1>8. IsMemory(t) /\ t.heap = h /\ t.request = n /\ t.caller = o
  BY <1>5, <1>7, MemoryMade, Zenon
<1>9. WithRequest(s, r, p) = t
  BY <1>6, Zenon DEF WithRequest
<1> QED
  BY <1>1, <1>5, <1>8, <1>9, Zenon DEF OnlyRequest, RequestIs

LEMMA FieldSet ==
  ASSUME NEW l, NEW c, NEW d, NEW u, NEW v,
         NEW p, p = [live |-> l, case |-> c, data |-> d, unknown |-> u]
  PROVE  /\ [p EXCEPT !.case = v] = [live |-> l, case |-> v, data |-> d, unknown |-> u]
         /\ [p EXCEPT !.data = v] = [live |-> l, case |-> c, data |-> v, unknown |-> u]
         /\ [p EXCEPT !.unknown = v] = [live |-> l, case |-> c, data |-> d, unknown |-> v]
  OBVIOUS

(* A field of a message is set by setting the message.                     *)
LEMMA MessageFieldSet ==
  ASSUME NEW s, NEW h, NEW m, NEW o, s = [heap |-> h, request |-> m, caller |-> o],
         m = [q \in Request |-> m[q]], NEW r \in Request, NEW v
  PROVE  /\ [s EXCEPT !.request[r].case = v] = [s EXCEPT !.request[r] = [m[r] EXCEPT !.case = v]]
         /\ [s EXCEPT !.request[r].data = v] = [s EXCEPT !.request[r] = [m[r] EXCEPT !.data = v]]
         /\ [s EXCEPT !.request[r].unknown = v]
              = [s EXCEPT !.request[r] = [m[r] EXCEPT !.unknown = v]]
  OBVIOUS

PointerIs(s, t, r, c, d) ==
  /\ OnlyRequest(s, t, r)
  /\ t.request[r].live = s.request[r].live
  /\ t.request[r].case = c /\ t.request[r].data = d
  /\ t.request[r].unknown = s.request[r].unknown

LEMMA PointerSet ==
  ASSUME NEW s, IsMemory(s), NEW r \in Request, NEW c, NEW d
  PROVE  PointerIs(s, WithPointer(s, r, c, d), r, c, d)
<1>1. PICK t : t = WithPointer(s, r, c, d)
  OBVIOUS
<1>2. PICK l, c0, d0, u, p0 :
        /\ p0 = s.request[r] /\ Plain(u, RequestTags)
        /\ p0 = [live |-> l, case |-> c0, data |-> d0, unknown |-> u]
  BY Zenon DEF IsMemory, IsRequest
<1>3. PICK p1 : p1 = [live |-> l, case |-> c, data |-> d0, unknown |-> u]
  OBVIOUS
<1>4. PICK p : p = [live |-> l, case |-> c, data |-> d, unknown |-> u]
  OBVIOUS
<1>5. p1 = [p0 EXCEPT !.case = c] /\ p = [p1 EXCEPT !.data = d]
  BY <1>2, <1>3, <1>4, FieldSet
<1>6. IsRequest(p1) /\ IsRequest(p)
  BY <1>2, <1>3, <1>4 DEF IsRequest
<1>7. PICK t1 : t1 = [s EXCEPT !.request[r].case = c]
  OBVIOUS
<1>8. t = [t1 EXCEPT !.request[r].data = d]
  BY <1>1, <1>7 DEF WithPointer
<1>9. t1 = WithRequest(s, r, p1)
  BY <1>2, <1>5, <1>7, MemoryParts, MessageFieldSet, Zenon DEF Parts, WithRequest
<1>10. OnlyRequest(s, t1, r) /\ t1.request[r] = p1
  <2>1. RequestIs(s, WithRequest(s, r, p1), r, p1)
    BY <1>6, RequestSet, Zenon
  <2> QED
    BY <1>9, <2>1, Zenon DEF RequestIs
<1>11. IsMemory(t1)
  BY <1>10, Zenon DEF OnlyRequest
<1>12. t = WithRequest(t1, r, p)
  BY <1>5, <1>8, <1>10, <1>11, MemoryParts, MessageFieldSet, Zenon DEF Parts, WithRequest
<1>13. OnlyRequest(t1, t, r) /\ t.request[r] = p
  <2>1. RequestIs(t1, WithRequest(t1, r, p), r, p)
    BY <1>6, <1>11, RequestSet, Zenon
  <2> QED
    BY <1>12, <2>1, Zenon DEF RequestIs
<1>14. OnlyRequest(s, t, r)
  BY <1>10, <1>13, Zenon DEF OnlyRequest, Kept
<1>15. p.live = p0.live /\ p.case = c /\ p.data = d /\ p.unknown = p0.unknown
  BY <1>2, <1>4
<1> QED
  BY <1>1, <1>2, <1>13, <1>14, <1>15, Zenon DEF PointerIs

SamePointer(s, t, r) ==
  /\ OnlyRequest(s, t, r)
  /\ t.request[r].live = s.request[r].live
  /\ t.request[r].case = s.request[r].case /\ t.request[r].data = s.request[r].data

UnknownIs(s, t, r, u) == SamePointer(s, t, r) /\ t.request[r].unknown = u

LEMMA UnknownSet ==
  ASSUME NEW s, IsMemory(s), NEW r \in Request, NEW u, Plain(u, RequestTags)
  PROVE  UnknownIs(s, WithUnknown(s, r, u), r, u)
<1>1. PICK t : t = WithUnknown(s, r, u)
  OBVIOUS
<1>2. PICK l, c, d, u0, p0 :
        /\ p0 = s.request[r]
        /\ p0 = [live |-> l, case |-> c, data |-> d, unknown |-> u0]
  BY Zenon DEF IsMemory, IsRequest
<1>3. PICK p : p = [live |-> l, case |-> c, data |-> d, unknown |-> u]
  OBVIOUS
<1>4. p = [p0 EXCEPT !.unknown = u]
  BY <1>2, <1>3, FieldSet
<1>5. IsRequest(p)
  BY <1>3 DEF IsRequest
<1>6. t = WithRequest(s, r, p)
  BY <1>1, <1>2, <1>4, MemoryParts, MessageFieldSet, Zenon DEF Parts, WithRequest, WithUnknown
<1>7. p.live = p0.live /\ p.case = p0.case /\ p.data = p0.data /\ p.unknown = u
  BY <1>2, <1>3
<1>8. OnlyRequest(s, t, r) /\ t.request[r] = p
  <2>1. RequestIs(s, WithRequest(s, r, p), r, p)
    BY <1>5, RequestSet, Zenon
  <2> QED
    BY <1>6, <2>1, Zenon DEF RequestIs
<1> QED
  BY <1>1, <1>2, <1>7, <1>8, Zenon DEF SamePointer, UnknownIs

IsFunction(h) == h = [a \in DOMAIN h |-> h[a]]

HeapIs(s, t, h) == IsMemory(t) /\ t.heap = h /\ t.caller = s.caller /\ t.request = s.request

LEMMA HeapSet ==
  ASSUME NEW s, IsMemory(s), NEW h, IsFunction(h)
  PROVE  HeapIs(s, WithHeap(s, h), h)
<1>1. PICK t : t = WithHeap(s, h)
  OBVIOUS
<1>2. PICK h0, m, o : h0 = s.heap /\ m = s.request /\ o = s.caller
  OBVIOUS
<1>3. s = [heap |-> h0, request |-> m, caller |-> o]
  BY <1>2, MemoryParts, Zenon
<1>4. Parts(h0, m)
  BY <1>2, MemoryParts, Zenon
<1>5. t = [heap |-> h, request |-> m, caller |-> o]
  BY <1>1, <1>3 DEF WithHeap
<1>6. Parts(h, m)
  BY <1>4, Zenon DEF Parts, IsFunction
<1> QED
  <2>1. IsMemory(t) /\ t.heap = h /\ t.request = m /\ t.caller = o
    BY <1>5, <1>6, MemoryMade, Zenon
  <2> QED
    BY <1>1, <1>2, <2>1, Zenon DEF HeapIs

CallerIs(s, t, o) == IsMemory(t) /\ t.heap = s.heap /\ t.caller = o /\ t.request = s.request

LEMMA CallerSet ==
  ASSUME NEW s, IsMemory(s), NEW o
  PROVE  CallerIs(s, WithCaller(s, o), o)
<1>1. PICK t : t = WithCaller(s, o)
  OBVIOUS
<1>2. PICK h, m, o0 : h = s.heap /\ m = s.request /\ o0 = s.caller
  OBVIOUS
<1>3. s = [heap |-> h, request |-> m, caller |-> o0]
  BY <1>2, MemoryParts, Zenon
<1>4. Parts(h, m)
  BY <1>2, MemoryParts, Zenon
<1>5. t = [heap |-> h, request |-> m, caller |-> o]
  BY <1>1, <1>3 DEF WithCaller
<1> QED
  <2>1. IsMemory(t) /\ t.heap = h /\ t.request = m /\ t.caller = o
    BY <1>4, <1>5, MemoryMade, Zenon
  <2> QED
    BY <1>1, <1>2, <2>1, Zenon DEF CallerIs

-----------------------------------------------------------------------------
(* How ownership changes                                                   *)

(* The object at a is deleted.                                             *)
Shrunk(h, a, g) == DOMAIN g = DOMAIN h \ {a} /\ \A b \in DOMAIN g : g[b] = h[b]

LEMMA OwnedForget ==
  ASSUME NEW h, NEW m, NEW o, Owned(h, m, o), NEW r \in Request, IsSet(m[r]),
         NEW n, Kept(m, n, r), ~IsSet(n[r]),
         NEW g, Shrunk(h, m[r].data, g)
  PROVE  Owned(g, n, o)
<1>1. Objects(g, o)
  <2>1. Objects(h, o) /\ Points(h, m[r], o)
    BY Zenon DEF Owned
  <2> QED
    BY <2>1, FS_Subset DEF Objects, Points, Shrunk
<1>2. \A q \in Request : IsSet(n[q]) => q # r /\ n[q] = m[q] /\ m[q].data # m[r].data
  BY Zenon DEF Owned, Kept, Share
<1>3. ASSUME NEW q \in Request PROVE Points(g, n[q], o)
  <2>1. Points(h, m[q], o)
    BY Zenon DEF Owned
  <2> QED
    BY <1>2, <2>1 DEF Points, Shrunk
<1>4. ASSUME NEW p \in Request, NEW q \in Request, Share(n[p], n[q]) PROVE p = q
  BY <1>2, <1>4, Zenon DEF Owned, Share
<1>5. ~Leaked(g, n, o)
  BY DEF Owned, Leaked, Kept, Shrunk
<1> QED
  BY <1>1, <1>3, <1>4, <1>5, Zenon DEF Owned

LEMMA OwnedReset ==
  ASSUME NEW h, NEW m, NEW o, Owned(h, m, o), NEW r \in Request, ~IsSet(m[r]),
         NEW n, Kept(m, n, r), ~IsSet(n[r])
  PROVE  Owned(h, n, o)
<1>1. \A q \in Request : IsSet(m[q]) \/ IsSet(n[q]) => n[q] = m[q]
  BY Zenon DEF Kept
<1>2. ASSUME NEW q \in Request PROVE Points(h, n[q], o)
  BY <1>1, Zenon DEF Owned, Points
<1>3. ASSUME NEW p \in Request, NEW q \in Request, Share(n[p], n[q]) PROVE p = q
  BY <1>1, <1>3, Zenon DEF Owned, Share
<1>4. ~Leaked(h, n, o)
  BY <1>1 DEF Owned, Leaked
<1> QED
  BY <1>2, <1>3, <1>4, Zenon DEF Owned

LEMMA OwnedSame ==
  ASSUME NEW h, NEW m, NEW o, Owned(h, m, o), NEW r \in Request,
         NEW n, Kept(m, n, r), n[r].live = m[r].live, n[r].case = m[r].case, n[r].data = m[r].data
  PROVE  Owned(h, n, o)
<1>1. \A q \in Request : /\ IsSet(n[q]) = IsSet(m[q]) /\ n[q].live = m[q].live
                         /\ n[q].data = m[q].data /\ n[q].case = m[q].case
  BY Zenon DEF Kept, IsSet
<1>2. ASSUME NEW q \in Request PROVE Points(h, n[q], o)
  <2>1. Points(h, m[q], o)
    BY Zenon DEF Owned
  <2> QED
    BY <1>1, <2>1 DEF Points
<1>3. ASSUME NEW p \in Request, NEW q \in Request, Share(n[p], n[q]) PROVE p = q
  <2>1. Share(m[p], m[q])
    BY <1>1, <1>3 DEF Share
  <2> QED
    BY <2>1, Zenon DEF Owned
<1>4. ~Leaked(h, n, o)
  BY <1>1 DEF Owned, Leaked
<1> QED
  BY <1>2, <1>3, <1>4, Zenon DEF Owned

(* An object x is added to the heap, at a.                                 *)
Grown(h, a, x, g) ==
  /\ a \notin DOMAIN h /\ DOMAIN g = DOMAIN h \union {a} /\ g[a] = x
  /\ \A b \in DOMAIN h : g[b] = h[b]

(* A new object for the message r, or for the caller.                      *)
LEMMA OwnedNew ==
  ASSUME NEW h, NEW m, NEW o, Owned(h, m, o), NEW r \in Request, ~IsSet(m[r]),
         NEW n, Kept(m, n, r), IsSet(n[r]), n[r].live,
         NEW x, Fits(n[r].case, x), NEW g, Grown(h, n[r].data, x, g)
  PROVE  Owned(g, n, o)
<1>1. Objects(g, o)
  <2>1. Objects(h, o)
    BY Zenon DEF Owned
  <2> QED
    BY <2>1, FS_AddElement DEF Objects, Grown, Fits
<1>2. \A q \in Request : q # r => n[q] = m[q]
  BY Zenon DEF Kept
<1>3. \A q \in Request : Points(h, m[q], o)
  BY Zenon DEF Owned
<1>4. ASSUME NEW q \in Request PROVE Points(g, n[q], o)
  <2>1. CASE q = r
    BY <2>1 DEF Owned, Objects, Points, Grown
  <2>2. CASE q # r
    BY <1>2, <1>3, <2>2 DEF Points, Grown
  <2> QED
    BY <2>1, <2>2
<1>5. \A q \in Request : q # r => ~Share(n[q], n[r])
  BY <1>2, <1>3 DEF Points, Share, Grown
<1>6. ASSUME NEW p \in Request, NEW q \in Request, Share(n[p], n[q]) PROVE p = q
  <2>1. CASE p = r \/ q = r
    BY <1>5, <1>6, <2>1, Zenon DEF Share
  <2>2. CASE p # r /\ q # r
    <3>1. n[p] = m[p] /\ n[q] = m[q]
      BY <1>2, <2>2, Zenon
    <3> QED
      BY <1>6, <3>1, Zenon DEF Owned
  <2> QED
    BY <2>1, <2>2, Zenon
<1>7. ~Leaked(g, n, o)
  BY <1>2 DEF Owned, Leaked, Grown
<1> QED
  BY <1>1, <1>4, <1>6, <1>7, Zenon DEF Owned

LEMMA OwnedAllocated ==
  ASSUME NEW h, NEW m, NEW o, Owned(h, m, o), NEW a, NEW x, IsInfo(x) \/ IsString(x),
         NEW g, Grown(h, a, x, g)
  PROVE  Owned(g, m, o \union {a})
<1>1. Objects(g, o \union {a})
  <2>1. Objects(h, o)
    BY Zenon DEF Owned
  <2> QED
    BY <2>1, FS_AddElement DEF Objects, Grown
<1>2. ASSUME NEW q \in Request PROVE Points(g, m[q], o \union {a})
  <2>1. Points(h, m[q], o)
    BY Zenon DEF Owned
  <2> QED
    BY <2>1 DEF Points, Grown
<1>3. ~Leaked(g, m, o \union {a})
  BY DEF Owned, Leaked, Grown
<1> QED
  BY <1>1, <1>2, <1>3, Zenon DEF Owned

LEMMA OwnedDeleted ==
  ASSUME NEW h, NEW m, NEW o, Owned(h, m, o), NEW a \in o,
         NEW g, Shrunk(h, a, g)
  PROVE  Owned(g, m, o \ {a})
<1>1. Objects(g, o \ {a})
  <2>1. Objects(h, o)
    BY Zenon DEF Owned
  <2> QED
    BY <2>1, FS_Subset DEF Objects, Shrunk
<1>2. ASSUME NEW q \in Request PROVE Points(g, m[q], o \ {a})
  <2>1. Points(h, m[q], o)
    BY Zenon DEF Owned
  <2> QED
    BY <2>1 DEF Points, Shrunk
<1>3. ~Leaked(g, m, o \ {a})
  BY DEF Owned, Leaked, Shrunk
<1> QED
  BY <1>1, <1>2, <1>3, Zenon DEF Owned

(* Another value for what the message r points to.                         *)
Changed(h, d, x, g) ==
  DOMAIN g = DOMAIN h /\ g[d] = x /\ \A a \in DOMAIN h : a # d => g[a] = h[a]

LEMMA OwnedAssigned ==
  ASSUME NEW h, NEW m, NEW o, Owned(h, m, o), NEW r \in Request, IsSet(m[r]),
         NEW x, Fits(m[r].case, x),
         NEW g, Changed(h, m[r].data, x, g)
  PROVE  Owned(g, m, o)
<1>1. Objects(g, o)
  <2>1. Objects(h, o)
    BY Zenon DEF Owned
  <2> QED
    BY <2>1 DEF Objects, Fits, Changed
<1>2. ASSUME NEW q \in Request PROVE Points(g, m[q], o)
  <2>1. Points(h, m[q], o)
    BY Zenon DEF Owned
  <2>2. CASE q = r
    BY <2>1, <2>2 DEF Points, Changed
  <2>3. CASE q # r
    <3>1. ~Share(m[q], m[r])
      BY <2>3, Zenon DEF Owned
    <3> QED
      BY <2>1, <3>1 DEF Points, Share, Changed
  <2> QED
    BY <2>2, <2>3
<1>3. ~Leaked(g, m, o)
  BY DEF Owned, Leaked, Changed
<1> QED
  BY <1>1, <1>2, <1>3, Zenon DEF Owned

(* An object of the caller for the message r.                              *)
LEMMA OwnedGiven ==
  ASSUME NEW h, NEW m, NEW o, Owned(h, m, o), NEW r \in Request, ~IsSet(m[r]),
         NEW n, Kept(m, n, r), IsSet(n[r]), n[r].live, n[r].data \in o,
         Fits(n[r].case, h[n[r].data])
  PROVE  Owned(h, n, o \ {n[r].data})
<1>1. Objects(h, o)
  BY Zenon DEF Owned
<1>2. Objects(h, o \ {n[r].data})
  BY <1>1 DEF Objects
<1>3. \A q \in Request : q # r => n[q] = m[q]
  BY Zenon DEF Kept
<1>4. \A q \in Request : Points(h, m[q], o)
  BY Zenon DEF Owned
<1>5. ASSUME NEW q \in Request PROVE Points(h, n[q], o \ {n[r].data})
  <2>1. CASE q = r
    BY <1>1, <2>1 DEF Objects, Points
  <2>2. CASE q # r
    BY <1>3, <1>4, <2>2 DEF Points
  <2> QED
    BY <2>1, <2>2
<1>6. \A q \in Request : q # r => ~Share(n[q], n[r])
  BY <1>3, <1>4 DEF Points, Share
<1>7. ASSUME NEW p \in Request, NEW q \in Request, Share(n[p], n[q]) PROVE p = q
  <2>1. CASE p = r \/ q = r
    BY <1>6, <1>7, <2>1, Zenon DEF Share
  <2>2. CASE p # r /\ q # r
    <3>1. n[p] = m[p] /\ n[q] = m[q]
      BY <1>3, <2>2, Zenon
    <3> QED
      BY <1>7, <3>1, Zenon DEF Owned
  <2> QED
    BY <2>1, <2>2, Zenon
<1>8. ~Leaked(h, n, o \ {n[r].data})
  BY <1>3 DEF Owned, Leaked
<1> QED
  BY <1>2, <1>5, <1>7, <1>8, Zenon DEF Owned

(* What the message r held for the caller.                                 *)
LEMMA OwnedReleased ==
  ASSUME NEW h, NEW m, NEW o, Owned(h, m, o), NEW r \in Request, IsSet(m[r]),
         NEW n, Kept(m, n, r), ~IsSet(n[r])
  PROVE  Owned(h, n, o \union {m[r].data})
<1>1. Objects(h, o) /\ \A q \in Request : Points(h, m[q], o)
  BY Zenon DEF Owned
<1>2. Objects(h, o \union {m[r].data})
  BY <1>1 DEF Objects, Points
<1>3. \A q \in Request : IsSet(n[q]) => n[q] = m[q] /\ ~Share(m[q], m[r])
  BY Zenon DEF Owned, Kept
<1>4. ASSUME NEW q \in Request PROVE Points(h, n[q], o \union {m[r].data})
  BY <1>1, <1>3 DEF Points, Share
<1>5. ASSUME NEW p \in Request, NEW q \in Request, Share(n[p], n[q]) PROVE p = q
  BY <1>3, <1>5, Zenon DEF Owned, Share
<1>6. ~Leaked(h, n, o \union {m[r].data})
  BY DEF Owned, Leaked, Kept
<1> QED
  BY <1>2, <1>4, <1>5, <1>6, Zenon DEF Owned

LEMMA OwnedSwapped ==
  ASSUME NEW h, NEW m, NEW o, Owned(h, m, o), NEW r \in Request, NEW other \in Request,
         NEW n, n[r] = m[other], n[other] = m[r],
         \A q \in Request : q # r /\ q # other => n[q] = m[q]
  PROVE  Owned(h, n, o)
<1>1. PICK f : f = [q \in Request |-> IF q = r THEN other ELSE IF q = other THEN r ELSE q]
  OBVIOUS
<1>2. \A q \in Request : f[q] \in Request /\ n[q] = m[f[q]]
  BY <1>1
<1>3. \A q \in Request : f[f[q]] = q
  BY <1>1
<1>4. ASSUME NEW q \in Request PROVE Points(h, n[q], o)
  BY <1>2, Zenon DEF Owned
<1>5. ASSUME NEW p \in Request, NEW q \in Request, Share(n[p], n[q]) PROVE p = q
  <2>1. f[p] = f[q]
    BY <1>2, <1>5, Zenon DEF Owned
  <2> QED
    BY <1>3, <2>1, Zenon
<1>6. ~Leaked(h, n, o)
  <2> SUFFICES ASSUME NEW a \in DOMAIN h, a \notin o
               PROVE  \E q \in Request : IsSet(n[q]) /\ n[q].data = a
    BY Zenon DEF Leaked
  <2>1. PICK q \in Request : IsSet(m[q]) /\ m[q].data = a
    BY Zenon DEF Owned, Leaked
  <2>2. n[f[q]] = m[q]
    BY <1>2, <1>3, Zenon
  <2> QED
    BY <1>2, <2>1, <2>2, Zenon
<1> QED
  BY <1>4, <1>5, <1>6, Zenon DEF Owned

-----------------------------------------------------------------------------
(* The functions that change what a message points to                      *)

LEMMA SoundParts ==
  ASSUME NEW s, Sound(s)
  PROVE  IsMemory(s) /\ Owned(s.heap, s.request, s.caller)
  BY Zenon DEF Sound

(* Only what the message r points to may be changed or deleted.            *)
Spared(s, t, r) ==
  \A a \in DOMAIN s.heap : \/ IsSet(s.request[r]) /\ s.request[r].data = a
                           \/ a \in DOMAIN t.heap /\ t.heap[a] = s.heap[a]

LEMMA AfterStep ==
  ASSUME NEW s, Sound(s), NEW r \in Request, NEW t, IsMemory(t),
         Owned(t.heap, t.request, t.caller), Kept(s.request, t.request, r),
         s.request[r].live => t.request[r].live, Spared(s, t, r)
  PROVE  After(s, t, r)
<1>1. ASSUME NEW q \in Request \ {r}, IsSet(s.request[q])
      PROVE  s.request[q].data \in DOMAIN t.heap /\ t.heap[s.request[q].data] = s.heap[s.request[q].data]
  <2>1. Points(s.heap, s.request[q], s.caller) /\ ~Share(s.request[q], s.request[r])
    BY Zenon DEF Sound, Owned
  <2>2. s.request[q].data \in DOMAIN s.heap
    BY <1>1, <2>1, Zenon DEF Points
  <2>3. ~(IsSet(s.request[r]) /\ s.request[r].data = s.request[q].data)
    BY <1>1, <2>1, Zenon DEF Share
  <2> QED
    BY <2>2, <2>3, Zenon DEF Spared
<1>2. \A q \in Request \ {r} : t.request[q] = s.request[q]
  BY Zenon DEF Kept
<1> QED
  BY <1>1, <1>2, Zenon DEF After, Apart, Sound

(* What the accessors of the message r return.                             *)
Value(s, r) == IF IsSet(s.request[r]) THEN s.heap[s.request[r].data] ELSE NewFileInfo

Has(s, r, case, x, u) ==
  s.request[r].case = case /\ Value(s, r) = x /\ s.request[r].unknown = u

(* An operation on the message r leads from s to t, and r has then x.      *)
Becomes(s, t, r, case, x, u) == After(s, t, r) /\ Has(t, r, case, x, u)

Shows(s, r, case, x, u) == Content(s, r) = [case |-> case, data |-> x, unknown |-> u]

LEMMA ContentIs ==
  ASSUME NEW s, Sound(s), NEW r \in Request, NEW case, NEW x, NEW u, Has(s, r, case, x, u)
  PROVE  Shows(s, r, case, x, u)
<1>1. IsSet(s.request[r]) => s.request[r].data \in DOMAIN s.heap
  BY Zenon DEF Sound, Owned, Points
<1>2. CASE data_case(s, r) = "DATA_NOT_SET"
  BY <1>2, Zenon DEF Has, Value, IsSet, Content, data_case, Shows
<1>3. CASE data_case(s, r) # "DATA_NOT_SET"
  BY <1>1, <1>3, Zenon DEF Has, Value, IsSet, Content, data_case, Shows, Pointed
<1> QED
  BY <1>2, <1>3, Zenon

(* The memory t differs from s in the message r, which holds nothing.      *)
Emptied(s, t, r, u) ==
  /\ After(s, t, r) /\ ~IsSet(t.request[r]) /\ t.caller = s.caller
  /\ t.request[r].unknown = u

LEMMA EmptiedHas ==
  ASSUME NEW s, NEW t, NEW r, NEW u, Emptied(s, t, r, u)
  PROVE  Becomes(s, t, r, "DATA_NOT_SET", NewFileInfo, u)
  BY Zenon DEF Emptied, Becomes, Has, Value, IsSet

LEMMA DataCleared ==
  ASSUME NEW s, Sound(s), NEW r \in Request
  PROVE  Emptied(s, clear_data(s, r), r, s.request[r].unknown)
<1>1. IsMemory(s) /\ Owned(s.heap, s.request, s.caller)
  BY SoundParts, Zenon
<1>2. CASE IsSet(s.request[r])
  <2>1. PICK g : g = [a \in DOMAIN s.heap \ {s.request[r].data} |-> s.heap[a]]
    OBVIOUS
  <2>2. IsFunction(g) /\ Shrunk(s.heap, s.request[r].data, g)
    BY <2>1 DEF IsFunction, Shrunk
  <2>3. PICK u : u = WithHeap(s, g)
    OBVIOUS
  <2>4. PICK t : t = WithPointer(u, r, "DATA_NOT_SET", Null)
    OBVIOUS
  <2>5. IsMemory(u) /\ u.heap = g /\ u.caller = s.caller /\ u.request = s.request
    <3>1. HeapIs(s, WithHeap(s, g), g)
      BY <1>1, <2>2, HeapSet, Zenon
    <3> QED
      BY <2>3, <3>1, Zenon DEF HeapIs
  <2>6. /\ OnlyRequest(u, t, r) /\ t.request[r].live = u.request[r].live
        /\ t.request[r].case = "DATA_NOT_SET" /\ t.request[r].unknown = u.request[r].unknown
    <3>1. PointerIs(u, WithPointer(u, r, "DATA_NOT_SET", Null), r, "DATA_NOT_SET", Null)
      BY <2>5, PointerSet, Zenon
    <3> QED
      BY <2>4, <3>1, Zenon DEF PointerIs
  <2>7. /\ IsMemory(t) /\ t.heap = g /\ t.caller = s.caller /\ Kept(s.request, t.request, r)
        /\ t.request[r].live = s.request[r].live /\ ~IsSet(t.request[r])
        /\ t.request[r].unknown = s.request[r].unknown
    BY <2>5, <2>6, Zenon DEF OnlyRequest, IsSet
  <2>8. Owned(g, t.request, s.caller)
    BY <1>1, <1>2, <2>2, <2>7, OwnedForget, Zenon
  <2>9. Spared(s, t, r)
    BY <1>2, <2>1, <2>7 DEF Spared
  <2>10. After(s, t, r)
    BY <2>7, <2>8, <2>9, AfterStep, Zenon
  <2>11. Deleted(s, s.request[r].data) = u
    BY <2>1, <2>3 DEF Deleted, WithHeap
  <2>12. clear_data(s, r) = t
    BY <1>2, <2>4, <2>11, Zenon DEF clear_data, clear_has_data, data_case, IsSet, WithPointer
  <2> QED
    BY <2>7, <2>10, <2>12, Zenon DEF Emptied
<1>3. CASE ~IsSet(s.request[r])
  <2>1. PICK t : t = WithPointer(s, r, "DATA_NOT_SET", Null)
    OBVIOUS
  <2>2. /\ OnlyRequest(s, t, r) /\ t.request[r].live = s.request[r].live
        /\ t.request[r].case = "DATA_NOT_SET" /\ t.request[r].unknown = s.request[r].unknown
    <3>1. PointerIs(s, WithPointer(s, r, "DATA_NOT_SET", Null), r, "DATA_NOT_SET", Null)
      BY <1>1, PointerSet, Zenon
    <3> QED
      BY <2>1, <3>1, Zenon DEF PointerIs
  <2>3. /\ IsMemory(t) /\ t.heap = s.heap /\ t.caller = s.caller /\ Kept(s.request, t.request, r)
        /\ ~IsSet(t.request[r]) /\ t.request[r].unknown = s.request[r].unknown
    BY <2>2, Zenon DEF OnlyRequest, IsSet
  <2>4. Owned(t.heap, t.request, t.caller)
    BY <1>1, <1>3, <2>3, OwnedReset, Zenon
  <2>5. Spared(s, t, r)
    BY <2>3, Zenon DEF Spared
  <2>6. After(s, t, r)
    BY <2>2, <2>3, <2>4, <2>5, AfterStep, Zenon
  <2>7. clear_data(s, r) = t
    BY <1>3, <2>1, Zenon DEF clear_data, clear_has_data, data_case, IsSet, WithPointer
  <2> QED
    BY <2>3, <2>6, <2>7, Zenon DEF Emptied
<1> QED
  BY <1>2, <1>3, Zenon

(* There is an address that is free.                                       *)
LEMMA AddressIsFree ==
  ASSUME NEW s, IsFiniteSet(DOMAIN s.heap)
  PROVE  FreeAddress(s) \notin DOMAIN s.heap
<1>1. PICK n \in Nat : n = Cardinality(DOMAIN s.heap)
  BY FS_CardinalityType
<1>2. ~((1 .. n + 1) \subseteq DOMAIN s.heap)
  <2> SUFFICES ASSUME (1 .. n + 1) \subseteq DOMAIN s.heap PROVE FALSE
    OBVIOUS
  <2>1. Cardinality(1 .. n + 1) <= n
    BY <1>1, FS_Subset
  <2>2. Cardinality(1 .. n + 1) = n + 1
    BY <1>1, FS_Interval
  <2> QED
    BY <1>1, <2>1, <2>2
<1>3. \E a \in 1 .. Cardinality(DOMAIN s.heap) + 1 : a \notin DOMAIN s.heap
  BY <1>1, <1>2
<1> QED
  BY <1>3, Zenon DEF FreeAddress

LEMMA AllocatedHeap ==
  ASSUME NEW s, Sound(s), NEW x
  PROVE  LET t == Allocated(s, x) IN
         /\ IsMemory(t) /\ t.caller = s.caller /\ t.request = s.request
         /\ Grown(s.heap, FreeAddress(s), x, t.heap)
<1>1. PICK t : t = Allocated(s, x)
  OBVIOUS
<1>2. IsMemory(s) /\ IsFiniteSet(DOMAIN s.heap)
  BY Zenon DEF Sound, Owned, Objects
<1>3. PICK a : a = FreeAddress(s)
  OBVIOUS
<1>4. a \notin DOMAIN s.heap
  BY <1>2, <1>3, AddressIsFree, Zenon
<1>5. PICK g : g = [b \in DOMAIN s.heap \union {a} |-> IF b \in DOMAIN s.heap THEN s.heap[b] ELSE x]
  OBVIOUS
<1>6. IsFunction(g) /\ Grown(s.heap, a, x, g)
  BY <1>4, <1>5 DEF Grown, IsFunction
<1>7. t = WithHeap(s, g)
  BY <1>1, <1>3, <1>5 DEF Allocated, WithHeap
<1>8. HeapIs(s, WithHeap(s, g), g)
  BY <1>2, <1>6, HeapSet, Zenon
<1> QED
  BY <1>1, <1>3, <1>6, <1>7, <1>8, Zenon DEF HeapIs

TakenOver(s, t, r, c, a) ==
  /\ IsMemory(t) /\ t.heap = s.heap /\ t.caller = s.caller \ {a}
  /\ Kept(s.request, t.request, r)
  /\ t.request[r].live = s.request[r].live
  /\ t.request[r].case = c /\ t.request[r].data = a
  /\ t.request[r].unknown = s.request[r].unknown

LEMMA HoldsIs ==
  ASSUME NEW s, IsMemory(s), NEW r \in Request, NEW c, NEW a
  PROVE  TakenOver(s, Holds(s, r, c, a), r, c, a)
<1>1. PICK t : t = Holds(s, r, c, a)
  OBVIOUS
<1>2. PICK u : u = WithPointer(s, r, c, a)
  OBVIOUS
<1>3. /\ OnlyRequest(s, u, r) /\ u.request[r].live = s.request[r].live
      /\ u.request[r].case = c /\ u.request[r].data = a
      /\ u.request[r].unknown = s.request[r].unknown
  <2>1. PointerIs(s, WithPointer(s, r, c, a), r, c, a)
    BY PointerSet, Zenon
  <2> QED
    BY <1>2, <2>1, Zenon DEF PointerIs
<1>4. IsMemory(u) /\ u.heap = s.heap /\ u.caller = s.caller /\ Kept(s.request, u.request, r)
  BY <1>3, Zenon DEF OnlyRequest
<1>5. t = [u EXCEPT !.caller = u.caller \ {a}]
  BY <1>1, <1>2 DEF Holds, WithPointer
<1>6. t = WithCaller(u, s.caller \ {a})
  BY <1>4, <1>5, Zenon DEF WithCaller
<1>7. IsMemory(t) /\ t.heap = u.heap /\ t.caller = s.caller \ {a} /\ t.request = u.request
  <2>1. CallerIs(u, WithCaller(u, s.caller \ {a}), s.caller \ {a})
    BY <1>4, CallerSet, Zenon
  <2> QED
    BY <1>6, <2>1, Zenon DEF CallerIs
<1> QED
  BY <1>1, <1>3, <1>4, <1>7, Zenon DEF TakenOver

LEMMA NewHeld ==
  ASSUME NEW s, Sound(s), NEW r \in Request, ~IsSet(s.request[r]), s.request[r].live,
         NEW c, c # "DATA_NOT_SET", NEW x, Fits(c, x)
  PROVE  Becomes(s, Holds(Allocated(s, x), r, c, FreeAddress(s)), r, c, x, s.request[r].unknown)
<1>1. IsMemory(s) /\ Owned(s.heap, s.request, s.caller)
  BY SoundParts, Zenon
<1>2. PICK a, u, t : a = FreeAddress(s) /\ u = Allocated(s, x) /\ t = Holds(u, r, c, a)
  OBVIOUS
<1>3. /\ IsMemory(u) /\ u.caller = s.caller /\ u.request = s.request
      /\ Grown(s.heap, a, x, u.heap)
  BY <1>2, AllocatedHeap, Zenon
<1>4. /\ IsMemory(t) /\ t.heap = u.heap /\ t.caller = s.caller \ {a}
      /\ Kept(s.request, t.request, r) /\ t.request[r].live = s.request[r].live
      /\ t.request[r].case = c /\ t.request[r].data = a
      /\ t.request[r].unknown = s.request[r].unknown
  <2>1. TakenOver(u, Holds(u, r, c, a), r, c, a)
    BY <1>3, HoldsIs, Zenon
  <2> QED
    BY <1>2, <1>3, <2>1, Zenon DEF TakenOver
<1>5. t.caller = s.caller
  <2>1. s.caller \subseteq DOMAIN s.heap /\ a \notin DOMAIN s.heap
    BY <1>1, <1>3, Zenon DEF Owned, Objects, Grown
  <2> QED
    BY <1>4, <2>1
<1>6. IsSet(t.request[r])
  BY <1>4, Zenon DEF IsSet
<1>7. Owned(t.heap, t.request, s.caller)
  BY <1>1, <1>3, <1>4, <1>6, OwnedNew, Zenon
<1>8. Spared(s, t, r)
  BY <1>3, <1>4 DEF Spared, Grown
<1>9. After(s, t, r)
  BY <1>4, <1>5, <1>7, <1>8, AfterStep, Zenon
<1>10. Value(t, r) = x
  BY <1>3, <1>4, <1>6, Zenon DEF Grown, Value
<1> QED
  BY <1>2, <1>4, <1>9, <1>10, Zenon DEF Becomes, Has

LEMMA NewIsInfo == IsInfo(NewFileInfo)
  BY EmptySeq, PlainNothing DEF IsInfo, NewFileInfo

(* The FileInfo that mutable_info finds or makes.                          *)
InfoOf(s, r) == IF s.request[r].case = "kInfo" THEN Value(s, r) ELSE NewFileInfo

LEMMA MutableInfo ==
  ASSUME NEW s, Sound(s), NEW r \in Request, s.request[r].live
  PROVE  Becomes(s, mutable_info(s, r), r, "kInfo", InfoOf(s, r), s.request[r].unknown)
<1>1. CASE data_case(s, r) = "kInfo"
  BY <1>1, AfterNothing, Zenon DEF mutable_info, Becomes, Has, InfoOf, data_case
<1>2. CASE data_case(s, r) # "kInfo"
  <2>1. PICK u, v : u = clear_data(s, r) /\ v = s.request[r].unknown
    OBVIOUS
  <2>2. After(s, u, r) /\ ~IsSet(u.request[r]) /\ u.request[r].unknown = v
    BY <2>1, DataCleared, Zenon DEF Emptied
  <2>3. Sound(u) /\ u.request[r].live
    BY <2>2, Zenon DEF After
  <2>4. Fits("kInfo", NewFileInfo)
    BY NewIsInfo DEF Fits
  <2>5. PICK t : t = Holds(Allocated(u, NewFileInfo), r, "kInfo", FreeAddress(u))
    OBVIOUS
  <2>6. Becomes(u, t, r, "kInfo", NewFileInfo, v)
    <3>1. "kInfo" # "DATA_NOT_SET"
      OBVIOUS
    <3> QED
      BY <2>2, <2>3, <2>4, <2>5, <3>1, NewHeld, Zenon
  <2>7. mutable_info(s, r) = t
    BY <1>2, <2>1, <2>5, Zenon DEF mutable_info
  <2>8. InfoOf(s, r) = NewFileInfo
    BY <1>2, Zenon DEF InfoOf, data_case
  <2> QED
    BY <2>1, <2>2, <2>6, <2>7, <2>8, AfterBoth, Zenon DEF Becomes
<1> QED
  BY <1>1, <1>2, Zenon

(* And the string of mutable_chunk_data.                                   *)
TextOf(s, r) == IF s.request[r].case = "kChunkData" THEN Value(s, r) ELSE Text(<<>>)

LEMMA MutableChunkData ==
  ASSUME NEW s, Sound(s), NEW r \in Request, s.request[r].live
  PROVE  Becomes(s, mutable_chunk_data(s, r), r, "kChunkData", TextOf(s, r), s.request[r].unknown)
<1>1. CASE data_case(s, r) = "kChunkData"
  BY <1>1, AfterNothing, Zenon DEF mutable_chunk_data, Becomes, Has, TextOf, data_case
<1>2. CASE data_case(s, r) # "kChunkData"
  <2>1. PICK u, v : u = clear_data(s, r) /\ v = s.request[r].unknown
    OBVIOUS
  <2>2. After(s, u, r) /\ ~IsSet(u.request[r]) /\ u.request[r].unknown = v
    BY <2>1, DataCleared, Zenon DEF Emptied
  <2>3. Sound(u) /\ u.request[r].live
    BY <2>2, Zenon DEF After
  <2>4. Fits("kChunkData", Text(<<>>))
    BY EmptySeq DEF Fits, IsString, Text
  <2>5. PICK t : t = Holds(Allocated(u, Text(<<>>)), r, "kChunkData", FreeAddress(u))
    OBVIOUS
  <2>6. Becomes(u, t, r, "kChunkData", Text(<<>>), v)
    <3>1. "kChunkData" # "DATA_NOT_SET"
      OBVIOUS
    <3> QED
      BY <2>2, <2>3, <2>4, <2>5, <3>1, NewHeld, Zenon
  <2>7. mutable_chunk_data(s, r) = t
    BY <1>2, <2>1, <2>5, Zenon DEF mutable_chunk_data
  <2>8. TextOf(s, r) = Text(<<>>)
    BY <1>2, Zenon DEF TextOf, data_case
  <2> QED
    BY <2>1, <2>2, <2>6, <2>7, <2>8, AfterBoth, Zenon DEF Becomes
<1> QED
  BY <1>1, <1>2, Zenon

LEMMA AssignedTo ==
  ASSUME NEW s, Sound(s), NEW r \in Request, IsSet(s.request[r]), NEW x, Fits(s.request[r].case, x)
  PROVE  Becomes(s, Assigned(s, r, x), r, s.request[r].case, x, s.request[r].unknown)
<1>1. IsMemory(s) /\ Owned(s.heap, s.request, s.caller)
  BY SoundParts, Zenon
<1>2. PICK h, d : h = s.heap /\ d = s.request[r].data
  OBVIOUS
<1>3. d \in DOMAIN h
  BY <1>1, <1>2, Zenon DEF Owned, Points
<1>4. PICK g : g = [h EXCEPT ![d] = x]
  OBVIOUS
<1>5. h = [a \in DOMAIN h |-> h[a]]
  BY <1>1, <1>2, Zenon DEF IsMemory
<1>6. IsFunction(g) /\ Changed(h, d, x, g)
  BY <1>3, <1>4, <1>5 DEF IsFunction, Changed
<1>7. PICK t : t = WithHeap(s, g)
  OBVIOUS
<1>8. IsMemory(t) /\ t.heap = g /\ t.caller = s.caller /\ t.request = s.request
  <2>1. HeapIs(s, WithHeap(s, g), g)
    BY <1>1, <1>6, HeapSet, Zenon
  <2> QED
    BY <1>7, <2>1, Zenon DEF HeapIs
<1>9. Owned(g, t.request, t.caller)
  BY <1>1, <1>2, <1>6, <1>8, OwnedAssigned, Zenon
<1>10. Spared(s, t, r)
  BY <1>2, <1>6, <1>8, Zenon DEF Spared, Changed
<1>11. Kept(s.request, t.request, r)
  BY <1>8, Zenon DEF Kept
<1>12. After(s, t, r)
  BY <1>8, <1>9, <1>10, <1>11, AfterStep, Zenon
<1>13. Assigned(s, r, x) = t
  <2>1. Assigned(s, r, x) = [s EXCEPT !.heap = [s.heap EXCEPT ![d] = x]]
    BY <1>2 DEF Assigned
  <2> QED
    BY <1>2, <1>4, <1>7, <2>1, Zenon DEF WithHeap
<1>14. Value(t, r) = x
  BY <1>2, <1>6, <1>8, Zenon DEF Changed, Value
<1> QED
  BY <1>8, <1>12, <1>13, <1>14, Zenon DEF Becomes, Has

LEMMA UnknownSetAfter ==
  ASSUME NEW s, Sound(s), NEW r \in Request, NEW u, Plain(u, RequestTags)
  PROVE  /\ Becomes(s, WithUnknown(s, r, u), r, s.request[r].case, Value(s, r), u)
         /\ WithUnknown(s, r, u).caller = s.caller
<1>1. IsMemory(s) /\ Owned(s.heap, s.request, s.caller)
  BY SoundParts, Zenon
<1>2. PICK t : t = WithUnknown(s, r, u)
  OBVIOUS
<1>3. /\ OnlyRequest(s, t, r) /\ t.request[r].live = s.request[r].live
      /\ t.request[r].case = s.request[r].case /\ t.request[r].data = s.request[r].data
      /\ t.request[r].unknown = u
  <2>1. UnknownIs(s, t, r, u)
    BY <1>1, <1>2, UnknownSet, Zenon
  <2> QED
    BY <2>1, Zenon DEF SamePointer, UnknownIs
<1>4. IsMemory(t) /\ t.heap = s.heap /\ t.caller = s.caller /\ Kept(s.request, t.request, r)
  BY <1>3, Zenon DEF OnlyRequest
<1>5. Owned(t.heap, t.request, t.caller)
  BY <1>1, <1>3, <1>4, OwnedSame, Zenon
<1>6. Spared(s, t, r)
  BY <1>4, Zenon DEF Spared
<1>7. After(s, t, r)
  BY <1>3, <1>4, <1>5, <1>6, AfterStep, Zenon
<1>8. Value(t, r) = Value(s, r)
  BY <1>3, <1>4, Zenon DEF Value, IsSet
<1> QED
  BY <1>2, <1>3, <1>4, <1>7, <1>8, Zenon DEF Becomes, Has

(* Unknown fields are appended.                                            *)
Plus(s, r, u) == s.request[r].unknown \o u

LEMMA UnknownAppended ==
  ASSUME NEW s, Sound(s), NEW r \in Request, NEW u, Plain(u, RequestTags)
  PROVE  Becomes(s, WithUnknown(s, r, Plus(s, r, u)), r, s.request[r].case, Value(s, r),
                 Plus(s, r, u))
<1>1. Plain(s.request[r].unknown, RequestTags)
  BY Zenon DEF Sound, IsMemory, IsRequest
<1>2. Plain(Plus(s, r, u), RequestTags)
  BY <1>1, PlainJoined, Zenon DEF Plus
<1> QED
  BY <1>2, UnknownSetAfter, Zenon

LEMMA ChunkDataSet ==
  ASSUME NEW s, Sound(s), NEW r \in Request, s.request[r].live, NEW b \in Seq(Bytes)
  PROVE  Becomes(s, set_chunk_data(s, r, b), r, "kChunkData", Text(b), s.request[r].unknown)
<1>1. PICK u, v : u = mutable_chunk_data(s, r) /\ v = s.request[r].unknown
  OBVIOUS
<1>2. After(s, u, r) /\ u.request[r].case = "kChunkData" /\ u.request[r].unknown = v
  BY <1>1, MutableChunkData, Zenon DEF Becomes, Has
<1>3. Sound(u) /\ IsSet(u.request[r])
  <2>1. "kChunkData" # "DATA_NOT_SET"
    OBVIOUS
  <2> QED
    BY <1>2, <2>1, Zenon DEF After, IsSet
<1>4. Fits("kChunkData", Text(b))
  BY DEF Fits, IsString, Text
<1>5. Becomes(u, Assigned(u, r, Text(b)), r, "kChunkData", Text(b), v)
  BY <1>2, <1>3, <1>4, AssignedTo, Zenon
<1> QED
  BY <1>1, <1>2, <1>5, AfterBoth, Zenon DEF Becomes, set_chunk_data

-----------------------------------------------------------------------------
(* The functions of a message                                              *)

LEMMA PointedIsInfo ==
  ASSUME NEW s, Sound(s), NEW r \in Request, s.request[r].case = "kInfo"
  PROVE  IsInfo(Pointed(s, r))
<1>1. IsSet(s.request[r]) /\ "kInfo" # "kChunkData"
  BY DEF IsSet
<1>2. Fits("kInfo", s.heap[s.request[r].data])
  BY <1>1, Zenon DEF Sound, Owned, Points
<1> QED
  BY <1>1, <1>2, Zenon DEF Fits, Pointed

LEMMA MergedIsInfo ==
  ASSUME NEW info, IsInfo(info), NEW from, IsInfo(from)
  PROVE  IsInfo(FileInfoMergeFrom(info, from))
<1>1. PICK n, z, u : info = [kind |-> "FileInfo", name |-> n, size |-> z, unknown |-> u]
  BY Zenon DEF IsInfo
<1>2. PICK n1, z1, u1 : /\ u1 = u \o from.unknown
                        /\ n1 = IF from.name = <<>> THEN n ELSE from.name
                        /\ z1 = IF from.size = 0 THEN z ELSE from.size
  OBVIOUS
<1>3. info.unknown = u /\ info.name = n /\ info.size = z
  BY <1>1
<1>4. FileInfoMergeFrom(info, from) = [info EXCEPT !.unknown = u1, !.name = n1, !.size = z1]
  BY <1>2, <1>3, Zenon DEF FileInfoMergeFrom
<1>5. PICK x : x = [kind |-> "FileInfo", name |-> n1, size |-> z1, unknown |-> u1]
  OBVIOUS
<1>6. [info EXCEPT !.unknown = u1, !.name = n1, !.size = z1] = x
  <2>1. PICK y : y = [info EXCEPT !.unknown = u1]
    OBVIOUS
  <2>2. y = [kind |-> "FileInfo", name |-> n, size |-> z, unknown |-> u1]
    BY <1>1, <2>1
  <2>3. PICK w : w = [y EXCEPT !.name = n1]
    OBVIOUS
  <2>4. w = [kind |-> "FileInfo", name |-> n1, size |-> z, unknown |-> u1]
    BY <2>2, <2>3
  <2>5. PICK v : v = [w EXCEPT !.size = z1]
    OBVIOUS
  <2>6. v = x
    BY <1>5, <2>4, <2>5
  <2> QED
    BY <2>1, <2>3, <2>5, <2>6, Zenon
<1>7. IsInfo(x)
  <2>1. n1 \in Seq(Bytes) /\ z1 \in Nat
    BY <1>2, <1>3, Zenon DEF IsInfo
  <2>2. Plain(u1, InfoTags)
    BY <1>2, <1>3, PlainJoined, Zenon DEF IsInfo
  <2>3. x.name = n1 /\ x.size = z1 /\ x.unknown = u1
    BY <1>5
  <2> QED
    BY <1>5, <2>1, <2>2, <2>3, Zenon DEF IsInfo
<1> QED
  BY <1>4, <1>6, <1>7, Zenon

(* clear_info, clear_chunk_data and Clear.                                 *)
LEMMA FieldCleared ==
  ASSUME NEW s, Sound(s), NEW r \in Request, NEW case
  PROVE  After(s, ClearField(s, r, case), r)
  BY DataCleared, AfterNothing, Zenon DEF ClearField, Emptied

LEMMA Cleared ==
  ASSUME NEW s, Sound(s), NEW r \in Request
  PROVE  Emptied(s, Clear(s, r), r, <<>>)
<1>1. PICK u, v : u = clear_data(s, r) /\ v = s.request[r].unknown
  OBVIOUS
<1>2. Emptied(s, u, r, v)
  BY <1>1, DataCleared, Zenon
<1>3. Sound(u)
  BY <1>2, Zenon DEF Emptied, After
<1>4. PICK t : t = WithUnknown(u, r, <<>>)
  OBVIOUS
<1>5. Becomes(u, t, r, u.request[r].case, Value(u, r), <<>>) /\ t.caller = u.caller
  BY <1>3, <1>4, PlainNothing, UnknownSetAfter, Zenon
<1>6. Clear(s, r) = t
  BY <1>1, <1>4, Zenon DEF Clear, WithUnknown
<1>7. ~IsSet(t.request[r])
  BY <1>2, <1>5, Zenon DEF Emptied, IsSet, Becomes, Has
<1>8. After(s, t, r)
  BY <1>2, <1>5, AfterBoth, Zenon DEF Emptied, Becomes
<1> QED
  BY <1>2, <1>5, <1>6, <1>7, <1>8, Zenon DEF Emptied, Becomes, Has

(* The message r has in t what it had in s, merged with the object x and   *)
(* the unknown fields u.                                                   *)
MergedCase(s, r, case) == IF case = "DATA_NOT_SET" THEN s.request[r].case ELSE case
MergedValue(s, r, case, x) ==
  IF case = "kInfo" THEN FileInfoMergeFrom(InfoOf(s, r), x)
  ELSE IF case = "kChunkData" THEN x ELSE Value(s, r)

Absorbs(s, t, r, case, x, u) ==
  Becomes(s, t, r, MergedCase(s, r, case), MergedValue(s, r, case, x), Plus(s, r, u))

LEMMA InfoOfIsInfo ==
  ASSUME NEW s, Sound(s), NEW r \in Request
  PROVE  IsInfo(InfoOf(s, r))
<1>1. CASE s.request[r].case = "kInfo"
  <2>1. IsSet(s.request[r])
    BY <1>1 DEF IsSet
  <2> QED
    BY <1>1, <2>1, PointedIsInfo, Zenon DEF InfoOf, Value, Pointed
<1>2. CASE s.request[r].case # "kInfo"
  BY <1>2, NewIsInfo, Zenon DEF InfoOf
<1> QED
  BY <1>1, <1>2, Zenon

(* The last step of a FileInfo that is merged or parsed into a message.    *)
LEMMA InfoMerged ==
  ASSUME NEW s, Sound(s), NEW r \in Request, s.request[r].live, NEW x, IsInfo(x)
  PROVE  Becomes(s, Assigned(mutable_info(s, r), r, x), r, "kInfo", x, s.request[r].unknown)
<1>1. PICK u, v : u = mutable_info(s, r) /\ v = s.request[r].unknown
  OBVIOUS
<1>2. Becomes(s, u, r, "kInfo", InfoOf(s, r), v)
  BY <1>1, MutableInfo, Zenon
<1>3. After(s, u, r) /\ Sound(u) /\ u.request[r].case = "kInfo" /\ u.request[r].unknown = v
  BY <1>2, Zenon DEF Becomes, Has, After
<1>4. IsSet(u.request[r])
  BY <1>3 DEF IsSet
<1>5. Fits(u.request[r].case, x)
  BY <1>3, Zenon DEF Fits
<1>6. Becomes(u, Assigned(u, r, x), r, "kInfo", x, v)
  BY <1>3, <1>4, <1>5, AssignedTo, Zenon
<1> QED
  BY <1>1, <1>3, <1>6, AfterBoth, Zenon DEF Becomes

LEMMA Merged ==
  ASSUME NEW s, Sound(s), NEW to \in Request, s.request[to].live, NEW from \in Request
  PROVE  Absorbs(s, MergeFrom(s, to, from), to,
                 s.request[from].case, Value(s, from), s.request[from].unknown)
<1>1. PICK w, u : w = s.request[from].unknown /\ u = Plus(s, to, w)
  OBVIOUS
<1>2. PICK merged : merged = WithUnknown(s, to, u)
  OBVIOUS
<1>3. merged = [s EXCEPT !.request[to].unknown = @ \o s.request[from].unknown]
  BY <1>1, <1>2 DEF WithUnknown, Plus
<1>4. Plain(w, RequestTags)
  BY <1>1, Zenon DEF Sound, IsMemory, IsRequest
<1>5. /\ After(s, merged, to) /\ merged.request[to].unknown = u
      /\ merged.request[to].case = s.request[to].case /\ Value(merged, to) = Value(s, to)
  <2>1. Becomes(s, merged, to, s.request[to].case, Value(s, to), u)
    BY <1>1, <1>2, <1>4, UnknownAppended, Zenon
  <2> QED
    BY <2>1, Zenon DEF Becomes, Has
<1>6. Sound(merged) /\ merged.request[to].live
  BY <1>5, Zenon DEF After
<1>7. InfoOf(merged, to) = InfoOf(s, to)
  BY <1>5, Zenon DEF InfoOf
<1>8. PICK target : target = mutable_info(merged, to)
  OBVIOUS
<1>9. PICK x, t : /\ x = FileInfoMergeFrom(Pointed(target, to), Pointed(s, from))
                  /\ t = MergeFrom(s, to, from)
  OBVIOUS
<1>10. /\ data_case(s, from) = "kInfo" => t = Assigned(target, to, x)
       /\ data_case(s, from) # "kInfo" /\ data_case(s, from) = "kChunkData"
            => t = set_chunk_data(merged, to, Pointed(s, from).bytes)
       /\ data_case(s, from) # "kInfo" /\ data_case(s, from) # "kChunkData" => t = merged
  <2>1. t = CASE data_case(s, from) = "kInfo" -> Assigned(target, to, x)
              [] data_case(s, from) = "kChunkData" -> set_chunk_data(merged, to, Pointed(s, from).bytes)
              [] OTHER -> merged
    BY <1>3, <1>8, <1>9, Zenon DEF MergeFrom
  <2> QED
    BY <2>1
<1>11. PICK case, y : case = s.request[from].case /\ y = Value(s, from)
  OBVIOUS
<1>12. Becomes(s, t, to, MergedCase(s, to, case), MergedValue(s, to, case, y), u)
  <2>1. CASE case = "kInfo"
    <3>1. IsSet(s.request[from]) /\ case # "DATA_NOT_SET"
      BY <1>11, <2>1 DEF IsSet
    <3>2. y = Pointed(s, from) /\ IsInfo(y)
      BY <1>11, <2>1, <3>1, PointedIsInfo, Zenon DEF Value, Pointed
    <3>3. Pointed(target, to) = InfoOf(s, to)
      <4>1. Has(target, to, "kInfo", InfoOf(merged, to), u)
        BY <1>5, <1>6, <1>8, MutableInfo, Zenon DEF Becomes
      <4>2. IsSet(target.request[to])
        <5>1. target.request[to].case = "kInfo"
          BY <4>1, Zenon DEF Has
        <5> QED
          BY <5>1 DEF IsSet
      <4> QED
        BY <1>7, <4>1, <4>2, Zenon DEF Has, Value, Pointed
    <3>4. x = FileInfoMergeFrom(InfoOf(s, to), y)
      BY <1>9, <3>2, <3>3, Zenon
    <3>5. IsInfo(x)
      BY <3>2, <3>4, InfoOfIsInfo, MergedIsInfo, Zenon
    <3>6. Becomes(merged, t, to, "kInfo", x, u)
      <4>1. t = Assigned(target, to, x)
        BY <1>10, <1>11, <2>1, Zenon DEF data_case
      <4> QED
        BY <1>5, <1>6, <1>8, <3>5, <4>1, InfoMerged, Zenon
    <3>7. Becomes(s, t, to, "kInfo", x, u)
      BY <1>5, <3>6, AfterBoth, Zenon DEF Becomes
    <3>8. MergedCase(s, to, case) = "kInfo" /\ MergedValue(s, to, case, y) = x
      BY <2>1, <3>1, <3>4, Zenon DEF MergedCase, MergedValue
    <3> QED
      BY <3>7, <3>8, Zenon
  <2>2. CASE case = "kChunkData"
    <3>1. IsSet(s.request[from]) /\ case # "DATA_NOT_SET" /\ case # "kInfo"
      BY <1>11, <2>2 DEF IsSet
    <3>2. IsString(y) /\ y = Pointed(s, from)
      <4>1. Fits(case, s.heap[s.request[from].data])
        BY <1>11, <3>1, Zenon DEF Sound, Owned, Points
      <4> QED
        BY <1>11, <3>1, <4>1, Zenon DEF Fits, Value, Pointed
    <3>3. y.bytes \in Seq(Bytes) /\ Text(y.bytes) = y
      BY <3>2, Zenon DEF IsString, Text
    <3>4. Becomes(merged, t, to, "kChunkData", y, u)
      <4>1. t = set_chunk_data(merged, to, y.bytes)
        BY <1>10, <1>11, <2>2, <3>1, <3>2, Zenon DEF data_case
      <4>2. Becomes(merged, set_chunk_data(merged, to, y.bytes), to, "kChunkData", Text(y.bytes),
                    merged.request[to].unknown)
        BY <1>6, <3>3, ChunkDataSet, Zenon
      <4> QED
        BY <1>5, <3>3, <4>1, <4>2, Zenon
    <3>5. Becomes(s, t, to, "kChunkData", y, u)
      BY <1>5, <3>4, AfterBoth, Zenon DEF Becomes
    <3>6. MergedCase(s, to, case) = "kChunkData" /\ MergedValue(s, to, case, y) = y
      BY <2>2, <3>1, Zenon DEF MergedCase, MergedValue
    <3> QED
      BY <3>5, <3>6, Zenon
  <2>3. CASE case # "kInfo" /\ case # "kChunkData"
    <3>1. ~IsSet(s.request[from])
      BY <1>11, <2>3, Zenon DEF Sound, Owned, Points, Fits
    <3>2. t = merged
      BY <1>10, <1>11, <2>3, Zenon DEF data_case
    <3>3. MergedCase(s, to, case) = s.request[to].case /\ MergedValue(s, to, case, y) = Value(s, to)
      BY <1>11, <2>3, <3>1, Zenon DEF MergedCase, MergedValue, IsSet
    <3> QED
      BY <1>5, <3>2, <3>3, Zenon DEF Becomes, Has
  <2> QED
    BY <2>1, <2>2, <2>3, Zenon
<1> QED
  BY <1>1, <1>9, <1>11, <1>12, Zenon DEF Absorbs

LEMMA Copied ==
  ASSUME NEW s, Sound(s), NEW to \in Request, s.request[to].live, NEW from \in Request
  PROVE  After(s, CopyFrom(s, to, from), to)
<1>1. CASE to = from
  BY <1>1, AfterNothing, Zenon DEF CopyFrom
<1>2. CASE to # from
  <2>1. PICK u : u = Clear(s, to)
    OBVIOUS
  <2>2. After(s, u, to)
    BY <2>1, Cleared, Zenon DEF Emptied
  <2>3. Sound(u) /\ u.request[to].live
    BY <2>2, Zenon DEF After
  <2>4. After(u, MergeFrom(u, to, from), to)
    BY <2>3, Merged, Zenon DEF Absorbs, Becomes
  <2> QED
    BY <1>2, <2>1, <2>2, <2>4, AfterBoth, Zenon DEF CopyFrom
<1> QED
  BY <1>1, <1>2, Zenon

(* A message is constructed or destroyed: it holds nothing before and      *)
(* after.                                                                  *)
Restarted(s, t, r, p) == Sound(t) /\ Apart(s, t, {r}) /\ t.request[r] = p

LEMMA Replaced ==
  ASSUME NEW s, Sound(s), NEW r \in Request, ~IsSet(s.request[r]),
         NEW p, IsRequest(p), ~IsSet(p)
  PROVE  Restarted(s, WithRequest(s, r, p), r, p)
<1>1. PICK t : t = WithRequest(s, r, p)
  OBVIOUS
<1>2. IsMemory(s) /\ Owned(s.heap, s.request, s.caller)
  BY SoundParts, Zenon
<1>3. RequestIs(s, WithRequest(s, r, p), r, p)
  BY <1>2, RequestSet, Zenon
<1>4. /\ IsMemory(t) /\ t.heap = s.heap /\ t.caller = s.caller /\ Kept(s.request, t.request, r)
      /\ t.request[r] = p
  BY <1>1, <1>3, Zenon DEF RequestIs, OnlyRequest
<1>5. Owned(t.heap, t.request, t.caller)
  BY <1>2, <1>4, OwnedReset, Zenon
<1>6. \A q \in Request : IsSet(s.request[q]) => s.request[q].data \in DOMAIN s.heap
  BY <1>2, Zenon DEF Owned, Points
<1>7. Apart(s, t, {r})
  BY <1>4, <1>6, Zenon DEF Apart, Kept
<1> QED
  BY <1>1, <1>4, <1>5, <1>7, Zenon DEF Sound, Restarted

LEMMA FreshRequest ==
  ASSUME TRUE
  PROVE  /\ IsRequest(NewRequest) /\ ~IsSet(NewRequest) /\ NewRequest.live
         /\ IsRequest(NoRequest) /\ ~IsSet(NoRequest)
<1>1. \A l : /\ IsRequest([live |-> l, case |-> "DATA_NOT_SET", data |-> Null, unknown |-> <<>>])
           /\ ~IsSet([live |-> l, case |-> "DATA_NOT_SET", data |-> Null, unknown |-> <<>>])
  BY PlainNothing DEF IsRequest, IsSet
<1>2. IsRequest(NewRequest) /\ ~IsSet(NewRequest)
  BY <1>1, Zenon DEF NewRequest
<1>3. NewRequest.live
  BY Zenon DEF NewRequest
<1>4. NoRequest = [live |-> FALSE, case |-> "DATA_NOT_SET", data |-> Null, unknown |-> <<>>]
  <2>1. PICK k, l, c, p : /\ k = TRUE /\ l = FALSE /\ c = "DATA_NOT_SET"
                          /\ p = [live |-> k, case |-> c, data |-> Null, unknown |-> <<>>]
    OBVIOUS
  <2>2. [p EXCEPT !.live = l] = [live |-> l, case |-> c, data |-> Null, unknown |-> <<>>]
    <3> HIDE <2>1
    <3>1. p = [live |-> k, case |-> c, data |-> Null, unknown |-> <<>>]
      BY <2>1, Zenon
    <3> QED
      BY <3>1
  <2>3. p = NewRequest
    BY <2>1, Zenon DEF NewRequest
  <2> QED
    BY <2>1, <2>2, <2>3, Zenon DEF NoRequest
<1>5. IsRequest(NoRequest) /\ ~IsSet(NoRequest)
  BY <1>1, <1>4, Zenon
<1> QED
  BY <1>2, <1>3, <1>5, Zenon

(* A message that does not live holds nothing.                             *)
LEMMA DeadHoldsNothing ==
  ASSUME NEW s, Sound(s), NEW r \in Request, ~s.request[r].live
  PROVE  ~IsSet(s.request[r])
  BY Zenon DEF Sound, Owned, Points

LEMMA Constructed ==
  ASSUME NEW s, Sound(s), NEW r \in Request, ~s.request[r].live
  PROVE  After(s, WithRequest(s, r, NewRequest), r) /\ WithRequest(s, r, NewRequest).request[r].live
<1>1. PICK t : t = WithRequest(s, r, NewRequest)
  OBVIOUS
<1>2. Sound(t) /\ Apart(s, t, {r}) /\ t.request[r] = NewRequest
  <2>1. ~IsSet(s.request[r])
    BY DeadHoldsNothing, Zenon
  <2>2. Restarted(s, WithRequest(s, r, NewRequest), r, NewRequest)
    BY <2>1, FreshRequest, Replaced, Zenon
  <2> QED
    BY <1>1, <2>2, Zenon DEF Restarted
<1> QED
  BY <1>1, <1>2, FreshRequest, Zenon DEF After

LEMMA ConstructedFrom ==
  ASSUME NEW s, Sound(s), NEW r \in Request, ~s.request[r].live, NEW from \in Request
  PROVE  After(s, CopyConstructed(s, r, from), r)
<1>1. PICK u : u = WithRequest(s, r, NewRequest)
  OBVIOUS
<1>2. After(s, u, r) /\ u.request[r].live
  BY <1>1, Constructed, Zenon
<1>3. After(u, MergeFrom(u, r, from), r)
  BY <1>2, Merged, Zenon DEF After, Absorbs, Becomes
<1> QED
  BY <1>1, <1>2, <1>3, AfterBoth, Zenon DEF CopyConstructed, WithRequest

LEMMA Destroyed ==
  ASSUME NEW s, Sound(s), NEW r \in Request
  PROVE  Sound(SharedDtor(s, r)) /\ Apart(s, SharedDtor(s, r), {r})
<1>1. PICK u, t : u = clear_data(s, r) /\ t = WithRequest(u, r, NoRequest)
  OBVIOUS
<1>2. Sound(u) /\ Apart(s, u, {r}) /\ ~IsSet(u.request[r])
  BY <1>1, DataCleared, Zenon DEF Emptied, After
<1>3. Sound(t) /\ Apart(u, t, {r})
  <2>1. Restarted(u, WithRequest(u, r, NoRequest), r, NoRequest)
    BY <1>2, FreshRequest, Replaced, Zenon
  <2> QED
    BY <1>1, <2>1, Zenon DEF Restarted
<1>4. SharedDtor(s, r) = t
  BY <1>1, Zenon DEF SharedDtor, WithRequest
<1> QED
  BY <1>2, <1>3, <1>4, ApartBoth, Zenon

(* release_info and release_chunk_data.                                    *)
LEMMA Released ==
  ASSUME NEW s, Sound(s), NEW r \in Request, IsSet(s.request[r])
  PROVE  After(s, Release(s, r), r)
<1>1. IsMemory(s) /\ Owned(s.heap, s.request, s.caller)
  BY SoundParts, Zenon
<1>2. PICK u : u = WithPointer(s, r, "DATA_NOT_SET", Null)
  OBVIOUS
<1>3. PICK o : o = s.caller \union {s.request[r].data}
  OBVIOUS
<1>4. PICK t : t = WithCaller(u, o)
  OBVIOUS
<1>5. /\ OnlyRequest(s, u, r) /\ u.request[r].live = s.request[r].live
      /\ u.request[r].case = "DATA_NOT_SET"
  <2>1. PointerIs(s, WithPointer(s, r, "DATA_NOT_SET", Null), r, "DATA_NOT_SET", Null)
    BY <1>1, PointerSet, Zenon
  <2> QED
    BY <1>2, <2>1, Zenon DEF PointerIs
<1>6. /\ IsMemory(u) /\ u.heap = s.heap /\ u.caller = s.caller /\ Kept(s.request, u.request, r)
      /\ ~IsSet(u.request[r])
  BY <1>5, Zenon DEF OnlyRequest, IsSet
<1>7. IsMemory(t) /\ t.heap = s.heap /\ t.caller = o /\ t.request = u.request
  <2>1. CallerIs(u, WithCaller(u, o), o)
    BY <1>6, CallerSet, Zenon
  <2> QED
    BY <1>4, <1>6, <2>1, Zenon DEF CallerIs
<1>8. Owned(t.heap, t.request, t.caller)
  <2>1. Owned(s.heap, u.request, s.caller \union {s.request[r].data})
    BY <1>1, <1>6, OwnedReleased, Zenon
  <2> QED
    BY <1>3, <1>7, <2>1, Zenon
<1>9. Spared(s, t, r)
  BY <1>7, Zenon DEF Spared
<1>10. After(s, t, r)
  BY <1>5, <1>6, <1>7, <1>8, <1>9, AfterStep, Zenon
<1>11. Release(s, r) = t
  <2>1. Release(s, r) = [u EXCEPT !.caller = u.caller \union {s.request[r].data}]
    BY <1>2 DEF Release, clear_has_data, WithPointer
  <2> QED
    BY <1>3, <1>4, <1>6, <2>1, Zenon DEF WithCaller
<1> QED
  BY <1>10, <1>11, Zenon

(* set_allocated_info and set_allocated_chunk_data.                        *)
LEMMA Given ==
  ASSUME NEW s, Sound(s), NEW r \in Request, ~IsSet(s.request[r]), s.request[r].live,
         NEW c, c # "DATA_NOT_SET", NEW a \in s.caller, Fits(c, s.heap[a])
  PROVE  After(s, Holds(s, r, c, a), r)
<1>1. IsMemory(s) /\ Owned(s.heap, s.request, s.caller)
  BY SoundParts, Zenon
<1>2. PICK t : t = Holds(s, r, c, a)
  OBVIOUS
<1>3. /\ IsMemory(t) /\ t.heap = s.heap /\ t.caller = s.caller \ {a}
      /\ Kept(s.request, t.request, r) /\ t.request[r].live = s.request[r].live
      /\ t.request[r].case = c /\ t.request[r].data = a
  <2>1. TakenOver(s, Holds(s, r, c, a), r, c, a)
    BY <1>1, HoldsIs, Zenon
  <2> QED
    BY <1>2, <2>1, Zenon DEF TakenOver
<1>4. Owned(t.heap, t.request, t.caller)
  <2>1. IsSet(t.request[r]) /\ t.request[r].live /\ t.request[r].data \in s.caller
    BY <1>3, Zenon DEF IsSet
  <2>2. Fits(t.request[r].case, s.heap[t.request[r].data])
    BY <1>3, Zenon
  <2>3. Owned(s.heap, t.request, s.caller \ {t.request[r].data})
    BY <1>1, <1>3, <2>1, <2>2, OwnedGiven, Zenon
  <2> QED
    BY <1>3, <2>3, Zenon
<1>5. Spared(s, t, r)
  BY <1>3, Zenon DEF Spared
<1> QED
  BY <1>2, <1>3, <1>4, <1>5, AfterStep, Zenon

(* What the caller owns is left alone when a message is emptied.           *)
LEMMA ClearedSparesCaller ==
  ASSUME NEW s, Sound(s), NEW r \in Request, NEW a \in s.caller
  PROVE  clear_data(s, r).heap[a] = s.heap[a]
<1>1. IsMemory(s) /\ a \in DOMAIN s.heap /\ (IsSet(s.request[r]) => s.request[r].data # a)
  BY Zenon DEF Sound, Owned, Objects, Points
<1>2. CASE IsSet(s.request[r])
  <2>1. PICK d : d = s.request[r].data
    OBVIOUS
  <2>2. PICK g : g = [b \in DOMAIN s.heap \ {d} |-> s.heap[b]]
    OBVIOUS
  <2>3. IsFunction(g) /\ g[a] = s.heap[a]
    BY <1>1, <1>2, <2>1, <2>2 DEF IsFunction
  <2>4. PICK u : u = WithHeap(s, g)
    OBVIOUS
  <2>5. IsMemory(u) /\ u.heap = g
    BY <1>1, <2>3, <2>4, HeapSet, Zenon DEF HeapIs
  <2>6. OnlyRequest(u, WithPointer(u, r, "DATA_NOT_SET", Null), r)
    BY <2>5, PointerSet, Zenon DEF PointerIs
  <2>7. WithPointer(u, r, "DATA_NOT_SET", Null).heap = g
    BY <2>5, <2>6, Zenon DEF OnlyRequest
  <2>8. Deleted(s, d) = u
    BY <2>2, <2>4 DEF Deleted, WithHeap
  <2>9. clear_data(s, r) = WithPointer(u, r, "DATA_NOT_SET", Null)
    BY <1>2, <2>1, <2>8, Zenon DEF clear_data, clear_has_data, data_case, IsSet, WithPointer
  <2> QED
    BY <2>3, <2>7, <2>9, Zenon
<1>3. CASE ~IsSet(s.request[r])
  <2>1. OnlyRequest(s, WithPointer(s, r, "DATA_NOT_SET", Null), r)
    BY <1>1, PointerSet, Zenon DEF PointerIs
  <2>2. clear_data(s, r) = WithPointer(s, r, "DATA_NOT_SET", Null)
    BY <1>3, Zenon DEF clear_data, clear_has_data, data_case, IsSet, WithPointer
  <2> QED
    BY <2>1, <2>2, Zenon DEF OnlyRequest
<1> QED
  BY <1>2, <1>3, Zenon

LEMMA AllocatedSet ==
  ASSUME NEW s, Sound(s), NEW r \in Request, s.request[r].live,
         NEW c, c # "DATA_NOT_SET", NEW a, a = Null \/ (a \in s.caller /\ Fits(c, s.heap[a]))
  PROVE  After(s, SetAllocated(s, r, c, a), r)
<1>1. PICK u : u = clear_data(s, r)
  OBVIOUS
<1>2. After(s, u, r) /\ ~IsSet(u.request[r]) /\ u.caller = s.caller
  BY <1>1, DataCleared, Zenon DEF Emptied
<1>3. CASE a = Null
  BY <1>1, <1>2, <1>3, Zenon DEF SetAllocated
<1>4. CASE a # Null
  <2>1. a \in s.caller /\ Fits(c, s.heap[a])
    BY <1>4, Zenon
  <2>2. u.heap[a] = s.heap[a]
    BY <1>1, <2>1, ClearedSparesCaller, Zenon
  <2>3. Sound(u) /\ u.request[r].live
    BY <1>2, Zenon DEF After
  <2>4. a \in u.caller /\ Fits(c, u.heap[a])
    BY <1>2, <2>1, <2>2, Zenon
  <2>5. After(u, Holds(u, r, c, a), r)
    BY <1>2, <2>3, <2>4, Given, Zenon
  <2> QED
    BY <1>1, <1>2, <1>4, <2>5, AfterBoth, Zenon DEF SetAllocated
<1> QED
  BY <1>3, <1>4, Zenon

LEMMA Swapped ==
  ASSUME NEW s, Sound(s), NEW r \in Request, NEW other \in Request
  PROVE  Sound(InternalSwap(s, r, other)) /\ Apart(s, InternalSwap(s, r, other), {r, other})
<1>1. IsMemory(s) /\ Owned(s.heap, s.request, s.caller)
  BY SoundParts, Zenon
<1>2. PICK p, q : p = s.request[other] /\ q = s.request[r]
  OBVIOUS
<1>3. IsRequest(p) /\ IsRequest(q)
  BY <1>1, <1>2, Zenon DEF IsMemory
<1>4. PICK u, t : u = WithRequest(s, r, p) /\ t = WithRequest(u, other, q)
  OBVIOUS
<1>5. /\ IsMemory(u) /\ u.heap = s.heap /\ u.caller = s.caller /\ Kept(s.request, u.request, r)
      /\ u.request[r] = p
  <2>1. RequestIs(s, WithRequest(s, r, p), r, p)
    BY <1>1, <1>3, RequestSet, Zenon
  <2> QED
    BY <1>4, <2>1, Zenon DEF RequestIs, OnlyRequest
<1>6. /\ IsMemory(t) /\ t.heap = u.heap /\ t.caller = u.caller /\ Kept(u.request, t.request, other)
      /\ t.request[other] = q
  <2>1. RequestIs(u, WithRequest(u, other, q), other, q)
    BY <1>3, <1>5, RequestSet, Zenon
  <2> QED
    BY <1>4, <2>1, Zenon DEF RequestIs, OnlyRequest
<1>7. /\ t.request[r] = s.request[other] /\ t.request[other] = s.request[r]
      /\ \A k \in Request : k # r /\ k # other => t.request[k] = s.request[k]
  <2>1. t.request[r] = p
    BY <1>2, <1>5, <1>6, Zenon DEF Kept
  <2> QED
    BY <1>2, <1>5, <1>6, <2>1, Zenon DEF Kept
<1>8. Owned(s.heap, t.request, s.caller)
  BY <1>1, <1>7, OwnedSwapped, Zenon
<1>9. Sound(t)
  BY <1>5, <1>6, <1>8, Zenon DEF Sound
<1>10. \A k \in Request : IsSet(s.request[k]) => s.request[k].data \in DOMAIN s.heap
  BY <1>1, Zenon DEF Owned, Points
<1>11. \A k \in Request \ {r, other} : k # r /\ k # other /\ k \in Request
  OBVIOUS
<1>12. Apart(s, t, {r, other})
  BY <1>5, <1>6, <1>7, <1>10, <1>11, Zenon DEF Apart
<1>13. InternalSwap(s, r, other) = t
  BY <1>2, <1>4 DEF InternalSwap, WithRequest
<1> QED
  BY <1>9, <1>12, <1>13, Zenon

-----------------------------------------------------------------------------
(* What the caller allocates and deletes                                   *)

LEMMA CallerAllocates ==
  ASSUME NEW s, Sound(s), NEW x, IsInfo(x) \/ IsString(x),
         NEW t, t = [Allocated(s, x) EXCEPT !.caller = @ \union {FreeAddress(s)}]
  PROVE  Sound(t) /\ Apart(s, t, {})
<1>1. PICK a, u, o : a = FreeAddress(s) /\ u = Allocated(s, x) /\ o = s.caller \union {a}
  OBVIOUS
<1>2. /\ IsMemory(u) /\ u.caller = s.caller /\ u.request = s.request
      /\ Grown(s.heap, a, x, u.heap)
  BY <1>1, AllocatedHeap, Zenon
<1>3. t = WithCaller(u, o)
  <2>1. t = [u EXCEPT !.caller = u.caller \union {a}]
    BY <1>1
  <2> QED
    BY <1>1, <1>2, <2>1, Zenon DEF WithCaller
<1>4. CallerIs(u, WithCaller(u, o), o)
  BY <1>2, CallerSet, Zenon
<1>5. IsMemory(t) /\ t.heap = u.heap /\ t.caller = o /\ t.request = s.request
  BY <1>2, <1>3, <1>4, Zenon DEF CallerIs
<1>6. Owned(s.heap, s.request, s.caller)
  BY SoundParts, Zenon
<1>7. Owned(u.heap, s.request, s.caller \union {a})
  BY <1>2, <1>6, OwnedAllocated, Zenon
<1>8. Sound(t)
  BY <1>1, <1>5, <1>7, Zenon DEF Sound
<1>9. \A k \in Request : IsSet(s.request[k]) =>
        s.request[k].data \in DOMAIN u.heap /\ u.heap[s.request[k].data] = s.heap[s.request[k].data]
  <2>1. \A k \in Request : IsSet(s.request[k]) => s.request[k].data \in DOMAIN s.heap
    BY <1>6, Zenon DEF Owned, Points
  <2> QED
    BY <1>2, <2>1 DEF Grown
<1> QED
  BY <1>5, <1>8, <1>9, Zenon DEF Apart

LEMMA CallerDeletes ==
  ASSUME NEW s, Sound(s), NEW a \in s.caller,
         NEW t, t = [Deleted(s, a) EXCEPT !.caller = @ \ {a}]
  PROVE  Sound(t) /\ Apart(s, t, {})
<1>1. IsMemory(s) /\ Owned(s.heap, s.request, s.caller)
  BY SoundParts, Zenon
<1>2. PICK g : g = [b \in DOMAIN s.heap \ {a} |-> s.heap[b]]
  OBVIOUS
<1>3. IsFunction(g) /\ Shrunk(s.heap, a, g)
  BY <1>2 DEF IsFunction, Shrunk
<1>4. PICK u, o : u = WithHeap(s, g) /\ o = s.caller \ {a}
  OBVIOUS
<1>5. IsMemory(u) /\ u.heap = g /\ u.caller = s.caller /\ u.request = s.request
  <2>1. HeapIs(s, WithHeap(s, g), g)
    BY <1>1, <1>3, HeapSet, Zenon
  <2> QED
    BY <1>4, <2>1, Zenon DEF HeapIs
<1>6. t = WithCaller(u, o)
  <2>1. u = Deleted(s, a)
    BY <1>2, <1>4 DEF Deleted, WithHeap
  <2>2. t = [u EXCEPT !.caller = u.caller \ {a}]
    BY <2>1
  <2> QED
    BY <1>4, <1>5, <2>2, Zenon DEF WithCaller
<1>7. CallerIs(u, WithCaller(u, o), o)
  BY <1>5, CallerSet, Zenon
<1>8. IsMemory(t) /\ t.heap = g /\ t.caller = o /\ t.request = s.request
  BY <1>5, <1>6, <1>7, Zenon DEF CallerIs
<1>9. Owned(g, s.request, s.caller \ {a})
  BY <1>1, <1>3, OwnedDeleted, Zenon
<1>10. Sound(t)
  BY <1>4, <1>8, <1>9, Zenon DEF Sound
<1>11. \A k \in Request : IsSet(s.request[k]) =>
         s.request[k].data \in DOMAIN g /\ g[s.request[k].data] = s.heap[s.request[k].data]
  <2>1. \A k \in Request : IsSet(s.request[k]) =>
          s.request[k].data \in DOMAIN s.heap /\ s.request[k].data # a
    BY <1>1, Zenon DEF Owned, Points
  <2> QED
    BY <1>3, <2>1 DEF Shrunk
<1> QED
  BY <1>8, <1>10, <1>11, Zenon DEF Apart

-----------------------------------------------------------------------------
(* Parsing: the loops over the fields                                      *)

(* The turns of FileInfo's _InternalParse from the state p.                *)
InfoRuns(p, fields) ==
  LET parsed[k \in 0 .. Len(fields)] ==
        IF k = 0 THEN p ELSE FileInfoParseField(parsed[k - 1], fields[k])
  IN  parsed

InfoRunIs(p, fields, g, n) ==
  g = [k \in 0 .. n |-> IF k = 0 THEN p ELSE FileInfoParseField(g[k - 1], fields[k])]

LEMMA InfoRunsDefined ==
  ASSUME NEW p, NEW fields, Len(fields) \in Nat
  PROVE  InfoRunIs(p, fields, InfoRuns(p, fields), Len(fields))
<1> DEFINE S == {k \in Nat : \E g : InfoRunIs(p, fields, g, k)}
<1>1. 0 \in S
  <2> DEFINE g == [k \in 0 .. 0 |-> p]
  <2>1. g = [k \in 0 .. 0 |-> IF k = 0 THEN p ELSE FileInfoParseField(g[k - 1], fields[k])]
    OBVIOUS
  <2>2. InfoRunIs(p, fields, g, 0)
    BY <2>1 DEF InfoRunIs
  <2> QED
    BY <2>2
<1>2. ASSUME NEW n \in Nat, n \in S
      PROVE  n + 1 \in S
  <2>1. PICK g : InfoRunIs(p, fields, g, n)
    BY <1>2
  <2> DEFINE h == [k \in 0 .. n + 1 |->
           IF k <= n THEN g[k] ELSE FileInfoParseField(g[n], fields[n + 1])]
  <2>2. \A k \in 0 .. n + 1 : h[k] = IF k = 0 THEN p ELSE FileInfoParseField(h[k - 1], fields[k])
    <3> TAKE k \in 0 .. n + 1
    <3>1. CASE k = 0
      BY <2>1, <3>1 DEF InfoRunIs
    <3>2. CASE k \in 1 .. n
      <4>1. /\ k \in 0 .. n /\ k - 1 \in 0 .. n /\ k # 0
            /\ k - 1 <= n /\ k <= n /\ k - 1 \in 0 .. n + 1
        BY <3>2
      <4>2. g[k] = FileInfoParseField(g[k - 1], fields[k])
        BY <2>1, <4>1 DEF InfoRunIs
      <4> QED
        BY <4>1, <4>2
    <3>3. CASE k = n + 1
      <4>1. ~(k <= n) /\ k - 1 = n /\ k - 1 \in 0 .. n + 1 /\ n <= n /\ k # 0
        BY <3>3
      <4> QED
        BY <3>3, <4>1
    <3> QED
      BY <3>1, <3>2, <3>3
  <2>3. h = [k \in 0 .. n + 1 |-> IF k = 0 THEN p ELSE FileInfoParseField(h[k - 1], fields[k])]
    BY <2>2, Zenon
  <2>4. InfoRunIs(p, fields, h, n + 1)
    BY <2>3, Zenon DEF InfoRunIs
  <2> QED
    BY <2>4
<1>3. \E g : InfoRunIs(p, fields, g, Len(fields))
  <2> HIDE DEF S
  <2>1. Nat \subseteq S
    BY <1>1, <1>2, NumberInduction
  <2>2. Len(fields) \in S
    BY <2>1
  <2> QED
    BY <2>2 DEF S
<1>4. InfoRuns(p, fields) = CHOOSE g : InfoRunIs(p, fields, g, Len(fields))
  BY DEF InfoRuns, InfoRunIs
<1> QED
  BY <1>3, <1>4, Zenon

InfoStates(p, fields, g, n) ==
  /\ n \in Nat /\ g[0] = p
  /\ \A k \in 1 .. n : g[k] = FileInfoParseField(g[k - 1], fields[k])

LEMMA InfoRunTurns ==
  ASSUME NEW p, NEW fields \in Seq(Field)
  PROVE  InfoStates(p, fields, InfoRuns(p, fields), Len(fields))
<1>1. PICK g, n : g = InfoRuns(p, fields) /\ n = Len(fields)
  OBVIOUS
<1>2. n \in Nat
  BY <1>1, LenProperties
<1>3. InfoRunIs(p, fields, g, n)
  BY <1>1, <1>2, InfoRunsDefined, Zenon
<1>4. InfoStates(p, fields, g, n)
  BY <1>2, <1>3 DEF InfoRunIs, InfoStates
<1> QED
  BY <1>1, <1>4, Zenon

(* The state after the last turn, and what parsing the wire w leads to.    *)
InfoLast(p, fields) == InfoRuns(p, fields)[Len(fields)]
InfoRun(p, w) == InfoLast(p, Fields(w))

LEMMA InfoRunFirst ==
  ASSUME NEW p, NEW f \in Field, NEW t \in Seq(Field)
  PROVE  InfoLast(p, <<f>> \o t) = InfoLast(FileInfoParseField(p, f), t)
<1>1. PICK s, q, g, h, m, n : /\ s = <<f>> \o t /\ q = FileInfoParseField(p, f)
                           /\ g = InfoRuns(p, s) /\ h = InfoRuns(q, t)
                           /\ m = Len(s) /\ n = Len(t)
  OBVIOUS
<1>2. s \in Seq(Field) /\ IsLonger(s, f, t)
  BY <1>1, Longer, Zenon
<1>3. m = n + 1 /\ s[1] = f /\ \A i \in 1 .. n : s[i + 1] = t[i]
  BY <1>1, <1>2, Zenon DEF IsLonger
<1>4. /\ m \in Nat /\ g[0] = p
      /\ \A k \in 1 .. m : g[k] = FileInfoParseField(g[k - 1], s[k])
  <2>1. InfoStates(p, s, g, m)
    BY <1>1, <1>2, InfoRunTurns, Zenon
  <2> QED
    BY <2>1, Zenon DEF InfoStates
<1>5. /\ n \in Nat /\ h[0] = q
      /\ \A k \in 1 .. n : h[k] = FileInfoParseField(h[k - 1], t[k])
  <2>1. InfoStates(q, t, h, n)
    BY <1>1, InfoRunTurns, Zenon
  <2> QED
    BY <2>1, Zenon DEF InfoStates
<1> DEFINE S == {k \in Nat : k <= n => g[k + 1] = h[k]}
<1>6. 0 \in S
  <2>1. 1 \in 1 .. m /\ 1 - 1 = 0
    BY <1>3, <1>5
  <2>2. g[1] = FileInfoParseField(g[0], s[1])
    BY <1>4, <2>1
  <2> QED
    BY <1>1, <1>3, <1>4, <1>5, <2>2
<1>7. ASSUME NEW k \in Nat, k \in S PROVE k + 1 \in S
  <2> SUFFICES ASSUME k + 1 <= n PROVE g[k + 2] = h[k + 1]
    OBVIOUS
  <2>1. PICK i, j : i = k + 1 /\ j = k + 2
    OBVIOUS
  <2>2. i \in 1 .. n /\ i - 1 = k /\ j \in 1 .. m /\ j - 1 = i /\ j = i + 1
    BY <1>3, <1>5, <2>1
  <2>3. g[i] = h[k] /\ s[j] = t[i]
    <3>1. g[k + 1] = h[k]
      BY <1>5, <1>7
    <3> QED
      BY <1>3, <2>1, <2>2, <3>1, Zenon
  <2>4. g[j] = FileInfoParseField(g[j - 1], s[j]) /\ h[i] = FileInfoParseField(h[i - 1], t[i])
    BY <1>4, <1>5, <2>2, Zenon
  <2>5. g[j] = h[i]
    BY <2>2, <2>3, <2>4, Zenon
  <2> QED
    BY <2>1, <2>5
<1>8. g[m] = h[n]
  <2> HIDE DEF S
  <2>1. Nat \subseteq S
    BY <1>6, <1>7, NumberInduction
  <2>2. n \in S /\ n <= n
    BY <1>5, <2>1
  <2> QED
    BY <1>3, <2>2 DEF S
<1> QED
  BY <1>1, <1>8, Zenon DEF InfoLast

LEMMA InfoRunOfNothing ==
  ASSUME NEW p
  PROVE  InfoRun(p, <<>>) = p
<1>1. PICK t, g, n : t = Fields(<<>>) /\ g = InfoRuns(p, t) /\ n = Len(t)
  OBVIOUS
<1>2. t = <<>> /\ t \in Seq(Field) /\ n = 0
  BY <1>1, FieldsOfNothing, EmptySeq
<1>3. InfoStates(p, t, g, n)
  BY <1>1, <1>2, InfoRunTurns, Zenon
<1> QED
  BY <1>1, <1>2, <1>3, Zenon DEF InfoRun, InfoLast, InfoStates

LEMMA InfoRunStep ==
  ASSUME NEW p, NEW w, IsWire(w), ~IsCut(FirstField(w))
  PROVE  InfoRun(p, w) = InfoRun(FileInfoParseField(p, FirstField(w)), Beyond(w))
<1>1. PICK f, s, t : f = FirstField(w) /\ s = Fields(w) /\ t = Fields(Beyond(w))
  OBVIOUS
<1>2. f \in Field /\ Beyond(w) \in Seq(Bytes) /\ s = <<f>> \o t
  BY <1>1, FirstIsField, BeyondFirst, FieldsStep, Zenon DEF Field
<1>3. t \in Seq(Field)
  BY <1>1, <1>2, FieldsAreASequence, Zenon
<1>4. InfoLast(p, s) = InfoLast(FileInfoParseField(p, f), t)
  BY <1>2, <1>3, InfoRunFirst, Zenon
<1> QED
  BY <1>1, <1>4, Zenon DEF InfoRun

LEMMA InfoRunCut ==
  ASSUME NEW p, NEW w, IsWire(w), IsCut(FirstField(w))
  PROVE  InfoRun(p, w) = FileInfoParseField(p, FirstField(w))
<1>1. PICK s, t, f : s = Fields(w) /\ t = Fields(<<>>) /\ f = FirstField(w)
  OBVIOUS
<1>2. s = <<f>> /\ t = <<>> /\ t \in Seq(Field) /\ f \in Field
  BY <1>1, FieldsCut, CutIsRemnant, FieldsOfNothing, EmptySeq DEF Field
<1>3. <<f>> \o <<>> = <<f>>
  OBVIOUS
<1>4. s = <<f>> \o t /\ t \in Seq(Field) /\ f \in Field
  BY <1>2, <1>3, Zenon
<1>5. InfoLast(p, s) = InfoLast(FileInfoParseField(p, f), t)
  BY <1>4, InfoRunFirst, Zenon
<1>6. InfoRun(p, w) = InfoRun(FileInfoParseField(p, f), <<>>)
  BY <1>1, <1>5, Zenon DEF InfoRun
<1> QED
  BY <1>1, <1>6, InfoRunOfNothing, Zenon

LEMMA InfoRunThen ==
  ASSUME NEW p, NEW f \in WellFormed, NEW v \in Seq(Bytes)
  PROVE  InfoRun(p, f.raw \o v) = InfoRun(FileInfoParseField(p, f), v)
<1>1. PICK s, t : s = Fields(f.raw \o v) /\ t = Fields(v)
  OBVIOUS
<1>2. s = <<f>> \o t /\ t \in Seq(Field) /\ f \in Field
  BY <1>1, FieldThen, FieldsAreASequence, Zenon DEF Field
<1>3. InfoLast(p, s) = InfoLast(FileInfoParseField(p, f), t)
  BY <1>2, InfoRunFirst, Zenon
<1> QED
  BY <1>1, <1>3, Zenon DEF InfoRun

(* The turns of UploadFileRequest's _InternalParse from the state p.       *)
RequestRuns(p, r, fields) ==
  LET parsed[k \in 0 .. Len(fields)] ==
        IF k = 0 THEN p ELSE ParseField(parsed[k - 1], r, fields[k])
  IN  parsed

RequestRunIs(p, r, fields, g, n) ==
  g = [k \in 0 .. n |-> IF k = 0 THEN p ELSE ParseField(g[k - 1], r, fields[k])]

LEMMA RequestRunsDefined ==
  ASSUME NEW p, NEW r, NEW fields, Len(fields) \in Nat
  PROVE  RequestRunIs(p, r, fields, RequestRuns(p, r, fields), Len(fields))
<1> DEFINE S == {k \in Nat : \E g : RequestRunIs(p, r, fields, g, k)}
<1>1. 0 \in S
  <2> DEFINE g == [k \in 0 .. 0 |-> p]
  <2>1. g = [k \in 0 .. 0 |-> IF k = 0 THEN p ELSE ParseField(g[k - 1], r, fields[k])]
    OBVIOUS
  <2>2. RequestRunIs(p, r, fields, g, 0)
    BY <2>1 DEF RequestRunIs
  <2> QED
    BY <2>2
<1>2. ASSUME NEW n \in Nat, n \in S
      PROVE  n + 1 \in S
  <2>1. PICK g : RequestRunIs(p, r, fields, g, n)
    BY <1>2
  <2> DEFINE h == [k \in 0 .. n + 1 |->
           IF k <= n THEN g[k] ELSE ParseField(g[n], r, fields[n + 1])]
  <2>2. \A k \in 0 .. n + 1 : h[k] = IF k = 0 THEN p ELSE ParseField(h[k - 1], r, fields[k])
    <3> TAKE k \in 0 .. n + 1
    <3>1. CASE k = 0
      BY <2>1, <3>1 DEF RequestRunIs
    <3>2. CASE k \in 1 .. n
      <4>1. /\ k \in 0 .. n /\ k - 1 \in 0 .. n /\ k # 0
            /\ k - 1 <= n /\ k <= n /\ k - 1 \in 0 .. n + 1
        BY <3>2
      <4>2. g[k] = ParseField(g[k - 1], r, fields[k])
        BY <2>1, <4>1 DEF RequestRunIs
      <4> QED
        BY <4>1, <4>2
    <3>3. CASE k = n + 1
      <4>1. ~(k <= n) /\ k - 1 = n /\ k - 1 \in 0 .. n + 1 /\ n <= n /\ k # 0
        BY <3>3
      <4> QED
        BY <3>3, <4>1
    <3> QED
      BY <3>1, <3>2, <3>3
  <2>3. h = [k \in 0 .. n + 1 |-> IF k = 0 THEN p ELSE ParseField(h[k - 1], r, fields[k])]
    BY <2>2, Zenon
  <2>4. RequestRunIs(p, r, fields, h, n + 1)
    BY <2>3, Zenon DEF RequestRunIs
  <2> QED
    BY <2>4
<1>3. \E g : RequestRunIs(p, r, fields, g, Len(fields))
  <2> HIDE DEF S
  <2>1. Nat \subseteq S
    BY <1>1, <1>2, NumberInduction
  <2>2. Len(fields) \in S
    BY <2>1
  <2> QED
    BY <2>2 DEF S
<1>4. RequestRuns(p, r, fields) = CHOOSE g : RequestRunIs(p, r, fields, g, Len(fields))
  BY DEF RequestRuns, RequestRunIs
<1> QED
  BY <1>3, <1>4, Zenon

RequestStates(p, r, fields, g, n) ==
  /\ n \in Nat /\ g[0] = p
  /\ \A k \in 1 .. n : g[k] = ParseField(g[k - 1], r, fields[k])

LEMMA RequestRunTurns ==
  ASSUME NEW p, NEW r, NEW fields \in Seq(Field)
  PROVE  RequestStates(p, r, fields, RequestRuns(p, r, fields), Len(fields))
<1>1. PICK g, n : g = RequestRuns(p, r, fields) /\ n = Len(fields)
  OBVIOUS
<1>2. n \in Nat
  BY <1>1, LenProperties
<1>3. RequestRunIs(p, r, fields, g, n)
  BY <1>1, <1>2, RequestRunsDefined, Zenon
<1>4. RequestStates(p, r, fields, g, n)
  BY <1>2, <1>3 DEF RequestRunIs, RequestStates
<1> QED
  BY <1>1, <1>4, Zenon

(* The state after the last turn, and what parsing the wire w leads to.    *)
RequestLast(p, r, fields) == RequestRuns(p, r, fields)[Len(fields)]
RequestRun(p, r, w) == RequestLast(p, r, Fields(w))

LEMMA RequestRunFirst ==
  ASSUME NEW p, NEW r, NEW f \in Field, NEW t \in Seq(Field)
  PROVE  RequestLast(p, r, <<f>> \o t) = RequestLast(ParseField(p, r, f), r, t)
<1>1. PICK s, q, g, h, m, n : /\ s = <<f>> \o t /\ q = ParseField(p, r, f)
                           /\ g = RequestRuns(p, r, s) /\ h = RequestRuns(q, r, t)
                           /\ m = Len(s) /\ n = Len(t)
  OBVIOUS
<1>2. s \in Seq(Field) /\ IsLonger(s, f, t)
  BY <1>1, Longer, Zenon
<1>3. m = n + 1 /\ s[1] = f /\ \A i \in 1 .. n : s[i + 1] = t[i]
  BY <1>1, <1>2, Zenon DEF IsLonger
<1>4. /\ m \in Nat /\ g[0] = p
      /\ \A k \in 1 .. m : g[k] = ParseField(g[k - 1], r, s[k])
  <2>1. RequestStates(p, r, s, g, m)
    BY <1>1, <1>2, RequestRunTurns, Zenon
  <2> QED
    BY <2>1, Zenon DEF RequestStates
<1>5. /\ n \in Nat /\ h[0] = q
      /\ \A k \in 1 .. n : h[k] = ParseField(h[k - 1], r, t[k])
  <2>1. RequestStates(q, r, t, h, n)
    BY <1>1, RequestRunTurns, Zenon
  <2> QED
    BY <2>1, Zenon DEF RequestStates
<1> DEFINE S == {k \in Nat : k <= n => g[k + 1] = h[k]}
<1>6. 0 \in S
  <2>1. 1 \in 1 .. m /\ 1 - 1 = 0
    BY <1>3, <1>5
  <2>2. g[1] = ParseField(g[0], r, s[1])
    BY <1>4, <2>1
  <2> QED
    BY <1>1, <1>3, <1>4, <1>5, <2>2
<1>7. ASSUME NEW k \in Nat, k \in S PROVE k + 1 \in S
  <2> SUFFICES ASSUME k + 1 <= n PROVE g[k + 2] = h[k + 1]
    OBVIOUS
  <2>1. PICK i, j : i = k + 1 /\ j = k + 2
    OBVIOUS
  <2>2. i \in 1 .. n /\ i - 1 = k /\ j \in 1 .. m /\ j - 1 = i /\ j = i + 1
    BY <1>3, <1>5, <2>1
  <2>3. g[i] = h[k] /\ s[j] = t[i]
    <3>1. g[k + 1] = h[k]
      BY <1>5, <1>7
    <3> QED
      BY <1>3, <2>1, <2>2, <3>1, Zenon
  <2>4. g[j] = ParseField(g[j - 1], r, s[j]) /\ h[i] = ParseField(h[i - 1], r, t[i])
    BY <1>4, <1>5, <2>2, Zenon
  <2>5. g[j] = h[i]
    BY <2>2, <2>3, <2>4, Zenon
  <2> QED
    BY <2>1, <2>5
<1>8. g[m] = h[n]
  <2> HIDE DEF S
  <2>1. Nat \subseteq S
    BY <1>6, <1>7, NumberInduction
  <2>2. n \in S /\ n <= n
    BY <1>5, <2>1
  <2> QED
    BY <1>3, <2>2 DEF S
<1> QED
  BY <1>1, <1>8, Zenon DEF RequestLast

LEMMA RequestRunOfNothing ==
  ASSUME NEW p, NEW r
  PROVE  RequestRun(p, r, <<>>) = p
<1>1. PICK t, g, n : t = Fields(<<>>) /\ g = RequestRuns(p, r, t) /\ n = Len(t)
  OBVIOUS
<1>2. t = <<>> /\ t \in Seq(Field) /\ n = 0
  BY <1>1, FieldsOfNothing, EmptySeq
<1>3. RequestStates(p, r, t, g, n)
  BY <1>1, <1>2, RequestRunTurns, Zenon
<1> QED
  BY <1>1, <1>2, <1>3, Zenon DEF RequestRun, RequestLast, RequestStates

LEMMA RequestRunStep ==
  ASSUME NEW p, NEW r, NEW w, IsWire(w), ~IsCut(FirstField(w))
  PROVE  RequestRun(p, r, w) = RequestRun(ParseField(p, r, FirstField(w)), r, Beyond(w))
<1>1. PICK f, s, t : f = FirstField(w) /\ s = Fields(w) /\ t = Fields(Beyond(w))
  OBVIOUS
<1>2. f \in Field /\ Beyond(w) \in Seq(Bytes) /\ s = <<f>> \o t
  BY <1>1, FirstIsField, BeyondFirst, FieldsStep, Zenon DEF Field
<1>3. t \in Seq(Field)
  BY <1>1, <1>2, FieldsAreASequence, Zenon
<1>4. RequestLast(p, r, s) = RequestLast(ParseField(p, r, f), r, t)
  BY <1>2, <1>3, RequestRunFirst, Zenon
<1> QED
  BY <1>1, <1>4, Zenon DEF RequestRun

LEMMA RequestRunCut ==
  ASSUME NEW p, NEW r, NEW w, IsWire(w), IsCut(FirstField(w))
  PROVE  RequestRun(p, r, w) = ParseField(p, r, FirstField(w))
<1>1. PICK s, t, f : s = Fields(w) /\ t = Fields(<<>>) /\ f = FirstField(w)
  OBVIOUS
<1>2. s = <<f>> /\ t = <<>> /\ t \in Seq(Field) /\ f \in Field
  BY <1>1, FieldsCut, CutIsRemnant, FieldsOfNothing, EmptySeq DEF Field
<1>3. <<f>> \o <<>> = <<f>>
  OBVIOUS
<1>4. s = <<f>> \o t /\ t \in Seq(Field) /\ f \in Field
  BY <1>2, <1>3, Zenon
<1>5. RequestLast(p, r, s) = RequestLast(ParseField(p, r, f), r, t)
  BY <1>4, RequestRunFirst, Zenon
<1>6. RequestRun(p, r, w) = RequestRun(ParseField(p, r, f), r, <<>>)
  BY <1>1, <1>5, Zenon DEF RequestRun
<1> QED
  BY <1>1, <1>6, RequestRunOfNothing, Zenon

LEMMA RequestRunThen ==
  ASSUME NEW p, NEW r, NEW f \in WellFormed, NEW v \in Seq(Bytes)
  PROVE  RequestRun(p, r, f.raw \o v) = RequestRun(ParseField(p, r, f), r, v)
<1>1. PICK s, t : s = Fields(f.raw \o v) /\ t = Fields(v)
  OBVIOUS
<1>2. s = <<f>> \o t /\ t \in Seq(Field) /\ f \in Field
  BY <1>1, FieldThen, FieldsAreASequence, Zenon DEF Field
<1>3. RequestLast(p, r, s) = RequestLast(ParseField(p, r, f), r, t)
  BY <1>2, RequestRunFirst, Zenon
<1> QED
  BY <1>1, <1>3, Zenon DEF RequestRun

LEMMA InfoParsed ==
  ASSUME NEW info, NEW w
  PROVE  FileInfoInternalParse(info, w) = InfoRun([ok |-> TRUE, info |-> info], w)
  BY DEF FileInfoInternalParse, FileInfoTurns, InfoRun, InfoLast, InfoRuns

LEMMA RequestParsed ==
  ASSUME NEW s, NEW r, NEW w
  PROVE  InternalParse(s, r, w) = RequestRun([ok |-> TRUE, memory |-> s], r, w)
  BY DEF InternalParse, Turns, RequestRun, RequestLast, RequestRuns

-----------------------------------------------------------------------------
(* Parsing a FileInfo                                                      *)

Info(n, z, u) == [kind |-> "FileInfo", name |-> n, size |-> z, unknown |-> u]

LEMMA InfoParts ==
  ASSUME NEW info, IsInfo(info)
  PROVE  \E n, z, u : /\ n \in Seq(Bytes) /\ z \in Nat /\ Plain(u, InfoTags)
                      /\ info = Info(n, z, u)
  BY Zenon DEF IsInfo, Info

LEMMA InfoMade ==
  ASSUME NEW n \in Seq(Bytes), NEW z \in Nat, NEW u, Plain(u, InfoTags)
  PROVE  IsInfo(Info(n, z, u))
<1>1. PICK x : x = Info(n, z, u)
  OBVIOUS
<1>2. x.name = n /\ x.size = z /\ x.unknown = u
  BY <1>1 DEF Info
<1> QED
  BY <1>1, <1>2, Zenon DEF IsInfo, Info

HasParts(x, n, z, u) == x.name = n /\ x.size = z /\ x.unknown = u

LEMMA InfoHasParts ==
  ASSUME NEW n, NEW z, NEW u
  PROVE  HasParts(Info(n, z, u), n, z, u)
<1>1. PICK x : x = Info(n, z, u)
  OBVIOUS
<1>2. x.name = n /\ x.size = z /\ x.unknown = u
  BY <1>1 DEF Info
<1> QED
  BY <1>1, <1>2, Zenon DEF HasParts

WithName(info, v) == [info EXCEPT !.name = v]
WithSize(info, v) == [info EXCEPT !.size = v]
WithMore(info, v) == [info EXCEPT !.unknown = v]

IsInfoOf(x, n, z, u) == x = Info(n, z, u)

LEMMA InfoChanged ==
  ASSUME NEW n, NEW z, NEW u, NEW v, NEW x, IsInfoOf(x, n, z, u)
  PROVE  /\ IsInfoOf(WithName(x, v), v, z, u) /\ IsInfoOf(WithSize(x, v), n, v, u)
         /\ IsInfoOf(WithMore(x, v), n, z, v)
  BY DEF Info, WithName, WithSize, WithMore, IsInfoOf

LEMMA InfoOfMade ==
  ASSUME NEW n \in Seq(Bytes), NEW z \in Nat, NEW u, Plain(u, InfoTags),
         NEW x, IsInfoOf(x, n, z, u)
  PROVE  IsInfo(x)
  BY InfoMade, Zenon DEF IsInfoOf

(* What a FileInfo has of two when one is merged into the other.           *)
NameOf(n, m) == IF m = <<>> THEN n ELSE m
SizeOf(z, y) == IF y = 0 THEN z ELSE y

LEMMA InfosMerged ==
  ASSUME NEW n, NEW z, NEW u, NEW m, NEW y, NEW v
  PROVE  FileInfoMergeFrom(Info(n, z, u), Info(m, y, v)) = Info(NameOf(n, m), SizeOf(z, y), u \o v)
<1>1. PICK info, from : info = Info(n, z, u) /\ from = Info(m, y, v)
  OBVIOUS
<1>2. /\ info.name = n /\ info.size = z /\ info.unknown = u
      /\ from.name = m /\ from.size = y /\ from.unknown = v
  <2>1. HasParts(info, n, z, u) /\ HasParts(from, m, y, v)
    BY <1>1, InfoHasParts, Zenon
  <2> QED
    BY <2>1, Zenon DEF HasParts
<1>3. PICK u1, n1, z1 : u1 = u \o v /\ n1 = NameOf(n, m) /\ z1 = SizeOf(z, y)
  OBVIOUS
<1>4. FileInfoMergeFrom(info, from) = [info EXCEPT !.unknown = u1, !.name = n1, !.size = z1]
  BY <1>2, <1>3, Zenon DEF FileInfoMergeFrom, NameOf, SizeOf
<1>5. [info EXCEPT !.unknown = u1, !.name = n1, !.size = z1]
        = WithSize(WithName(WithMore(info, u1), n1), z1)
  BY DEF WithSize, WithName, WithMore
<1>6. IsInfoOf(info, n, z, u)
  BY <1>1, Zenon DEF IsInfoOf
<1>7. IsInfoOf(WithSize(WithName(WithMore(info, u1), n1), z1), n1, z1, u1)
  BY <1>6, InfoChanged, Zenon
<1> QED
  BY <1>1, <1>3, <1>4, <1>5, <1>7, Zenon DEF IsInfoOf

(* A loop that has not failed yet.                                         *)
Unfailed(info) == [ok |-> TRUE, info |-> info]
WithOk(p, v) == [p EXCEPT !.ok = v]
WithInfo(p, v) == [p EXCEPT !.info = v]

LEMMA TagsDiffer ==
  ASSUME TRUE
  PROVE  /\ Tag(1, 2) # Tag(2, 0) /\ Tag(1, 2) # Tag(2, 2)
         /\ Type(Tag(1, 2)) # 0 /\ Type(Tag(2, 2)) # 0 /\ Type(Tag(2, 0)) = 0
  BY DEF Tag, Type

LEMMA FieldValue ==
  ASSUME NEW f \in Field
  PROVE  /\ f.tag = Tag(1, 2) \/ f.tag = Tag(2, 2) => f.value \in Seq(Bytes)
         /\ f.tag = Tag(2, 0) => f.value \in Nat
<1>1. IF Type(f.tag) = 0 THEN f.value \in Nat ELSE f.value \in Seq(Bytes)
  <2>1. CASE f \in WellFormed
    BY <2>1, WellFormedParts, Zenon DEF IsField
  <2>2. CASE f \in Remnant
    BY <2>2 DEF Remnant
  <2> QED
    BY <2>1, <2>2, Zenon DEF Field
<1> QED
  BY <1>1, TagsDiffer, Zenon

(* Unknown fields are kept when they are whole.                            *)
LEMMA FieldKept ==
  ASSUME NEW T, NEW f \in Field, f.tag \notin T
  PROVE  Plain(f.raw, T)
<1>1. CASE f \in WellFormed
  BY <1>1, PlainField, Zenon
<1>2. CASE f \in Remnant
  <2>1. f.raw = <<>>
    BY <1>2 DEF Remnant
  <2> QED
    BY <2>1, PlainNothing, Zenon
<1> QED
  BY <1>1, <1>2, Zenon DEF Field

(* The turns.                                                              *)
InfoTaken(p, f) ==
  CASE f.tag = Tag(1, 2) ->
         [ok |-> IsUtf8(f.value), info |-> [p.info EXCEPT !.name = f.value]]
    [] f.tag = Tag(2, 0) -> [p EXCEPT !.info.size = f.value]
    [] OTHER -> [p EXCEPT !.info.unknown = @ \o f.raw]

LEMMA InfoTurnIs ==
  ASSUME NEW p, NEW f
  PROVE  /\ ~p.ok => FileInfoParseField(p, f) = p
         /\ p.ok /\ IsCut(f) => FileInfoParseField(p, f) = WithOk(InfoTaken(p, f), FALSE)
         /\ p.ok /\ ~IsCut(f) => FileInfoParseField(p, f) = InfoTaken(p, f)
<1>1. FileInfoParseField(p, f) = IF ~p.ok THEN p ELSE CHK_(InfoTaken(p, f), f)
  BY Zenon DEF FileInfoParseField, InfoTaken
<1> QED
  BY <1>1, Zenon DEF CHK_, WithOk

ParsedName(n, z, u) == [ok |-> IsUtf8(n), info |-> Info(n, z, u)]

(* A loop that has not failed and is at the FileInfo of n, z and u.        *)
IsAt(p, n, z, u) == p = Unfailed(Info(n, z, u))
IsParsedName(p, n, z, u) == p = ParsedName(n, z, u)

LEMMA OtherInfo ==
  ASSUME NEW b, NEW i, NEW x
  PROVE  WithInfo([ok |-> b, info |-> i], x) = [ok |-> b, info |-> x]
  BY DEF WithInfo

LEMMA InfoTakes ==
  ASSUME NEW n, NEW z, NEW u, NEW f, NEW p, IsAt(p, n, z, u)
  PROVE  /\ f.tag = Tag(1, 2) => IsParsedName(InfoTaken(p, f), f.value, z, u)
         /\ f.tag = Tag(2, 0) => IsAt(InfoTaken(p, f), n, f.value, u)
         /\ f.tag \notin InfoTags => IsAt(InfoTaken(p, f), n, z, u \o f.raw)
<1>1. PICK info, q : info = Info(n, z, u) /\ p = Unfailed(info) /\ q = InfoTaken(p, f)
  BY Zenon DEF IsAt
<1>2. p.ok = TRUE /\ p.info = info
  BY <1>1 DEF Unfailed
<1>3. info.unknown = u
  <2>1. HasParts(info, n, z, u)
    BY <1>1, InfoHasParts, Zenon
  <2> QED
    BY <2>1, Zenon DEF HasParts
<1>4. q = CASE f.tag = Tag(1, 2) -> [ok |-> IsUtf8(f.value), info |-> [info EXCEPT !.name = f.value]]
            [] f.tag = Tag(2, 0) -> [p EXCEPT !.info.size = f.value]
            [] OTHER -> [p EXCEPT !.info.unknown = @ \o f.raw]
  BY <1>1, <1>2, Zenon DEF InfoTaken
<1>5. [p EXCEPT !.info.size = f.value] = WithInfo(p, WithSize(info, f.value))
  BY <1>2 DEF WithInfo, WithSize
<1>6. [p EXCEPT !.info.unknown = @ \o f.raw] = WithInfo(p, WithMore(info, u \o f.raw))
  BY <1>2, <1>3 DEF WithInfo, WithMore
<1>7. /\ f.tag = Tag(1, 2) => q = [ok |-> IsUtf8(f.value), info |-> WithName(info, f.value)]
      /\ f.tag = Tag(2, 0) => q = WithInfo(p, WithSize(info, f.value))
      /\ f.tag \notin InfoTags => q = WithInfo(p, WithMore(info, u \o f.raw))
  <2>1. /\ f.tag = Tag(1, 2) => q = [ok |-> IsUtf8(f.value), info |-> [info EXCEPT !.name = f.value]]
        /\ f.tag = Tag(2, 0) => q = [p EXCEPT !.info.size = f.value]
        /\ f.tag \notin InfoTags => q = [p EXCEPT !.info.unknown = @ \o f.raw]
    BY <1>4, TagsDiffer DEF InfoTags
  <2> QED
    BY <1>5, <1>6, <2>1, Zenon DEF WithName
<1>8. \A x : WithInfo(p, x) = Unfailed(x)
  BY <1>1, OtherInfo, Zenon DEF Unfailed
<1>9. /\ IsInfoOf(WithName(info, f.value), f.value, z, u)
      /\ IsInfoOf(WithSize(info, f.value), n, f.value, u)
      /\ IsInfoOf(WithMore(info, u \o f.raw), n, z, u \o f.raw)
  <2>1. IsInfoOf(info, n, z, u)
    BY <1>1, Zenon DEF IsInfoOf
  <2> QED
    BY <2>1, InfoChanged, Zenon
<1>10. /\ f.tag = Tag(1, 2) => IsParsedName(q, f.value, z, u)
       /\ f.tag = Tag(2, 0) => IsAt(q, n, f.value, u)
       /\ f.tag \notin InfoTags => IsAt(q, n, z, u \o f.raw)
  BY <1>7, <1>8, <1>9, Zenon DEF ParsedName, IsInfoOf, IsParsedName, IsAt
<1> QED
  BY <1>1, <1>10, Zenon

LEMMA InfoTurn ==
  ASSUME NEW n, NEW z, NEW u, NEW f, ~IsCut(f), NEW p, IsAt(p, n, z, u)
  PROVE  /\ f.tag = Tag(1, 2) => IsParsedName(FileInfoParseField(p, f), f.value, z, u)
         /\ f.tag = Tag(2, 0) => IsAt(FileInfoParseField(p, f), n, f.value, u)
         /\ f.tag \notin InfoTags => IsAt(FileInfoParseField(p, f), n, z, u \o f.raw)
<1>1. p.ok = TRUE
  BY DEF IsAt, Unfailed
<1>2. FileInfoParseField(p, f) = InfoTaken(p, f)
  BY <1>1, InfoTurnIs, Zenon
<1> QED
  BY <1>2, InfoTakes, Zenon

IsInfoRun(p) == p = [ok |-> p.ok, info |-> p.info] /\ IsInfo(p.info) /\ p.ok \in BOOLEAN

LEMMA InfoRunMade ==
  ASSUME NEW ok \in BOOLEAN, NEW info, IsInfo(info)
  PROVE  IsInfoRun([ok |-> ok, info |-> info])
<1>1. PICK p : p = [ok |-> ok, info |-> info]
  OBVIOUS
<1>2. p.ok = ok /\ p.info = info
  BY <1>1
<1> QED
  BY <1>1, <1>2, Zenon DEF IsInfoRun

LEMMA InfoRunFails ==
  ASSUME NEW p, IsInfoRun(p)
  PROVE  IsInfoRun(WithOk(p, FALSE))
<1>1. PICK ok, info : p = [ok |-> ok, info |-> info] /\ IsInfo(info)
  BY Zenon DEF IsInfoRun
<1>2. PICK q : q = WithOk(p, FALSE)
  OBVIOUS
<1>3. q = [ok |-> FALSE, info |-> info]
  BY <1>1, <1>2 DEF WithOk
<1>4. FALSE \in BOOLEAN
  OBVIOUS
<1> QED
  BY <1>1, <1>2, <1>3, <1>4, InfoRunMade, Zenon

LEMMA InfoTakenRuns ==
  ASSUME NEW p, IsInfoRun(p), p.ok, NEW f \in Field
  PROVE  IsInfoRun(InfoTaken(p, f))
<1>1. PICK n, z, u : /\ n \in Seq(Bytes) /\ z \in Nat /\ Plain(u, InfoTags)
                      /\ p.info = Info(n, z, u)
  BY InfoParts, Zenon DEF IsInfoRun
<1>2. IsAt(p, n, z, u)
  <2>1. p.ok = TRUE
    BY Zenon DEF IsInfoRun
  <2> QED
    BY <1>1, <2>1, Zenon DEF IsInfoRun, Unfailed, IsAt
<1>3. CASE f.tag = Tag(1, 2)
  <2>1. f.value \in Seq(Bytes)
    BY <1>3, FieldValue, Zenon
  <2>2. IsInfo(Info(f.value, z, u))
    BY <1>1, <2>1, InfoMade, Zenon
  <2>3. IsUtf8(f.value) \in BOOLEAN
    BY Zenon DEF IsUtf8
  <2>4. IsParsedName(InfoTaken(p, f), f.value, z, u)
    BY <1>2, <1>3, InfoTakes, Zenon
  <2> QED
    BY <2>2, <2>3, <2>4, InfoRunMade, Zenon DEF ParsedName, IsParsedName
<1>4. CASE f.tag = Tag(2, 0)
  <2>1. f.value \in Nat
    BY <1>4, FieldValue, Zenon
  <2>2. IsInfo(Info(n, f.value, u))
    BY <1>1, <2>1, InfoMade, Zenon
  <2>3. TRUE \in BOOLEAN
    OBVIOUS
  <2>4. IsAt(InfoTaken(p, f), n, f.value, u)
    BY <1>2, <1>4, InfoTakes, Zenon
  <2> QED
    BY <2>2, <2>3, <2>4, InfoRunMade, Zenon DEF Unfailed, IsAt
<1>5. CASE f.tag \notin InfoTags
  <2>1. Plain(u \o f.raw, InfoTags)
    BY <1>1, <1>5, FieldKept, PlainJoined, Zenon
  <2>2. IsInfo(Info(n, z, u \o f.raw))
    BY <1>1, <2>1, InfoMade, Zenon
  <2>3. TRUE \in BOOLEAN
    OBVIOUS
  <2>4. IsAt(InfoTaken(p, f), n, z, u \o f.raw)
    BY <1>2, <1>5, InfoTakes, Zenon
  <2> QED
    BY <2>2, <2>3, <2>4, InfoRunMade, Zenon DEF Unfailed, IsAt
<1> QED
  BY <1>3, <1>4, <1>5, Zenon DEF InfoTags

LEMMA InfoTurnRuns ==
  ASSUME NEW p, IsInfoRun(p), NEW f \in Field
  PROVE  IsInfoRun(FileInfoParseField(p, f))
<1>1. CASE ~p.ok
  BY <1>1, InfoTurnIs, Zenon
<1>2. CASE p.ok
  BY <1>2, InfoTurnIs, InfoTakenRuns, InfoRunFails, Zenon
<1> QED
  BY <1>1, <1>2

LEMMA InfoRunsOn ==
  ASSUME NEW p, IsInfoRun(p), NEW w \in Seq(Bytes)
  PROVE  IsInfoRun(InfoRun(p, w))
<1> DEFINE S == {n \in Nat : \A v, q :
                   v \in Seq(Bytes) /\ Len(v) = n /\ IsInfoRun(q) => IsInfoRun(InfoRun(q, v))}
<1>1. ASSUME NEW n \in Nat, \A m \in Nat : m < n => m \in S
      PROVE  n \in S
  <2> SUFFICES ASSUME NEW v \in Seq(Bytes), NEW q, Len(v) = n, IsInfoRun(q)
               PROVE  IsInfoRun(InfoRun(q, v))
    OBVIOUS
  <2>1. CASE v = <<>>
    BY <2>1, InfoRunOfNothing, Zenon
  <2>2. CASE v # <<>> /\ IsCut(FirstField(v))
    <3>1. IsWire(v)
      BY <2>2 DEF IsWire
    <3>2. FirstField(v) \in Field
      BY <2>2, <3>1, CutIsRemnant, Zenon DEF Field
    <3> QED
      BY <2>2, <3>1, <3>2, InfoRunCut, InfoTurnRuns, Zenon
  <2>3. CASE v # <<>> /\ ~IsCut(FirstField(v))
    <3>1. IsWire(v)
      BY <2>3 DEF IsWire
    <3>2. PICK f, y, m : f = FirstField(v) /\ y = Beyond(v) /\ m = Len(y)
      OBVIOUS
    <3>3. f \in Field
      BY <2>3, <3>1, <3>2, FirstIsField, Zenon DEF Field
    <3>4. y \in Seq(Bytes) /\ m \in Nat /\ m < n
      BY <2>3, <3>1, <3>2, BeyondFirst, WireBytes
    <3>5. IsInfoRun(FileInfoParseField(q, f))
      BY <3>3, InfoTurnRuns, Zenon
    <3>6. IsInfoRun(InfoRun(FileInfoParseField(q, f), y))
      <4>1. m \in S
        BY <1>1, <3>4
      <4> QED
        BY <3>2, <3>4, <3>5, <4>1
    <3> QED
      BY <2>3, <3>1, <3>2, <3>6, InfoRunStep, Zenon
  <2> QED
    BY <2>1, <2>2, <2>3
<1>2. Len(w) \in S
  <2> HIDE DEF S
  <2>1. Nat \subseteq S
    BY <1>1, StrongInduction, Zenon
  <2> QED
    BY <2>1, WireBytes
<1> QED
  BY <1>2

LEMMA InfoIsParsed ==
  ASSUME NEW info, IsInfo(info), NEW w \in Seq(Bytes)
  PROVE  IsInfoRun(FileInfoInternalParse(info, w))
<1>1. IsInfoRun([ok |-> TRUE, info |-> info])
  <2>1. TRUE \in BOOLEAN
    OBVIOUS
  <2> QED
    BY <2>1, InfoRunMade, Zenon
<1> QED
  BY <1>1, InfoParsed, InfoRunsOn, Zenon

-----------------------------------------------------------------------------
(* Parsing a request                                                       *)

Going(m) == [ok |-> TRUE, memory |-> m]
WithMemory(p, v) == [p EXCEPT !.memory = v]

LEMMA OtherMemory ==
  ASSUME NEW b, NEW i, NEW x
  PROVE  WithMemory([ok |-> b, memory |-> i], x) = [ok |-> b, memory |-> x]
  BY DEF WithMemory

(* A state of the loop: r has x, of case, and the unknown fields v.        *)
Leads(s, p, r, ok, case, x, v) ==
  p = [ok |-> ok, memory |-> p.memory] /\ p.ok = ok /\ Becomes(s, p.memory, r, case, x, v)

LEMMA LeadsTo ==
  ASSUME NEW s, NEW r, NEW t, NEW ok, NEW case, NEW x, NEW v, Becomes(s, t, r, case, x, v)
  PROVE  Leads(s, [ok |-> ok, memory |-> t], r, ok, case, x, v)
<1>1. PICK p : p = [ok |-> ok, memory |-> t]
  OBVIOUS
<1>2. p.ok = ok /\ p.memory = t
  BY <1>1
<1> QED
  BY <1>1, <1>2, Zenon DEF Leads

RequestTaken(p, r, f) ==
  CASE f.tag = Tag(1, 2) -> ParseInfo(p.memory, r, f.value)
    [] f.tag = Tag(2, 2) -> [p EXCEPT !.memory = set_chunk_data(@, r, f.value)]
    [] OTHER -> [p EXCEPT !.memory.request[r].unknown = @ \o f.raw]

LEMMA RequestTurn ==
  ASSUME NEW p, NEW r, NEW f
  PROVE  /\ ~p.ok => ParseField(p, r, f) = p
         /\ p.ok /\ IsCut(f) => ParseField(p, r, f) = WithOk(RequestTaken(p, r, f), FALSE)
         /\ p.ok /\ ~IsCut(f) => ParseField(p, r, f) = RequestTaken(p, r, f)
<1>1. ParseField(p, r, f) = IF ~p.ok THEN p ELSE CHK_(RequestTaken(p, r, f), f)
  BY Zenon DEF ParseField, RequestTaken
<1> QED
  BY <1>1, Zenon DEF CHK_, WithOk

(* The three kinds of fields of a request.                                 *)
IsGoing(p, u) == p = Going(u)
TakesTo(p, r, f, q) == RequestTaken(p, r, f) = q
TurnsTo(p, r, f, q) == ParseField(p, r, f) = q

LEMMA RequestTakes ==
  ASSUME NEW u, NEW p, IsGoing(p, u), NEW r, NEW f
  PROVE  /\ f.tag = Tag(1, 2) => TakesTo(p, r, f, ParseInfo(u, r, f.value))
         /\ f.tag = Tag(2, 2) => TakesTo(p, r, f, Going(set_chunk_data(u, r, f.value)))
         /\ f.tag \notin RequestTags => TakesTo(p, r, f, Going(WithUnknown(u, r, Plus(u, r, f.raw))))
<1>1. p = Going(u) /\ p.ok = TRUE /\ p.memory = u
  BY DEF Going, IsGoing
<1>2. PICK q : q = RequestTaken(p, r, f)
  OBVIOUS
<1>3. q = CASE f.tag = Tag(1, 2) -> ParseInfo(u, r, f.value)
            [] f.tag = Tag(2, 2) -> [p EXCEPT !.memory = set_chunk_data(@, r, f.value)]
            [] OTHER -> [p EXCEPT !.memory.request[r].unknown = @ \o f.raw]
  BY <1>1, <1>2, Zenon DEF RequestTaken
<1>4. [p EXCEPT !.memory = set_chunk_data(@, r, f.value)] = WithMemory(p, set_chunk_data(u, r, f.value))
  BY <1>1, Zenon DEF WithMemory
<1>5. [p EXCEPT !.memory.request[r].unknown = @ \o f.raw]
        = WithMemory(p, WithUnknown(u, r, Plus(u, r, f.raw)))
  BY <1>1 DEF WithMemory, WithUnknown, Plus
<1>6. /\ f.tag = Tag(1, 2) => q = ParseInfo(u, r, f.value)
      /\ f.tag = Tag(2, 2) => q = WithMemory(p, set_chunk_data(u, r, f.value))
      /\ f.tag \notin RequestTags => q = WithMemory(p, WithUnknown(u, r, Plus(u, r, f.raw)))
  <2>1. /\ f.tag = Tag(1, 2) => q = ParseInfo(u, r, f.value)
        /\ f.tag = Tag(2, 2) => q = [p EXCEPT !.memory = set_chunk_data(@, r, f.value)]
        /\ f.tag \notin RequestTags => q = [p EXCEPT !.memory.request[r].unknown = @ \o f.raw]
    BY <1>3, TagsDiffer DEF RequestTags
  <2> QED
    BY <1>4, <1>5, <2>1, Zenon
<1>7. \A x : WithMemory(p, x) = Going(x)
  BY <1>1, OtherMemory, Zenon DEF Going
<1> QED
  BY <1>2, <1>6, <1>7, Zenon DEF TakesTo

LEMMA RequestTurnIs ==
  ASSUME NEW u, NEW p, IsGoing(p, u), NEW r, NEW f, ~IsCut(f)
  PROVE  /\ f.tag = Tag(1, 2) => TurnsTo(p, r, f, ParseInfo(u, r, f.value))
         /\ f.tag = Tag(2, 2) => TurnsTo(p, r, f, Going(set_chunk_data(u, r, f.value)))
         /\ f.tag \notin RequestTags => TurnsTo(p, r, f, Going(WithUnknown(u, r, Plus(u, r, f.raw))))
<1>1. p.ok = TRUE
  BY DEF Going, IsGoing
<1>2. ParseField(p, r, f) = RequestTaken(p, r, f)
  BY <1>1, RequestTurn, Zenon
<1>3. \A q : TakesTo(p, r, f, q) => TurnsTo(p, r, f, q)
  BY <1>2, Zenon DEF TakesTo, TurnsTo
<1> QED
  BY <1>3, RequestTakes, Zenon

LEMMA InfoFieldParsed ==
  ASSUME NEW s, Sound(s), NEW r \in Request, s.request[r].live, NEW b \in Seq(Bytes),
         NEW parsed, parsed = FileInfoInternalParse(InfoOf(s, r), b)
  PROVE  Leads(s, ParseInfo(s, r, b), r, parsed.ok, "kInfo", parsed.info, s.request[r].unknown)
<1>1. PICK target : target = mutable_info(s, r)
  OBVIOUS
<1>2. Has(target, r, "kInfo", InfoOf(s, r), s.request[r].unknown)
  BY <1>1, MutableInfo, Zenon DEF Becomes
<1>3. IsSet(target.request[r])
  <2>1. target.request[r].case = "kInfo"
    BY <1>2, Zenon DEF Has
  <2> QED
    BY <2>1 DEF IsSet
<1>4. Pointed(target, r) = InfoOf(s, r)
  BY <1>2, <1>3, Zenon DEF Has, Value, Pointed
<1>5. IsInfo(parsed.info)
  BY InfoOfIsInfo, InfoIsParsed, Zenon DEF IsInfoRun
<1>6. Becomes(s, Assigned(target, r, parsed.info), r, "kInfo", parsed.info, s.request[r].unknown)
  BY <1>1, <1>5, InfoMerged, Zenon
<1>7. ParseInfo(s, r, b) = [ok |-> parsed.ok, memory |-> Assigned(target, r, parsed.info)]
  BY <1>1, <1>4, Zenon DEF ParseInfo
<1> QED
  BY <1>6, <1>7, LeadsTo, Zenon

(* A state of the loop, whatever r has.                                    *)
IsRun(s, p, r) ==
  p = [ok |-> p.ok, memory |-> p.memory] /\ p.ok \in BOOLEAN /\ After(s, p.memory, r)

LEMMA LeadsOn ==
  ASSUME NEW s, NEW p, NEW r, NEW ok \in BOOLEAN, NEW case, NEW x, NEW v,
         Leads(s, p, r, ok, case, x, v)
  PROVE  IsRun(s, p, r)
  BY Zenon DEF Leads, IsRun, Becomes

LEMMA RunFails ==
  ASSUME NEW s, NEW r, NEW p, IsRun(s, p, r)
  PROVE  IsRun(s, WithOk(p, FALSE), r)
<1>1. PICK ok, t : p = [ok |-> ok, memory |-> t] /\ After(s, t, r)
  BY Zenon DEF IsRun
<1>2. p = [ok |-> ok, memory |-> t]
  BY <1>1, Zenon
<1>3. PICK b : b = FALSE
  OBVIOUS
<1>4. PICK q : q = WithOk(p, b)
  OBVIOUS
<1>5. q = [ok |-> b, memory |-> t] /\ q.ok = b /\ q.memory = t
  BY <1>2, <1>4 DEF WithOk
<1>6. b \in BOOLEAN
  BY <1>3
<1>7. IsRun(s, q, r)
  BY <1>1, <1>5, <1>6, Zenon DEF IsRun
<1> QED
  BY <1>3, <1>4, <1>7, Zenon

LEMMA RequestTakenRuns ==
  ASSUME NEW s, NEW r \in Request, s.request[r].live, NEW p, IsRun(s, p, r), p.ok, NEW f \in Field
  PROVE  IsRun(s, RequestTaken(p, r, f), r)
<1>1. PICK u : u = p.memory
  OBVIOUS
<1>2. After(s, u, r) /\ Sound(u) /\ u.request[r].live
  BY <1>1, Zenon DEF IsRun, After
<1>3. IsGoing(p, u)
  <2>1. p.ok = TRUE
    BY Zenon DEF IsRun
  <2> QED
    BY <1>1, <2>1, Zenon DEF IsRun, Going, IsGoing
<1>4. PICK q : q = RequestTaken(p, r, f)
  OBVIOUS
<1>5. IsRun(u, q, r)
  <2>1. CASE f.tag = Tag(1, 2)
    <3>1. f.value \in Seq(Bytes)
      BY <2>1, FieldValue, Zenon
    <3>2. PICK parsed : parsed = FileInfoInternalParse(InfoOf(u, r), f.value)
      OBVIOUS
    <3>3. parsed.ok \in BOOLEAN
      BY <1>2, <3>1, <3>2, InfoOfIsInfo, InfoIsParsed, Zenon DEF IsInfoRun
    <3>4. q = ParseInfo(u, r, f.value)
      <4>1. TakesTo(p, r, f, ParseInfo(u, r, f.value))
        BY <1>3, <2>1, RequestTakes, Zenon
      <4> QED
        BY <1>4, <4>1, Zenon DEF TakesTo
    <3>5. Leads(u, q, r, parsed.ok, "kInfo", parsed.info, u.request[r].unknown)
      BY <1>2, <3>1, <3>2, <3>4, InfoFieldParsed, Zenon
    <3> QED
      BY <3>3, <3>5, LeadsOn, Zenon
  <2>2. CASE f.tag = Tag(2, 2)
    <3>1. f.value \in Seq(Bytes)
      BY <2>2, FieldValue, Zenon
    <3>2. q = Going(set_chunk_data(u, r, f.value))
      <4>1. TakesTo(p, r, f, Going(set_chunk_data(u, r, f.value)))
        BY <1>3, <2>2, RequestTakes, Zenon
      <4> QED
        BY <1>4, <4>1, Zenon DEF TakesTo
    <3>3. Leads(u, q, r, TRUE, "kChunkData", Text(f.value), u.request[r].unknown)
      BY <1>2, <3>1, <3>2, ChunkDataSet, LeadsTo, Zenon DEF Going
    <3>4. TRUE \in BOOLEAN
      OBVIOUS
    <3> QED
      BY <3>3, <3>4, LeadsOn, Zenon
  <2>3. CASE f.tag \notin RequestTags
    <3>1. Plain(f.raw, RequestTags)
      BY <2>3, FieldKept, Zenon
    <3>2. q = Going(WithUnknown(u, r, Plus(u, r, f.raw)))
      <4>1. TakesTo(p, r, f, Going(WithUnknown(u, r, Plus(u, r, f.raw))))
        BY <1>3, <2>3, RequestTakes, Zenon
      <4> QED
        BY <1>4, <4>1, Zenon DEF TakesTo
    <3>3. Leads(u, q, r, TRUE, u.request[r].case, Value(u, r), Plus(u, r, f.raw))
      BY <1>2, <3>1, <3>2, UnknownAppended, LeadsTo, Zenon DEF Going
    <3>4. TRUE \in BOOLEAN
      OBVIOUS
    <3> QED
      BY <3>3, <3>4, LeadsOn, Zenon
  <2> QED
    BY <2>1, <2>2, <2>3, Zenon DEF RequestTags
<1> QED
  BY <1>2, <1>4, <1>5, AfterBoth, Zenon DEF IsRun

LEMMA RequestTurnRuns ==
  ASSUME NEW s, NEW r \in Request, s.request[r].live, NEW p, IsRun(s, p, r), NEW f \in Field
  PROVE  IsRun(s, ParseField(p, r, f), r)
<1>1. CASE ~p.ok
  <2>1. ParseField(p, r, f) = p
    BY <1>1, RequestTurn, Zenon
  <2> QED
    BY <2>1, Zenon
<1>2. CASE p.ok
  <2>1. PICK q : q = RequestTaken(p, r, f)
    OBVIOUS
  <2>2. IsRun(s, q, r) /\ IsRun(s, WithOk(q, FALSE), r)
    BY <1>2, <2>1, RequestTakenRuns, RunFails, Zenon
  <2>3. ParseField(p, r, f) = WithOk(q, FALSE) \/ ParseField(p, r, f) = q
    BY <1>2, <2>1, RequestTurn, Zenon
  <2> QED
    BY <2>2, <2>3, Zenon
<1> QED
  BY <1>1, <1>2

LEMMA RequestRunsOn ==
  ASSUME NEW s, NEW r \in Request, s.request[r].live, NEW p, IsRun(s, p, r), NEW w \in Seq(Bytes)
  PROVE  IsRun(s, RequestRun(p, r, w), r)
<1> DEFINE S == {n \in Nat : \A v, q :
                   v \in Seq(Bytes) /\ Len(v) = n /\ IsRun(s, q, r) => IsRun(s, RequestRun(q, r, v), r)}
<1>1. ASSUME NEW n \in Nat, \A m \in Nat : m < n => m \in S
      PROVE  n \in S
  <2> SUFFICES ASSUME NEW v \in Seq(Bytes), NEW q, Len(v) = n, IsRun(s, q, r)
               PROVE  IsRun(s, RequestRun(q, r, v), r)
    OBVIOUS
  <2>1. CASE v = <<>>
    BY <2>1, RequestRunOfNothing, Zenon
  <2>2. CASE v # <<>> /\ IsCut(FirstField(v))
    <3>1. IsWire(v)
      BY <2>2 DEF IsWire
    <3>2. FirstField(v) \in Field
      BY <2>2, <3>1, CutIsRemnant, Zenon DEF Field
    <3> QED
      BY <2>2, <3>1, <3>2, RequestRunCut, RequestTurnRuns, Zenon
  <2>3. CASE v # <<>> /\ ~IsCut(FirstField(v))
    <3>1. IsWire(v)
      BY <2>3 DEF IsWire
    <3>2. PICK f, y, m : f = FirstField(v) /\ y = Beyond(v) /\ m = Len(y)
      OBVIOUS
    <3>3. f \in Field
      BY <2>3, <3>1, <3>2, FirstIsField, Zenon DEF Field
    <3>4. y \in Seq(Bytes) /\ m \in Nat /\ m < n
      BY <2>3, <3>1, <3>2, BeyondFirst, WireBytes
    <3>5. IsRun(s, ParseField(q, r, f), r)
      BY <3>3, RequestTurnRuns, Zenon
    <3>6. IsRun(s, RequestRun(ParseField(q, r, f), r, y), r)
      <4>1. m \in S
        BY <1>1, <3>4
      <4> QED
        BY <3>2, <3>4, <3>5, <4>1
    <3> QED
      BY <2>3, <3>1, <3>2, <3>6, RequestRunStep, Zenon
  <2> QED
    BY <2>1, <2>2, <2>3
<1>2. Len(w) \in S
  <2> HIDE DEF S
  <2>1. Nat \subseteq S
    BY <1>1, StrongInduction, Zenon
  <2> QED
    BY <2>1, WireBytes
<1> QED
  BY <1>2

LEMMA RequestIsParsed ==
  ASSUME NEW s, Sound(s), NEW r \in Request, s.request[r].live, NEW w \in Seq(Bytes)
  PROVE  IsRun(s, InternalParse(s, r, w), r)
<1>1. IsRun(s, [ok |-> TRUE, memory |-> s], r)
  <2>1. Leads(s, [ok |-> TRUE, memory |-> s], r, TRUE, s.request[r].case, Value(s, r), s.request[r].unknown)
    BY AfterNothing, LeadsTo, Zenon DEF Becomes, Has
  <2>2. TRUE \in BOOLEAN
    OBVIOUS
  <2> QED
    BY <2>1, <2>2, LeadsOn, Zenon
<1> QED
  BY <1>1, RequestParsed, RequestRunsOn, Zenon

LEMMA Received ==
  ASSUME NEW s, Sound(s), NEW r \in Request, s.request[r].live, NEW w \in Seq(Bytes)
  PROVE  IsRun(s, ParseFrom(s, r, w), r)
<1>1. PICK u : u = Clear(s, r)
  OBVIOUS
<1>2. After(s, u, r)
  BY <1>1, Cleared, Zenon DEF Emptied
<1>3. Sound(u) /\ u.request[r].live
  BY <1>2, Zenon DEF After
<1>4. IsRun(u, InternalParse(u, r, w), r)
  BY <1>3, RequestIsParsed, Zenon
<1> QED
  BY <1>1, <1>2, <1>4, AfterBoth, Zenon DEF ParseFrom, IsRun

-----------------------------------------------------------------------------
(* What is written, and reading it back                                    *)

LEMMA AppendNothing ==
  ASSUME NEW v \in Seq(Bytes)
  PROVE  v \o <<>> = v /\ <<>> \o v = v
  OBVIOUS

(* Unknown fields are kept as they came.                                   *)
LEMMA InfoPlain ==
  ASSUME NEW u, Plain(u, InfoTags), NEW p, NEW n, NEW z, NEW w \in Seq(Bytes), IsAt(p, n, z, w)
  PROVE  IsAt(InfoRun(p, u), n, z, w \o u)
<1> DEFINE S == {l \in Nat : \A v, x \in Seq(Bytes) : \A q :
                   Len(v) = l /\ Plain(v, InfoTags) /\ IsAt(q, n, z, x)
                     => IsAt(InfoRun(q, v), n, z, x \o v)}
<1>1. ASSUME NEW l \in Nat, \A m \in Nat : m < l => m \in S
      PROVE  l \in S
  <2> SUFFICES ASSUME NEW v \in Seq(Bytes), NEW q, NEW x \in Seq(Bytes),
                      Len(v) = l, Plain(v, InfoTags), IsAt(q, n, z, x)
               PROVE  IsAt(InfoRun(q, v), n, z, x \o v)
    OBVIOUS
  <2>1. CASE v = <<>>
    BY <2>1, InfoRunOfNothing, AppendNothing, Zenon
  <2>2. CASE v # <<>>
    <3>1. IsWire(v)
      BY <2>2 DEF IsWire
    <3>2. ~IsCut(FirstField(v)) /\ FirstField(v).tag \notin InfoTags /\ Plain(Beyond(v), InfoTags)
      BY <3>1, PlainFirst, Zenon
    <3>3. PICK f, y, m : f = FirstField(v) /\ y = Beyond(v) /\ m = Len(y)
      OBVIOUS
    <3>4. f \in WellFormed /\ f.raw \in Seq(Bytes)
      BY <3>1, <3>2, <3>3, FirstIsField, WellFormedParts, Zenon
    <3>5. y \in Seq(Bytes) /\ m \in Nat /\ m < l
      BY <3>1, <3>2, <3>3, BeyondFirst, WireBytes
    <3>6. v = f.raw \o y
      BY <3>1, <3>2, <3>3, BeyondFirst, Zenon
    <3>7. IsAt(FileInfoParseField(q, f), n, z, x \o f.raw)
      BY <3>2, <3>3, InfoTurn, Zenon
    <3>8. x \o f.raw \in Seq(Bytes)
      BY <3>4, ConcatProperties
    <3>9. IsAt(InfoRun(FileInfoParseField(q, f), y), n, z, (x \o f.raw) \o y)
      <4>1. m \in S
        BY <1>1, <3>5
      <4>2. Plain(y, InfoTags)
        BY <3>2, <3>3, Zenon
      <4> QED
        BY <3>3, <3>5, <3>7, <3>8, <4>1, <4>2
    <3>10. x \o v = (x \o f.raw) \o y
      BY <3>4, <3>5, <3>6, Associates, Zenon
    <3>11. InfoRun(q, v) = InfoRun(FileInfoParseField(q, f), y)
      BY <3>1, <3>2, <3>3, InfoRunStep, Zenon
    <3> QED
      BY <3>9, <3>10, <3>11, Zenon
  <2> QED
    BY <2>1, <2>2
<1>2. u \in Seq(Bytes)
  BY Zenon DEF Plain
<1>3. Len(u) \in S
  <2> HIDE DEF S
  <2>1. Nat \subseteq S
    BY <1>1, StrongInduction, Zenon
  <2> QED
    BY <1>2, <2>1, WireBytes
<1> QED
  BY <1>2, <1>3

NameField(n) == IF n = <<>> THEN <<>> ELSE DelimitedField(1, n)
SizeField(z) == IF z = 0 THEN <<>> ELSE VarintField(2, z)

LEMMA VarintBytes ==
  ASSUME NEW n \in Nat
  PROVE  Varint(n) \in Seq(Bytes) /\ Len(Varint(n)) \in Nat
  BY VarintEncodes, Zenon DEF Encodes

IsWritten(x, n, z, u) ==
  /\ FileInfoSerialize(x) \in Seq(Bytes)
  /\ FileInfoSerialize(x) = (NameField(n) \o SizeField(z)) \o u
  /\ FileInfoSerialize(x) = NameField(n) \o (SizeField(z) \o u)

LEMMA InfoWritten ==
  ASSUME NEW n \in Seq(Bytes), NEW z \in Nat, NEW u \in Seq(Bytes), NEW x, HasParts(x, n, z, u)
  PROVE  /\ NameField(n) \in Seq(Bytes) /\ SizeField(z) \in Seq(Bytes)
         /\ IsWritten(x, n, z, u)
<1>1. NameField(n) \in Seq(Bytes)
  <2>1. PICK f \in WellFormed : f = [tag |-> Tag(1, 2), value |-> n, raw |-> DelimitedField(1, n)]
    <3>1. 1 \in 1 .. 3
      OBVIOUS
    <3> QED
      BY <3>1, DelimitedFieldRead, Zenon
  <2>2. f.raw = DelimitedField(1, n) /\ f.raw \in Seq(Bytes)
    BY <2>1, WellFormedParts
  <2> QED
    BY <2>2 DEF NameField
<1>2. SizeField(z) \in Seq(Bytes)
  <2>1. PICK f \in WellFormed : f = [tag |-> Tag(2, 0), value |-> z, raw |-> VarintField(2, z)]
    <3>1. 2 \in 1 .. 3
      OBVIOUS
    <3> QED
      BY <3>1, VarintFieldRead, Zenon
  <2>2. f.raw = VarintField(2, z) /\ f.raw \in Seq(Bytes)
    BY <2>1, WellFormedParts
  <2> QED
    BY <2>2 DEF SizeField
<1>3. FileInfoSerialize(x) = (NameField(n) \o SizeField(z)) \o u
  BY Zenon DEF FileInfoSerialize, NameField, SizeField, HasParts
<1>4. FileInfoSerialize(x) = NameField(n) \o (SizeField(z) \o u)
  BY <1>1, <1>2, <1>3, Associates, Zenon
<1>5. SizeField(z) \o u \in Seq(Bytes)
  BY <1>2, ConcatProperties
<1>6. NameField(n) \o (SizeField(z) \o u) \in Seq(Bytes)
  BY <1>1, <1>5, ConcatProperties
<1> QED
  BY <1>1, <1>2, <1>3, <1>4, <1>6, Zenon DEF IsWritten

LEMMA DelimitedLength ==
  ASSUME NEW number \in 1 .. 3, NEW n \in Seq(Bytes)
  PROVE  Len(DelimitedField(number, n)) = 1 + DelimitedSize(Len(n))
<1>1. Tag(number, 2) \in Bytes
  BY DEF Tag, Bytes
<1>2. PICK v : v = Varint(Len(n)) /\ v \in Seq(Bytes)
  BY WireBytes, VarintBytes, Zenon
<1>3. Len(<<Tag(number, 2)>> \o v \o n) = 1 + (Len(v) + Len(n))
  BY <1>1, <1>2
<1>4. DelimitedField(number, n) = <<Tag(number, 2)>> \o v \o n
  BY <1>2, Zenon DEF DelimitedField
<1>5. DelimitedSize(Len(n)) = Len(v) + Len(n)
  BY <1>2, Zenon DEF DelimitedSize, UInt32Size
<1> QED
  BY <1>3, <1>4, <1>5, Zenon

LEMMA FieldLengths ==
  ASSUME NEW n \in Seq(Bytes), NEW z \in Nat
  PROVE  /\ Len(NameField(n)) = IF n = <<>> THEN 0 ELSE 1 + DelimitedSize(Len(n))
         /\ Len(SizeField(z)) = IF z = 0 THEN 0 ELSE 1 + UInt32Size(z)
<1>1. Tag(2, 0) \in Bytes /\ 1 \in 1 .. 3
  BY DEF Tag, Bytes
<1>2. Len(DelimitedField(1, n)) = 1 + DelimitedSize(Len(n))
  BY <1>1, DelimitedLength, Zenon
<1>3. Len(VarintField(2, z)) = 1 + UInt32Size(z)
  <2>1. PICK v : v = Varint(z) /\ v \in Seq(Bytes)
    BY VarintBytes, Zenon
  <2>2. Len(<<Tag(2, 0)>> \o v) = 1 + Len(v)
    BY <1>1, <2>1
  <2> QED
    BY <2>1, <2>2, Zenon DEF VarintField, UInt32Size
<1>4. Len(<<>>) = 0
  OBVIOUS
<1>5. CASE n = <<>>
  BY <1>3, <1>4, <1>5 DEF NameField, SizeField
<1>6. CASE n # <<>>
  BY <1>2, <1>3, <1>4, <1>6 DEF NameField, SizeField
<1> QED
  BY <1>5, <1>6

(* The size that is announced is the size that is written.                 *)
LEMMA InfoLength ==
  ASSUME NEW x, IsInfo(x)
  PROVE  /\ FileInfoSerialize(x) \in Seq(Bytes)
         /\ Len(FileInfoSerialize(x)) = FileInfoByteSizeLong(x)
<1>1. PICK n, z, u : /\ n \in Seq(Bytes) /\ z \in Nat /\ Plain(u, InfoTags)
                     /\ x = Info(n, z, u)
  BY InfoParts, Zenon
<1>2. HasParts(x, n, z, u) /\ u \in Seq(Bytes)
  BY <1>1, InfoHasParts, Zenon DEF Plain
<1>3. PICK m, s, w : m = NameField(n) /\ s = SizeField(z) /\ w = FileInfoSerialize(x)
  OBVIOUS
<1>4. /\ m \in Seq(Bytes) /\ s \in Seq(Bytes) /\ w \in Seq(Bytes) /\ w = (m \o s) \o u
  <2>1. n \in Seq(Bytes) /\ z \in Nat
    BY <1>1, Zenon
  <2>2. /\ NameField(n) \in Seq(Bytes) /\ SizeField(z) \in Seq(Bytes)
        /\ IsWritten(x, n, z, u)
    BY <1>2, <2>1, InfoWritten, Zenon
  <2> QED
    BY <1>3, <2>2, Zenon DEF IsWritten
<1>5. Len(w) = Len(u) + Len(m) + Len(s)
  BY <1>2, <1>4
<1>6. FileInfoByteSizeLong(x) = Len(u) + Len(m) + Len(s)
  <2>1. /\ Len(m) = IF n = <<>> THEN 0 ELSE 1 + DelimitedSize(Len(n))
        /\ Len(s) = IF z = 0 THEN 0 ELSE 1 + UInt32Size(z)
    BY <1>1, <1>3, FieldLengths, Zenon
  <2> QED
    BY <1>2, <2>1, Zenon DEF FileInfoByteSizeLong, HasParts
<1> QED
  BY <1>3, <1>4, <1>5, <1>6, Zenon

ReadsOn(p, a, v, q) == InfoRun(p, a \o v) = InfoRun(q, v)

LEMMA NameRead ==
  ASSUME NEW n \in Seq(Bytes), IsUtf8(n), NEW p, NEW m, NEW z, NEW u, IsAt(p, m, z, u),
         NEW v \in Seq(Bytes)
  PROVE  \E q : IsAt(q, NameOf(m, n), z, u) /\ ReadsOn(p, NameField(n), v, q)
<1>1. CASE n = <<>>
  <2>1. NameOf(m, n) = m /\ NameField(n) = <<>>
    BY <1>1, Zenon DEF NameOf, NameField
  <2> QED
    BY <2>1, AppendNothing, Zenon DEF ReadsOn
<1>2. CASE n # <<>>
  <2>1. NameOf(m, n) = n /\ NameField(n) = DelimitedField(1, n)
    BY <1>2, Zenon DEF NameOf, NameField
  <2>2. PICK f \in WellFormed : f = [tag |-> Tag(1, 2), value |-> n, raw |-> DelimitedField(1, n)]
    <3>1. 1 \in 1 .. 3
      OBVIOUS
    <3> QED
      BY <3>1, DelimitedFieldRead, Zenon
  <2>3. f.tag = Tag(1, 2) /\ f.value = n /\ f.raw = DelimitedField(1, n) /\ ~IsCut(f)
    BY <2>2, WellFormedParts
  <2>4. PICK q : q = FileInfoParseField(p, f)
    OBVIOUS
  <2>5. IsParsedName(q, n, z, u)
    BY <2>3, <2>4, InfoTurn, Zenon
  <2>6. IsAt(q, n, z, u)
    BY <2>5, Zenon DEF IsParsedName, ParsedName, IsAt, Unfailed
  <2>7. InfoRun(p, f.raw \o v) = InfoRun(q, v)
    BY <2>4, InfoRunThen, Zenon
  <2> QED
    BY <2>1, <2>3, <2>6, <2>7, Zenon DEF ReadsOn
<1> QED
  BY <1>1, <1>2, Zenon

LEMMA SizeRead ==
  ASSUME NEW n \in Nat, NEW p, NEW m, NEW z, NEW u, IsAt(p, m, z, u), NEW v \in Seq(Bytes)
  PROVE  \E q : IsAt(q, m, SizeOf(z, n), u) /\ ReadsOn(p, SizeField(n), v, q)
<1>1. CASE n = 0
  <2>1. SizeOf(z, n) = z /\ SizeField(n) = <<>>
    BY <1>1, Zenon DEF SizeOf, SizeField
  <2> QED
    BY <2>1, AppendNothing, Zenon DEF ReadsOn
<1>2. CASE n # 0
  <2>1. SizeOf(z, n) = n /\ SizeField(n) = VarintField(2, n)
    BY <1>2, Zenon DEF SizeOf, SizeField
  <2>2. PICK f \in WellFormed : f = [tag |-> Tag(2, 0), value |-> n, raw |-> VarintField(2, n)]
    <3>1. 2 \in 1 .. 3
      OBVIOUS
    <3> QED
      BY <3>1, VarintFieldRead, Zenon
  <2>3. f.tag = Tag(2, 0) /\ f.value = n /\ f.raw = VarintField(2, n) /\ ~IsCut(f)
    BY <2>2, WellFormedParts
  <2>4. PICK q : q = FileInfoParseField(p, f)
    OBVIOUS
  <2>5. IsAt(q, m, n, u)
    BY <2>3, <2>4, InfoTurn, Zenon
  <2>6. InfoRun(p, f.raw \o v) = InfoRun(q, v)
    BY <2>4, InfoRunThen, Zenon
  <2> QED
    BY <2>1, <2>3, <2>5, <2>6, Zenon DEF ReadsOn
<1> QED
  BY <1>1, <1>2, Zenon

(* A FileInfo that is read back is merged into what was there.             *)
LEMMA InfoReadBack ==
  ASSUME NEW info, IsInfo(info), NEW x, IsInfo(x), IsUtf8(x.name)
  PROVE  FileInfoInternalParse(info, FileInfoSerialize(x)) = Unfailed(FileInfoMergeFrom(info, x))
<1>1. PICK m, y, v : /\ m \in Seq(Bytes) /\ y \in Nat /\ Plain(v, InfoTags)
                     /\ info = Info(m, y, v)
  BY InfoParts, Zenon
<1>2. PICK n, z, u : /\ n \in Seq(Bytes) /\ z \in Nat /\ Plain(u, InfoTags)
                     /\ x = Info(n, z, u)
  BY InfoParts, Zenon
<1>3. HasParts(x, n, z, u) /\ u \in Seq(Bytes) /\ v \in Seq(Bytes)
  BY <1>1, <1>2, InfoHasParts, Zenon DEF Plain
<1>4. IsUtf8(n) /\ n \in Seq(Bytes) /\ z \in Nat /\ Plain(u, InfoTags)
  BY <1>2, <1>3, Zenon DEF HasParts
<1>5. PICK w, a, b, p : /\ w = FileInfoSerialize(x) /\ a = NameField(n) /\ b = SizeField(z) \o u
                        /\ p = Unfailed(info)
  OBVIOUS
<1>6. w = a \o b
  <2>1. IsWritten(x, n, z, u)
    BY <1>3, <1>4, InfoWritten, Zenon
  <2> QED
    BY <1>5, <2>1, Zenon DEF IsWritten
<1>7. b \in Seq(Bytes)
  <2>1. SizeField(z) \in Seq(Bytes)
    BY <1>3, <1>4, InfoWritten, Zenon
  <2> QED
    BY <1>3, <1>5, <2>1, ConcatProperties
<1>8. IsAt(p, m, y, v)
  BY <1>1, <1>5, Zenon DEF IsAt
<1>9. PICK q : IsAt(q, NameOf(m, n), y, v) /\ InfoRun(p, a \o b) = InfoRun(q, b)
  <2>1. \E q : IsAt(q, NameOf(m, n), y, v) /\ ReadsOn(p, NameField(n), b, q)
    BY <1>4, <1>7, <1>8, NameRead, Zenon
  <2> QED
    BY <1>5, <2>1, Zenon DEF ReadsOn
<1>10. PICK t : IsAt(t, NameOf(m, n), SizeOf(y, z), v) /\ InfoRun(q, b) = InfoRun(t, u)
  <2>1. IsAt(q, NameOf(m, n), y, v)
    BY <1>9, Zenon
  <2>2. \E t : IsAt(t, NameOf(m, n), SizeOf(y, z), v) /\ ReadsOn(q, SizeField(z), u, t)
    BY <1>3, <1>4, <2>1, SizeRead, Zenon
  <2> QED
    BY <1>5, <2>2, Zenon DEF ReadsOn
<1>11. IsAt(InfoRun(t, u), NameOf(m, n), SizeOf(y, z), v \o u)
  BY <1>3, <1>4, <1>10, InfoPlain, Zenon
<1>12. FileInfoMergeFrom(info, x) = Info(NameOf(m, n), SizeOf(y, z), v \o u)
  <2>1. FileInfoMergeFrom(Info(m, y, v), Info(n, z, u)) = Info(NameOf(m, n), SizeOf(y, z), v \o u)
    BY InfosMerged
  <2> QED
    BY <1>1, <1>2, <2>1, Zenon
<1>13. FileInfoInternalParse(info, w) = InfoRun(p, w)
  BY <1>5, InfoParsed, Zenon DEF Unfailed
<1>14. IsAt(InfoRun(p, w), NameOf(m, n), SizeOf(y, z), v \o u)
  BY <1>6, <1>9, <1>10, <1>11, Zenon
<1> QED
  BY <1>5, <1>12, <1>13, <1>14, Zenon DEF IsAt

-----------------------------------------------------------------------------
(* Reading a request back                                                  *)

(* t is s where the message r has as many unknown fields more as u has.    *)
Keeps(s, t, r, u) == Becomes(s, t, r, s.request[r].case, Value(s, r), Plus(s, r, u))
RunsTo(p, r, w, q) == RequestRun(p, r, w) = q

LEMMA KeepsBoth ==
  ASSUME NEW s, NEW r \in Request, s.request[r].unknown \in Seq(Bytes),
         NEW u \in Seq(Bytes), NEW v \in Seq(Bytes),
         NEW t, Keeps(s, t, r, u), NEW w, Keeps(t, w, r, v)
  PROVE  Keeps(s, w, r, u \o v)
<1>1. After(s, w, r)
  BY AfterBoth, Zenon DEF Keeps, Becomes
<1>2. t.request[r].case = s.request[r].case /\ Value(t, r) = Value(s, r)
  BY Zenon DEF Keeps, Becomes, Has
<1>3. w.request[r].case = s.request[r].case /\ Value(w, r) = Value(s, r)
  BY <1>2, Zenon DEF Keeps, Becomes, Has
<1>4. w.request[r].unknown = (s.request[r].unknown \o u) \o v
  BY Zenon DEF Keeps, Becomes, Has, Plus
<1>5. w.request[r].unknown = s.request[r].unknown \o (u \o v)
  BY <1>4, Associates, Zenon
<1> QED
  BY <1>1, <1>3, <1>5, Zenon DEF Keeps, Becomes, Has, Plus

LEMMA UnknownIsBytes ==
  ASSUME NEW s, Sound(s), NEW r \in Request
  PROVE  s.request[r].unknown \in Seq(Bytes) /\ Plain(s.request[r].unknown, RequestTags)
  BY Zenon DEF Sound, IsMemory, IsRequest, Plain

LEMMA KeepsNothing ==
  ASSUME NEW s, Sound(s), NEW r \in Request
  PROVE  Keeps(s, s, r, <<>>)
<1>1. Plus(s, r, <<>>) = s.request[r].unknown
  BY UnknownIsBytes, AppendNothing, Zenon DEF Plus
<1> QED
  BY <1>1, AfterNothing, Zenon DEF Keeps, Becomes, Has

LEMMA RequestPlain ==
  ASSUME NEW u, Plain(u, RequestTags), NEW s, Sound(s), NEW r \in Request, s.request[r].live
  PROVE  \E t : RunsTo(Going(s), r, u, Going(t)) /\ Keeps(s, t, r, u)
<1> DEFINE S == {l \in Nat : \A v \in Seq(Bytes) : \A x :
                   Len(v) = l /\ Plain(v, RequestTags) /\ Sound(x) /\ x.request[r].live
                     => \E t : RunsTo(Going(x), r, v, Going(t)) /\ Keeps(x, t, r, v)}
<1>1. ASSUME NEW l \in Nat, \A m \in Nat : m < l => m \in S
      PROVE  l \in S
  <2> SUFFICES ASSUME NEW v \in Seq(Bytes), NEW x,
                      Len(v) = l, Plain(v, RequestTags), Sound(x), x.request[r].live
               PROVE  \E t : RunsTo(Going(x), r, v, Going(t)) /\ Keeps(x, t, r, v)
    OBVIOUS
  <2>1. CASE v = <<>>
    BY <2>1, RequestRunOfNothing, KeepsNothing, Zenon DEF RunsTo
  <2>2. CASE v # <<>>
    <3>1. IsWire(v)
      BY <2>2 DEF IsWire
    <3>2. /\ ~IsCut(FirstField(v)) /\ FirstField(v).tag \notin RequestTags
          /\ Plain(Beyond(v), RequestTags)
      BY <3>1, PlainFirst, Zenon
    <3>3. PICK f, y, m : f = FirstField(v) /\ y = Beyond(v) /\ m = Len(y)
      OBVIOUS
    <3>4. f \in WellFormed /\ f.raw \in Seq(Bytes)
      BY <3>1, <3>2, <3>3, FirstIsField, WellFormedParts, Zenon
    <3>5. y \in Seq(Bytes) /\ m \in Nat /\ m < l
      BY <3>1, <3>2, <3>3, BeyondFirst, WireBytes
    <3>6. v = f.raw \o y
      BY <3>1, <3>2, <3>3, BeyondFirst, Zenon
    <3>7. PICK z : z = WithUnknown(x, r, Plus(x, r, f.raw))
      OBVIOUS
    <3>8. ParseField(Going(x), r, f) = Going(z)
      <4>1. IsGoing(Going(x), x)
        BY Zenon DEF IsGoing
      <4>2. TurnsTo(Going(x), r, f, Going(WithUnknown(x, r, Plus(x, r, f.raw))))
        BY <3>2, <3>3, <4>1, RequestTurnIs, Zenon
      <4> QED
        BY <3>7, <4>2, Zenon DEF TurnsTo
    <3>9. Keeps(x, z, r, f.raw)
      <4>1. Plain(f.raw, RequestTags)
        BY <3>2, <3>3, <3>4, PlainField, Zenon
      <4> QED
        BY <3>7, <4>1, UnknownAppended, Zenon DEF Keeps
    <3>10. Sound(z) /\ z.request[r].live
      BY <3>9, Zenon DEF Keeps, Becomes, After
    <3>11. PICK t : RunsTo(Going(z), r, y, Going(t)) /\ Keeps(z, t, r, y)
      <4>1. m \in S
        BY <1>1, <3>5
      <4>2. Plain(y, RequestTags)
        BY <3>2, <3>3, Zenon
      <4> QED
        BY <3>3, <3>5, <3>10, <4>1, <4>2
    <3>12. Keeps(x, t, r, v)
      BY <3>4, <3>5, <3>6, <3>9, <3>11, KeepsBoth, UnknownIsBytes, Zenon
    <3>13. RunsTo(Going(x), r, v, Going(t))
      <4>1. RequestRun(Going(x), r, v) = RequestRun(ParseField(Going(x), r, f), r, y)
        BY <3>1, <3>2, <3>3, RequestRunStep, Zenon
      <4> QED
        BY <3>8, <3>11, <4>1, Zenon DEF RunsTo
    <3> QED
      BY <3>12, <3>13, Zenon
  <2> QED
    BY <2>1, <2>2
<1>2. u \in Seq(Bytes)
  BY Zenon DEF Plain
<1>3. Len(u) \in S
  <2> HIDE DEF S
  <2>1. Nat \subseteq S
    BY <1>1, StrongInduction, Zenon
  <2> QED
    BY <1>2, <2>1, WireBytes
<1> QED
  BY <1>2, <1>3

(* What is written of the oneof of a message with this case and object.    *)
Encoded(case, x) ==
  IF case = "kInfo" THEN DelimitedField(1, FileInfoSerialize(x))
  ELSE IF case = "kChunkData" THEN DelimitedField(2, x.bytes) ELSE <<>>

Fitting(case, x) == case = "DATA_NOT_SET" \/ Fits(case, x)
Legible(case, x) == case = "kInfo" => IsUtf8(x.name)

(* A oneof that is read back is merged into what was there.                *)
OneofRead(s, r, case, x, v, t) ==
  /\ Becomes(s, t, r, MergedCase(s, r, case), MergedValue(s, r, case, x), s.request[r].unknown)
  /\ RequestRun(Going(s), r, Encoded(case, x) \o v) = RequestRun(Going(t), r, v)

LEMMA InfoFieldRead ==
  ASSUME NEW s, Sound(s), NEW r \in Request, s.request[r].live,
         NEW x, IsInfo(x), IsUtf8(x.name), NEW v \in Seq(Bytes)
  PROVE  \E t : OneofRead(s, r, "kInfo", x, v, t)
<1>1. PICK b : b = FileInfoSerialize(x) /\ b \in Seq(Bytes)
  BY InfoLength, Zenon
<1>2. PICK f \in WellFormed : f = [tag |-> Tag(1, 2), value |-> b, raw |-> DelimitedField(1, b)]
  <2>1. 1 \in 1 .. 3
    OBVIOUS
  <2> QED
    BY <1>1, <2>1, DelimitedFieldRead, Zenon
<1>3. f.tag = Tag(1, 2) /\ f.value = b /\ f.raw = DelimitedField(1, b) /\ ~IsCut(f)
  BY <1>2, WellFormedParts
<1>4. PICK parsed, y, q : /\ parsed = FileInfoInternalParse(InfoOf(s, r), b)
                          /\ y = FileInfoMergeFrom(InfoOf(s, r), x)
                          /\ q = ParseInfo(s, r, b)
  OBVIOUS
<1>5. parsed.ok = TRUE /\ parsed.info = y
  <2>1. parsed = Unfailed(y)
    BY <1>1, <1>4, InfoOfIsInfo, InfoReadBack, Zenon
  <2> QED
    BY <2>1 DEF Unfailed
<1>6. Leads(s, q, r, parsed.ok, "kInfo", parsed.info, s.request[r].unknown)
  BY <1>1, <1>4, InfoFieldParsed, Zenon
<1>7. PICK t : t = q.memory
  OBVIOUS
<1>8. q = Going(t) /\ Becomes(s, t, r, "kInfo", y, s.request[r].unknown)
  BY <1>5, <1>6, <1>7, Zenon DEF Leads, Going
<1>9. ParseField(Going(s), r, f) = q
  <2>1. IsGoing(Going(s), s)
    BY Zenon DEF IsGoing
  <2>2. TurnsTo(Going(s), r, f, ParseInfo(s, r, f.value))
    BY <1>3, <2>1, RequestTurnIs, Zenon
  <2> QED
    BY <1>3, <1>4, <2>2, Zenon DEF TurnsTo
<1>10. RequestRun(Going(s), r, f.raw \o v) = RequestRun(ParseField(Going(s), r, f), r, v)
  BY RequestRunThen, Zenon
<1>11. Encoded("kInfo", x) = f.raw
  BY <1>1, <1>3, Zenon DEF Encoded
<1>12. MergedCase(s, r, "kInfo") = "kInfo" /\ MergedValue(s, r, "kInfo", x) = y
  <2>1. "kInfo" # "DATA_NOT_SET"
    OBVIOUS
  <2> QED
    BY <1>4, <2>1, Zenon DEF MergedCase, MergedValue
<1> QED
  BY <1>8, <1>9, <1>10, <1>11, <1>12, Zenon DEF OneofRead

LEMMA ChunkFieldRead ==
  ASSUME NEW s, Sound(s), NEW r \in Request, s.request[r].live,
         NEW x, IsString(x), NEW v \in Seq(Bytes)
  PROVE  \E t : OneofRead(s, r, "kChunkData", x, v, t)
<1>1. PICK b : b = x.bytes /\ b \in Seq(Bytes) /\ x = Text(b)
  BY Zenon DEF IsString, Text
<1>2. PICK f \in WellFormed : f = [tag |-> Tag(2, 2), value |-> b, raw |-> DelimitedField(2, b)]
  <2>1. 2 \in 1 .. 3
    OBVIOUS
  <2> QED
    BY <1>1, <2>1, DelimitedFieldRead, Zenon
<1>3. f.tag = Tag(2, 2) /\ f.value = b /\ f.raw = DelimitedField(2, b) /\ ~IsCut(f)
  BY <1>2, WellFormedParts
<1>4. PICK t : t = set_chunk_data(s, r, b)
  OBVIOUS
<1>5. Becomes(s, t, r, "kChunkData", x, s.request[r].unknown)
  BY <1>1, <1>4, ChunkDataSet, Zenon
<1>6. ParseField(Going(s), r, f) = Going(t)
  <2>1. IsGoing(Going(s), s)
    BY Zenon DEF IsGoing
  <2>2. TurnsTo(Going(s), r, f, Going(set_chunk_data(s, r, f.value)))
    BY <1>3, <2>1, RequestTurnIs, Zenon
  <2> QED
    BY <1>3, <1>4, <2>2, Zenon DEF TurnsTo
<1>7. RequestRun(Going(s), r, f.raw \o v) = RequestRun(ParseField(Going(s), r, f), r, v)
  BY RequestRunThen, Zenon
<1>8. "kChunkData" # "kInfo" /\ "kChunkData" # "DATA_NOT_SET"
  OBVIOUS
<1>9. Encoded("kChunkData", x) = f.raw
  BY <1>1, <1>3, <1>8, Zenon DEF Encoded
<1>10. MergedCase(s, r, "kChunkData") = "kChunkData" /\ MergedValue(s, r, "kChunkData", x) = x
  BY <1>8, Zenon DEF MergedCase, MergedValue
<1> QED
  BY <1>5, <1>6, <1>7, <1>9, <1>10, Zenon DEF OneofRead

LEMMA OneofIsRead ==
  ASSUME NEW s, Sound(s), NEW r \in Request, s.request[r].live,
         NEW case, NEW x, Fitting(case, x), Legible(case, x), NEW v \in Seq(Bytes)
  PROVE  \E t : OneofRead(s, r, case, x, v, t)
<1>1. CASE case = "DATA_NOT_SET"
  <2>1. "DATA_NOT_SET" # "kInfo" /\ "DATA_NOT_SET" # "kChunkData"
    OBVIOUS
  <2>2. Encoded(case, x) \o v = v
    BY <1>1, <2>1, AppendNothing, Zenon DEF Encoded
  <2>3. MergedCase(s, r, case) = s.request[r].case /\ MergedValue(s, r, case, x) = Value(s, r)
    BY <1>1, <2>1, Zenon DEF MergedCase, MergedValue
  <2> QED
    BY <2>2, <2>3, AfterNothing, Zenon DEF OneofRead, Becomes, Has
<1>2. CASE case = "kInfo" /\ IsInfo(x)
  BY <1>2, InfoFieldRead, Zenon DEF Legible
<1>3. CASE case = "kChunkData" /\ IsString(x)
  BY <1>3, ChunkFieldRead, Zenon
<1> QED
  BY <1>1, <1>2, <1>3, Zenon DEF Fitting, Fits

(* Parsing what a message was written as is merging that message.          *)
ParsedAs(s, r, w, t) == InternalParse(s, r, w) = Going(t)

LEMMA ParsingAbsorbs ==
  ASSUME NEW s, Sound(s), NEW r \in Request, s.request[r].live,
         NEW case, NEW x, Fitting(case, x), Legible(case, x),
         NEW u, Plain(u, RequestTags)
  PROVE  \E t : ParsedAs(s, r, Encoded(case, x) \o u, t) /\ Absorbs(s, t, r, case, x, u)
<1>1. u \in Seq(Bytes)
  BY Zenon DEF Plain
<1>2. PICK t : OneofRead(s, r, case, x, u, t)
  BY <1>1, OneofIsRead, Zenon
<1>3. Becomes(s, t, r, MergedCase(s, r, case), MergedValue(s, r, case, x), s.request[r].unknown)
  BY <1>2, Zenon DEF OneofRead
<1>4. Sound(t) /\ t.request[r].live
  BY <1>3, Zenon DEF Becomes, After
<1>5. PICK w : RunsTo(Going(t), r, u, Going(w)) /\ Keeps(t, w, r, u)
  BY <1>4, RequestPlain, Zenon
<1>6. ParsedAs(s, r, Encoded(case, x) \o u, w)
  <2>1. InternalParse(s, r, Encoded(case, x) \o u) = RequestRun(Going(s), r, Encoded(case, x) \o u)
    BY RequestParsed, Zenon DEF Going
  <2> QED
    BY <1>2, <1>5, <2>1, Zenon DEF OneofRead, RunsTo, ParsedAs
<1>7. Absorbs(s, w, r, case, x, u)
  <2>1. After(s, w, r)
    BY <1>3, <1>5, AfterBoth, Zenon DEF Becomes, Keeps
  <2>2. /\ t.request[r].case = MergedCase(s, r, case)
        /\ Value(t, r) = MergedValue(s, r, case, x)
        /\ t.request[r].unknown = s.request[r].unknown
    BY <1>3, Zenon DEF Becomes, Has
  <2>3. /\ w.request[r].case = t.request[r].case
        /\ Value(w, r) = Value(t, r)
        /\ w.request[r].unknown = Plus(t, r, u)
    BY <1>5, Zenon DEF Keeps, Becomes, Has
  <2>4. Plus(t, r, u) = Plus(s, r, u)
    BY <2>2, Zenon DEF Plus
  <2> QED
    BY <2>1, <2>2, <2>3, <2>4, Zenon DEF Absorbs, Becomes, Has
<1> QED
  BY <1>6, <1>7, Zenon

-----------------------------------------------------------------------------
(* What a message is written as                                            *)

LEMMA ValueFits ==
  ASSUME NEW s, Sound(s), NEW r \in Request
  PROVE  /\ Fitting(s.request[r].case, Value(s, r))
         /\ IsSet(s.request[r]) => Pointed(s, r) = Value(s, r)
         /\ ~IsSet(s.request[r]) => Value(s, r) = NewFileInfo
<1>1. IsSet(s.request[r]) => Fits(s.request[r].case, s.heap[s.request[r].data])
  BY Zenon DEF Sound, Owned, Points
<1> QED
  BY <1>1, Zenon DEF Fitting, Value, IsSet, Pointed

WrittenAs(s, r, w) ==
  /\ w \in Seq(Bytes) /\ Serialize(s, r) = w \o s.request[r].unknown
  /\ ByteSizeLong(s, r) = Len(s.request[r].unknown) + Len(w)

LEMMA EncodedInfo ==
  ASSUME NEW x, IsInfo(x), NEW w, w = Encoded("kInfo", x)
  PROVE  /\ w \in Seq(Bytes)
         /\ w = <<Tag(1, 2)>> \o Varint(FileInfoByteSizeLong(x)) \o FileInfoSerialize(x)
         /\ Len(w) = 1 + DelimitedSize(FileInfoByteSizeLong(x))
<1>1. PICK b : b = FileInfoSerialize(x) /\ b \in Seq(Bytes) /\ Len(b) = FileInfoByteSizeLong(x)
  BY InfoLength, Zenon
<1>2. w = DelimitedField(1, b) /\ 1 \in 1 .. 3
  BY <1>1 DEF Encoded
<1>3. Len(w) = 1 + DelimitedSize(Len(b))
  BY <1>1, <1>2, DelimitedLength, Zenon
<1>4. w = <<Tag(1, 2)>> \o Varint(Len(b)) \o b
  BY <1>2, Zenon DEF DelimitedField
<1>5. w \in Seq(Bytes)
  <2>1. PICK f \in WellFormed : f = [tag |-> Tag(1, 2), value |-> b, raw |-> DelimitedField(1, b)]
    BY <1>1, <1>2, DelimitedFieldRead, Zenon
  <2>2. f.raw = DelimitedField(1, b) /\ f.raw \in Seq(Bytes)
    BY <2>1, WellFormedParts
  <2> QED
    BY <1>2, <2>2, Zenon
<1> QED
  BY <1>1, <1>3, <1>4, <1>5, Zenon

LEMMA EncodedChunk ==
  ASSUME NEW x, IsString(x), NEW w, w = Encoded("kChunkData", x)
  PROVE  /\ w \in Seq(Bytes) /\ w = DelimitedField(2, x.bytes)
         /\ Len(w) = 1 + DelimitedSize(Len(x.bytes))
<1>1. PICK b : b = x.bytes /\ b \in Seq(Bytes)
  BY Zenon DEF IsString
<1>2. w = DelimitedField(2, b) /\ 2 \in 1 .. 3
  BY <1>1 DEF Encoded
<1>3. Len(w) = 1 + DelimitedSize(Len(b))
  BY <1>1, <1>2, DelimitedLength, Zenon
<1>4. w \in Seq(Bytes)
  <2>1. PICK f \in WellFormed : f = [tag |-> Tag(2, 2), value |-> b, raw |-> DelimitedField(2, b)]
    BY <1>1, <1>2, DelimitedFieldRead, Zenon
  <2>2. f.raw = DelimitedField(2, b) /\ f.raw \in Seq(Bytes)
    BY <2>1, WellFormedParts
  <2> QED
    BY <1>2, <2>2, Zenon
<1> QED
  BY <1>1, <1>2, <1>3, <1>4, Zenon

LEMMA Written ==
  ASSUME NEW s, Sound(s), NEW r \in Request
  PROVE  WrittenAs(s, r, Encoded(s.request[r].case, Value(s, r)))
<1>1. PICK c, x, u, w : /\ c = s.request[r].case /\ x = Value(s, r)
                        /\ u = s.request[r].unknown /\ w = Encoded(c, x)
  OBVIOUS
<1>2. Fitting(c, x) /\ u \in Seq(Bytes)
  BY <1>1, ValueFits, UnknownIsBytes, Zenon
<1>3. data_case(s, r) = c
  BY <1>1, Zenon DEF data_case
<1>4. CASE c = "DATA_NOT_SET"
  <2>1. "DATA_NOT_SET" # "kInfo" /\ "DATA_NOT_SET" # "kChunkData"
    OBVIOUS
  <2>2. w = <<>> /\ w \in Seq(Bytes)
    BY <1>1, <1>4, <2>1 DEF Encoded
  <2>3. Serialize(s, r) = <<>> \o s.request[r].unknown
    BY <1>3, <1>4 DEF Serialize
  <2>4. ByteSizeLong(s, r) = Len(s.request[r].unknown) + 0
    BY <1>3, <1>4 DEF ByteSizeLong
  <2>5. Len(w) = 0
    BY <2>2
  <2> QED
    BY <1>1, <2>2, <2>3, <2>4, <2>5, Zenon DEF WrittenAs
<1>5. CASE c = "kInfo" /\ IsInfo(x)
  <2>1. Pointed(s, r) = x
    <3>1. "kInfo" # "DATA_NOT_SET"
      OBVIOUS
    <3> QED
      BY <1>1, <1>5, <3>1, ValueFits, Zenon DEF IsSet
  <2>2. /\ w \in Seq(Bytes)
        /\ w = <<Tag(1, 2)>> \o Varint(FileInfoByteSizeLong(x)) \o FileInfoSerialize(x)
        /\ Len(w) = 1 + DelimitedSize(FileInfoByteSizeLong(x))
    BY <1>1, <1>5, EncodedInfo, Zenon
  <2>3. Serialize(s, r) = (<<Tag(1, 2)>> \o Varint(FileInfoByteSizeLong(x)) \o FileInfoSerialize(x))
                            \o s.request[r].unknown
    BY <1>3, <1>5, <2>1 DEF Serialize
  <2>4. ByteSizeLong(s, r) = Len(s.request[r].unknown) + (1 + DelimitedSize(FileInfoByteSizeLong(x)))
    BY <1>3, <1>5, <2>1 DEF ByteSizeLong
  <2> QED
    BY <1>1, <2>2, <2>3, <2>4, Zenon DEF WrittenAs
<1>6. CASE c = "kChunkData" /\ IsString(x)
  <2>1. Pointed(s, r) = x
    <3>1. "kChunkData" # "DATA_NOT_SET"
      OBVIOUS
    <3> QED
      BY <1>1, <1>6, <3>1, ValueFits, Zenon DEF IsSet
  <2>2. /\ w \in Seq(Bytes) /\ w = DelimitedField(2, x.bytes)
        /\ Len(w) = 1 + DelimitedSize(Len(x.bytes))
    BY <1>1, <1>6, EncodedChunk, Zenon
  <2>3. Serialize(s, r) = DelimitedField(2, x.bytes) \o s.request[r].unknown
    BY <1>3, <1>6, <2>1 DEF Serialize
  <2>4. ByteSizeLong(s, r) = Len(s.request[r].unknown) + (1 + DelimitedSize(Len(x.bytes)))
    BY <1>3, <1>6, <2>1 DEF ByteSizeLong
  <2> QED
    BY <1>1, <2>2, <2>3, <2>4, Zenon DEF WrittenAs
<1> QED
  BY <1>2, <1>4, <1>5, <1>6, Zenon DEF Fitting, Fits

(* The length of what is written is the size that was announced.           *)
LEMMA SizeAnnounced ==
  ASSUME NEW s, Sound(s), NEW r \in Request
  PROVE  Len(Serialize(s, r)) = ByteSizeLong(s, r)
<1>1. PICK w : WrittenAs(s, r, w)
  BY Written, Zenon
<1>2. PICK u : u = s.request[r].unknown /\ u \in Seq(Bytes)
  BY UnknownIsBytes, Zenon
<1>3. w \in Seq(Bytes) /\ Serialize(s, r) = w \o u /\ ByteSizeLong(s, r) = Len(u) + Len(w)
  BY <1>1, <1>2, Zenon DEF WrittenAs
<1>4. Len(w \o u) = Len(u) + Len(w)
  BY <1>2, <1>3
<1> QED
  BY <1>3, <1>4, Zenon

(* A message that is sent is merged into the one that parses it.           *)
LEMMA SentIsMerged ==
  ASSUME NEW s, Sound(s), NEW r \in Request, s.request[r].live,
         NEW m, Sound(m), NEW from \in Request,
         Legible(m.request[from].case, Value(m, from))
  PROVE  \E t : /\ ParsedAs(s, r, Serialize(m, from), t)
                /\ Absorbs(s, t, r, m.request[from].case, Value(m, from), m.request[from].unknown)
<1>1. PICK c, x, u, w : /\ c = m.request[from].case /\ x = Value(m, from)
                        /\ u = m.request[from].unknown /\ w = Serialize(m, from)
  OBVIOUS
<1>2. Fitting(c, x) /\ Legible(c, x) /\ Plain(u, RequestTags)
  BY <1>1, ValueFits, UnknownIsBytes, Zenon
<1>3. w = Encoded(c, x) \o u
  BY <1>1, Written, Zenon DEF WrittenAs
<1>4. PICK t : ParsedAs(s, r, Encoded(c, x) \o u, t) /\ Absorbs(s, t, r, c, x, u)
  BY <1>2, ParsingAbsorbs, Zenon
<1> QED
  BY <1>1, <1>3, <1>4, Zenon

LEMMA MergedIntoNew ==
  ASSUME NEW x, IsInfo(x)
  PROVE  FileInfoMergeFrom(NewFileInfo, x) = x
<1>1. PICK n, z, u : /\ n \in Seq(Bytes) /\ z \in Nat /\ Plain(u, InfoTags)
                     /\ x = Info(n, z, u)
  BY InfoParts, Zenon
<1>2. PICK e, o : e = <<>> /\ o = 0
  OBVIOUS
<1>3. NewFileInfo = Info(e, o, e)
  BY <1>2, Zenon DEF NewFileInfo, Info
<1>4. FileInfoMergeFrom(Info(e, o, e), Info(n, z, u)) = Info(NameOf(e, n), SizeOf(o, z), e \o u)
  BY InfosMerged
<1>5. NameOf(e, n) = n /\ SizeOf(o, z) = z
  BY <1>2, Zenon DEF NameOf, SizeOf
<1>6. e \o u = u
  BY <1>1, <1>2, AppendNothing, Zenon DEF Plain
<1> QED
  BY <1>1, <1>3, <1>4, <1>5, <1>6, Zenon

(* A message that was cleared is what it absorbs.                          *)
LEMMA AbsorbedWhole ==
  ASSUME NEW s, Sound(s), NEW r \in Request, NEW q, Emptied(s, q, r, <<>>),
         NEW case, NEW x, Fitting(case, x), case = "DATA_NOT_SET" => x = NewFileInfo,
         NEW u \in Seq(Bytes), NEW t, Absorbs(q, t, r, case, x, u)
  PROVE  Becomes(s, t, r, case, x, u)
<1>1. After(s, t, r)
  BY AfterBoth, Zenon DEF Absorbs, Becomes, Emptied
<1>2. q.request[r].case = "DATA_NOT_SET" /\ Value(q, r) = NewFileInfo /\ q.request[r].unknown = <<>>
  <2>1. Becomes(s, q, r, "DATA_NOT_SET", NewFileInfo, <<>>)
    BY EmptiedHas, Zenon
  <2> QED
    BY <2>1, Zenon DEF Becomes, Has
<1>3. Plus(q, r, u) = u
  BY <1>2, AppendNothing, Zenon DEF Plus
<1>4. MergedCase(q, r, case) = case
  BY <1>2, Zenon DEF MergedCase
<1>5. MergedValue(q, r, case, x) = x
  <2>1. "DATA_NOT_SET" # "kInfo" /\ "DATA_NOT_SET" # "kChunkData" /\ "kInfo" # "kChunkData"
    OBVIOUS
  <2>2. InfoOf(q, r) = NewFileInfo
    BY <1>2, Zenon DEF InfoOf
  <2>3. CASE case = "DATA_NOT_SET"
    BY <1>2, <2>1, <2>3, Zenon DEF MergedValue
  <2>4. CASE case = "kInfo" /\ IsInfo(x)
    BY <2>2, <2>4, MergedIntoNew, Zenon DEF MergedValue
  <2>5. CASE case = "kChunkData"
    BY <2>1, <2>5, Zenon DEF MergedValue
  <2> QED
    BY <2>3, <2>4, <2>5, Zenon DEF Fitting, Fits
<1> QED
  BY <1>1, <1>3, <1>4, <1>5, Zenon DEF Absorbs, Becomes, Has

(* What gRPC hands over is what was sent.                                  *)
LEMMA SentIsReceived ==
  ASSUME NEW s, Sound(s), NEW r \in Request, s.request[r].live,
         NEW case, NEW x, Fitting(case, x), Legible(case, x),
         case = "DATA_NOT_SET" => x = NewFileInfo,
         NEW u, Plain(u, RequestTags)
  PROVE  \E t : /\ ParseFrom(s, r, Encoded(case, x) \o u) = Going(t)
                /\ Becomes(s, t, r, case, x, u)
<1>1. PICK q, w : q = Clear(s, r) /\ w = Encoded(case, x) \o u
  OBVIOUS
<1>2. Emptied(s, q, r, <<>>)
  BY <1>1, Cleared, Zenon
<1>3. Sound(q) /\ q.request[r].live
  BY <1>2, Zenon DEF Emptied, After
<1>4. PICK t : ParsedAs(q, r, w, t) /\ Absorbs(q, t, r, case, x, u)
  BY <1>1, <1>3, ParsingAbsorbs, Zenon
<1>5. u \in Seq(Bytes)
  BY Zenon DEF Plain
<1>6. Becomes(s, t, r, case, x, u)
  BY <1>2, <1>4, <1>5, AbsorbedWhole, Zenon
<1>7. ParseFrom(s, r, w) = Going(t)
  BY <1>1, <1>4, Zenon DEF ParseFrom, ParsedAs
<1> QED
  BY <1>1, <1>6, <1>7, Zenon

-----------------------------------------------------------------------------
(* A name that is not UTF-8 is rejected                                    *)

Failed(p) == p = [ok |-> p.ok, info |-> p.info] /\ p.ok = FALSE

LEMMA FailedOn ==
  ASSUME NEW p, Failed(p), NEW f
  PROVE  Failed(FileInfoParseField(p, f))
  BY InfoTurnIs, Zenon DEF Failed

LEMMA InfoStaysFailed ==
  ASSUME NEW p, Failed(p), NEW w \in Seq(Bytes)
  PROVE  Failed(InfoRun(p, w))
<1> DEFINE S == {n \in Nat : \A v \in Seq(Bytes) : \A q :
                   Len(v) = n /\ Failed(q) => Failed(InfoRun(q, v))}
<1>1. ASSUME NEW n \in Nat, \A m \in Nat : m < n => m \in S
      PROVE  n \in S
  <2> SUFFICES ASSUME NEW v \in Seq(Bytes), NEW q, Len(v) = n, Failed(q)
               PROVE  Failed(InfoRun(q, v))
    OBVIOUS
  <2>1. CASE v = <<>>
    BY <2>1, InfoRunOfNothing, Zenon
  <2>2. CASE v # <<>> /\ IsCut(FirstField(v))
    <3>1. IsWire(v)
      BY <2>2 DEF IsWire
    <3> QED
      BY <2>2, <3>1, InfoRunCut, FailedOn, Zenon
  <2>3. CASE v # <<>> /\ ~IsCut(FirstField(v))
    <3>1. IsWire(v)
      BY <2>3 DEF IsWire
    <3>2. PICK f, y, m : f = FirstField(v) /\ y = Beyond(v) /\ m = Len(y)
      OBVIOUS
    <3>3. y \in Seq(Bytes) /\ m \in Nat /\ m < n
      BY <2>3, <3>1, <3>2, BeyondFirst, WireBytes
    <3>4. Failed(FileInfoParseField(q, f))
      BY FailedOn, Zenon
    <3>5. Failed(InfoRun(FileInfoParseField(q, f), y))
      <4>1. m \in S
        BY <1>1, <3>3
      <4> QED
        BY <3>2, <3>3, <3>4, <4>1
    <3> QED
      BY <2>3, <3>1, <3>2, <3>5, InfoRunStep, Zenon
  <2> QED
    BY <2>1, <2>2, <2>3
<1>2. Len(w) \in S
  <2> HIDE DEF S
  <2>1. Nat \subseteq S
    BY <1>1, StrongInduction, Zenon
  <2> QED
    BY <2>1, WireBytes
<1> QED
  BY <1>2

LEMMA InfoRejected ==
  ASSUME NEW info, IsInfo(info), NEW x, IsInfo(x), ~IsUtf8(x.name)
  PROVE  Failed(FileInfoInternalParse(info, FileInfoSerialize(x)))
<1>1. PICK m, y, v : /\ m \in Seq(Bytes) /\ y \in Nat /\ Plain(v, InfoTags)
                     /\ info = Info(m, y, v)
  BY InfoParts, Zenon
<1>2. PICK n, z, u : /\ n \in Seq(Bytes) /\ z \in Nat /\ Plain(u, InfoTags)
                     /\ x = Info(n, z, u)
  BY InfoParts, Zenon
<1>3. HasParts(x, n, z, u) /\ u \in Seq(Bytes)
  BY <1>2, InfoHasParts, Zenon DEF Plain
<1>4. ~IsUtf8(n) /\ n # <<>>
  <2>1. ~IsUtf8(n)
    BY <1>3, Zenon DEF HasParts
  <2>2. IsUtf8(<<>>)
    BY DEF IsUtf8
  <2> QED
    BY <2>1, <2>2, Zenon
<1>5. n \in Seq(Bytes) /\ z \in Nat
  BY <1>2, Zenon
<1>6. PICK w, b, p : /\ w = FileInfoSerialize(x) /\ b = SizeField(z) \o u /\ p = Unfailed(info)
  OBVIOUS
<1>7. w = DelimitedField(1, n) \o b /\ b \in Seq(Bytes)
  <2>1. IsWritten(x, n, z, u) /\ SizeField(z) \in Seq(Bytes)
    BY <1>3, <1>5, InfoWritten, Zenon
  <2>2. NameField(n) = DelimitedField(1, n)
    BY <1>4, Zenon DEF NameField
  <2>3. SizeField(z) \o u \in Seq(Bytes)
    BY <1>3, <2>1, ConcatProperties
  <2> QED
    BY <1>6, <2>1, <2>2, <2>3, Zenon DEF IsWritten
<1>8. PICK f \in WellFormed : f = [tag |-> Tag(1, 2), value |-> n, raw |-> DelimitedField(1, n)]
  <2>1. 1 \in 1 .. 3
    OBVIOUS
  <2> QED
    BY <1>5, <2>1, DelimitedFieldRead, Zenon
<1>9. f.tag = Tag(1, 2) /\ f.value = n /\ f.raw = DelimitedField(1, n) /\ ~IsCut(f)
  BY <1>8, WellFormedParts
<1>10. IsAt(p, m, y, v)
  BY <1>1, <1>6, Zenon DEF IsAt
<1>11. PICK q : q = FileInfoParseField(p, f)
  OBVIOUS
<1>12. IsParsedName(q, n, y, v)
  BY <1>9, <1>10, <1>11, InfoTurn, Zenon
<1>13. Failed(q)
  <2>1. PICK k, i : k = IsUtf8(n) /\ i = Info(n, y, v)
    OBVIOUS
  <2>2. q = [ok |-> k, info |-> i]
    BY <1>12, <2>1, Zenon DEF IsParsedName, ParsedName
  <2>3. q.ok = k /\ q.info = i
    BY <2>2
  <2>4. k = FALSE
    BY <1>4, <2>1 DEF IsUtf8
  <2> QED
    BY <2>2, <2>3, <2>4, Zenon DEF Failed
<1>14. InfoRun(p, f.raw \o b) = InfoRun(q, b)
  BY <1>7, <1>11, InfoRunThen, Zenon
<1>15. Failed(InfoRun(p, w))
  BY <1>7, <1>9, <1>13, <1>14, InfoStaysFailed, Zenon
<1>16. FileInfoInternalParse(info, w) = InfoRun(p, w)
  BY <1>6, InfoParsed, Zenon DEF Unfailed
<1> QED
  BY <1>6, <1>15, <1>16, Zenon

Stopped(p) == p = [ok |-> p.ok, memory |-> p.memory] /\ p.ok = FALSE

LEMMA StoppedOn ==
  ASSUME NEW p, Stopped(p), NEW r, NEW f
  PROVE  Stopped(ParseField(p, r, f))
  BY RequestTurn, Zenon DEF Stopped

LEMMA RequestStaysStopped ==
  ASSUME NEW p, Stopped(p), NEW r, NEW w \in Seq(Bytes)
  PROVE  Stopped(RequestRun(p, r, w))
<1> DEFINE S == {n \in Nat : \A v \in Seq(Bytes) : \A q :
                   Len(v) = n /\ Stopped(q) => Stopped(RequestRun(q, r, v))}
<1>1. ASSUME NEW n \in Nat, \A m \in Nat : m < n => m \in S
      PROVE  n \in S
  <2> SUFFICES ASSUME NEW v \in Seq(Bytes), NEW q, Len(v) = n, Stopped(q)
               PROVE  Stopped(RequestRun(q, r, v))
    OBVIOUS
  <2>1. CASE v = <<>>
    BY <2>1, RequestRunOfNothing, Zenon
  <2>2. CASE v # <<>> /\ IsCut(FirstField(v))
    <3>1. IsWire(v)
      BY <2>2 DEF IsWire
    <3> QED
      BY <2>2, <3>1, RequestRunCut, StoppedOn, Zenon
  <2>3. CASE v # <<>> /\ ~IsCut(FirstField(v))
    <3>1. IsWire(v)
      BY <2>3 DEF IsWire
    <3>2. PICK f, y, m : f = FirstField(v) /\ y = Beyond(v) /\ m = Len(y)
      OBVIOUS
    <3>3. y \in Seq(Bytes) /\ m \in Nat /\ m < n
      BY <2>3, <3>1, <3>2, BeyondFirst, WireBytes
    <3>4. Stopped(ParseField(q, r, f))
      BY StoppedOn, Zenon
    <3>5. Stopped(RequestRun(ParseField(q, r, f), r, y))
      <4>1. m \in S
        BY <1>1, <3>3
      <4> QED
        BY <3>2, <3>3, <3>4, <4>1
    <3> QED
      BY <2>3, <3>1, <3>2, <3>5, RequestRunStep, Zenon
  <2> QED
    BY <2>1, <2>2, <2>3
<1>2. Len(w) \in S
  <2> HIDE DEF S
  <2>1. Nat \subseteq S
    BY <1>1, StrongInduction, Zenon
  <2> QED
    BY <2>1, WireBytes
<1> QED
  BY <1>2

LEMMA RequestRejected ==
  ASSUME NEW s, Sound(s), NEW r \in Request, s.request[r].live,
         NEW x, IsInfo(x), ~IsUtf8(x.name), NEW v \in Seq(Bytes)
  PROVE  Stopped(InternalParse(s, r, Encoded("kInfo", x) \o v))
<1>1. PICK b : b = FileInfoSerialize(x) /\ b \in Seq(Bytes)
  BY InfoLength, Zenon
<1>2. PICK f \in WellFormed : f = [tag |-> Tag(1, 2), value |-> b, raw |-> DelimitedField(1, b)]
  <2>1. 1 \in 1 .. 3
    OBVIOUS
  <2> QED
    BY <1>1, <2>1, DelimitedFieldRead, Zenon
<1>3. f.tag = Tag(1, 2) /\ f.value = b /\ f.raw = DelimitedField(1, b) /\ ~IsCut(f)
  BY <1>2, WellFormedParts
<1>4. PICK parsed, q : /\ parsed = FileInfoInternalParse(InfoOf(s, r), b)
                       /\ q = ParseInfo(s, r, b)
  OBVIOUS
<1>5. parsed.ok = FALSE
  BY <1>1, <1>4, InfoOfIsInfo, InfoRejected, Zenon DEF Failed
<1>6. Leads(s, q, r, parsed.ok, "kInfo", parsed.info, s.request[r].unknown)
  BY <1>1, <1>4, InfoFieldParsed, Zenon
<1>7. Stopped(q)
  <2>1. q = [ok |-> parsed.ok, memory |-> q.memory] /\ q.ok = parsed.ok
    BY <1>6, Zenon DEF Leads
  <2> QED
    BY <1>5, <2>1, Zenon DEF Stopped
<1>8. ParseField(Going(s), r, f) = q
  <2>1. IsGoing(Going(s), s)
    BY Zenon DEF IsGoing
  <2>2. TurnsTo(Going(s), r, f, ParseInfo(s, r, f.value))
    BY <1>3, <2>1, RequestTurnIs, Zenon
  <2> QED
    BY <1>3, <1>4, <2>2, Zenon DEF TurnsTo
<1>9. RequestRun(Going(s), r, f.raw \o v) = RequestRun(ParseField(Going(s), r, f), r, v)
  BY RequestRunThen, Zenon
<1>10. Encoded("kInfo", x) = f.raw
  BY <1>1, <1>3, Zenon DEF Encoded
<1>11. InternalParse(s, r, Encoded("kInfo", x) \o v) = RequestRun(Going(s), r, f.raw \o v)
  BY <1>10, RequestParsed, Zenon DEF Going
<1> QED
  BY <1>7, <1>8, <1>9, <1>11, RequestStaysStopped, Zenon

-----------------------------------------------------------------------------
(* The calls                                                               *)

(* What a call on the messages R does to memory.                           *)
Effect(R) == Sound(memory') /\ Apart(memory, memory', R) /\ called' = R

LEMMA CallEffect ==
  ASSUME NEW r \in Request, NEW t, After(memory, t, r), Call({r}, t)
  PROVE  Effect({r})
  BY Zenon DEF After, Call, Effect

LEMMA LiveRequest ==
  ASSUME NEW r \in Live
  PROVE  r \in Request /\ memory.request[r].live
  BY DEF Live

LEMMA DeadRequest ==
  ASSUME NEW r \in Request, r \notin Live
  PROVE  ~memory.request[r].live
  BY DEF Live

LEMMA ConstructEffect ==
  ASSUME Sound(memory), NEW r \in Request, Construct(r)
  PROVE  Effect({r})
<1>1. ~memory.request[r].live
  BY DeadRequest, Zenon DEF Construct
<1>2. After(memory, WithRequest(memory, r, NewRequest), r)
  BY <1>1, Constructed, Zenon
<1>3. Call({r}, WithRequest(memory, r, NewRequest))
  BY Zenon DEF Construct, WithRequest
<1> QED
  BY <1>2, <1>3, CallEffect, Zenon

LEMMA CopyConstructEffect ==
  ASSUME Sound(memory), NEW r \in Request, CopyConstruct(r)
  PROVE  Effect({r})
<1>1. PICK from \in Live : r \notin Live /\ Call({r}, CopyConstructed(memory, r, from))
  BY Zenon DEF CopyConstruct
<1>2. ~memory.request[r].live /\ from \in Request
  BY <1>1, DeadRequest, LiveRequest, Zenon
<1>3. After(memory, CopyConstructed(memory, r, from), r)
  BY <1>2, ConstructedFrom, Zenon
<1> QED
  BY <1>1, <1>3, CallEffect, Zenon

LEMMA DestroyEffect ==
  ASSUME Sound(memory), NEW r \in Request, Destroy(r)
  PROVE  Effect({r})
<1>1. Sound(SharedDtor(memory, r)) /\ Apart(memory, SharedDtor(memory, r), {r})
  BY Destroyed, Zenon
<1> QED
  BY <1>1, Zenon DEF Destroy, Call, Effect

LEMMA MutateInfoEffect ==
  ASSUME Sound(memory), NEW r \in Request, MutateInfo(r)
  PROVE  Effect({r})
<1>1. PICK s : s = mutable_info(memory, r)
  OBVIOUS
<1>2. PICK n \in Texts, z \in Sizes :
         /\ r \in Live
         /\ \/ Call({r}, Assigned(s, r, WithName(Pointed(s, r), n)))
            \/ Call({r}, Assigned(s, r, WithSize(Pointed(s, r), z)))
  BY <1>1, Zenon DEF MutateInfo, WithName, WithSize
<1>3. n \in Seq(Bytes) /\ z \in Nat
  BY MessageAssumption DEF Bytes
<1>4. IsInfo(InfoOf(memory, r))
  BY InfoOfIsInfo, Zenon
<1>5. Becomes(memory, s, r, "kInfo", InfoOf(memory, r), memory.request[r].unknown)
  BY <1>1, <1>2, LiveRequest, MutableInfo, Zenon
<1>6. Sound(s) /\ s.request[r].case = "kInfo" /\ IsSet(s.request[r])
  <2>1. "kInfo" # "DATA_NOT_SET"
    OBVIOUS
  <2> QED
    BY <1>5, <2>1, Zenon DEF Becomes, Has, After, IsSet
<1>7. IsInfo(Pointed(s, r))
  BY <1>6, PointedIsInfo, Zenon
<1>8. PICK m, y, u : /\ m \in Seq(Bytes) /\ y \in Nat /\ Plain(u, InfoTags)
                    /\ Pointed(s, r) = Info(m, y, u)
  BY <1>7, InfoParts, Zenon
<1>9. IsInfoOf(Pointed(s, r), m, y, u) /\ Plain(u, InfoTags)
  BY <1>8, Zenon DEF IsInfoOf
<1>10. IsInfo(WithName(Pointed(s, r), n)) /\ IsInfo(WithSize(Pointed(s, r), z))
  <2>1. /\ IsInfoOf(WithName(Pointed(s, r), n), n, y, u)
        /\ IsInfoOf(WithSize(Pointed(s, r), z), m, z, u)
    BY <1>9, InfoChanged, Zenon
  <2>2. IsInfo(WithName(Pointed(s, r), n))
    BY <1>3, <1>8, <2>1, InfoOfMade, Zenon
  <2>3. IsInfo(WithSize(Pointed(s, r), z))
    <3>1. IsInfoOf(WithSize(Pointed(s, r), z), m, z, u)
      BY <2>1, Zenon
    <3>2. m \in Seq(Bytes) /\ Plain(u, InfoTags)
      BY <1>8, Zenon
    <3> QED
      BY <1>3, <3>1, <3>2, InfoOfMade, Zenon
  <2> QED
    BY <2>2, <2>3, Zenon
<1>11. ASSUME NEW x, IsInfo(x) PROVE After(memory, Assigned(s, r, x), r)
  <2>1. Fits(s.request[r].case, x)
    BY <1>6, <1>11, Zenon DEF Fits
  <2>2. After(s, Assigned(s, r, x), r)
    BY <1>6, <2>1, AssignedTo, Zenon DEF Becomes
  <2> QED
    BY <1>5, <2>2, AfterBoth, Zenon DEF Becomes
<1> QED
  BY <1>2, <1>10, <1>11, CallEffect, Zenon

LEMMA SetChunkDataEffect ==
  ASSUME Sound(memory), NEW r \in Request, SetChunkData(r)
  PROVE  Effect({r})
<1>1. PICK bytes \in Chunks : r \in Live /\ Call({r}, set_chunk_data(memory, r, bytes))
  BY Zenon DEF SetChunkData
<1>2. bytes \in Seq(Bytes)
  BY MessageAssumption DEF Bytes
<1>3. After(memory, set_chunk_data(memory, r, bytes), r)
  BY <1>1, <1>2, LiveRequest, ChunkDataSet, Zenon DEF Becomes
<1> QED
  BY <1>1, <1>3, CallEffect, Zenon

LEMMA ClearDataEffect ==
  ASSUME Sound(memory), NEW r \in Request, ClearData(r)
  PROVE  Effect({r})
<1>1. CASE Call({r}, Clear(memory, r))
  BY <1>1, Cleared, CallEffect, Zenon DEF Emptied
<1>2. ASSUME NEW case, Call({r}, ClearField(memory, r, case))
      PROVE  Effect({r})
  BY <1>2, FieldCleared, CallEffect, Zenon
<1> QED
  BY <1>1, <1>2, Zenon DEF ClearData

LEMMA ReleaseDataEffect ==
  ASSUME Sound(memory), NEW r \in Request, ReleaseData(r)
  PROVE  Effect({r})
<1>1. IsSet(memory.request[r]) /\ Call({r}, Release(memory, r))
  BY Zenon DEF ReleaseData, IsSet, data_case
<1>2. After(memory, Release(memory, r), r)
  BY <1>1, Released, Zenon
<1> QED
  BY <1>1, <1>2, CallEffect, Zenon

LEMMA GiveDataEffect ==
  ASSUME Sound(memory), NEW r \in Request, GiveData(r)
  PROVE  Effect({r})
<1>1. r \in Live /\ memory.request[r].live
  BY LiveRequest, Zenon DEF GiveData
<1>2. "kInfo" # "DATA_NOT_SET" /\ "kChunkData" # "DATA_NOT_SET"
  OBVIOUS
<1>3. CASE Call({r}, SetAllocated(memory, r, "kInfo", Null))
  <2>1. After(memory, SetAllocated(memory, r, "kInfo", Null), r)
    BY <1>1, <1>2, AllocatedSet, Zenon
  <2> QED
    BY <1>3, <2>1, CallEffect, Zenon
<1>4. CASE ~Call({r}, SetAllocated(memory, r, "kInfo", Null))
  <2>1. PICK a \in memory.caller :
          Call({r}, SetAllocated(memory, r,
                      IF memory.heap[a].kind = "FileInfo" THEN "kInfo" ELSE "kChunkData", a))
    BY <1>4, Zenon DEF GiveData
  <2>2. PICK c : c = IF memory.heap[a].kind = "FileInfo" THEN "kInfo" ELSE "kChunkData"
    OBVIOUS
  <2>3. IsInfo(memory.heap[a]) \/ IsString(memory.heap[a])
    BY DEF Sound, Owned, Objects
  <2>4. c # "DATA_NOT_SET" /\ Fits(c, memory.heap[a])
    <3>1. CASE memory.heap[a].kind = "FileInfo"
      <4>1. c = "kInfo" /\ ~IsString(memory.heap[a])
        BY <2>2, <3>1 DEF IsString
      <4> QED
        BY <1>2, <2>3, <4>1, Zenon DEF Fits
    <3>2. CASE memory.heap[a].kind # "FileInfo"
      <4>1. c = "kChunkData" /\ ~IsInfo(memory.heap[a])
        BY <2>2, <3>2 DEF IsInfo
      <4> QED
        BY <1>2, <2>3, <4>1, Zenon DEF Fits
    <3> QED
      BY <3>1, <3>2, Zenon
  <2>5. After(memory, SetAllocated(memory, r, c, a), r)
    BY <1>1, <2>4, AllocatedSet, Zenon
  <2>6. Call({r}, SetAllocated(memory, r, c, a))
    BY <2>1, <2>2, Zenon
  <2> QED
    BY <2>5, <2>6, CallEffect, Zenon
<1> QED
  BY <1>3, <1>4, Zenon

LEMMA MergeEffect ==
  ASSUME Sound(memory), NEW r \in Request, Merge(r)
  PROVE  Effect({r})
<1>1. PICK from \in Live : r \in Live /\ Call({r}, MergeFrom(memory, r, from))
  BY Zenon DEF Merge
<1>2. After(memory, MergeFrom(memory, r, from), r)
  BY <1>1, LiveRequest, Merged, Zenon DEF Absorbs, Becomes
<1> QED
  BY <1>1, <1>2, CallEffect, Zenon

LEMMA CopyEffect ==
  ASSUME Sound(memory), NEW r \in Request, Copy(r)
  PROVE  Effect({r})
<1>1. PICK from \in Live : r \in Live /\ Call({r}, CopyFrom(memory, r, from))
  BY Zenon DEF Copy
<1>2. After(memory, CopyFrom(memory, r, from), r)
  BY <1>1, LiveRequest, Copied, Zenon
<1> QED
  BY <1>1, <1>2, CallEffect, Zenon

LEMMA SwapEffect ==
  ASSUME Sound(memory), NEW r \in Request, Swap(r)
  PROVE  \E R \in SUBSET Request : Effect(R)
<1>1. PICK other \in Live \ {r} : Call({r, other}, InternalSwap(memory, r, other))
  BY Zenon DEF Swap
<1>2. other \in Request
  BY LiveRequest
<1>3. Effect({r, other})
  BY <1>1, <1>2, Swapped, Zenon DEF Call, Effect
<1>4. {r, other} \in SUBSET Request
  BY <1>2
<1> QED
  BY <1>3, <1>4, Zenon

LEMMA ReceiveEffect ==
  ASSUME Sound(memory), NEW r \in Request, Receive(r)
  PROVE  Effect({r})
<1>1. PICK wire \in Foreign : r \in Live /\ Call({r}, ParseFrom(memory, r, wire).memory)
  BY Zenon DEF Receive
<1>2. wire \in Seq(Bytes)
  BY MessageAssumption DEF Bytes
<1>3. After(memory, ParseFrom(memory, r, wire).memory, r)
  BY <1>1, <1>2, LiveRequest, Received, Zenon DEF IsRun
<1> QED
  BY <1>1, <1>3, CallEffect, Zenon

LEMMA AllocateEffect ==
  ASSUME Sound(memory), Allocate
  PROVE  Effect({})
<1>1. PICK x \in FileInfos \union {Text(bytes) : bytes \in Chunks} :
        Call({}, [Allocated(memory, x) EXCEPT !.caller = @ \union {FreeAddress(memory)}])
  BY Zenon DEF Allocate
<1>2. PICK t : t = [Allocated(memory, x) EXCEPT !.caller = @ \union {FreeAddress(memory)}]
  OBVIOUS
<1>3. IsInfo(x) \/ IsString(x)
  <2>1. ASSUME NEW bytes \in Chunks PROVE IsString(Text(bytes))
    BY MessageAssumption DEF IsString, Text, Bytes
  <2>2. ASSUME NEW n \in Texts, NEW z \in Sizes PROVE IsInfo(Filled(n, z))
    <3>1. n \in Seq(Bytes) /\ z \in Nat
      BY MessageAssumption DEF Bytes
    <3>2. IsInfoOf(NewFileInfo, <<>>, 0, <<>>)
      BY DEF IsInfoOf, NewFileInfo, Info
    <3>3. IsInfoOf(WithSize(WithName(NewFileInfo, n), z), n, z, <<>>)
      BY <3>2, InfoChanged, Zenon
    <3>4. Filled(n, z) = WithSize(WithName(NewFileInfo, n), z)
      BY Zenon DEF Filled, WithName, WithSize
    <3> QED
      BY <3>1, <3>3, <3>4, PlainNothing, InfoOfMade, Zenon
  <2>3. CASE x \in FileInfos
    BY <2>2, <2>3 DEF FileInfos
  <2>4. CASE x \in {Text(bytes) : bytes \in Chunks}
    BY <2>1, <2>4, Zenon
  <2> QED
    BY <2>3, <2>4
<1>4. Sound(t) /\ Apart(memory, t, {})
  BY <1>2, <1>3, CallerAllocates, Zenon
<1> QED
  BY <1>1, <1>2, <1>4, Zenon DEF Call, Effect

LEMMA DeleteEffect ==
  ASSUME Sound(memory), Delete
  PROVE  Effect({})
<1>1. PICK a \in memory.caller : Call({}, [Deleted(memory, a) EXCEPT !.caller = @ \ {a}])
  BY Zenon DEF Delete
<1>2. PICK t : t = [Deleted(memory, a) EXCEPT !.caller = @ \ {a}]
  OBVIOUS
<1>3. Sound(t) /\ Apart(memory, t, {})
  BY <1>2, CallerDeletes, Zenon
<1> QED
  BY <1>1, <1>2, <1>3, Zenon DEF Call, Effect

LEMMA UsesEffect ==
  ASSUME Sound(memory), NEW r \in Request, Uses(r)
  PROVE  \E R \in SUBSET Request : Effect(R)
<1>1. {r} \in SUBSET Request
  OBVIOUS
<1>2. CASE Effect({r})
  BY <1>1, <1>2, Zenon
<1>3. CASE Swap(r)
  BY <1>3, SwapEffect, Zenon
<1>4. CASE Construct(r) \/ CopyConstruct(r) \/ Destroy(r) \/ MutateInfo(r)
  BY <1>2, <1>4, ConstructEffect, CopyConstructEffect, DestroyEffect, MutateInfoEffect, Zenon
<1>5. CASE SetChunkData(r) \/ ClearData(r) \/ ReleaseData(r) \/ GiveData(r)
  BY <1>2, <1>5, SetChunkDataEffect, ClearDataEffect, ReleaseDataEffect, GiveDataEffect, Zenon
<1>6. CASE Merge(r) \/ Copy(r) \/ Receive(r)
  BY <1>2, <1>6, MergeEffect, CopyEffect, ReceiveEffect, Zenon
<1> QED
  BY <1>3, <1>4, <1>5, <1>6, Zenon DEF Uses

LEMMA NextEffect ==
  ASSUME Sound(memory), Next
  PROVE  \E R \in SUBSET Request : Effect(R)
<1>1. {} \in SUBSET Request
  OBVIOUS
<1> QED
  BY <1>1, UsesEffect, AllocateEffect, DeleteEffect, Zenon DEF Next

-----------------------------------------------------------------------------
(* The theorems                                                            *)

LEMMA StartIsSound ==
  ASSUME NEW s, NEW h, NEW m, NEW o, h = <<>>, o = {}, s = [heap |-> h, request |-> m, caller |-> o],
         m = [r \in Request |-> m[r]], \A r \in Request : m[r] = NoRequest \/ m[r] = NewRequest
  PROVE  Sound(s)
<1>1. DOMAIN h = {} /\ h = [a \in DOMAIN h |-> h[a]]
  OBVIOUS
<1>2. \A r \in Request : IsRequest(m[r]) /\ ~IsSet(m[r])
  BY FreshRequest, Zenon
<1>3. Parts(h, m)
  BY <1>1, <1>2, Zenon DEF Parts
<1>4. Owned(h, m, o)
  <2>1. Objects(h, o)
    BY <1>1, FS_EmptySet DEF Objects
  <2>2. ~Leaked(h, m, o)
    BY <1>1 DEF Leaked
  <2> QED
    BY <1>2, <2>1, <2>2, Zenon DEF Owned, Points, Share
<1>5. IsMemory(s) /\ s.heap = h /\ s.request = m /\ s.caller = o
  BY <1>3, MemoryMade, Zenon
<1> QED
  BY <1>4, <1>5, Zenon DEF Sound

LEMMA InitSound == Init => Sound(memory)
<1> SUFFICES ASSUME Init PROVE Sound(memory)
  OBVIOUS
<1>1. PICK h, m, o : h = <<>> /\ m = [r \in Request |-> NoRequest] /\ o = {}
  OBVIOUS
<1>2. memory = [heap |-> h, request |-> m, caller |-> o]
  BY <1>1, Zenon DEF Init
<1>3. m = [r \in Request |-> m[r]] /\ \A r \in Request : m[r] = NoRequest
  BY <1>1, Zenon
<1> QED
  BY <1>1, <1>2, <1>3, StartIsSound, Zenon

LEMMA NextSound == Sound(memory) /\ [Next]_vars => Sound(memory)'
<1>1. CASE Sound(memory) /\ Next
  BY <1>1, NextEffect, Zenon DEF Effect, Sound, IsMemory, Owned, Objects, Points, Share, Leaked
<1>2. CASE Sound(memory) /\ UNCHANGED vars
  <2>1. memory' = memory
    BY <1>2 DEF vars
  <2> QED
    <3>1. Sound(memory')
      BY <1>2, <2>1, Zenon
    <3> QED
      BY <3>1, Zenon DEF Sound, IsMemory, Owned, Objects, Points, Share, Leaked
<1> QED
  BY <1>1, <1>2, Zenon

(* Every object of the heap has one owner and every message what its case  *)
(* and its pointer say, whatever calls are made.                           *)
THEOREM MemoryInvariant == Spec => []Sound(memory)
  BY InitSound, NextSound, PTL DEF Spec

LEMMA SoundIsOwnedOnce == Sound(memory) => OwnedOnce
<1> SUFFICES ASSUME Sound(memory) PROVE OwnedOnce
  OBVIOUS
<1>1. PICK h, m, o : h = memory.heap /\ m = memory.request /\ o = memory.caller
  OBVIOUS
<1>2. /\ Objects(h, o) /\ ~Leaked(h, m, o)
      /\ \A r \in Request : Points(h, m[r], o)
      /\ \A q, r \in Request : Share(m[q], m[r]) => q = r
  BY <1>1, Zenon DEF Sound, Owned
<1>3. \A r \in Request : IsSet(m[r]) => r \in Live
  BY <1>1, <1>2 DEF Points, Live
<1>4. ASSUME NEW a \in DOMAIN h
      PROVE  \E x : Owners(a) = {x}
  <2>1. Owners(a) = {r \in Live : IsSet(m[r]) /\ m[r].data = a}
                      \union IF a \in o THEN {"caller"} ELSE {}
    BY <1>1, Zenon DEF Owners, IsSet, data_case
  <2>2. \A r \in Live : r \in Request
    BY DEF Live
  <2>3. CASE a \in o
    <3>1. {r \in Live : IsSet(m[r]) /\ m[r].data = a} = {}
      BY <1>2, <2>2, <2>3 DEF Points
    <3>2. Owners(a) = {"caller"}
      BY <2>1, <2>3, <3>1
    <3> QED
      BY <3>2, Zenon
  <2>4. CASE a \notin o
    <3>1. PICK r \in Request : IsSet(m[r]) /\ m[r].data = a
      BY <1>2, <2>4, Zenon DEF Leaked
    <3>2. \A q \in Live : IsSet(m[q]) /\ m[q].data = a => q = r
      BY <1>2, <2>2, <3>1, Zenon DEF Share
    <3>3. r \in Live
      BY <1>3, <3>1, Zenon
    <3>4. {q \in Live : IsSet(m[q]) /\ m[q].data = a} = {r}
      BY <3>1, <3>2, <3>3
    <3>5. Owners(a) = {r}
      BY <2>1, <2>4, <3>4
    <3> QED
      BY <3>5, Zenon
  <2> QED
    BY <2>3, <2>4, Zenon
<1>5. \A a \in DOMAIN memory.heap : Cardinality(Owners(a)) = 1
  <2> SUFFICES ASSUME NEW a \in DOMAIN memory.heap PROVE Cardinality(Owners(a)) = 1
    BY Zenon
  <2>1. PICK x : Owners(a) = {x}
    BY <1>1, <1>4, Zenon
  <2>2. Cardinality({x}) = 1
    BY FS_Singleton
  <2> QED
    BY <2>1, <2>2, Zenon
<1>6. ASSUME NEW r \in Live, data_case(memory, r) # "DATA_NOT_SET"
      PROVE  /\ memory.request[r].data \in DOMAIN memory.heap
             /\ Pointed(memory, r).kind = (IF data_case(memory, r) = "kInfo" THEN "FileInfo" ELSE "string")
  <2>1. r \in Request /\ IsSet(m[r]) /\ data_case(memory, r) = m[r].case
    BY <1>1, <1>6, LiveRequest, Zenon DEF IsSet, data_case
  <2>2. m[r].data \in DOMAIN h /\ Fits(m[r].case, h[m[r].data])
    BY <1>2, <2>1, Zenon DEF Points
  <2>3. Pointed(memory, r) = h[m[r].data]
    BY <1>1, Zenon DEF Pointed
  <2>4. CASE m[r].case = "kInfo" /\ IsInfo(h[m[r].data])
    <3>1. h[m[r].data].kind = "FileInfo"
      BY <2>4 DEF IsInfo
    <3> QED
      BY <1>1, <2>1, <2>2, <2>3, <2>4, <3>1, Zenon
  <2>5. CASE m[r].case = "kChunkData" /\ IsString(h[m[r].data])
    <3>1. h[m[r].data].kind = "string" /\ m[r].case # "kInfo"
      BY <2>5 DEF IsString
    <3> QED
      BY <1>1, <2>1, <2>2, <2>3, <3>1, Zenon
  <2> QED
    BY <2>2, <2>4, <2>5, Zenon DEF Fits
<1>7. memory.caller \subseteq DOMAIN memory.heap
  BY <1>1, <1>2, Zenon DEF Objects
<1> QED
  BY <1>5, <1>6, <1>7, Zenon DEF OwnedOnce

(* Nothing is leaked, deleted twice or used after it was deleted, for any  *)
(* number of messages, any values and any sequence of calls                *)
(* (file_service.pb.h: clear_data, release, set_allocated, swap).          *)
THEOREM ObjectsHaveOneOwner == Spec => []OwnedOnce
  BY SoundIsOwnedOnce, MemoryInvariant, PTL

LEMMA SendableIsLegible ==
  ASSUME Sound(memory), NEW r \in Request, Sendable(r)
  PROVE  Legible(memory.request[r].case, Value(memory, r))
<1> SUFFICES ASSUME memory.request[r].case = "kInfo" PROVE IsUtf8(Value(memory, r).name)
  BY Zenon DEF Legible
<1>1. IsSet(memory.request[r])
  BY DEF IsSet
<1>2. Pointed(memory, r) = Value(memory, r)
  BY <1>1, ValueFits, Zenon
<1> QED
  BY <1>2, Zenon DEF Sendable, data_case

LEMMA SoundArrives == Sound(memory) => ArrivesAsSent
<1> SUFFICES ASSUME Sound(memory), NEW r \in Live, NEW to \in Live
             PROVE  LET wire == Serialize(memory, r)
                        received == ParseFrom(memory, to, wire)
                    IN /\ Len(wire) = ByteSizeLong(memory, r)
                       /\ Sendable(r) => /\ received.ok
                                         /\ Content(received.memory, to) = Content(memory, r)
  BY Zenon DEF ArrivesAsSent
<1>1. /\ r \in Request /\ memory.request[r].live
      /\ to \in Request /\ memory.request[to].live
  BY LiveRequest, Zenon
<1>2. PICK wire, received : wire = Serialize(memory, r) /\ received = ParseFrom(memory, to, wire)
  OBVIOUS
<1>3. Len(wire) = ByteSizeLong(memory, r)
  BY <1>1, <1>2, SizeAnnounced, Zenon
<1>4. ASSUME Sendable(r)
      PROVE  received.ok /\ Content(received.memory, to) = Content(memory, r)
  <2>1. PICK c, x, u : /\ c = memory.request[r].case /\ x = Value(memory, r)
                       /\ u = memory.request[r].unknown
    OBVIOUS
  <2>2. /\ Fitting(c, x) /\ Legible(c, x) /\ Plain(u, RequestTags)
        /\ c = "DATA_NOT_SET" => x = NewFileInfo
    BY <1>1, <1>4, <2>1, ValueFits, UnknownIsBytes, SendableIsLegible, Zenon DEF IsSet
  <2>3. wire = Encoded(c, x) \o u
    BY <1>1, <1>2, <2>1, Written, Zenon DEF WrittenAs
  <2>4. PICK t : /\ ParseFrom(memory, to, Encoded(c, x) \o u) = Going(t)
                 /\ Becomes(memory, t, to, c, x, u)
    BY <1>1, <2>2, SentIsReceived, Zenon
  <2>5. received = Going(t)
    BY <1>2, <2>3, <2>4, Zenon
  <2>6. received.ok /\ received.memory = t
    BY <2>5 DEF Going
  <2>7. Shows(t, to, c, x, u)
    BY <1>1, <2>4, ContentIs, Zenon DEF Becomes, After
  <2>8. Shows(memory, r, c, x, u)
    <3>1. Has(memory, r, c, x, u)
      BY <2>1, Zenon DEF Has
    <3> QED
      BY <1>1, <3>1, ContentIs, Zenon
  <2> QED
    BY <2>6, <2>7, <2>8, Zenon DEF Shows
<1> QED
  BY <1>2, <1>3, <1>4, Zenon

(* A message with a name in UTF-8 arrives as it was sent, into a message   *)
(* that held anything before, and has the size that was announced: the     *)
(* parser reads what the serializer writes, for every name, size, chunk    *)
(* and unknown field (_InternalSerialize, ByteSizeLong, _InternalParse).   *)
THEOREM SentArrives == Spec => []ArrivesAsSent
  BY SoundArrives, MemoryInvariant, PTL

LEMMA SoundMerges == Sound(memory) => ParsingMerges
<1> SUFFICES ASSUME Sound(memory), NEW r \in Live, NEW from \in Live, Sendable(from)
             PROVE  LET parsed == InternalParse(memory, r, Serialize(memory, from)) IN
                    parsed.ok /\ Content(parsed.memory, r) = Content(MergeFrom(memory, r, from), r)
  BY Zenon DEF ParsingMerges
<1>1. r \in Request /\ memory.request[r].live /\ from \in Request
  BY LiveRequest, Zenon
<1>2. PICK parsed, m : /\ parsed = InternalParse(memory, r, Serialize(memory, from))
                       /\ m = MergeFrom(memory, r, from)
  OBVIOUS
<1>3. PICK c, x, u : /\ c = memory.request[from].case /\ x = Value(memory, from)
                     /\ u = memory.request[from].unknown
  OBVIOUS
<1>4. PICK t : ParsedAs(memory, r, Serialize(memory, from), t) /\ Absorbs(memory, t, r, c, x, u)
  BY <1>1, <1>3, SendableIsLegible, SentIsMerged, Zenon
<1>5. Absorbs(memory, m, r, c, x, u)
  BY <1>1, <1>2, <1>3, Merged, Zenon
<1>6. parsed = Going(t)
  BY <1>2, <1>4, Zenon DEF ParsedAs
<1>7. parsed.ok /\ parsed.memory = t
  BY <1>6 DEF Going
<1>8. ASSUME NEW s, Absorbs(memory, s, r, c, x, u)
      PROVE  Shows(s, r, MergedCase(memory, r, c), MergedValue(memory, r, c, x), Plus(memory, r, u))
  BY <1>1, <1>8, ContentIs, Zenon DEF Absorbs, Becomes, After
<1>9. Content(t, r) = Content(m, r)
  BY <1>4, <1>5, <1>8, Zenon DEF Shows
<1> QED
  BY <1>2, <1>7, <1>9, Zenon

(* Parsing a message into one that is in use is merging it: the last field *)
(* of the oneof wins, and a FileInfo is merged field by field              *)
(* (_InternalParse, MergeFrom).                                            *)
THEOREM ParsingIsMerging == Spec => []ParsingMerges
  BY SoundMerges, MemoryInvariant, PTL

(* A call changes only what the messages it is made on hold: no two        *)
(* messages ever share an object (file_service.pb.cc: MergeFrom, CopyFrom, *)
(* InternalSwap).                                                          *)
THEOREM MessagesAreApart == Spec => NoAliasing
<1>1. Sound(memory) /\ [Next]_vars =>
        [\A r \in Request : r \in Live /\ r \notin called' => Content(memory', r) = Content(memory, r)]_vars
  <2> SUFFICES ASSUME Sound(memory), Next, NEW r \in Request, r \notin called'
               PROVE  Content(memory', r) = Content(memory, r)
    BY Zenon
  <2>1. PICK R : Apart(memory, memory', R) /\ called' = R
    BY NextEffect, Zenon DEF Effect
  <2>2. PICK q : q = memory.request[r]
    OBVIOUS
  <2>3. /\ memory'.request[r] = q
        /\ IsSet(q) => q.data \in DOMAIN memory'.heap /\ memory'.heap[q.data] = memory.heap[q.data]
    <3>1. r \in Request \ R
      BY <2>1
    <3> QED
      BY <2>1, <2>2, <3>1, Zenon DEF Apart
  <2>4. IsSet(q) => q.data \in DOMAIN memory.heap
    BY <2>2, Zenon DEF Sound, Owned, Points
  <2> DEFINE Data(s) == IF q.case = "DATA_NOT_SET" THEN NewFileInfo
                        ELSE IF q.data \in DOMAIN s.heap THEN s.heap[q.data] ELSE Garbage
  <2>5. Data(memory') = Data(memory)
    BY <2>3, <2>4 DEF IsSet
  <2>6. Content(memory, r) = [case |-> q.case, data |-> Data(memory), unknown |-> q.unknown]
    BY <2>2, Zenon DEF Content, data_case, Pointed
  <2>7. Content(memory', r) = [case |-> q.case, data |-> Data(memory'), unknown |-> q.unknown]
    BY <2>3, Zenon DEF Content, data_case, Pointed
  <2> HIDE DEF Data
  <2> QED
    BY <2>5, <2>6, <2>7, Zenon
<1> QED
  BY <1>1, MemoryInvariant, PTL DEF Spec, NoAliasing
-----------------------------------------------------------------------------
(* The handler of UploadFile                                               *)

LEMMA ChunksDefined ==
  ASSUME NEW st, NEW l, l = Len(st), l \in Nat
  PROVE  /\ ChunksOf(st)[0] = <<>>
         /\ \A k \in 1 .. l :
              ChunksOf(st)[k] = IF st[k].kind = "string" THEN ChunksOf(st)[k - 1] \o st[k].bytes
                                ELSE ChunksOf(st)[k - 1]
<1> DEFINE WithMessage(g, k) == IF st[k].kind = "string" THEN g[k - 1] \o st[k].bytes ELSE g[k - 1]
           Is(g, n) == g = [k \in 0 .. n |-> IF k = 0 THEN <<>> ELSE WithMessage(g, k)]
           S == {k \in Nat : \E g : Is(g, k)}
<1>1. 0 \in S
  <2> DEFINE g == [k \in 0 .. 0 |-> <<>>]
  <2>1. g = [k \in 0 .. 0 |-> IF k = 0 THEN <<>> ELSE WithMessage(g, k)]
    OBVIOUS
  <2> QED
    BY <2>1
<1>2. ASSUME NEW n \in Nat, n \in S
      PROVE  n + 1 \in S
  <2>1. PICK g : Is(g, n)
    BY <1>2
  <2> DEFINE h == [k \in 0 .. n + 1 |-> IF k <= n THEN g[k] ELSE WithMessage(g, n + 1)]
  <2>2. \A k \in 0 .. n + 1 : h[k] = IF k = 0 THEN <<>> ELSE WithMessage(h, k)
    <3> TAKE k \in 0 .. n + 1
    <3>1. CASE k = 0
      BY <2>1, <3>1
    <3>2. CASE k \in 1 .. n
      <4>1. /\ k \in 0 .. n /\ k - 1 \in 0 .. n /\ k # 0
            /\ k - 1 <= n /\ k <= n /\ k - 1 \in 0 .. n + 1
        BY <3>2
      <4>2. g[k] = WithMessage(g, k)
        BY <2>1, <4>1
      <4> QED
        BY <4>1, <4>2
    <3>3. CASE k = n + 1
      <4>1. ~(k <= n) /\ k - 1 = n /\ k - 1 \in 0 .. n + 1 /\ n <= n /\ k # 0
        BY <3>3
      <4> QED
        BY <3>3, <4>1
    <3> QED
      BY <3>1, <3>2, <3>3
  <2> HIDE DEF h
  <2>3. DOMAIN h = 0 .. n + 1 /\ h = [k \in 0 .. n + 1 |-> h[k]]
    BY DEF h
  <2>4. Is(h, n + 1)
    BY <2>2, <2>3
  <2> QED
    BY <2>4
<1>3. \E g : Is(g, l)
  <2> HIDE DEF S
  <2>1. Nat \subseteq S
    BY <1>1, <1>2, NumberInduction
  <2>2. l \in S
    BY <2>1
  <2> QED
    BY <2>2 DEF S
<1>4. ChunksOf(st) = CHOOSE g : Is(g, l)
  BY DEF ChunksOf
<1>5. Is(ChunksOf(st), l)
  <2> HIDE DEF Is
  <2> QED
    BY <1>3, <1>4, Zenon
<1> QED
  BY <1>5

LEMMA ChunksAreBytes ==
  ASSUME NEW st \in Seq(Message), NEW k \in 1 .. Len(st)
  PROVE  /\ st[k] \in Message
         /\ st[k].kind = "FileInfo" => ChunksOf(st)[k] = ChunksOf(st)[k - 1]
         /\ st[k].kind = "string" => ChunksOf(st)[k] = ChunksOf(st)[k - 1] \o st[k].bytes
<1>1. PICK l : l = Len(st) /\ l \in Nat
  BY LenProperties
<1>2. st[k] \in Message
  BY <1>1, ElementOfSeq
<1>3. "FileInfo" # "string"
  OBVIOUS
<1> QED
  BY <1>1, <1>2, <1>3, ChunksDefined, Zenon

LEMMA NameAdvances ==
  ASSUME NEW st, NEW k \in Nat, k > 0, st[k].kind = "FileInfo"
  PROVE  IsLastName(st[k].name, st, k)
<1>1. k \in 1 .. k /\ k + 1 .. k = {}
  OBVIOUS
<1> QED
  BY <1>1, Zenon DEF IsLastName

LEMMA NameStays ==
  ASSUME NEW st, NEW k \in Nat, k > 0, st[k].kind = "string", NEW n, IsLastName(n, st, k - 1)
  PROVE  IsLastName(n, st, k)
<1>1. CASE n = Default /\ \A i \in 1 .. k - 1 : st[i].kind = "string"
  <2>1. \A i \in 1 .. k : i = k \/ i \in 1 .. k - 1
    OBVIOUS
  <2> QED
    BY <1>1, <2>1, Zenon DEF IsLastName
<1>2. ASSUME NEW i \in 1 .. k - 1, st[i].kind = "FileInfo", n = st[i].name,
             \A j \in i + 1 .. k - 1 : st[j].kind = "string"
      PROVE  IsLastName(n, st, k)
  <2>1. /\ i \in 1 .. k
        /\ \A j \in i + 1 .. k : j = k \/ j \in i + 1 .. k - 1
    OBVIOUS
  <2> QED
    BY <1>2, <2>1, Zenon DEF IsLastName
<1> QED
  BY <1>1, <1>2, Zenon DEF IsLastName

(* The case of the oneof that a client's message sets.                     *)
CaseOf(x) == IF x.kind = "FileInfo" THEN "kInfo" ELSE "kChunkData"

LEMMA MessageParts ==
  ASSUME NEW x \in Message
  PROVE  /\ (x.kind = "FileInfo" /\ CaseOf(x) = "kInfo" /\ IsInfo(x))
              \/ (x.kind = "string" /\ CaseOf(x) = "kChunkData" /\ IsString(x))
         /\ CaseOf(x) # "DATA_NOT_SET"
         /\ Fits(CaseOf(x), x)
<1>1. "FileInfo" # "string" /\ "kInfo" # "DATA_NOT_SET" /\ "kChunkData" # "DATA_NOT_SET"
  OBVIOUS
<1>2. CASE x \in [kind : {"FileInfo"}, name : Seq(0 .. 255), size : Nat, unknown : {<<>>}]
  <2>1. /\ x = [kind |-> "FileInfo", name |-> x.name, size |-> x.size, unknown |-> x.unknown]
        /\ x.kind = "FileInfo" /\ x.name \in Seq(Bytes) /\ x.size \in Nat /\ x.unknown = <<>>
    BY <1>2 DEF Bytes
  <2>2. IsInfo(x)
    BY <2>1, PlainNothing, Zenon DEF IsInfo
  <2> QED
    BY <1>1, <2>1, <2>2, Zenon DEF CaseOf, Fits
<1>3. CASE x \in [kind : {"string"}, bytes : Seq(0 .. 255)]
  <2>1. /\ x = [kind |-> "string", bytes |-> x.bytes]
        /\ x.kind = "string" /\ x.bytes \in Seq(Bytes)
    BY <1>3 DEF Bytes
  <2> QED
    BY <1>1, <2>1, Zenon DEF IsString, CaseOf, Fits
<1> QED
  BY <1>2, <1>3 DEF Message

LEMMA WireIsEncoded ==
  ASSUME NEW x \in Message
  PROVE  Wire(x) = Encoded(CaseOf(x), x) /\ Wire(x) \in Seq(Bytes)
<1>1. "FileInfo" # "string" /\ "kInfo" # "kChunkData"
  OBVIOUS
<1>2. CASE x.kind = "FileInfo" /\ CaseOf(x) = "kInfo" /\ IsInfo(x)
  <2>1. Wire(x) = Encoded("kInfo", x)
    BY <1>2, Zenon DEF Wire, Encoded
  <2>2. Encoded("kInfo", x) \in Seq(Bytes)
    BY <1>2, EncodedInfo, Zenon
  <2> QED
    BY <1>2, <2>1, <2>2, Zenon
<1>3. CASE x.kind = "string" /\ CaseOf(x) = "kChunkData" /\ IsString(x)
  <2>1. Wire(x) = Encoded("kChunkData", x)
    BY <1>1, <1>3, Zenon DEF Wire, Encoded
  <2>2. Encoded("kChunkData", x) \in Seq(Bytes)
    BY <1>3, EncodedChunk, Zenon
  <2> QED
    BY <1>3, <2>1, <2>2, Zenon
<1> QED
  BY <1>2, <1>3, MessageParts, Zenon

LEMMA AddedIsPlain ==
  ASSUME NEW added \in {<<>>, VarintField(3, 1)}
  PROVE  added \in Seq(Bytes) /\ Plain(added, RequestTags)
<1>1. CASE added = <<>>
  BY <1>1, PlainNothing, Zenon DEF Plain
<1>2. CASE added = VarintField(3, 1)
  <2>1. PICK f \in WellFormed : f = [tag |-> Tag(3, 0), value |-> 1, raw |-> VarintField(3, 1)]
    <3>1. 3 \in 1 .. 3 /\ 1 \in Nat
      OBVIOUS
    <3> QED
      BY <3>1, VarintFieldRead, Zenon
  <2>2. f.tag = Tag(3, 0) /\ f.raw = added
    BY <1>2, <2>1
  <2>3. f.tag \notin RequestTags
    BY <2>2 DEF RequestTags, Tag
  <2> QED
    BY <2>2, <2>3, PlainField, Zenon DEF Plain
<1> QED
  BY <1>1, <1>2

(* The handler's message has what the client's message x has.              *)
Carries(s, x) == s.request[uploadFilePart].case = CaseOf(x) /\ Value(s, uploadFilePart) = x

LEMMA MessageRead ==
  ASSUME NEW s, Sound(s), uploadFilePart \in Request, s.request[uploadFilePart].live,
         NEW x \in Message, NEW added \in {<<>>, VarintField(3, 1)},
         NEW received, received = ParseFrom(s, uploadFilePart, Wire(x) \o added)
  PROVE  /\ Sound(received.memory) /\ received.memory.request[uploadFilePart].live
         /\ received.ok => Carries(received.memory, x)
<1>1. PICK c, w : c = CaseOf(x) /\ w = Wire(x) \o added
  OBVIOUS
<1>2. added \in Seq(Bytes) /\ Plain(added, RequestTags) /\ Wire(x) \in Seq(Bytes)
  BY AddedIsPlain, WireIsEncoded, Zenon
<1>3. w = Encoded(c, x) \o added
  BY <1>1, WireIsEncoded, Zenon
<1>4. w \in Seq(Bytes)
  BY <1>1, <1>2, ConcatProperties
<1>5. IsRun(s, received, uploadFilePart)
  BY <1>1, <1>4, Received, Zenon
<1>6. CASE Legible(c, x)
  <2>1. Fitting(c, x) /\ c # "DATA_NOT_SET"
    BY <1>1, MessageParts, Zenon DEF Fitting
  <2>2. PICK t : /\ ParseFrom(s, uploadFilePart, Encoded(c, x) \o added) = Going(t)
                 /\ Becomes(s, t, uploadFilePart, c, x, added)
    BY <1>2, <1>6, <2>1, SentIsReceived, Zenon
  <2>3. received = Going(t)
    BY <1>1, <1>3, <2>2, Zenon
  <2>4. received.memory = t
    BY <2>3 DEF Going
  <2>5. Carries(t, x)
    BY <1>1, <2>2, Zenon DEF Becomes, Has, Carries
  <2> QED
    BY <1>5, <2>4, <2>5, Zenon DEF IsRun, After
<1>7. CASE ~Legible(c, x)
  <2>1. c = "kInfo" /\ ~IsUtf8(x.name)
    BY <1>7, Zenon DEF Legible
  <2>2. IsInfo(x)
    <3>1. "kInfo" # "kChunkData"
      OBVIOUS
    <3> QED
      BY <1>1, <2>1, <3>1, MessageParts, Zenon
  <2>3. PICK q : q = Clear(s, uploadFilePart)
    OBVIOUS
  <2>4. Sound(q) /\ q.request[uploadFilePart].live
    BY <2>3, Cleared, Zenon DEF Emptied, After
  <2>5. Stopped(InternalParse(q, uploadFilePart, Encoded("kInfo", x) \o added))
    BY <1>2, <2>1, <2>2, <2>4, RequestRejected, Zenon
  <2>6. received = InternalParse(q, uploadFilePart, w)
    BY <1>1, <2>3, Zenon DEF ParseFrom
  <2>7. received.ok = FALSE
    BY <1>3, <2>1, <2>5, <2>6, Zenon DEF Stopped
  <2> QED
    BY <1>5, <2>7, Zenon DEF IsRun, After
<1> QED
  BY <1>6, <1>7, Zenon

LEMMA ChunkTaken ==
  ASSUME NEW s, Sound(s), uploadFilePart \in Request, s.request[uploadFilePart].live,
         NEW x \in Message, Carries(s, x),
         NEW q, q = mutable_chunk_data(s, uploadFilePart),
         NEW t, t = Assigned(q, uploadFilePart, Text(<<>>))
  PROVE  /\ Sound(t) /\ t.request[uploadFilePart].live
         /\ x.kind = "FileInfo" => Pointed(q, uploadFilePart).bytes = <<>>
         /\ x.kind = "string" => Pointed(q, uploadFilePart).bytes = x.bytes
<1>1. "FileInfo" # "string" /\ "kInfo" # "kChunkData" /\ "kChunkData" # "DATA_NOT_SET"
  OBVIOUS
<1>2. PICK e : e = Text(<<>>)
  OBVIOUS
<1>3. Fits("kChunkData", e) /\ e.bytes = <<>>
  <2>1. <<>> \in Seq(Bytes)
    OBVIOUS
  <2>2. e = [kind |-> "string", bytes |-> <<>>]
    BY <1>2 DEF Text
  <2>3. e.bytes = <<>>
    BY <2>2
  <2> QED
    BY <2>1, <2>2, <2>3, Zenon DEF Fits, IsString
<1>4. Becomes(s, q, uploadFilePart, "kChunkData", TextOf(s, uploadFilePart),
              s.request[uploadFilePart].unknown)
  BY MutableChunkData, Zenon
<1>5. /\ Sound(q) /\ q.request[uploadFilePart].live
      /\ q.request[uploadFilePart].case = "kChunkData" /\ IsSet(q.request[uploadFilePart])
      /\ Value(q, uploadFilePart) = TextOf(s, uploadFilePart)
  BY <1>1, <1>4, Zenon DEF Becomes, After, Has, IsSet
<1>6. Becomes(q, t, uploadFilePart, "kChunkData", e, q.request[uploadFilePart].unknown)
  BY <1>2, <1>3, <1>5, AssignedTo, Zenon
<1>7. Pointed(q, uploadFilePart) = TextOf(s, uploadFilePart)
  BY <1>5, Zenon DEF Value, Pointed
<1>8. ASSUME x.kind = "FileInfo"
      PROVE  Pointed(q, uploadFilePart).bytes = <<>>
  <2>1. s.request[uploadFilePart].case = "kInfo"
    BY <1>8, Zenon DEF Carries, CaseOf
  <2> QED
    BY <1>1, <1>2, <1>3, <1>7, <2>1, Zenon DEF TextOf
<1>9. ASSUME x.kind = "string"
      PROVE  Pointed(q, uploadFilePart).bytes = x.bytes
  <2>1. s.request[uploadFilePart].case = "kChunkData" /\ Value(s, uploadFilePart) = x
    BY <1>1, <1>9, Zenon DEF Carries, CaseOf
  <2> QED
    BY <1>7, <2>1, Zenon DEF TextOf
<1> QED
  BY <1>5, <1>6, <1>8, <1>9, Zenon DEF Becomes, After

LEMMA NameTaken ==
  ASSUME NEW s, NEW x \in Message, Carries(s, x),
         data_case(s, uploadFilePart) = "kInfo",
         NEW q, q = mutable_info(s, uploadFilePart)
  PROVE  q = s /\ x.kind = "FileInfo" /\ Pointed(q, uploadFilePart).name = x.name
<1>1. "kInfo" # "kChunkData" /\ "kInfo" # "DATA_NOT_SET"
  OBVIOUS
<1>2. x.kind = "FileInfo"
  BY <1>1, MessageParts, Zenon DEF Carries, data_case
<1>3. q = s
  BY Zenon DEF mutable_info
<1>4. Pointed(s, uploadFilePart) = x
  BY <1>1, Zenon DEF Carries, Value, IsSet, Pointed, data_case
<1> QED
  BY <1>2, <1>3, <1>4, Zenon

-----------------------------------------------------------------------------
(* Where the handler is when it has read g messages of the stream st, and  *)
(* what its message and its locals bl, name and id have then.              *)
Handled(st, g, b, n) == b = ChunksOf(st)[g] /\ IsLastName(n, st, g)

ToRead(st, g, b, n, i) == Handled(st, g, b, n) /\ (g > 0 => i = n)

HasReceived(s, st, g, b, n) ==
  g > 0 /\ Carries(s, st[g]) /\ Handled(st, g - 1, b, n)

HasName(s, st, g, b, n) ==
  /\ g > 0 /\ Carries(s, st[g]) /\ st[g].kind = "FileInfo"
  /\ b = ChunksOf(st)[g - 1] /\ n = st[g].name

Stands(s, a) ==
  /\ Sound(s)
  /\ a \in {"read", "received", "chunk", "write", "returned"}
  /\ a # "returned" => s.request[uploadFilePart].live

Counted(st, g, b) == st \in Seq(Message) /\ g \in 0 .. Len(st) /\ b \in Seq(Bytes)

Holding(s, st, g, a, b, n, i) ==
  /\ Stands(s, a)
  /\ Counted(st, g, b)
  /\ a = "read" => ToRead(st, g, b, n, i)
  /\ a = "received" => HasReceived(s, st, g, b, n)
  /\ a = "chunk" => HasName(s, st, g, b, n)

(* The invariant of the handler: between the steps of one message, the     *)
(* object that receives them all carries the message that was read, and    *)
(* the locals what the ones before it left.                                *)
HandlerInv == Holding(memory, stream, got, at, bl, name, id)

LEMMA StreamInitHolds == StreamInit => HandlerInv
<1> SUFFICES ASSUME StreamInit PROVE HandlerInv
  OBVIOUS
<1>1. PICK h, m, o :
        /\ h = <<>> /\ o = {}
        /\ m = [r \in Request |-> IF r = uploadFilePart THEN NewRequest ELSE NoRequest]
  OBVIOUS
<1>2. memory = [heap |-> h, request |-> m, caller |-> o]
  BY <1>1 DEF StreamInit
<1>3. m = [r \in Request |-> m[r]] /\ \A r \in Request : m[r] = NoRequest \/ m[r] = NewRequest
  BY <1>1, Zenon
<1>4. Sound(memory)
  BY <1>1, <1>2, <1>3, StartIsSound, Zenon
<1>5. memory.request[uploadFilePart].live
  <2>1. memory.request = m
    BY <1>2
  <2>2. m[uploadFilePart] = NewRequest
    BY <1>1, StreamAssumption
  <2> QED
    BY <2>1, <2>2 DEF NewRequest
<1>6. stream \in Seq(Message) /\ got = 0 /\ at = "read" /\ name = Default /\ bl = <<>>
  BY StreamAssumption DEF StreamInit
<1>7. Stands(memory, at)
  BY <1>4, <1>5, <1>6, Zenon DEF Stands
<1>8. Counted(stream, got, bl)
  BY <1>6, LenProperties DEF Counted
<1>9. ToRead(stream, got, bl, name, id)
  <2>1. ChunksOf(stream)[0] = <<>>
    BY <1>6, LenProperties, ChunksDefined, Zenon
  <2>2. IsLastName(name, stream, 0)
    BY <1>6 DEF IsLastName
  <2>3. ~(got > 0)
    BY <1>6
  <2> QED
    BY <1>6, <2>1, <2>2, <2>3, Zenon DEF ToRead, Handled
<1>10. at # "received" /\ at # "chunk"
  BY <1>6
<1> QED
  BY <1>7, <1>8, <1>9, <1>10, Zenon DEF HandlerInv, Holding

LEMMA ReadHolds ==
  ASSUME HandlerInv, Read
  PROVE  Holding(memory', stream, got + 1, at', bl, name, id)
<1>1. PICK k : k = got + 1
  OBVIOUS
<1>2. at = "read" /\ got < Len(stream)
  BY DEF Read
<1>3. Sound(memory) /\ memory.request[uploadFilePart].live
  <2>1. "read" # "returned"
    OBVIOUS
  <2> QED
    BY <1>2, <2>1, Zenon DEF HandlerInv, Holding, Stands
<1>4. stream \in Seq(Message) /\ got \in 0 .. Len(stream) /\ bl \in Seq(Bytes)
  BY Zenon DEF HandlerInv, Holding, Counted
<1>5. k \in 1 .. Len(stream) /\ k \in 0 .. Len(stream) /\ k > 0 /\ k - 1 = got
  BY <1>1, <1>2, <1>4, LenProperties
<1>6. stream[k] \in Message
  BY <1>4, <1>5, ChunksAreBytes, Zenon
<1>7. PICK added \in {<<>>, VarintField(3, 1)} :
        LET received == ParseFrom(memory, uploadFilePart, Wire(stream[k]) \o added) IN
        memory' = received.memory /\ at' = IF received.ok THEN "received" ELSE "write"
  BY <1>1, Zenon DEF Read
<1>8. PICK received : received = ParseFrom(memory, uploadFilePart, Wire(stream[k]) \o added)
  OBVIOUS
<1>9. memory' = received.memory /\ at' = IF received.ok THEN "received" ELSE "write"
  BY <1>7, <1>8, Zenon
<1>10. /\ Sound(memory') /\ memory'.request[uploadFilePart].live
       /\ received.ok => Carries(memory', stream[k])
  BY <1>3, <1>6, <1>8, <1>9, StreamAssumption, MessageRead, Zenon
<1>11. /\ at' \in {"read", "received", "chunk", "write", "returned"}
       /\ at' # "read" /\ at' # "chunk" /\ (at' = "received" => received.ok)
  BY <1>9
<1>12. Stands(memory', at')
  BY <1>10, <1>11, Zenon DEF Stands
<1>13. Counted(stream, k, bl)
  BY <1>4, <1>5, Zenon DEF Counted
<1>14. Handled(stream, got, bl, name)
  BY <1>2, Zenon DEF HandlerInv, Holding, ToRead
<1>15. at' = "received" => HasReceived(memory', stream, k, bl, name)
  BY <1>5, <1>10, <1>11, <1>14, Zenon DEF HasReceived
<1>16. Holding(memory', stream, k, at', bl, name, id)
  BY <1>11, <1>12, <1>13, <1>15, Zenon DEF Holding
<1> QED
  BY <1>1, <1>16, Zenon

LEMMA ReadFailsHolds ==
  ASSUME HandlerInv, ReadFails
  PROVE  Holding(memory, stream, got, "write", bl, name, id)
<1>1. /\ "write" # "read" /\ "write" # "received" /\ "write" # "chunk" /\ "read" # "returned"
      /\ "write" \in {"read", "received", "chunk", "write", "returned"}
  OBVIOUS
<1>2. at = "read"
  BY DEF ReadFails
<1> QED
  BY <1>1, <1>2, Zenon DEF HandlerInv, Holding, Stands

LEMMA MessageAt ==
  ASSUME Counted(stream, got, bl), got > 0
  PROVE  /\ got \in Nat /\ got \in 1 .. Len(stream) /\ stream[got] \in Message
         /\ stream \in Seq(Message) /\ bl \in Seq(Bytes)
<1>1. stream \in Seq(Message) /\ got \in 0 .. Len(stream) /\ bl \in Seq(Bytes)
  BY Zenon DEF Counted
<1>2. got \in 1 .. Len(stream) /\ got \in Nat
  BY <1>1, LenProperties
<1> QED
  BY <1>1, <1>2, ChunksAreBytes, Zenon

LEMMA TakeNameHolds ==
  ASSUME HandlerInv, TakeName
  PROVE  Holding(memory', stream, got, "chunk", bl, name', id)
<1>1. /\ "chunk" # "read" /\ "chunk" # "received" /\ "received" # "returned"
      /\ "chunk" \in {"read", "received", "chunk", "write", "returned"}
  OBVIOUS
<1>2. at = "received" /\ data_case(memory, uploadFilePart) = "kInfo"
  BY DEF TakeName, has_info
<1>3. PICK q : q = mutable_info(memory, uploadFilePart)
  OBVIOUS
<1>4. memory' = q /\ name' = Pointed(q, uploadFilePart).name
  BY <1>3, Zenon DEF TakeName
<1>5. Counted(stream, got, bl) /\ HasReceived(memory, stream, got, bl, name)
  BY <1>2, Zenon DEF HandlerInv, Holding
<1>6. /\ got > 0 /\ Carries(memory, stream[got]) /\ bl = ChunksOf(stream)[got - 1]
  BY <1>5, Zenon DEF HasReceived, Handled
<1>7. stream[got] \in Message
  BY <1>5, <1>6, MessageAt, Zenon
<1>8. q = memory /\ stream[got].kind = "FileInfo" /\ name' = stream[got].name
  <2>1. /\ q = memory /\ stream[got].kind = "FileInfo"
        /\ Pointed(q, uploadFilePart).name = stream[got].name
    BY <1>2, <1>3, <1>6, <1>7, NameTaken
  <2> QED
    BY <1>4, <2>1
<1>9. HasName(memory', stream, got, bl, name')
  BY <1>4, <1>6, <1>8, Zenon DEF HasName
<1>10. Stands(memory', "chunk")
  BY <1>1, <1>2, <1>4, <1>8, Zenon DEF HandlerInv, Holding, Stands
<1> QED
  BY <1>1, <1>5, <1>9, <1>10, Zenon DEF Holding

LEMMA TakeChunkHolds ==
  ASSUME HandlerInv, TakeChunk
  PROVE  Holding(memory', stream, got, "read", bl', name, name)
<1>1. /\ "read" # "received" /\ "read" # "chunk" /\ "chunk" # "returned" /\ "received" # "returned"
      /\ "FileInfo" # "string"
      /\ "read" \in {"read", "received", "chunk", "write", "returned"}
  OBVIOUS
<1>2. at = "chunk" \/ (at = "received" /\ data_case(memory, uploadFilePart) # "kInfo")
  BY DEF TakeChunk, has_info
<1>3. PICK q : q = mutable_chunk_data(memory, uploadFilePart)
  OBVIOUS
<1>4. bl' = bl \o Pointed(q, uploadFilePart).bytes /\ memory' = Assigned(q, uploadFilePart, Text(<<>>))
  BY <1>3, Zenon DEF TakeChunk
<1>5. Counted(stream, got, bl) /\ Sound(memory) /\ memory.request[uploadFilePart].live
  BY <1>1, <1>2, Zenon DEF HandlerInv, Holding, Stands
<1>6. got > 0 /\ Carries(memory, stream[got]) /\ bl = ChunksOf(stream)[got - 1]
  BY <1>2, Zenon DEF HandlerInv, Holding, HasReceived, HasName, Handled
<1>7. PICK x : x = stream[got]
  OBVIOUS
<1>8. /\ got \in Nat /\ got \in 1 .. Len(stream) /\ x \in Message
      /\ stream \in Seq(Message) /\ bl \in Seq(Bytes)
  BY <1>5, <1>6, <1>7, MessageAt, Zenon
<1>9. /\ Sound(memory') /\ memory'.request[uploadFilePart].live
      /\ x.kind = "FileInfo" => Pointed(q, uploadFilePart).bytes = <<>>
      /\ x.kind = "string" => Pointed(q, uploadFilePart).bytes = x.bytes
  BY <1>3, <1>4, <1>5, <1>6, <1>7, <1>8, StreamAssumption, ChunkTaken, Zenon
<1>10. /\ x.kind = "FileInfo" => ChunksOf(stream)[got] = ChunksOf(stream)[got - 1]
       /\ x.kind = "string" => ChunksOf(stream)[got] = ChunksOf(stream)[got - 1] \o x.bytes
  BY <1>7, <1>8, ChunksAreBytes, Zenon
<1>11. bl' \in Seq(Bytes) /\ Handled(stream, got, bl', name)
  <2>1. CASE x.kind = "FileInfo"
    <3>1. at = "chunk"
      <4>1. CaseOf(x) = "kInfo"
        BY <2>1, Zenon DEF CaseOf
      <4> QED
        BY <1>2, <1>6, <1>7, <4>1, Zenon DEF Carries, data_case
    <3>2. name = x.name
      BY <1>7, <3>1, Zenon DEF HandlerInv, Holding, HasName
    <3>3. IsLastName(name, stream, got)
      BY <1>6, <1>7, <1>8, <2>1, <3>2, NameAdvances, Zenon
    <3>4. bl' = bl
      BY <1>4, <1>8, <1>9, <2>1, AppendNothing
    <3> QED
      BY <1>6, <1>8, <1>10, <2>1, <3>3, <3>4, Zenon DEF Handled
  <2>2. CASE x.kind = "string"
    <3>1. at = "received"
      <4>1. at # "chunk"
        BY <1>1, <1>7, <2>2, Zenon DEF HandlerInv, Holding, HasName
      <4> QED
        BY <1>2, <4>1
    <3>2. IsLastName(name, stream, got - 1)
      BY <3>1, Zenon DEF HandlerInv, Holding, HasReceived, Handled
    <3>3. IsLastName(name, stream, got)
      BY <1>6, <1>7, <1>8, <2>2, <3>2, NameStays, Zenon
    <3>4. bl' = bl \o x.bytes
      BY <1>4, <1>9, <2>2, Zenon
    <3>5. x.bytes \in Seq(Bytes)
      BY <1>1, <1>8, <2>2, MessageParts, Zenon DEF IsString
    <3>6. bl' \in Seq(Bytes)
      BY <1>8, <3>4, <3>5, ConcatProperties
    <3> QED
      BY <1>6, <1>10, <2>2, <3>3, <3>4, <3>6, Zenon DEF Handled
  <2> QED
    BY <1>8, <2>1, <2>2, MessageParts, Zenon
<1>12. Counted(stream, got, bl') /\ Stands(memory', "read")
  BY <1>1, <1>5, <1>9, <1>11, Zenon DEF Counted, Stands
<1>13. ToRead(stream, got, bl', name, name)
  BY <1>11, Zenon DEF ToRead
<1> QED
  BY <1>1, <1>12, <1>13, Zenon DEF Holding

LEMMA WriteHolds ==
  ASSUME HandlerInv, WriteAndReturn
  PROVE  Holding(memory', stream, got, "returned", bl, name, id)
<1>1. /\ "returned" # "read" /\ "returned" # "received" /\ "returned" # "chunk"
      /\ "returned" \in {"read", "received", "chunk", "write", "returned"}
  OBVIOUS
<1>2. Sound(memory) /\ Counted(stream, got, bl)
  BY Zenon DEF HandlerInv, Holding, Stands
<1>3. memory' = SharedDtor(memory, uploadFilePart)
  BY Zenon DEF WriteAndReturn
<1>4. Sound(memory')
  BY <1>2, <1>3, Destroyed, StreamAssumption, Zenon
<1> QED
  BY <1>1, <1>2, <1>4, Zenon DEF Holding, Stands

(* One lemma for every action of UploadFile, above.                        *)
LEMMA HandlerKept == HandlerInv /\ [UploadFile]_<<vars, handler>> => HandlerInv'
<1> SUFFICES ASSUME HandlerInv, [UploadFile]_<<vars, handler>>
             PROVE  Holding(memory', stream', got', at', bl', name', id')
  BY Zenon DEF HandlerInv
<1>1. CASE Read
  BY <1>1, ReadHolds DEF Read, locals
<1>2. CASE ReadFails
  BY <1>2, ReadFailsHolds DEF ReadFails, locals
<1>3. CASE TakeName
  BY <1>3, TakeNameHolds DEF TakeName
<1>4. CASE TakeChunk
  BY <1>4, TakeChunkHolds DEF TakeChunk
<1>5. CASE WriteAndReturn
  BY <1>5, WriteHolds DEF WriteAndReturn, locals
<1>6. CASE UNCHANGED <<vars, handler>>
  <2>1. /\ memory' = memory /\ stream' = stream /\ got' = got /\ at' = at
        /\ bl' = bl /\ name' = name /\ id' = id
    BY <1>6 DEF vars, handler, locals
  <2> QED
    BY <2>1, Zenon DEF HandlerInv
<1> QED
  BY <1>1, <1>2, <1>3, <1>4, <1>5, <1>6, Zenon DEF UploadFile

(* The handler's message receives every message of the stream, whatever    *)
(* the stream is: when a Read has returned it carries that message and     *)
(* nothing else, and it lives until the call returns (UploadFile of        *)
(* file_server.cpp).                                                       *)
THEOREM HandlerInvariant == StreamSpec => []HandlerInv
  BY StreamInitHolds, HandlerKept, PTL DEF StreamSpec

(* Between two messages the content is the chunks read so far and the name *)
(* the last one read, for streams of any length, with names and chunks of  *)
(* any bytes (UploadFile of file_server.cpp).                              *)
THEOREM StreamIsHandledInOrder == StreamSpec => []HandledInOrder
<1>1. HandlerInv => HandledInOrder
  BY Zenon DEF HandlerInv, Holding, ToRead, Handled, HandledInOrder
<1> QED
  BY <1>1, HandlerInvariant, PTL

(* The handler deletes what its message held and leaks nothing, though     *)
(* mutable_chunk_data replaces the object its name came from, and what is  *)
(* in its memory would be sent and merged as it is (UploadFile of          *)
(* file_server.cpp on file_service.pb.cc).                                 *)
THEOREM HandlerOwnsWhatItHolds == StreamSpec => [](OwnedOnce /\ ArrivesAsSent /\ ParsingMerges)
<1>1. HandlerInv => Sound(memory)
  BY Zenon DEF HandlerInv, Holding, Stands
<1>2. HandlerInv => OwnedOnce /\ ArrivesAsSent /\ ParsingMerges
  BY <1>1, SoundIsOwnedOnce, SoundArrives, SoundMerges, Zenon
<1> QED
  BY <1>2, HandlerInvariant, PTL
=============================================================================
