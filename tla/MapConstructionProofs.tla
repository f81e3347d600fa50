----------------------- MODULE MapConstructionProofs -----------------------
(***************************************************************************)
(* Theorems about MapConstruction, for a root, racks and hosts of any      *)
(* sizes.                                                                  *)
(***************************************************************************)
EXTENDS MapConstruction, SequenceTheorems, FiniteSetTheorems, TLAPS

-----------------------------------------------------------------------------
(* Sequences of items                                                      *)

LEMMA Appended ==
  ASSUME NEW S, NEW s \in Seq(S), NEW x \in S
  PROVE  /\ Append(s, x) \in Seq(S) /\ Len(Append(s, x)) = Len(s) + 1
         /\ ToSet(Append(s, x)) = ToSet(s) \union {x}
<1>1. /\ Append(s, x) \in Seq(S) /\ Len(Append(s, x)) = Len(s) + 1 /\ Len(s) \in Nat
      /\ Append(s, x)[Len(s) + 1] = x
      /\ \A i \in 1 .. Len(s) : Append(s, x)[i] = s[i]
  BY AppendProperties
<1>2. DOMAIN s = 1 .. Len(s) /\ DOMAIN Append(s, x) = 1 .. Len(s) + 1
  BY <1>1, LenProperties
<1>3. \A i \in 1 .. Len(s) + 1 : i \in 1 .. Len(s) \/ i = Len(s) + 1
  BY <1>1
<1>4. ToSet(Append(s, x)) = ToSet(s) \union {x}
  BY <1>1, <1>2, <1>3 DEF ToSet
<1> QED
  BY <1>1, <1>4

LEMMA SizeNumbers ==
  /\ Sizes[1] \in Nat \ {0} /\ Sizes[2] \in Nat \ {0} /\ Sizes[3] \in Nat \ {0}
  /\ OsdSum \in Nat /\ MaxSlots \in Nat
  BY SizesAssumption

ABucket == [id : Int, type : Nat, size : Nat, items : Seq(Int),
            item_weights : Seq(Nat), weight : Nat]

LEMMA NoBucketIsNull ==
  ASSUME NEW b \in ABucket PROVE b # Null
<1>1. "type" \in DOMAIN b /\ "type" \notin DOMAIN Null
  BY DEF ABucket, Null
<1> QED
  BY <1>1

LEMMA NoMapIsNull ==
  ASSUME NEW m, NEW n PROVE [max_buckets |-> m, max_devices |-> n] # Null
<1> DEFINE b == [max_buckets |-> m, max_devices |-> n]
<1>1. "max_buckets" \in DOMAIN b /\ "max_buckets" \notin DOMAIN Null
  BY DEF Null
<1> QED
  BY <1>1

LEMMA WithItemTyped ==
  ASSUME NEW b \in ABucket, NEW item \in Int, NEW weight \in Nat
  PROVE  /\ WithItem(b, item, weight) \in ABucket
         /\ WithItem(b, item, weight).id = b.id /\ WithItem(b, item, weight).size = b.size
         /\ WithItem(b, item, weight).items = Append(b.items, item)
         /\ WithItem(b, item, weight).item_weights = Append(b.item_weights, weight)
         /\ WithItem(b, item, weight).weight = b.weight + weight
         /\ WithItem(b, item, weight).type = b.type
<1>1. b.items \in Seq(Int) /\ b.item_weights \in Seq(Nat) /\ b.weight + weight \in Nat
  BY DEF ABucket
<1> DEFINE items == Append(b.items, item)
           weights == Append(b.item_weights, weight)
           a == [b EXCEPT !.items = items]
           c == [a EXCEPT !.item_weights = weights]
           d == [c EXCEPT !.weight = b.weight + weight]
<1>2. items \in Seq(Int) /\ weights \in Seq(Nat)
  BY <1>1, Appended
<1>3. WithItem(b, item, weight) = d
  BY DEF WithItem, ABucket
<1> HIDE DEF items, weights
<1>4. a \in ABucket /\ a.items = items /\ a.id = b.id /\ a.size = b.size /\ a.type = b.type
  BY <1>2 DEF ABucket
<1> HIDE DEF a
<1>5. /\ c \in ABucket /\ c.items = items /\ c.id = b.id /\ c.size = b.size
      /\ c.type = b.type /\ c.item_weights = weights
  BY <1>2, <1>4 DEF ABucket
<1> HIDE DEF c
<1>6. /\ d \in ABucket /\ d.items = items /\ d.id = b.id /\ d.size = b.size
      /\ d.type = b.type /\ d.item_weights = weights /\ d.weight = b.weight + weight
  BY <1>1, <1>5 DEF ABucket
<1> QED
  BY <1>3, <1>6 DEF items, weights

-----------------------------------------------------------------------------
(* The inductive invariant                                                 *)

MapTyped ==
  /\ buckets \in [Slot -> ABucket \union {Null}]
  /\ building \in Seq(ABucket) /\ item_id \in Seq(Nat)
  /\ nextOsd \in 0 .. OsdSum /\ nextBucket \in 1 .. MaxSlots

(* The calls under way: as many as their levels, every caller waiting for  *)
(* an item that it has room for.                                           *)
Stack ==
  /\ Done => building = <<>>
  /\ ~Done => Depth \in 1 .. 3 /\ Len(item_id) = Depth - 1
  /\ \A k \in 1 .. Depth :
       /\ building[k].size = Sizes[k] /\ Len(building[k].items) <= Sizes[k]
       /\ k < Depth => Len(building[k].items) < Sizes[k]

Held(k) == IF k <= Depth THEN Len(building[k].items) ELSE 0

(* The global counters tell how far the recursion is. *)
Counters ==
  ~Done =>
    /\ nextBucket = 1 + Held(1) * (1 + Sizes[2]) + Held(2) + (Depth - 1)
    /\ nextOsd = (Held(1) * Sizes[2] + Held(2)) * Sizes[3] + Held(3)

(* The slots set aside are those of the buckets under construction. *)
Pending ==
  /\ ~Done => building[1].id = -1
  /\ \A i \in 1 .. Len(item_id) :
       /\ item_id[i] \in 1 .. nextBucket - 1
       /\ building[i + 1].id = -1 - item_id[i]
       /\ \A j \in 1 .. Len(item_id) : i # j => item_id[i] # item_id[j]

(* An item that is in use: a device that was numbered, a bucket that is in *)
(* its slot.                                                               *)
Known(item) ==
  IF item >= 0 THEN item < nextOsd
  ELSE /\ -1 - item \in Stored /\ -1 - item < nextBucket
       /\ \A i \in 1 .. Len(item_id) : item_id[i] # -1 - item

Have(k) == ToSet(building[k].items)

Consistent ==
  /\ \A s \in Stored :
       /\ buckets[s].id = -1 - s /\ buckets[s].size = Len(buckets[s].items)
       /\ \A item \in ItemsAt(s) : Known(item)
       /\ \A t \in Stored : s # t => ItemsAt(s) \intersect ItemsAt(t) = {}
       /\ \A k \in 1 .. Depth : ItemsAt(s) \intersect Have(k) = {}
  /\ \A k \in 1 .. Depth :
       /\ \A item \in Have(k) : Known(item)
       /\ \A l \in 1 .. Depth : k # l => Have(k) \intersect Have(l) = {}

MapInv == MapTyped /\ Stack /\ Counters /\ Pending /\ Consistent

LEMMA NewTyped ==
  ASSUME NEW id \in Int, NEW depth \in 1 .. 3
  PROVE  /\ NewBucket(id, depth) \in ABucket
         /\ NewBucket(id, depth).id = id /\ NewBucket(id, depth).size = Sizes[depth]
         /\ NewBucket(id, depth).items = <<>> /\ Len(<<>>) = 0 /\ ToSet(<<>>) = {}
<1>1. <<>> \in Seq(Int) /\ <<>> \in Seq(Nat) /\ Len(<<>>) = 0 /\ ToSet(<<>>) = {}
  BY DEF ToSet
<1>2. Sizes[depth] \in Nat /\ Types[depth] \in Nat
  BY SizesAssumption DEF Types
<1> QED
  BY <1>1, <1>2 DEF NewBucket, ABucket

LEMMA InitMap == MapInit => MapInv
<1> SUFFICES ASSUME MapInit PROVE MapInv
  OBVIOUS
<1> DEFINE b == NewBucket(-1, 1)
<1>1. /\ b \in ABucket /\ b.id = -1 /\ b.size = Sizes[1] /\ b.items = <<>>
      /\ Len(b.items) = 0 /\ ToSet(b.items) = {}
  BY NewTyped
<1> HIDE DEF b
<1>2. /\ building = <<b>> /\ item_id = <<>> /\ buckets = [s \in Slot |-> Null]
      /\ nextOsd = 0 /\ nextBucket = 1 /\ ~Done
  BY DEF MapInit, Done, b
<1>3. building \in Seq(ABucket) /\ Depth = 1 /\ building[1] = b /\ item_id \in Seq(Nat)
      /\ Len(item_id) = 0
  BY <1>1, <1>2 DEF Depth
<1>4. Held(1) = 0 /\ Held(2) = 0 /\ Held(3) = 0
  BY <1>1, <1>3 DEF Held
<1>5. 1 <= MaxSlots
  <2>1. Sizes[1] * Sizes[2] \in Nat
    BY SizeNumbers
  <2> QED
    BY <2>1, SizeNumbers, SizesAssumption
<1>6. MapTyped
  BY <1>2, <1>3, <1>5, SizeNumbers DEF MapTyped
<1>7. Stack /\ Pending
  BY <1>1, <1>2, <1>3, SizeNumbers DEF Stack, Pending
<1>8. Counters
  <2>1. 0 * (1 + Sizes[2]) = 0 /\ 0 * Sizes[2] = 0 /\ (0 + 0) * Sizes[3] = 0
    BY SizeNumbers
  <2> QED
    BY <1>2, <1>3, <1>4, <2>1 DEF Counters
<1>9. Stored = {} /\ Have(1) = {}
  BY <1>1, <1>2, <1>3 DEF Stored, Have
<1>10. Consistent
  BY <1>3, <1>9 DEF Consistent
<1> QED
  BY <1>6, <1>7, <1>8, <1>10 DEF MapInv

-----------------------------------------------------------------------------
(* The counters                                                            *)

LEMMA Lengths ==
  ASSUME MapInv, ~Done
  PROVE  /\ Depth \in 1 .. 3 /\ Len(item_id) = Depth - 1 /\ Current = building[Depth]
         /\ Current \in ABucket /\ Current.size = Sizes[Depth]
         /\ \A k \in 1 .. Depth : building[k] \in ABucket /\ Held(k) \in Nat
                                  /\ Held(k) = Len(building[k].items)
         /\ Held(1) \in Nat /\ Held(2) \in Nat /\ Held(3) \in Nat
         /\ Held(1) <= Sizes[1] /\ Held(2) <= Sizes[2] /\ Held(3) <= Sizes[3]
         /\ Depth >= 2 => Held(1) < Sizes[1]
         /\ Depth = 3 => Held(2) < Sizes[2]
         /\ Depth < 2 => Held(2) = 0
         /\ Depth < 3 => Held(3) = 0
<1>1. /\ Depth \in 1 .. 3 /\ Len(item_id) = Depth - 1 /\ building \in Seq(ABucket)
      /\ \A k \in 1 .. Depth : /\ building[k].size = Sizes[k]
                               /\ Len(building[k].items) <= Sizes[k]
                               /\ k < Depth => Len(building[k].items) < Sizes[k]
  BY DEF MapInv, MapTyped, Stack
<1>2. \A k \in 1 .. Depth : building[k] \in ABucket /\ Len(building[k].items) \in Nat
  <2>1. \A k \in 1 .. Depth : building[k] \in ABucket
    BY <1>1 DEF Depth
  <2>2. \A b \in ABucket : b.items \in Seq(Int)
    BY DEF ABucket
  <2> QED
    BY <2>1, <2>2
<1>3. /\ \A k \in 1 .. Depth : Held(k) = Len(building[k].items)
      /\ Depth < 2 => Held(2) = 0
      /\ Depth < 3 => Held(3) = 0
  BY <1>1 DEF Held
<1>4. /\ Current = building[Depth] /\ Current \in ABucket /\ Current.size = Sizes[Depth]
      /\ \A k \in 1 .. Depth : building[k] \in ABucket /\ Held(k) \in Nat
                                 /\ Held(k) = Len(building[k].items)
  BY <1>1, <1>2, <1>3 DEF Current
<1>5. \A k \in 1 .. Depth : Held(k) <= Sizes[k] /\ (k < Depth => Held(k) < Sizes[k])
  BY <1>1, <1>3
<1>6. /\ 1 \in 1 .. Depth /\ (Depth >= 2 => 2 \in 1 .. Depth /\ 1 < Depth)
      /\ (Depth = 3 => 3 \in 1 .. Depth /\ 2 < Depth)
      /\ (Depth < 2 \/ (Depth >= 2 /\ Depth < 3) \/ Depth = 3)
  BY <1>1
<1>7. /\ Held(1) \in Nat /\ Held(1) <= Sizes[1]
      /\ Held(2) \in Nat /\ Held(2) <= Sizes[2]
      /\ Held(3) \in Nat /\ Held(3) <= Sizes[3]
  <2>1. Held(1) \in Nat /\ Held(1) <= Sizes[1]
    BY <1>4, <1>5, <1>6
  <2>2. CASE Depth < 2
    <3>1. Held(2) = 0 /\ Held(3) = 0
      BY <1>1, <1>3, <2>2
    <3> QED
      BY <2>1, <3>1, SizeNumbers
  <2>3. CASE Depth >= 2 /\ Depth < 3
    <3>1. Held(2) \in Nat /\ Held(2) <= Sizes[2] /\ Held(3) = 0
      BY <1>3, <1>4, <1>5, <1>6, <2>3
    <3> QED
      BY <2>1, <3>1, SizeNumbers
  <2>4. CASE Depth = 3
    <3>1. 2 \in 1 .. Depth /\ 3 \in 1 .. Depth
      BY <2>4
    <3> QED
      BY <1>4, <1>5, <2>1, <3>1
  <2> QED
    BY <1>6, <2>2, <2>3, <2>4
<1>8. (Depth >= 2 => Held(1) < Sizes[1]) /\ (Depth = 3 => Held(2) < Sizes[2])
  BY <1>5, <1>6, <1>1
<1> QED
  BY <1>1, <1>3, <1>4, <1>7, <1>8

LEMMA Room ==
  ASSUME MapInv, ~Done
  PROVE  /\ ~Filled /\ Depth = 3 => nextOsd + 1 <= OsdSum
         /\ ~Filled /\ Depth < 3 => nextBucket + 1 <= MaxSlots
<1> DEFINE S1 == Sizes[1]  S2 == Sizes[2]  S3 == Sizes[3]
           a == Held(1)  b == Held(2)  c == Held(3)
<1>1. /\ S1 \in Nat \ {0} /\ S2 \in Nat \ {0} /\ S3 \in Nat \ {0}
      /\ a \in Nat /\ b \in Nat /\ c \in Nat /\ OsdSum \in Nat /\ MaxSlots \in Nat
      /\ S1 * S2 * S3 <= OsdSum /\ 1 + S1 + S1 * S2 <= MaxSlots
  BY Lengths, SizeNumbers, SizesAssumption
<1>2. ASSUME ~Filled, Depth = 3 PROVE a < S1 /\ b < S2 /\ c < S3
  BY <1>2, Lengths, SizeNumbers DEF Filled
<1>3. ASSUME ~Filled, Depth = 2 PROVE a < S1 /\ b < S2
  BY <1>3, Lengths, SizeNumbers DEF Filled
<1>4. ASSUME ~Filled, Depth = 1 PROVE a < S1 /\ b = 0
  BY <1>4, Lengths, SizeNumbers DEF Filled
<1>5. /\ nextBucket = 1 + a * (1 + S2) + b + (Depth - 1)
      /\ nextOsd = (a * S2 + b) * S3 + c
  BY DEF MapInv, Counters
<1>6. Depth \in 1 .. 3
  BY Lengths
<1> HIDE DEF S1, S2, S3, a, b, c
<1>7. ASSUME a < S1 PROVE a * S2 + S2 <= S1 * S2 /\ a * S2 \in Nat
  <2>1. a * S2 + S2 = (a + 1) * S2 /\ (a + 1) * S2 <= S1 * S2
    BY <1>1, <1>7
  <2> QED
    BY <1>1, <2>1
<1>8. ASSUME a < S1, b < S2, c < S3 PROVE (a * S2 + b) * S3 + c + 1 <= OsdSum
  <2> DEFINE h == a * S2 + b
             n == S1 * S2
  <2>1. h + 1 <= n /\ h \in Nat /\ n \in Nat
    BY <1>1, <1>7, <1>8
  <2>2. n * S3 <= OsdSum
    BY <1>1
  <2> HIDE DEF h, n
  <2>3. h * S3 + S3 = (h + 1) * S3 /\ (h + 1) * S3 <= n * S3
    BY <1>1, <2>1
  <2>4. h * S3 \in Nat /\ n * S3 \in Nat
    BY <1>1, <2>1
  <2> QED
    BY <1>1, <1>8, <2>2, <2>3, <2>4 DEF h
<1>9. a * (1 + S2) = a + a * S2
  BY <1>1
<1> QED
  <2>1. ASSUME ~Filled, Depth = 3 PROVE nextOsd + 1 <= OsdSum
    BY <1>2, <1>5, <1>8, <2>1
  <2>2. ASSUME ~Filled, Depth = 2 PROVE nextBucket + 1 <= MaxSlots
    <3>1. /\ nextBucket = 1 + (a + a * S2) + b + 1 /\ a < S1 /\ b < S2
          /\ a * S2 + S2 <= S1 * S2 /\ a * S2 \in Nat
      BY <1>3, <1>5, <1>7, <1>9, <2>2
    <3>2. S1 * S2 \in Nat
      BY <1>1
    <3> QED
      BY <1>1, <3>1, <3>2
  <2>3. ASSUME ~Filled, Depth = 1 PROVE nextBucket + 1 <= MaxSlots
    <3>1. /\ nextBucket = 1 + (a + a * S2) + b + 0 /\ a < S1 /\ b = 0
          /\ a * S2 + S2 <= S1 * S2 /\ a * S2 \in Nat
      BY <1>4, <1>5, <1>7, <1>9, <2>3
    <3>2. S1 * S2 \in Nat
      BY <1>1
    <3> QED
      BY <1>1, <3>1, <3>2
  <2> QED
    BY <1>6, <2>1, <2>2, <2>3

-----------------------------------------------------------------------------
(* The steps                                                               *)

LEMMA NotDone ==
  ASSUME MapInv, Depth > 0
  PROVE  ~Done
  BY DEF MapInv, Stack, Depth

LEMMA DeviceStep ==
  ASSUME MapInv, AddDevice
  PROVE  MapInv'
<1>0. PICK n : n = nextOsd
  OBVIOUS
<1> DEFINE b == WithItem(building[3], n, Weight)
<1>1. /\ Depth = 3 /\ ~Filled /\ building' = [building EXCEPT ![3] = b]
      /\ nextOsd = n /\ nextOsd' = n + 1 /\ UNCHANGED <<buckets, item_id, nextBucket, map>>
  BY <1>0 DEF AddDevice
<1>2. ~Done /\ Done' = Done
  BY <1>1, NotDone DEF Done
<1>3. /\ building \in Seq(ABucket) /\ n \in Nat /\ n + 1 <= OsdSum /\ Len(building) = 3
      /\ Current = building[3] /\ Current.size = Sizes[3]
  BY <1>1, <1>2, Lengths, Room, SizeNumbers DEF MapInv, MapTyped, Depth
<1>3a. \A k \in 1 .. 3 : building[k] \in ABucket /\ Held(k) = Len(building[k].items)
  BY <1>1, <1>2, Lengths
<1>3b. /\ building[1] \in ABucket /\ building[2] \in ABucket /\ building[3] \in ABucket
       /\ Held(3) = Len(building[3].items)
       /\ Held(3) <= Sizes[3] /\ Held(3) \in Nat /\ Sizes[3] \in Nat
  BY <1>2, <1>3a, Lengths, SizeNumbers
<1>4. /\ b \in ABucket /\ b.id = building[3].id /\ b.size = Sizes[3]
      /\ b.items = Append(building[3].items, n) /\ building[3].items \in Seq(Int)
  <2>1. Weight \in Nat
    BY DEF Weight
  <2> QED
    <3>1. n \in Int /\ building[3].items \in Seq(Int) /\ building[3].size = Sizes[3]
      BY <1>3, <1>3b DEF ABucket
    <3> QED
      BY <1>3b, <2>1, <3>1, WithItemTyped
<1> HIDE DEF b
<1>5. Len(b.items) = Held(3) + 1 /\ ToSet(b.items) = Have(3) \union {n}
  <2>1. building[3].items \in Seq(Int) /\ n \in Int
    BY <1>3, <1>4
  <2> QED
    BY <1>3b, <1>4, <2>1, Appended DEF Have
<1>6. /\ building' \in Seq(ABucket) /\ Depth' = 3 /\ building'[3] = b
      /\ building'[1] = building[1] /\ building'[2] = building[2]
      /\ \A k \in 1 .. 3 : k = 3 \/ building'[k] = building[k]
  <2>1. /\ [building EXCEPT ![3] = b] \in Seq(ABucket)
        /\ Len([building EXCEPT ![3] = b]) = 3
        /\ \A k \in 1 .. 3 : [building EXCEPT ![3] = b][k] = IF k = 3 THEN b ELSE building[k]
    <3>1. 3 \in 1 .. Len(building)
      BY <1>3
    <3>2. building \in Seq(ABucket) /\ b \in ABucket
      BY <1>3, <1>4
    <3>3. /\ [building EXCEPT ![3] = b] \in Seq(ABucket)
          /\ Len([building EXCEPT ![3] = b]) = Len(building)
          /\ \A k \in 1 .. Len(building) :
               [building EXCEPT ![3] = b][k] = IF k = 3 THEN b ELSE building[k]
      BY <3>1, <3>2, ExceptSeq
    <3> QED
      BY <1>3, <3>3
  <2>2. 1 \in 1 .. 3 /\ 2 \in 1 .. 3 /\ 3 \in 1 .. 3
    OBVIOUS
  <2> QED
    BY <1>1, <2>1, <2>2 DEF Depth
<1>7. Held(1)' = Held(1) /\ Held(2)' = Held(2) /\ Held(3)' = Held(3) + 1
  BY <1>1, <1>3a, <1>3b, <1>5, <1>6 DEF Held
<1>8. Held(3) < Sizes[3] /\ Held(3) \in Nat
  BY <1>1, <1>3, <1>3b DEF Filled
<1>9. MapTyped'
  BY <1>1, <1>3, <1>6, SizeNumbers DEF MapInv, MapTyped
<1>10. Stack'
  <2>1. \A k \in 1 .. 2 : /\ building[k].size = Sizes[k] /\ Len(building[k].items) <= Sizes[k]
                          /\ Len(building[k].items) < Sizes[k]
    <3>1. \A k \in 1 .. 2 : k \in 1 .. Depth /\ k < Depth
      BY <1>1
    <3> QED
      BY <3>1 DEF MapInv, Stack
  <2>2. \A k \in 1 .. 2 : k \in 1 .. 3 /\ k # 3 /\ building'[k] = building[k]
    BY <1>6
  <2>3. building'[3].size = Sizes[3] /\ Len(building'[3].items) <= Sizes[3] /\ ~(3 < 3)
    BY <1>3b, <1>4, <1>5, <1>6, <1>8, SizeNumbers
  <2>4. \A k \in 1 .. 3 : k = 3 \/ k \in 1 .. 2
    OBVIOUS
  <2>5. Len(item_id') = 3 - 1
    BY <1>1, <1>2, Lengths
  <2> QED
    BY <1>2, <1>6, <2>1, <2>2, <2>3, <2>4, <2>5 DEF Stack
<1>11. Counters'
  <2>1. (Held(1) * Sizes[2] + Held(2)) * Sizes[3] \in Int
    BY <1>2, Lengths, SizeNumbers
  <2> QED
    BY <1>1, <1>2, <1>6, <1>7, <1>8, <2>1 DEF MapInv, Counters
<1>12. Pending'
  <2>1. /\ item_id' = item_id /\ nextBucket' = nextBucket /\ Len(item_id) = 2
        /\ building[1].id = -1
    BY <1>1, <1>2, Lengths DEF MapInv, Pending
  <2>2. \A k \in 1 .. 3 : building'[k].id = building[k].id
    BY <1>4, <1>6
  <2>3. \A i \in 1 .. 2 : i + 1 \in 1 .. 3
    OBVIOUS
  <2>4. building'[1].id = -1
    BY <1>6, <2>1
  <2>5. \A i \in 1 .. 2 :
          /\ item_id[i] \in 1 .. nextBucket - 1 /\ building[i + 1].id = -1 - item_id[i]
          /\ \A j \in 1 .. 2 : i # j => item_id[i] # item_id[j]
    BY <2>1 DEF MapInv, Pending
  <2>6. \A i \in 1 .. 2 : building'[i + 1].id = building[i + 1].id
    BY <2>2, <2>3
  <2> QED
    BY <2>1, <2>4, <2>5, <2>6 DEF Pending
<1>13. Consistent'
  <2>1. \A item : Known(item) /\ item \in Int => Known(item)' /\ item # n
    BY <1>1, <1>3 DEF Known, Stored
  <2>2. Known(n)'
    BY <1>1, <1>3 DEF Known
  <2>3. Stored' = Stored /\ \A t \in Stored : ItemsAt(t)' = ItemsAt(t)
    BY <1>1 DEF Stored, ItemsAt
  <2>4. Have(1)' = Have(1) /\ Have(2)' = Have(2) /\ Have(3)' = Have(3) \union {n}
    BY <1>5, <1>6 DEF Have
  <2>5. \A t \in Stored : ItemsAt(t) \subseteq Int
    BY DEF MapInv, MapTyped, Stored, ItemsAt, ABucket, ToSet
  <2>6. \A k \in 1 .. 3 : Have(k) \subseteq Int
    <3>1. \A k \in 1 .. 3 : building[k].items \in Seq(Int)
      BY <1>3a DEF ABucket
    <3> QED
      BY <3>1 DEF Have, ToSet
  <2>7. \A k \in 1 .. Depth : Have(k)' \in {Have(k), Have(k) \union {n}} /\ (k # 3 => Have(k)' = Have(k))
    BY <1>1, <2>4
  <2>8. Consistent
    BY DEF MapInv
  <2>9. \A t \in Stored : n \notin ItemsAt(t)
    BY <2>1, <2>5, <2>8 DEF Consistent
  <2>10. \A k \in 1 .. Depth : n \notin Have(k)
    BY <1>1, <2>1, <2>6, <2>8 DEF Consistent
  <2>11. \A k \in 1 .. Depth : \A item \in Have(k)' : Known(item)'
    BY <1>1, <2>1, <2>2, <2>6, <2>7, <2>8 DEF Consistent
  <2>12. \A k, l \in 1 .. Depth : k # l => Have(k)' \intersect Have(l)' = {}
    BY <2>7, <2>8, <2>10 DEF Consistent
  <2>13. \A t \in Stored : \A k \in 1 .. Depth : ItemsAt(t) \intersect Have(k)' = {}
    BY <2>7, <2>8, <2>9 DEF Consistent
  <2>14. \A t \in Stored : \A item \in ItemsAt(t) : Known(item)'
    BY <2>1, <2>5, <2>8 DEF Consistent
  <2> QED
    BY <1>1, <1>6, <2>3, <2>8, <2>11, <2>12, <2>13, <2>14 DEF Consistent
<1> QED
  BY <1>9, <1>10, <1>11, <1>12, <1>13 DEF MapInv

LEMMA CallStep ==
  ASSUME MapInv, CallConstruct
  PROVE  MapInv'
<1>0. PICK d \in 1 .. 2 : d = Depth
  BY DEF CallConstruct
<1> DEFINE b == NewBucket(-nextBucket - 1, d + 1)
<1>1. /\ Depth = d /\ d \in 1 .. 2 /\ ~Filled /\ building' = Append(building, b)
      /\ item_id' = Append(item_id, nextBucket) /\ nextBucket' = nextBucket + 1
      /\ UNCHANGED <<buckets, nextOsd, map>>
  BY <1>0 DEF CallConstruct
<1>2. ~Done /\ Done' = Done
  BY <1>1, NotDone DEF Done
<1>3. /\ building \in Seq(ABucket) /\ Len(building) = d /\ item_id \in Seq(Nat)
      /\ Len(item_id) = d - 1 /\ nextBucket \in Nat /\ nextBucket + 1 \in 1 .. MaxSlots
      /\ \A k \in 1 .. d : building[k] \in ABucket /\ Held(k) = Len(building[k].items)
  <2>1. Depth < 3 /\ nextBucket + 1 <= MaxSlots
    BY <1>1, <1>2, Room
  <2>2. building \in Seq(ABucket) /\ item_id \in Seq(Nat) /\ nextBucket \in 1 .. MaxSlots
    BY DEF MapInv, MapTyped
  <2>3. Len(building) = d /\ Len(item_id) = d - 1
    BY <1>1, <1>2, Lengths DEF Depth
  <2>4. \A k \in 1 .. d : building[k] \in ABucket /\ Held(k) = Len(building[k].items)
    BY <1>1, <1>2, Lengths
  <2>5. nextBucket \in Nat /\ nextBucket + 1 \in 1 .. MaxSlots
    BY <2>1, <2>2, SizeNumbers
  <2> QED
    BY <2>2, <2>3, <2>4, <2>5
<1>4. /\ b \in ABucket /\ b.id = -1 - nextBucket /\ b.size = Sizes[d + 1]
      /\ b.items = <<>> /\ Len(b.items) = 0 /\ ToSet(b.items) = {}
  BY <1>1, <1>3, NewTyped
<1> HIDE DEF b
<1>5. /\ building' \in Seq(ABucket) /\ Depth' = d + 1 /\ building'[d + 1] = b
      /\ \A k \in 1 .. d : building'[k] = building[k]
  BY <1>1, <1>3, <1>4, AppendProperties DEF Depth
<1>6. /\ item_id' \in Seq(Nat) /\ Len(item_id') = d /\ item_id'[d] = nextBucket
      /\ \A i \in 1 .. d - 1 : item_id'[i] = item_id[i]
  BY <1>1, <1>3, AppendProperties
<1>7. /\ \A k \in 1 .. d : Held(k)' = Held(k)
      /\ Held(d + 1)' = 0 /\ (d = 1 => Held(3)' = 0 /\ Held(3) = 0)
      /\ Held(d + 1) = 0
  BY <1>1, <1>3, <1>4, <1>5 DEF Held
<1>8. \A k \in 1 .. d : Held(k) <= Sizes[k] /\ Held(k) < Sizes[k] /\ Held(k) \in Nat
  <2>1. Held(1) \in Nat /\ Held(2) \in Nat /\ Held(1) <= Sizes[1] /\ Held(2) <= Sizes[2]
    BY <1>2, Lengths
  <2>2. Len(building[d].items) # Sizes[d] /\ d \in 1 .. d
    BY <1>1, <1>2, Lengths DEF Filled
  <2>3. Held(d) # Sizes[d]
    BY <1>3, <2>2
  <2>4. d = 2 => Held(1) < Sizes[1]
    BY <1>1, <1>2, Lengths
  <2>5. CASE d = 1
    <3>1. Held(1) < Sizes[1] /\ \A k \in 1 .. d : k = 1
      BY <2>1, <2>3, <2>5, SizeNumbers
    <3> QED
      BY <2>1, <3>1
  <2>6. CASE d = 2
    <3>1. Held(2) < Sizes[2] /\ \A k \in 1 .. d : k = 1 \/ k = 2
      BY <2>1, <2>3, <2>6, SizeNumbers
    <3> QED
      BY <2>1, <2>4, <2>6, <3>1
  <2> QED
    BY <1>1, <2>5, <2>6
<1>9. MapTyped'
  BY <1>1, <1>3, <1>5, <1>6, SizeNumbers DEF MapInv, MapTyped
<1>10. Stack'
  <2>1. \A k \in 1 .. d : building[k].size = Sizes[k]
    BY <1>1 DEF MapInv, Stack
  <2>2. 0 <= Sizes[d + 1]
    <3>1. d + 1 \in 1 .. 3
      BY <1>1
    <3> QED
      BY <3>1, SizesAssumption
  <2>3. Depth' \in 1 .. 3 /\ Len(item_id') = Depth' - 1
    BY <1>1, <1>5, <1>6
  <2>4. \A k \in 1 .. d : building'[k].size = Sizes[k] /\ Len(building'[k].items) < Sizes[k]
                          /\ Len(building'[k].items) <= Sizes[k]
    BY <1>3, <1>5, <1>8, <2>1
  <2>5. building'[d + 1].size = Sizes[d + 1] /\ Len(building'[d + 1].items) <= Sizes[d + 1]
    BY <1>4, <1>5, <2>2
  <2>6. \A k \in 1 .. d + 1 : k = d + 1 \/ k \in 1 .. d
    BY <1>1
  <2>7. ~(d + 1 < d + 1)
    BY <1>1
  <2> QED
    BY <1>2, <1>5, <2>3, <2>4, <2>5, <2>6, <2>7 DEF Stack
<1>11. Counters'
  <2>1. Held(1)' = Held(1) /\ Held(2)' = Held(2) /\ Held(3)' = Held(3)
    BY <1>1, <1>7
  <2>2. Held(1) * (1 + Sizes[2]) \in Int
    BY <1>2, Lengths, SizeNumbers
  <2> QED
    <3>1. nextBucket = 1 + Held(1) * (1 + Sizes[2]) + Held(2) + (d - 1)
      BY <1>1, <1>2 DEF MapInv, Counters
    <3>2. nextOsd = (Held(1) * Sizes[2] + Held(2)) * Sizes[3] + Held(3)
      BY <1>2 DEF MapInv, Counters
    <3>3. Held(2) \in Int
      BY <1>2, Lengths
    <3>4. nextBucket' = 1 + Held(1)' * (1 + Sizes[2]) + Held(2)' + (Depth' - 1)
      <4>1. PICK x \in Int : x = Held(1) * (1 + Sizes[2])
        BY <2>2
      <4>2. nextBucket + 1 = 1 + x + Held(2) + ((d + 1) - 1)
        <5>1. nextBucket = 1 + x + Held(2) + (d - 1)
          BY <3>1, <4>1
        <5>2. nextBucket \in Int /\ x \in Int /\ Held(2) \in Int /\ d \in Int
          BY <1>0, <1>3, <3>3
        <5> QED
          BY <5>1, <5>2
      <4> QED
        BY <1>1, <1>5, <2>1, <4>1, <4>2
    <3>5. nextOsd' = (Held(1)' * Sizes[2] + Held(2)') * Sizes[3] + Held(3)'
      BY <1>1, <2>1, <3>2
    <3> QED
      BY <3>4, <3>5 DEF Counters
<1>12. Pending'
  <2>1. building'[1] = building[1] /\ building[1].id = -1
    BY <1>1, <1>2, <1>5 DEF MapInv, Pending
  <2>2. ASSUME NEW i \in 1 .. d
        PROVE  /\ item_id'[i] \in 1 .. nextBucket /\ building'[i + 1].id = -1 - item_id'[i]
               /\ \A j \in 1 .. d : i # j => item_id'[i] # item_id'[j]
    <3>1. \A j \in 1 .. d - 1 : /\ item_id'[j] \in 1 .. nextBucket - 1
                                    /\ building'[j + 1].id = -1 - item_id'[j]
                                    /\ \A l \in 1 .. d - 1 : j # l => item_id'[j] # item_id'[l]
      <4>1. \A j \in 1 .. d - 1 : j + 1 \in 1 .. d
        BY <1>1
      <4> QED
        BY <1>3, <1>5, <1>6, <4>1 DEF MapInv, Pending
    <3>2. \A j \in 1 .. d : j \in 1 .. d - 1 \/ j = d
      BY <1>1
    <3>3. 1 <= nextBucket
      BY <1>9 DEF MapInv, MapTyped
    <3> QED
      <4>1. CASE i = d
        <5>1. item_id'[d] = nextBucket /\ building'[d + 1].id = -1 - nextBucket
              /\ nextBucket \in 1 .. nextBucket
          BY <1>3, <1>4, <1>5, <1>6, <3>3
        <5>2. \A j \in 1 .. d - 1 : item_id'[j] # nextBucket
          BY <1>3, <3>1
        <5> QED
          BY <3>2, <4>1, <5>1, <5>2
      <4>2. CASE i \in 1 .. d - 1
        <5>1. item_id'[i] \in 1 .. nextBucket - 1 /\ building'[i + 1].id = -1 - item_id'[i]
          BY <3>1, <4>2
        <5>2. item_id'[i] \in 1 .. nextBucket /\ item_id'[i] # nextBucket
          BY <1>3, <5>1
        <5>3. \A j \in 1 .. d - 1 : i # j => item_id'[i] # item_id'[j]
          BY <3>1, <4>2
        <5> QED
          BY <1>6, <3>2, <5>1, <5>2, <5>3
      <4> QED
        BY <3>2, <4>1, <4>2
  <2> QED
    BY <1>1, <1>2, <1>3, <1>6, <2>1, <2>2 DEF Pending
<1>13. Consistent'
  <2>1. Stored' = Stored /\ \A t \in Stored : ItemsAt(t)' = ItemsAt(t)
    BY <1>1 DEF Stored, ItemsAt
  <2>2. \A item : Known(item) => Known(item)'
    <3>1. \A i \in 1 .. d : item_id'[i] = nextBucket \/ (i \in 1 .. d - 1 /\ item_id'[i] = item_id[i])
      BY <1>1, <1>6
    <3>2. Stored \subseteq Int
      BY SizeNumbers DEF Stored, Slot
    <3>3. ASSUME NEW item, Known(item), ~(item >= 0)
          PROVE  /\ -1 - item \in Stored /\ -1 - item < nextBucket + 1
                 /\ \A i \in 1 .. d : item_id'[i] # -1 - item
      <4> DEFINE x == -1 - item
      <4>1. x \in Stored /\ x < nextBucket /\ \A i \in 1 .. d - 1 : item_id[i] # x
        BY <1>3, <3>3 DEF Known
      <4> HIDE DEF x
      <4>2. x \in Int /\ x # nextBucket /\ x < nextBucket + 1
        BY <1>3, <3>2, <4>1
      <4>3. \A i \in 1 .. d : item_id'[i] # x
        BY <3>1, <4>1, <4>2
      <4> QED
        BY <4>1, <4>2, <4>3 DEF x
    <3> QED
      BY <1>1, <1>6, <2>1, <3>3 DEF Known
  <2>3. /\ \A k \in 1 .. d : Have(k)' = Have(k)
        /\ Have(d + 1)' = {}
    BY <1>4, <1>5 DEF Have
  <2>4. \A k \in 1 .. Depth' : k \in 1 .. d \/ k = d + 1
    BY <1>1, <1>5
  <2>5. \A k \in 1 .. Depth' : (k \in 1 .. d /\ Have(k)' = Have(k)) \/ Have(k)' = {}
    BY <2>3, <2>4
  <2> QED
    BY <1>1, <2>1, <2>2, <2>5 DEF MapInv, Consistent
<1> QED
  BY <1>9, <1>10, <1>11, <1>12, <1>13 DEF MapInv

LEMMA ReturnStep ==
  ASSUME MapInv, ConstructReturns
  PROVE  MapInv'
<1>0. PICK d \in 2 .. 3 : d = Depth
  BY DEF ConstructReturns
<1>1. PICK p : p = Last(item_id)
  OBVIOUS
<1> DEFINE b == WithItem(building[d - 1], -p - 1, Current.weight)
<1>2. /\ Depth = d /\ Filled
      /\ buckets' = [buckets EXCEPT ![p] = Current]
      /\ building' = Append(SubSeq(building, 1, d - 2), b)
      /\ item_id' = Front(item_id) /\ UNCHANGED <<nextOsd, nextBucket, map>>
  BY <1>0, <1>1 DEF ConstructReturns
<1>3. ~Done /\ Done' = Done
  BY <1>2, NotDone DEF Done
<1>4. /\ building \in Seq(ABucket) /\ Len(building) = d /\ item_id \in Seq(Nat)
      /\ Len(item_id) = d - 1 /\ Current = building[d] /\ Current \in ABucket
      /\ Current.size = Sizes[d] /\ nextBucket \in 1 .. MaxSlots
      /\ buckets \in [Slot -> ABucket \union {Null}]
  BY <1>2, <1>3, Lengths, SizeNumbers DEF MapInv, MapTyped, Depth
<1>5. \A k \in 1 .. d : building[k] \in ABucket /\ Held(k) = Len(building[k].items)
  BY <1>2, <1>3, Lengths
<1>6. /\ p = item_id[d - 1] /\ p \in Nat /\ p \in 1 .. nextBucket - 1 /\ p \in Slot
      /\ Current.id = -1 - p /\ \A i \in 1 .. d - 2 : item_id[i] # p
  <2>1. p = item_id[d - 1] /\ d - 1 \in 1 .. Len(item_id)
    BY <1>0, <1>1, <1>4 DEF Last
  <2>2. /\ p \in 1 .. nextBucket - 1 /\ building[(d - 1) + 1].id = -1 - p
        /\ \A i \in 1 .. Len(item_id) : i # d - 1 => item_id[i] # p
    BY <2>1 DEF MapInv, Pending
  <2> QED
    <3>1. p \in Nat /\ p \in Slot
      BY <1>4, <2>2, SizeNumbers DEF Slot
    <3>2. (d - 1) + 1 = d /\ \A i \in 1 .. d - 2 : i \in 1 .. d - 1 /\ i # d - 1
      BY <1>0
    <3>3. Current.id = -1 - p
      BY <1>4, <2>2, <3>2
    <3>4. \A i \in 1 .. d - 2 : item_id[i] # p
      BY <1>4, <2>2, <3>2
    <3> QED
      BY <2>1, <2>2, <3>1, <3>3, <3>4
<1>7. /\ b \in ABucket /\ b.id = building[d - 1].id /\ b.size = Sizes[d - 1]
      /\ b.items = Append(building[d - 1].items, -p - 1)
      /\ building[d - 1].items \in Seq(Int)
  <2>1. building[d - 1] \in ABucket /\ -p - 1 \in Int /\ Current.weight \in Nat
    <3>1. d - 1 \in 1 .. d
      BY <1>0
    <3>2. Current.weight \in Nat
      BY <1>4 DEF ABucket
    <3> QED
      BY <1>5, <1>6, <3>1, <3>2
  <2>2. building[d - 1].size = Sizes[d - 1]
    BY <1>0, <1>2 DEF MapInv, Stack
  <2> QED
    <3>1. /\ b \in ABucket /\ b.id = building[d - 1].id /\ b.size = building[d - 1].size
          /\ b.items = Append(building[d - 1].items, -p - 1)
      BY <2>1, WithItemTyped
    <3>2. building[d - 1].items \in Seq(Int)
      BY <2>1 DEF ABucket
    <3> QED
      BY <2>2, <3>1, <3>2
<1> HIDE DEF b
<1>8. Len(b.items) = Held(d - 1) + 1 /\ ToSet(b.items) = Have(d - 1) \union {-p - 1}
  <2>1. Held(d - 1) = Len(building[d - 1].items) /\ -p - 1 \in Int
    BY <1>0, <1>5, <1>6
  <2> QED
    BY <1>7, <2>1, Appended DEF Have
<1>9. /\ building' \in Seq(ABucket) /\ Depth' = d - 1 /\ building'[d - 1] = b
      /\ \A k \in 1 .. d - 2 : building'[k] = building[k]
  <2> DEFINE s == SubSeq(building, 1, d - 2)
  <2>1. /\ s \in Seq(ABucket) /\ Len(s) = d - 2
        /\ \A k \in 1 .. d - 2 : s[k] = building[k]
    BY <1>0, <1>4, <1>5, SubSeqProperties
  <2> HIDE DEF s
  <2>2. building' = Append(s, b)
    BY <1>2 DEF s
  <2>3. /\ Append(s, b) \in Seq(ABucket) /\ Len(Append(s, b)) = Len(s) + 1
        /\ \A k \in 1 .. Len(s) : Append(s, b)[k] = s[k]
        /\ Append(s, b)[Len(s) + 1] = b
    BY <1>7, <2>1, AppendProperties
  <2> QED
    BY <1>0, <2>1, <2>2, <2>3 DEF Depth
<1>10. /\ item_id' \in Seq(Nat) /\ Len(item_id') = d - 2
       /\ \A i \in 1 .. d - 2 : item_id'[i] = item_id[i]
  <2>1. item_id' = SubSeq(item_id, 1, d - 2)
    BY <1>0, <1>2, <1>4 DEF Front
  <2>2. \A i \in 1 .. d - 2 : item_id[i] \in Nat
    BY <1>0, <1>4
  <2> QED
    BY <1>0, <2>1, <2>2, SubSeqProperties
<1>11. /\ Held(d)' = 0 /\ Held(d - 1)' = Held(d - 1) + 1
       /\ \A k \in 1 .. d - 2 : Held(k)' = Held(k)
       /\ (d = 2 => Held(3)' = 0 /\ Held(3) = 0)
  BY <1>0, <1>2, <1>4, <1>5, <1>8, <1>9 DEF Held
<1>12. /\ Held(d) = Sizes[d] /\ Held(d - 1) < Sizes[d - 1]
       /\ Sizes[d] = Len(Current.items)
  <2>1. Held(d) = Len(Current.items) /\ Len(Current.items) = Sizes[d]
    <3>1. d \in 1 .. d
      BY <1>0
    <3> QED
      BY <1>2, <1>4, <1>5, <3>1 DEF Filled
  <2>2. d = 2 => Held(1) < Sizes[1]
    BY <1>2, <1>3, Lengths
  <2>3. d = 3 => Held(2) < Sizes[2]
    BY <1>2, <1>3, Lengths
  <2>4. (d = 2 /\ d - 1 = 1) \/ (d = 3 /\ d - 1 = 2)
    BY <1>0
  <2> QED
    BY <2>1, <2>2, <2>3, <2>4
<1>13. MapTyped'
  BY <1>2, <1>4, <1>9, <1>10 DEF MapInv, MapTyped
<1>14. Stack'
  <2>1. \A k \in 1 .. d - 1 : k = d - 1 \/ k \in 1 .. d - 2
    BY <1>0
  <2>2. \A k \in 1 .. d - 2 : building[k].size = Sizes[k] /\ Len(building[k].items) < Sizes[k]
                              /\ Len(building[k].items) <= Sizes[k]
    BY <1>0, <1>2 DEF MapInv, Stack
  <2>3. Len(b.items) <= Sizes[d - 1]
    <3>1. Held(d - 1) \in Nat /\ Sizes[d - 1] \in Nat
      BY <1>0, <1>3, Lengths, SizeNumbers
    <3> QED
      BY <1>8, <1>12, <3>1
  <2>4. Depth' \in 1 .. 3 /\ Len(item_id') = Depth' - 1
    BY <1>0, <1>9, <1>10
  <2> QED
    <3>1. \A k \in 1 .. d - 1 :
            /\ building'[k].size = Sizes[k] /\ Len(building'[k].items) <= Sizes[k]
            /\ k < d - 1 => Len(building'[k].items) < Sizes[k]
      <4>1. /\ building'[d - 1].size = Sizes[d - 1]
            /\ Len(building'[d - 1].items) <= Sizes[d - 1] /\ ~(d - 1 < d - 1)
        BY <1>0, <1>7, <1>9, <2>3
      <4>2. \A k \in 1 .. d - 2 :
              /\ building'[k].size = Sizes[k] /\ Len(building'[k].items) <= Sizes[k]
              /\ Len(building'[k].items) < Sizes[k]
        BY <1>9, <2>2
      <4> QED
        BY <2>1, <4>1, <4>2
    <3> QED
      BY <1>3, <1>9, <2>4, <3>1 DEF Stack
<1>15. Counters'
  <2> DEFINE S2 == Sizes[2]  S3 == Sizes[3]  a == Held(1)  c == Held(2)
  <2>1. /\ S2 \in Nat /\ S3 \in Nat /\ a \in Nat /\ c \in Nat
        /\ nextBucket = 1 + a * (1 + S2) + c + (d - 1)
        /\ nextOsd = (a * S2 + c) * S3 + Held(3)
    BY <1>2, <1>3, Lengths, SizeNumbers DEF MapInv, Counters
  <2>2. CASE d = 3
    <3>1. Held(1)' = a /\ Held(2)' = c + 1 /\ Held(3)' = 0 /\ Held(3) = S3
      BY <1>11, <1>12, <2>2
    <3> HIDE DEF S2, S3, a, c
    <3>2. (a * S2 + c) * S3 + S3 = (a * S2 + (c + 1)) * S3 + 0
      BY <2>1
    <3>3. nextBucket = 1 + a * (1 + S2) + (c + 1) + (2 - 1)
      BY <2>1, <2>2
    <3> QED
      BY <1>2, <1>9, <2>1, <2>2, <3>1, <3>2, <3>3 DEF Counters, S2, S3
  <2>3. CASE d = 2
    <3>1. Held(1)' = a + 1 /\ Held(2)' = 0 /\ Held(3)' = 0 /\ c = S2 /\ Held(3) = 0
      BY <1>11, <1>12, <2>3
    <3> HIDE DEF S2, S3, a, c
    <3>2. /\ (a * S2 + S2) * S3 + 0 = ((a + 1) * S2 + 0) * S3 + 0
          /\ 1 + a * (1 + S2) + S2 + (2 - 1) = 1 + (a + 1) * (1 + S2) + 0 + (1 - 1)
      BY <2>1
    <3> QED
      BY <1>2, <1>9, <2>1, <2>3, <3>1, <3>2 DEF Counters, S2, S3
  <2> QED
    BY <1>0, <2>2, <2>3
<1>16. Pending'
  <2>1. \A k \in 1 .. d - 1 : building'[k].id = building[k].id
    BY <1>0, <1>7, <1>9
  <2>2. \A i \in 1 .. d - 2 :
          /\ item_id[i] \in 1 .. nextBucket - 1 /\ building[i + 1].id = -1 - item_id[i]
          /\ \A j \in 1 .. d - 2 : i # j => item_id[i] # item_id[j]
          /\ i + 1 \in 1 .. d - 1
    BY <1>0, <1>4 DEF MapInv, Pending
  <2>3. building[1].id = -1 /\ 1 \in 1 .. d - 1
    BY <1>0, <1>3 DEF MapInv, Pending
  <2> QED
    BY <1>2, <1>10, <2>1, <2>2, <2>3 DEF Pending
<1>17. Consistent'
  <2>1. /\ Stored' = Stored \union {p} /\ buckets'[p] = Current
        /\ \A t \in Stored : t # p => buckets'[t] = buckets[t]
    <3>1. Current # Null
      BY <1>4, NoBucketIsNull
    <3> QED
      BY <1>2, <1>4, <1>6, <3>1 DEF Stored
  <2>2. ItemsAt(p)' = Have(d) /\ \A t \in Stored : t # p => ItemsAt(t)' = ItemsAt(t)
    BY <1>4, <2>1 DEF ItemsAt, Have
  <2>3. Consistent
    BY DEF MapInv
  <2>4. \A item : Known(item) => Known(item)' /\ item # -p - 1
    <3>1. ASSUME NEW item, Known(item) PROVE Known(item)' /\ item # -p - 1
      <4>1. CASE item >= 0
        BY <1>2, <1>6, <3>1, <4>1 DEF Known
      <4>2. CASE ~(item >= 0)
        <5> DEFINE x == -1 - item
        <5>1. x \in Stored /\ x < nextBucket /\ \A i \in 1 .. d - 1 : item_id[i] # x
          BY <1>4, <3>1, <4>2 DEF Known
        <5>2. x # p /\ d - 1 \in 1 .. d - 1 /\ \A i \in 1 .. d - 2 : i \in 1 .. d - 1
          BY <1>0, <1>6, <5>1
        <5>3. x \in Stored' /\ \A i \in 1 .. d - 2 : item_id'[i] # x
          BY <1>10, <2>1, <5>1, <5>2
        <5>4. item # -p - 1
          BY <1>6, <5>2
        <5> QED
          BY <1>2, <1>10, <4>2, <5>1, <5>3, <5>4 DEF Known
      <4> QED
        BY <4>1, <4>2
    <3> QED
      BY <3>1
  <2>5. \A item \in {-p - 1} : Known(item)'
    <3>1. ~(-p - 1 >= 0) /\ -1 - (-p - 1) = p /\ p < nextBucket
      BY <1>4, <1>6
    <3>2. p \in Stored' /\ \A i \in 1 .. d - 2 : item_id'[i] # p
      BY <1>6, <1>10, <2>1
    <3> QED
      BY <1>2, <1>10, <3>1, <3>2 DEF Known
  <2>6. \A k \in 1 .. d - 1 : Have(k)' \subseteq Have(k) \union {-p - 1}
                              /\ (k # d - 1 => Have(k)' = Have(k))
    <3>1. \A k \in 1 .. d - 1 : k = d - 1 \/ k \in 1 .. d - 2
      BY <1>0
    <3>2. \A k \in 1 .. d - 1 : IF k = d - 1 THEN ToSet(building'[k].items) = Have(k) \union {-p - 1}
                                ELSE ToSet(building'[k].items) = Have(k)
      BY <1>8, <1>9, <3>1 DEF Have
    <3> QED
      BY <3>2 DEF Have
  <2>7. /\ \A k \in 1 .. d : \A item \in Have(k) : Known(item)'
        /\ \A k \in 1 .. d : -p - 1 \notin Have(k)
        /\ \A t \in Stored : -p - 1 \notin ItemsAt(t)
        /\ \A t \in Stored : \A item \in ItemsAt(t) : Known(item)'
    BY <1>2, <2>3, <2>4 DEF Consistent
  <2>8. \A k \in 1 .. d - 1 : \A item \in Have(k)' : Known(item)'
    <3>1. \A k \in 1 .. d - 1 : k \in 1 .. d
      BY <1>0
    <3> QED
      BY <2>5, <2>6, <2>7, <3>1
  <2>9. \A k, l \in 1 .. d - 1 : k # l => Have(k)' \intersect Have(l)' = {}
    <3>1. \A k, l \in 1 .. d - 1 : k # l => Have(k) \intersect Have(l) = {}
      BY <1>0, <1>2, <2>3 DEF Consistent
    <3>2. \A k \in 1 .. d - 1 : -p - 1 \notin Have(k)
      BY <1>0, <2>7
    <3> QED
      BY <2>6, <3>1, <3>2
  <2>10. \A k \in 1 .. d - 1 : Have(d) \intersect Have(k)' = {}
    <3>1. \A k \in 1 .. d - 1 : k \in 1 .. d /\ k # d
      BY <1>0
    <3>2. \A k \in 1 .. d - 1 : Have(d) \intersect Have(k) = {}
      BY <1>0, <1>2, <2>3, <3>1 DEF Consistent
    <3>3. -p - 1 \notin Have(d)
      BY <1>0, <2>7
    <3> QED
      BY <2>6, <3>2, <3>3
  <2>11. \A t \in Stored : \A k \in 1 .. d - 1 : ItemsAt(t) \intersect Have(k)' = {}
    <3>1. \A t \in Stored : \A k \in 1 .. d - 1 : ItemsAt(t) \intersect Have(k) = {}
      BY <1>0, <1>2, <2>3 DEF Consistent
    <3> QED
      BY <2>6, <2>7, <3>1
  <2>12. \A t \in Stored : ItemsAt(t) \intersect Have(d) = {}
    BY <1>0, <1>2, <2>3 DEF Consistent
  <2>13. \A t \in Stored' : t = p \/ t \in Stored
    BY <2>1
  <2>14. \A item \in Have(d) : Known(item)'
    BY <1>0, <2>7
  <2>15. buckets'[p].id = -1 - p /\ buckets'[p].size = Len(buckets'[p].items)
    BY <1>4, <1>6, <1>12, <2>1
  <2>16. \A t \in Stored : buckets[t].id = -1 - t /\ buckets[t].size = Len(buckets[t].items)
    BY <2>3 DEF Consistent
  <2>17. \A t \in Stored' :
           /\ buckets'[t].id = -1 - t /\ buckets'[t].size = Len(buckets'[t].items)
           /\ \A item \in ItemsAt(t)' : Known(item)'
           /\ \A u \in Stored' : t # u => ItemsAt(t)' \intersect ItemsAt(u)' = {}
           /\ \A k \in 1 .. d - 1 : ItemsAt(t)' \intersect Have(k)' = {}
    <3>1. \A t, u \in Stored : t # u => ItemsAt(t) \intersect ItemsAt(u) = {}
      BY <2>3 DEF Consistent
    <3> QED
      BY <2>1, <2>2, <2>7, <2>10, <2>11, <2>12, <2>13, <2>14, <2>15, <2>16, <3>1
  <2> QED
    BY <1>9, <2>8, <2>9, <2>17 DEF Consistent
<1> QED
  BY <1>13, <1>14, <1>15, <1>16, <1>17 DEF MapInv

LEMMA FinishStep ==
  ASSUME MapInv, Finish
  PROVE  MapInv'
<1>1. /\ Depth = 1 /\ Filled /\ buckets' = [buckets EXCEPT ![0] = Current]
      /\ building' = <<>> /\ map' = [max_buckets |-> nextBucket, max_devices |-> nextOsd]
      /\ UNCHANGED <<item_id, nextOsd, nextBucket>>
  BY DEF Finish
<1>2. ~Done /\ Done'
  BY <1>1, NotDone, NoMapIsNull DEF Done
<1>3. /\ Current = building[1] /\ Current \in ABucket /\ Len(item_id) = 0 /\ 0 \in Slot
      /\ Current.id = -1 /\ Current.size = Len(Current.items)
      /\ buckets \in [Slot -> ABucket \union {Null}] /\ Depth' = 0
  <2>1. Current = building[1] /\ Current \in ABucket /\ Len(item_id) = 0
    BY <1>1, <1>2, Lengths
  <2>2. 0 \in Slot
    BY SizeNumbers DEF MapInv, MapTyped, Slot
  <2> QED
    BY <1>1, <1>2, <2>1, <2>2 DEF MapInv, MapTyped, Pending, Filled, Depth
<1>4. MapTyped' /\ Stack' /\ Counters' /\ Pending'
  BY <1>1, <1>2, <1>3 DEF MapInv, MapTyped, Stack, Counters, Pending
<1>5. Consistent'
  <2>1. Stored' = Stored \union {0} /\ buckets'[0] = Current
        /\ \A t \in Stored : t # 0 => buckets'[t] = buckets[t]
    <3>1. Current # Null
      BY <1>3, NoBucketIsNull
    <3> QED
      BY <1>1, <1>3, <3>1 DEF Stored
  <2>2. ItemsAt(0)' = Have(1) /\ \A t \in Stored : t # 0 => ItemsAt(t)' = ItemsAt(t)
    BY <1>3, <2>1 DEF ItemsAt, Have
  <2>3. Consistent
    BY DEF MapInv
  <2>4. \A item : Known(item) => Known(item)'
    BY <1>1, <2>1 DEF Known
  <2>5. /\ \A item \in Have(1) : Known(item)'
        /\ \A t \in Stored : ItemsAt(t) \intersect Have(1) = {}
        /\ \A t \in Stored : \A item \in ItemsAt(t) : Known(item)'
    BY <1>1, <2>3, <2>4 DEF Consistent
  <2>6. \A t, u \in Stored : t # u => ItemsAt(t) \intersect ItemsAt(u) = {}
    BY <2>3 DEF Consistent
  <2>7. \A t \in Stored : buckets[t].id = -1 - t /\ buckets[t].size = Len(buckets[t].items)
    BY <2>3 DEF Consistent
  <2>8. buckets'[0].id = -1 - 0 /\ buckets'[0].size = Len(buckets'[0].items)
    BY <1>3, <2>1
  <2> QED
    BY <1>3, <2>1, <2>2, <2>5, <2>6, <2>7, <2>8 DEF Consistent
<1> QED
  BY <1>4, <1>5 DEF MapInv

LEMMA NextMap ==
  ASSUME MapInv, [MapNext]_mapVars
  PROVE  MapInv'
<1>1. CASE UNCHANGED mapVars
  <2>1. UNCHANGED <<buckets, building, item_id, nextOsd, nextBucket, map>>
    BY <1>1 DEF mapVars
  <2>2. MapTyped' /\ Stack' /\ Counters' /\ Pending'
    BY <2>1 DEF MapInv, MapTyped, Stack, Counters, Pending, Held, Depth, Done
  <2>3. Consistent'
    <3>1. Stored' = Stored /\ Depth' = Depth /\ \A t : ItemsAt(t)' = ItemsAt(t)
      BY <2>1 DEF Stored, Depth, ItemsAt
    <3>2. \A item : Known(item)' = Known(item)
      BY <2>1, <3>1 DEF Known
    <3>3. \A k : Have(k)' = Have(k)
      BY <2>1 DEF Have
    <3> QED
      BY <2>1, <3>1, <3>2, <3>3 DEF MapInv, Consistent
  <2> QED
    BY <2>2, <2>3 DEF MapInv
<1> QED
  BY <1>1, DeviceStep, CallStep, ReturnStep, FinishStep DEF MapNext

-----------------------------------------------------------------------------
(* References lead away from the root                                      *)

Forward(b) == \A item \in ToSet(b.items) : item < 0 => item < b.id

ForwardInv ==
  /\ \A s \in Stored : Forward(buckets[s])
  /\ \A k \in 1 .. Depth : /\ Forward(building[k])
                           /\ k < Depth => building[k + 1].id < building[k].id

LEMMA NextForward ==
  ASSUME MapInv, ForwardInv, [MapNext]_mapVars
  PROVE  ForwardInv'
<1> USE DEF ForwardInv
<1>1. CASE UNCHANGED mapVars
  BY <1>1 DEF mapVars, Stored, Depth
<1>2. CASE AddDevice
  <2>1. PICK n : n = nextOsd
    OBVIOUS
  <2> DEFINE b == WithItem(building[3], n, Weight)
  <2>2. /\ Depth = 3 /\ building' = [building EXCEPT ![3] = b] /\ buckets' = buckets /\ ~Done
    BY <1>2, <2>1, NotDone DEF AddDevice
  <2>3. /\ building[3] \in ABucket /\ building \in Seq(ABucket) /\ Len(building) = 3
        /\ n \in Nat /\ Weight \in Nat
    BY <2>1, <2>2, Lengths, SizeNumbers DEF MapInv, MapTyped, Depth, Weight
  <2>4. b \in ABucket /\ b.id = building[3].id /\ b.items = Append(building[3].items, n)
    <3>1. building[3] \in ABucket /\ n \in Int /\ Weight \in Nat
      BY <2>3
    <3> QED
      BY <3>1, WithItemTyped
  <2>5. ToSet(b.items) = ToSet(building[3].items) \union {n}
    <3>1. building[3].items \in Seq(Int)
      BY <2>3 DEF ABucket
    <3> QED
      BY <2>3, <2>4, <3>1, Appended
  <2> HIDE DEF b
  <2>6. Forward(b)
    BY <2>2, <2>3, <2>4, <2>5 DEF Forward
  <2>7. Depth' = 3 /\ \A k \in 1 .. 3 : building'[k] = IF k = 3 THEN b ELSE building[k]
    <3>1. 3 \in 1 .. Len(building)
      BY <2>3
    <3>2. /\ Len([building EXCEPT ![3] = b]) = Len(building)
          /\ \A k \in 1 .. Len(building) :
               [building EXCEPT ![3] = b][k] = IF k = 3 THEN b ELSE building[k]
      BY <2>3, <2>4, <3>1, ExceptSeq
    <3> QED
      BY <2>2, <2>3, <3>2 DEF Depth
  <2>8. \A k \in 1 .. 3 : building'[k].id = building[k].id /\ Forward(building'[k])
    BY <2>2, <2>4, <2>6, <2>7
  <2>9. \A k \in 1 .. 2 : k + 1 \in 1 .. 3 /\ k \in 1 .. 3 /\ building[k + 1].id < building[k].id
    BY <2>2
  <2>10. Stored' = Stored
    BY <2>2 DEF Stored
  <2>11. \A k \in 1 .. 3 : k < 3 => k \in 1 .. 2
    OBVIOUS
  <2> QED
    BY <2>2, <2>7, <2>8, <2>9, <2>10, <2>11
<1>3. CASE CallConstruct
  <2>1. PICK d \in 1 .. 2 : d = Depth
    BY <1>3 DEF CallConstruct
  <2> DEFINE b == NewBucket(-nextBucket - 1, d + 1)
  <2>2. Depth = d /\ building' = Append(building, b) /\ buckets' = buckets /\ ~Done
    BY <1>3, <2>1, NotDone DEF CallConstruct
  <2>3. /\ building \in Seq(ABucket) /\ Len(building) = d /\ nextBucket \in Nat
        /\ Len(item_id) = d - 1
    BY <2>1, <2>2, Lengths, SizeNumbers DEF MapInv, MapTyped, Depth
  <2>4. b \in ABucket /\ b.id = -1 - nextBucket /\ ToSet(b.items) = {}
    BY <2>1, <2>3, NewTyped
  <2> HIDE DEF b
  <2>5. /\ Depth' = d + 1 /\ building'[d + 1] = b
        /\ \A k \in 1 .. d : building'[k] = building[k]
    BY <2>2, <2>3, <2>4, AppendProperties DEF Depth
  <2>6. Forward(b)
    BY <2>4 DEF Forward
  <2>7. b.id < building[d].id
    <3>1. CASE d = 1
      <4>1. building[1].id = -1 /\ nextBucket >= 1
        BY <2>2 DEF MapInv, Pending, MapTyped
      <4> QED
        BY <2>3, <2>4, <3>1, <4>1
    <3>2. CASE d = 2
      <4>1. item_id[1] \in 1 .. nextBucket - 1 /\ building[1 + 1].id = -1 - item_id[1]
        BY <2>3, <3>2 DEF MapInv, Pending
      <4> QED
        BY <2>3, <2>4, <3>2, <4>1
    <3> QED
      BY <2>1, <3>1, <3>2
  <2>8. \A k \in 1 .. d + 1 : k = d + 1 \/ (k \in 1 .. d /\ (k < d + 1 => k = d \/ (k < d /\ k + 1 \in 1 .. d)))
    BY <2>1
  <2>9. \A k \in 1 .. d + 1 : Forward(building'[k]) /\ (k < d + 1 => building'[k + 1].id < building'[k].id)
    <3>1. d \in 1 .. d
      BY <2>1
    <3>2. \A k \in 1 .. d : /\ Forward(building[k])
                            /\ k < d => building[k + 1].id < building[k].id
      BY <2>2
    <3>3. \A k \in 1 .. d : Forward(building'[k])
      BY <2>5, <3>2
    <3>4. \A k \in 1 .. d : k < d => building'[k + 1].id < building'[k].id
      <4> SUFFICES ASSUME NEW k \in 1 .. d, k < d
                   PROVE  building'[k + 1].id < building'[k].id
        OBVIOUS
      <4>1. k + 1 \in 1 .. d
        BY <2>1
      <4> QED
        BY <2>5, <3>2, <4>1
    <3>5. building'[d + 1].id < building'[d].id
      BY <2>5, <2>7, <3>1
    <3> SUFFICES ASSUME NEW k \in 1 .. d + 1
                 PROVE  /\ Forward(building'[k])
                        /\ k < d + 1 => building'[k + 1].id < building'[k].id
      OBVIOUS
    <3>6. CASE k = d + 1
      BY <2>5, <2>6, <3>6, <2>1
    <3>7. CASE k = d
      BY <3>1, <3>3, <3>5, <3>7
    <3>8. CASE k \in 1 .. d /\ k < d
      BY <3>3, <3>4, <3>8
    <3> QED
      BY <2>1, <3>6, <3>7, <3>8
  <2>10. Stored' = Stored
    BY <2>2 DEF Stored
  <2> QED
    BY <2>2, <2>5, <2>9, <2>10
<1>4. CASE ConstructReturns
  <2>1. PICK d \in 2 .. 3 : d = Depth
    BY <1>4 DEF ConstructReturns
  <2>2. PICK p : p = Last(item_id)
    OBVIOUS
  <2> DEFINE b == WithItem(building[d - 1], -p - 1, Current.weight)
             s == SubSeq(building, 1, d - 2)
  <2>3. /\ Depth = d /\ buckets' = [buckets EXCEPT ![p] = Current]
        /\ building' = Append(s, b) /\ ~Done
    BY <1>4, <2>1, <2>2, NotDone DEF ConstructReturns
  <2>4. /\ building \in Seq(ABucket) /\ Len(building) = d /\ Len(item_id) = d - 1
        /\ Current = building[d] /\ Current \in ABucket
        /\ buckets \in [Slot -> ABucket \union {Null}]
    BY <2>3, Lengths, SizeNumbers DEF MapInv, MapTyped, Depth
  <2>5. p \in Nat /\ building[d].id = -1 - p
    <3>1. p = item_id[d - 1] /\ d - 1 \in 1 .. Len(item_id)
      BY <2>1, <2>2, <2>4 DEF Last
    <3>2. p \in 1 .. nextBucket - 1 /\ building[(d - 1) + 1].id = -1 - p
      BY <3>1 DEF MapInv, Pending
    <3> QED
      BY <2>1, <3>2, SizeNumbers DEF MapInv, MapTyped
  <2>6. building[d - 1] \in ABucket /\ Current.weight \in Nat /\ -p - 1 \in Int
    <3>1. d - 1 \in 1 .. Len(building)
      BY <2>1, <2>4
    <3>2. building[d - 1] \in ABucket
      BY <2>4, <3>1
    <3>3. Current.weight \in Nat
      BY <2>4 DEF ABucket
    <3>4. -p - 1 \in Int
      BY <2>5
    <3> QED
      BY <3>2, <3>3, <3>4
  <2>7. b \in ABucket /\ b.id = building[d - 1].id /\ b.items = Append(building[d - 1].items, -p - 1)
    BY <2>6, WithItemTyped
  <2>8. ToSet(b.items) = ToSet(building[d - 1].items) \union {-p - 1}
    <3>1. building[d - 1].items \in Seq(Int)
      BY <2>6 DEF ABucket
    <3> QED
      BY <2>6, <2>7, <3>1, Appended
  <2> HIDE DEF b
  <2>9. Forward(b)
    <3>1. d - 1 \in 1 .. d /\ d - 1 < d /\ (d - 1) + 1 = d
      BY <2>1
    <3>2. Forward(building[d - 1]) /\ building[d].id < building[d - 1].id
      BY <2>3, <3>1
    <3>3. -p - 1 < b.id
      BY <2>5, <2>7, <3>2
    <3> QED
      BY <2>7, <2>8, <3>2, <3>3 DEF Forward
  <2>10. /\ Depth' = d - 1 /\ building'[d - 1] = b
         /\ \A k \in 1 .. d - 2 : building'[k] = building[k]
    <3>1. \A k \in 1 .. d - 2 : building[k] \in ABucket
      BY <2>1, <2>4
    <3>2. /\ s \in Seq(ABucket) /\ Len(s) = d - 2 /\ \A k \in 1 .. d - 2 : s[k] = building[k]
      BY <2>1, <2>4, <3>1, SubSeqProperties
    <3> HIDE DEF s
    <3>3. /\ Len(Append(s, b)) = Len(s) + 1 /\ Append(s, b)[Len(s) + 1] = b
          /\ \A k \in 1 .. Len(s) : Append(s, b)[k] = s[k]
      BY <2>7, <3>2, AppendProperties
    <3> QED
      BY <2>1, <2>3, <3>2, <3>3 DEF Depth
  <2>11. \A k \in 1 .. d - 1 : building'[k].id = building[k].id /\ Forward(building'[k])
    <3>1. \A k \in 1 .. d - 1 : k \in 1 .. d /\ (k = d - 1 \/ k \in 1 .. d - 2)
      BY <2>1
    <3> QED
      BY <2>3, <2>7, <2>9, <2>10, <3>1
  <2>12. \A k \in 1 .. d - 1 : k < d - 1 => building'[k + 1].id < building'[k].id
    <3>1. \A k \in 1 .. d - 1 : k < d - 1 => k + 1 \in 1 .. d - 1 /\ k \in 1 .. d /\ k < d
      BY <2>1
    <3> QED
      BY <2>3, <2>11, <3>1
  <2>13. \A t \in Stored' : Forward(buckets'[t])
    <3>1. \A t \in Stored' : buckets'[t] = Current \/ (t \in Stored /\ buckets'[t] = buckets[t])
      BY <2>3, <2>4 DEF Stored
    <3>2. Forward(Current)
      BY <2>1, <2>3, <2>4
    <3> QED
      BY <3>1, <3>2
  <2> QED
    BY <2>10, <2>11, <2>12, <2>13
<1>5. CASE Finish
  <2>1. /\ Depth = 1 /\ buckets' = [buckets EXCEPT ![0] = Current] /\ building' = <<>>
        /\ buckets \in [Slot -> ABucket \union {Null}] /\ Current = building[1]
    BY <1>5 DEF Finish, MapInv, MapTyped, Current
  <2>2. \A t \in Stored' : buckets'[t] = Current \/ (t \in Stored /\ buckets'[t] = buckets[t])
    BY <2>1 DEF Stored
  <2>3. Depth' = 0
    BY <2>1 DEF Depth
  <2> QED
    BY <2>1, <2>2, <2>3
<1> QED
  BY <1>1, <1>2, <1>3, <1>4, <1>5 DEF MapNext

LEMMA InitForward == MapInit => ForwardInv
<1> SUFFICES ASSUME MapInit PROVE ForwardInv
  OBVIOUS
<1> DEFINE b == NewBucket(-1, 1)
<1>1. b.items = <<>> /\ ToSet(<<>>) = {}
  BY NewTyped
<1> HIDE DEF b
<1>2. building = <<b>> /\ Depth = 1 /\ building[1] = b /\ Stored = {}
  BY DEF MapInit, Depth, Stored, b
<1> QED
  BY <1>1, <1>2 DEF ForwardInv, Forward

-----------------------------------------------------------------------------
(* What follows                                                            *)

(* In every state of the recursion the two global counters are what the    *)
(* levels have built so far, and every item in use is numbered once.       *)
THEOREM MapInvariant == MapSpec => []MapInv
  BY InitMap, NextMap, PTL DEF MapSpec

(* The counters never leave the array of buckets and the weight tables     *)
(* (max_buckets and osd_sum), whatever the sizes within them.              *)
THEOREM MapTypes == MapSpec => []MapTypeOK
<1>1. ASSUME MapInv PROVE MapTypeOK
  <2>1. Depth <= 3
    BY <1>1 DEF MapInv, Stack, Depth
  <2> QED
    BY <1>1, <2>1 DEF MapInv, MapTyped, Stack, Consistent, MapTypeOK
<1> QED
  BY <1>1, MapInvariant, PTL

(* Every bucket is in the slot that its id names, and every reference in a *)
(* stored bucket leads to a stored bucket further from the root, in every  *)
(* state of the recursion (construct_rack and construct_root fill a slot   *)
(* chosen before the call): a descent on the map ends, for any sizes.      *)
THEOREM SlotsMatchIds == MapSpec => []IdsMatchSlots
<1>1. ASSUME MapInv, ForwardInv PROVE IdsMatchSlots
  <2>1. Consistent
    BY <1>1 DEF MapInv
  <2>2. \A s \in Stored : ItemsAt(s) \subseteq Int
    <3>1. \A s \in Stored : buckets[s] \in ABucket
      BY <1>1 DEF MapInv, MapTyped, Stored
    <3>2. \A b \in ABucket : b.items \in Seq(Int)
      BY DEF ABucket
    <3> QED
      BY <3>1, <3>2 DEF ItemsAt, ToSet
  <2>3. \A s \in Stored : \A item \in ItemsAt(s) :
          item < 0 => -1 - item \in Stored
    BY <2>1, <2>2 DEF Consistent, Known
  <2>4. \A s \in Stored : buckets[s].id = -1 - s
    BY <2>1 DEF Consistent
  <2>5. \A s \in Stored : \A item \in ItemsAt(s) : item < 0 => s < -1 - item
    <3>1. \A s \in Stored : s \in Int
      BY SizeNumbers DEF Stored, Slot
    <3>2. \A s \in Stored : \A item \in ItemsAt(s) : item < 0 => item < -1 - s
      BY <1>1, <2>4 DEF ForwardInv, Forward, ItemsAt
    <3> QED
      BY <2>2, <3>1, <3>2
  <2> QED
    BY <2>3, <2>4, <2>5 DEF IdsMatchSlots
<1>2. MapSpec => []ForwardInv
  BY MapInvariant, InitForward, NextForward, PTL DEF MapSpec
<1> QED
  BY <1>1, <1>2, MapInvariant, PTL

(* No device is in two hosts and no host in two racks, for any sizes.      *)
THEOREM DomainsAreDisjoint == MapSpec => []FailureDomainsDisjoint
<1>1. MapInv => FailureDomainsDisjoint
  <2>1. \A s, t \in Stored : s < t => s # t
    BY SizeNumbers DEF Stored, Slot
  <2> QED
    BY <2>1 DEF MapInv, Consistent, FailureDomainsDisjoint
<1> QED
  BY <1>1, MapInvariant, PTL
-----------------------------------------------------------------------------
(* What a step makes of the calls under way                                *)

LEMMA DeviceEffect ==
  ASSUME MapInv, AddDevice
  PROVE  /\ Depth = 3 /\ Depth' = 3 /\ ~Done
         /\ building'[3] = WithItem(building[3], nextOsd, Weight)
         /\ building'[1] = building[1] /\ building'[2] = building[2]
         /\ building[3] \in ABucket /\ nextOsd \in Nat /\ Weight \in Nat
         /\ UNCHANGED <<buckets, item_id, nextBucket, map>>
<1>1. PICK n : n = nextOsd
  OBVIOUS
<1> DEFINE b == WithItem(building[3], n, Weight)
<1>2. /\ Depth = 3 /\ building' = [building EXCEPT ![3] = b] /\ ~Done
      /\ UNCHANGED <<buckets, item_id, nextBucket, map>>
  BY <1>1, NotDone DEF AddDevice
<1>3. /\ building[3] \in ABucket /\ building \in Seq(ABucket) /\ Len(building) = 3
      /\ n \in Nat /\ Weight \in Nat
  BY <1>1, <1>2, Lengths, SizeNumbers DEF MapInv, MapTyped, Depth, Weight
<1>4. b \in ABucket
  BY <1>3, WithItemTyped
<1> HIDE DEF b
<1>5. /\ Len([building EXCEPT ![3] = b]) = Len(building)
      /\ \A k \in 1 .. Len(building) :
           [building EXCEPT ![3] = b][k] = IF k = 3 THEN b ELSE building[k]
  <2>1. 3 \in 1 .. Len(building)
    BY <1>3
  <2> QED
    BY <1>3, <1>4, <2>1, ExceptSeq
<1>6. Depth' = 3 /\ \A k \in 1 .. 3 : building'[k] = IF k = 3 THEN b ELSE building[k]
  BY <1>2, <1>3, <1>5 DEF Depth
<1>7. building'[3] = b /\ building'[1] = building[1] /\ building'[2] = building[2]
  BY <1>6
<1> QED
  BY <1>1, <1>2, <1>3, <1>6, <1>7 DEF b

LEMMA CallEffect ==
  ASSUME MapInv, CallConstruct, NEW d \in 1 .. 2, d = Depth
  PROVE  /\ Depth' = d + 1 /\ ~Done
         /\ building'[d + 1] = NewBucket(-nextBucket - 1, d + 1)
         /\ \A k \in 1 .. d : building'[k] = building[k]
         /\ Len(item_id) = d - 1 /\ Len(item_id') = d /\ item_id'[d] = nextBucket
         /\ \A i \in 1 .. d - 1 : item_id'[i] = item_id[i]
         /\ nextBucket \in Nat /\ nextBucket' = nextBucket + 1
         /\ UNCHANGED <<buckets, nextOsd, map>>
<1> DEFINE b == NewBucket(-nextBucket - 1, d + 1)
<1>1. /\ Depth = d /\ building' = Append(building, b) /\ ~Done
      /\ item_id' = Append(item_id, nextBucket) /\ nextBucket' = nextBucket + 1
      /\ UNCHANGED <<buckets, nextOsd, map>>
  BY NotDone DEF CallConstruct
<1>2. /\ building \in Seq(ABucket) /\ Len(building) = d /\ nextBucket \in Nat
      /\ Len(item_id) = d - 1 /\ item_id \in Seq(Nat)
  BY <1>1, Lengths, SizeNumbers DEF MapInv, MapTyped, Depth
<1>3. b \in ABucket
  BY <1>2, NewTyped
<1> HIDE DEF b
<1>4. Depth' = d + 1 /\ building'[d + 1] = b /\ \A k \in 1 .. d : building'[k] = building[k]
  BY <1>1, <1>2, <1>3, AppendProperties DEF Depth
<1>5. /\ Len(item_id') = d /\ item_id'[d] = nextBucket
      /\ \A i \in 1 .. d - 1 : item_id'[i] = item_id[i]
  BY <1>1, <1>2, AppendProperties
<1> QED
  BY <1>1, <1>2, <1>4, <1>5 DEF b

LEMMA ReturnEffect ==
  ASSUME MapInv, ConstructReturns, NEW d \in 2 .. 3, d = Depth, NEW p, p = item_id[d - 1]
  PROVE  /\ Depth' = d - 1 /\ ~Done
         /\ buckets' = [buckets EXCEPT ![p] = building[d]]
         /\ building'[d - 1] = WithItem(building[d - 1], -p - 1, building[d].weight)
         /\ \A k \in 1 .. d - 2 : building'[k] = building[k]
         /\ Len(item_id) = d - 1 /\ Len(item_id') = d - 2
         /\ \A i \in 1 .. d - 2 : item_id'[i] = item_id[i] /\ item_id[i] # p
         /\ p \in Slot /\ p \in Nat /\ Held(d) = Sizes[d]
         /\ building[d] \in ABucket /\ building[d - 1] \in ABucket
         /\ Held(d) = Len(building[d].items)
         /\ UNCHANGED <<nextBucket, nextOsd, map>>
<1> DEFINE b == WithItem(building[d - 1], -p - 1, building[d].weight)
           s == SubSeq(building, 1, d - 2)
<1>1. ~Done /\ Current = building[d] /\ Len(item_id) = d - 1
  BY NotDone, Lengths
<1>2. Last(item_id) = p
  BY <1>1 DEF Last
<1>3. /\ buckets' = [buckets EXCEPT ![p] = building[d]]
      /\ building' = Append(s, b) /\ Filled
      /\ item_id' = Front(item_id) /\ UNCHANGED <<nextBucket, nextOsd, map>>
  BY <1>1, <1>2 DEF ConstructReturns
<1>4. /\ building \in Seq(ABucket) /\ Len(building) = d
      /\ item_id \in Seq(Nat) /\ nextBucket \in 1 .. MaxSlots /\ MaxSlots \in Nat
  BY SizeNumbers DEF MapInv, MapTyped, Depth
<1>5. \A k \in 1 .. d : building[k] \in ABucket /\ Held(k) = Len(building[k].items)
  BY <1>1, Lengths
<1>6. building[d] \in ABucket /\ building[d - 1] \in ABucket /\ Held(d) = Len(building[d].items)
  <2>1. d \in 1 .. d /\ d - 1 \in 1 .. d
    OBVIOUS
  <2> QED
    BY <1>5, <2>1
<1>7. Held(d) = Sizes[d]
  BY <1>1, <1>3, <1>6, Lengths DEF Filled
<1>8. /\ p \in 1 .. nextBucket - 1
      /\ \A i \in 1 .. d - 2 : item_id[i] # p
  <2>1. d - 1 \in 1 .. Len(item_id) /\ \A i \in 1 .. d - 2 : i \in 1 .. d - 1 /\ i # d - 1
    BY <1>1
  <2>2. /\ p \in 1 .. nextBucket - 1
        /\ \A i \in 1 .. Len(item_id) : d - 1 # i => p # item_id[i]
    BY <2>1 DEF MapInv, Pending
  <2> QED
    BY <1>1, <2>1, <2>2
<1>9. p \in Nat /\ p \in Slot
  BY <1>4, <1>8 DEF Slot
<1>10. b \in ABucket
  <2>1. PICK w \in Nat : w = building[d].weight
    BY <1>6 DEF ABucket
  <2>2. PICK item \in Int : item = -p - 1
    BY <1>9
  <2> QED
    BY <1>6, <2>1, <2>2, WithItemTyped
<1> HIDE DEF b
<1>11. s \in Seq(ABucket) /\ Len(s) = d - 2 /\ \A k \in 1 .. d - 2 : s[k] = building[k]
  BY <1>4, <1>5, SubSeqProperties
<1> HIDE DEF s
<1>12. Depth' = d - 1 /\ building'[d - 1] = b /\ \A k \in 1 .. d - 2 : building'[k] = building[k]
  <2>1. /\ Len(Append(s, b)) = Len(s) + 1 /\ Append(s, b)[Len(s) + 1] = b
        /\ \A k \in 1 .. Len(s) : Append(s, b)[k] = s[k]
    BY <1>10, <1>11, AppendProperties
  <2> QED
    BY <1>3, <1>11, <2>1 DEF Depth
<1>13. Len(item_id') = d - 2 /\ \A i \in 1 .. d - 2 : item_id'[i] = item_id[i]
  <2>1. item_id' = SubSeq(item_id, 1, d - 2)
    BY <1>1, <1>3 DEF Front
  <2>2. \A i \in 1 .. d - 2 : item_id[i] \in Nat
    BY <1>1, <1>4
  <2> QED
    BY <2>1, <2>2, SubSeqProperties
<1> QED
  BY <1>1, <1>3, <1>6, <1>7, <1>8, <1>9, <1>12, <1>13 DEF b

-----------------------------------------------------------------------------
(* The layout                                                              *)

(* The items of a bucket so far: a first one and a distance between them.  *)
Row(b, first, distance, weight) ==
  /\ b.items = [i \in 1 .. Len(b.items) |-> first + (i - 1) * distance]
  /\ b.item_weights = [i \in 1 .. Len(b.items) |-> weight]
  /\ b.weight = Len(b.items) * weight

(* The next host, as the levels above it count. *)
HostNumber == Held(1) * Sizes[2] + Held(2)

RootRow ==
  /\ building[1].type = 10
  /\ Row(building[1], -1 - Expected!RackSlot(0), -(Sizes[2] + 1), Sizes[2] * (Sizes[3] * Weight))
RackRow ==
  /\ building[2].type = 3
  /\ Row(building[2], -1 - Expected!HostSlot(Held(1), 0), -1, Sizes[3] * Weight)
HostRow ==
  /\ building[3].type = 1
  /\ Row(building[3], HostNumber * Sizes[3], 1, Weight)

Placed(s) ==
  /\ s \in Expected!Slots
  /\ buckets[s].items = Expected!ProgramItems[s]
  /\ buckets[s].item_weights = Expected!ProgramWeights[s]
  /\ buckets[s].type = Expected!ProgramTypes[s]

Reserved == {item_id[i] : i \in 1 .. Len(item_id)}

LayoutInv ==
  /\ \A s \in Stored : Placed(s)
  /\ ~Done =>
       /\ RootRow
       /\ Depth >= 2 => RackRow /\ item_id[1] = Expected!RackSlot(Held(1))
       /\ Depth = 3 => HostRow /\ item_id[2] = Expected!HostSlot(Held(1), Held(2))
       /\ Stored = (1 .. nextBucket - 1) \ Reserved
  /\ Done =>
       /\ map.max_buckets = nextBucket /\ map.max_devices = nextOsd
       /\ nextBucket = Expected!RackSlot(Sizes[1])
       /\ Stored = 0 .. nextBucket - 1

-----------------------------------------------------------------------------
(* Slots                                                                   *)

LEMMA RackNumbers ==
  ASSUME NEW j \in 0 .. Sizes[1] - 1
  PROVE  /\ Expected!RackSlot(j) \in Expected!Slots /\ Expected!RackSlot(j) >= 1
         /\ Expected!RackOf(Expected!RackSlot(j)) = j
         /\ Expected!IsRack(Expected!RackSlot(j))
<1> DEFINE n == Sizes[2] + 1  t == j * n  all == Sizes[1] * n
<1>1. n \in Nat \ {0} /\ j \in Nat /\ Sizes[1] \in Nat /\ j + 1 <= Sizes[1]
  BY SizeNumbers
<1> HIDE DEF n
<1>2. t \in Nat /\ all \in Nat /\ t + n = (j + 1) * n /\ (j + 1) * n <= all
  BY <1>1
<1>3. t \div n = j
  BY <1>1
<1> HIDE DEF t, all
<1>4. Expected!RackSlot(j) = 1 + t
  BY DEF n, t, Expected!RackSlot
<1>5. Expected!Slots = 0 .. all
  <2>1. (1 + all) - 1 = all
    BY <1>2
  <2> QED
    BY <2>1 DEF n, all, Expected!RackSlot, Expected!Slots
<1>6. Expected!RackOf(1 + t) = j
  <2>1. (1 + t) - 1 = t
    BY <1>2
  <2> QED
    BY <1>3, <2>1 DEF n, Expected!RackOf
<1> QED
  BY <1>1, <1>2, <1>4, <1>5, <1>6 DEF Expected!IsRack

LEMMA HostNumbers ==
  ASSUME NEW j \in 0 .. Sizes[1] - 1, NEW k \in 0 .. Sizes[2] - 1
  PROVE  /\ Expected!HostSlot(j, k) \in Expected!Slots /\ Expected!HostSlot(j, k) >= 1
         /\ Expected!RackOf(Expected!HostSlot(j, k)) = j
         /\ ~Expected!IsRack(Expected!HostSlot(j, k))
<1> DEFINE n == Sizes[2] + 1  t == j * n  all == Sizes[1] * n
<1>1. n \in Nat \ {0} /\ j \in Nat /\ k \in Nat /\ k + 1 < n /\ Sizes[1] \in Nat /\ j + 1 <= Sizes[1]
  BY SizeNumbers
<1> HIDE DEF n
<1>2. t \in Nat /\ all \in Nat /\ t + n = (j + 1) * n /\ (j + 1) * n <= all
  BY <1>1
<1>3. (t + 1 + k) \div n = j
  BY <1>1, <1>2
<1>4. Expected!RackSlot(j) = 1 + t
  BY DEF n, t, Expected!RackSlot
<1>5. Expected!Slots = 0 .. all
  <2> HIDE DEF all
  <2>1. (1 + all) - 1 = all
    BY <1>2
  <2> QED
    BY <2>1 DEF n, all, Expected!RackSlot, Expected!Slots
<1> HIDE DEF t, all
<1>6. Expected!HostSlot(j, k) = t + 1 + k + 1
  BY <1>1, <1>2, <1>4 DEF Expected!HostSlot
<1>7. Expected!RackOf(t + 1 + k + 1) = j
  <2>1. (t + 1 + k + 1) - 1 = t + 1 + k
    BY <1>1, <1>2
  <2> QED
    BY <1>3, <2>1 DEF n, Expected!RackOf
<1> QED
  BY <1>1, <1>2, <1>4, <1>5, <1>6, <1>7 DEF Expected!IsRack

-----------------------------------------------------------------------------
(* Rows                                                                    *)

LEMMA RowStarts ==
  ASSUME NEW id \in Int, NEW depth \in 1 .. 3, NEW first \in Int, NEW distance \in Int,
         NEW weight \in Nat
  PROVE  /\ Row(NewBucket(id, depth), first, distance, weight)
         /\ NewBucket(id, depth).type = Types[depth]
<1>1. /\ NewBucket(id, depth).items = <<>> /\ NewBucket(id, depth).item_weights = <<>>
      /\ NewBucket(id, depth).weight = 0 /\ NewBucket(id, depth).type = Types[depth]
  BY DEF NewBucket
<1>2. Len(<<>>) = 0 /\ 1 .. 0 = {} /\ 0 * weight = 0
  OBVIOUS
<1>3. /\ <<>> = [i \in 1 .. 0 |-> first + (i - 1) * distance]
      /\ <<>> = [i \in 1 .. 0 |-> weight]
  BY <1>2
<1> QED
  BY <1>1, <1>2, <1>3 DEF Row

LEMMA RowGrows ==
  ASSUME NEW b \in ABucket, NEW first \in Int, NEW distance \in Int, NEW weight \in Nat,
         Row(b, first, distance, weight),
         NEW item, item = first + Len(b.items) * distance
  PROVE  /\ Row(WithItem(b, item, weight), first, distance, weight)
         /\ WithItem(b, item, weight).type = b.type
<1> DEFINE n == Len(b.items)
           c == WithItem(b, item, weight)
<1>1. b.items \in Seq(Int) /\ b.item_weights \in Seq(Nat) /\ n \in Nat
  BY DEF ABucket
<1>2. item \in Int
  BY <1>1
<1>3. c.items = Append(b.items, item) /\ c.item_weights = Append(b.item_weights, weight)
      /\ c.weight = b.weight + weight /\ c.type = b.type
  BY <1>2, WithItemTyped
<1> HIDE DEF c
<1>4. /\ b.items = [i \in 1 .. n |-> first + (i - 1) * distance]
      /\ b.item_weights = [i \in 1 .. n |-> weight] /\ b.weight = n * weight
  BY DEF Row
<1>5. Len(b.item_weights) = n
  BY <1>1, <1>4
<1>6. /\ Append(b.items, item) \in Seq(Int) /\ Len(Append(b.items, item)) = n + 1
      /\ \A i \in 1 .. n : Append(b.items, item)[i] = b.items[i]
      /\ Append(b.items, item)[n + 1] = item
  BY <1>1, <1>2, AppendProperties
<1>7. /\ Append(b.item_weights, weight) \in Seq(Nat)
      /\ Len(Append(b.item_weights, weight)) = n + 1
      /\ \A i \in 1 .. n : Append(b.item_weights, weight)[i] = b.item_weights[i]
      /\ Append(b.item_weights, weight)[n + 1] = weight
  BY <1>1, <1>5, AppendProperties
<1> DEFINE items == Append(b.items, item)  weights == Append(b.item_weights, weight)
<1>8. \A i \in 1 .. n + 1 : i \in 1 .. n \/ i = n + 1
  <2> HIDE DEF n
  <2> QED
    BY <1>1
<1>9. \A i \in 1 .. n + 1 : items[i] = first + (i - 1) * distance
  <2>1. \A i \in 1 .. n : items[i] = first + (i - 1) * distance
    BY <1>4, <1>6
  <2>2. (n + 1) - 1 = n
    BY <1>1
  <2>3. items[n + 1] = first + ((n + 1) - 1) * distance
    BY <1>6, <2>2
  <2> HIDE DEF items, n
  <2> QED
    BY <1>8, <2>1, <2>3
<1>10. \A i \in 1 .. n + 1 : weights[i] = weight
  BY <1>4, <1>7, <1>8
<1>11. /\ items = [i \in 1 .. Len(items) |-> items[i]]
       /\ weights = [i \in 1 .. Len(weights) |-> weights[i]]
  <2>1. items \in Seq(Int) /\ weights \in Seq(Nat)
    BY <1>6, <1>7
  <2> HIDE DEF items, weights
  <2> QED
    BY <2>1
<1>12. items = [i \in 1 .. n + 1 |-> first + (i - 1) * distance]
  <2> HIDE DEF items
  <2> QED
    BY <1>6, <1>9, <1>11 DEF items
<1>13. weights = [i \in 1 .. n + 1 |-> weight]
  <2> HIDE DEF weights
  <2> QED
    BY <1>7, <1>10, <1>11 DEF weights
<1>14. n * weight + weight = (n + 1) * weight
  BY <1>1
<1>15. Len(c.items) = n + 1 /\ c.items = items /\ c.item_weights = weights
  BY <1>3, <1>6
<1>16. c.weight = (n + 1) * weight
  BY <1>3, <1>4, <1>14
<1> HIDE DEF n, items, weights
<1>17. Row(c, first, distance, weight)
  BY <1>12, <1>13, <1>15, <1>16 DEF Row
<1> QED
  BY <1>3, <1>17 DEF c

-----------------------------------------------------------------------------
(* A full row is what its slot should hold                                 *)

LEMMA HostPlaced ==
  ASSUME NEW j \in 0 .. Sizes[1] - 1, NEW k \in 0 .. Sizes[2] - 1, NEW b,
         Row(b, (j * Sizes[2] + k) * Sizes[3], 1, Weight), Len(b.items) = Sizes[3]
  PROVE  /\ b.items = Expected!ProgramItems[Expected!HostSlot(j, k)]
         /\ b.item_weights = Expected!ProgramWeights[Expected!HostSlot(j, k)]
         /\ Expected!ProgramTypes[Expected!HostSlot(j, k)] = 1
<1>1. PICK s : s = Expected!HostSlot(j, k)
  OBVIOUS
<1>2. s \in Expected!Slots /\ s # 0 /\ Expected!RackOf(s) = j /\ ~Expected!IsRack(s)
  BY <1>1, HostNumbers DEF Expected!Slots
<1>3. s - Expected!HostSlot(j, 0) = k
  <2>1. Expected!RackSlot(j) \in Int
    BY SizeNumbers DEF Expected!RackSlot
  <2> QED
    BY <1>1, <2>1 DEF Expected!HostSlot
<1>4. /\ Expected!ProgramItems[s] =
           [i \in 1 .. Sizes[3] |-> (j * Sizes[2] + k) * Sizes[3] + i - 1]
      /\ Expected!ProgramWeights[s] = [i \in 1 .. Sizes[3] |-> Weight]
      /\ Expected!ProgramTypes[s] = 1
  BY <1>2, <1>3 DEF Expected!ProgramItems, Expected!ProgramWeights, Expected!ProgramTypes
<1>5. PICK x \in Int : x = (j * Sizes[2] + k) * Sizes[3]
  BY SizeNumbers
<1>6. \A i \in 1 .. Sizes[3] : x + (i - 1) * 1 = x + i - 1
  BY <1>5, SizeNumbers
<1>7. /\ b.items = [i \in 1 .. Sizes[3] |-> x + (i - 1) * 1]
      /\ b.item_weights = [i \in 1 .. Sizes[3] |-> Weight]
  BY <1>5 DEF Row
<1>8. b.items = [i \in 1 .. Sizes[3] |-> x + i - 1]
  BY <1>6, <1>7
<1> QED
  BY <1>1, <1>4, <1>5, <1>7, <1>8

LEMMA RackPlaced ==
  ASSUME NEW j \in 0 .. Sizes[1] - 1, NEW b,
         Row(b, -1 - Expected!HostSlot(j, 0), -1, Sizes[3] * Weight), Len(b.items) = Sizes[2]
  PROVE  /\ b.items = Expected!ProgramItems[Expected!RackSlot(j)]
         /\ b.item_weights = Expected!ProgramWeights[Expected!RackSlot(j)]
         /\ Expected!ProgramTypes[Expected!RackSlot(j)] = 3
<1>1. PICK s : s = Expected!RackSlot(j)
  OBVIOUS
<1>2. s \in Expected!Slots /\ s # 0 /\ Expected!RackOf(s) = j /\ Expected!IsRack(s) /\ s \in Int
  BY <1>1, RackNumbers DEF Expected!Slots
<1>3. /\ Expected!ProgramItems[s] = [i \in 1 .. Sizes[2] |-> -1 - Expected!HostSlot(j, i - 1)]
      /\ Expected!ProgramWeights[s] = [i \in 1 .. Sizes[2] |-> Sizes[3] * Weight]
      /\ Expected!ProgramTypes[s] = 3
  BY <1>2 DEF Expected!ProgramItems, Expected!ProgramWeights, Expected!ProgramTypes
<1>4. \A i \in 1 .. Sizes[2] :
        (-1 - Expected!HostSlot(j, 0)) + (i - 1) * (-1) = -1 - Expected!HostSlot(j, i - 1)
  BY <1>1, <1>2, SizeNumbers DEF Expected!HostSlot
<1>5. /\ b.items = [i \in 1 .. Sizes[2] |-> (-1 - Expected!HostSlot(j, 0)) + (i - 1) * (-1)]
      /\ b.item_weights = [i \in 1 .. Sizes[2] |-> Sizes[3] * Weight]
  BY DEF Row
<1>6. b.items = [i \in 1 .. Sizes[2] |-> -1 - Expected!HostSlot(j, i - 1)]
  BY <1>4, <1>5
<1> QED
  BY <1>1, <1>3, <1>5, <1>6

LEMMA RootPlaced ==
  ASSUME NEW b, Len(b.items) = Sizes[1],
         Row(b, -1 - Expected!RackSlot(0), -(Sizes[2] + 1), Sizes[2] * (Sizes[3] * Weight))
  PROVE  /\ 0 \in Expected!Slots
         /\ b.items = Expected!ProgramItems[0] /\ b.item_weights = Expected!ProgramWeights[0]
         /\ Expected!ProgramTypes[0] = 10
<1> DEFINE n == Sizes[2] + 1
<1>1. n \in Nat \ {0} /\ Sizes[1] \in Nat \ {0}
  BY SizeNumbers
<1>2. 0 \in Expected!Slots
  <2>1. Sizes[1] * n \in Nat
    BY <1>1
  <2>2. (1 + Sizes[1] * n) - 1 = Sizes[1] * n
    BY <2>1
  <2> QED
    BY <2>1, <2>2 DEF Expected!Slots, Expected!RackSlot
<1>3. /\ Expected!ProgramItems[0] = [i \in 1 .. Sizes[1] |-> -1 - Expected!RackSlot(i - 1)]
      /\ Expected!ProgramWeights[0] = [i \in 1 .. Sizes[1] |-> Sizes[2] * Sizes[3] * Weight]
      /\ Expected!ProgramTypes[0] = 10
  BY <1>2 DEF Expected!ProgramItems, Expected!ProgramWeights, Expected!ProgramTypes
<1>4. /\ Expected!RackSlot(0) = 1
      /\ \A i \in 1 .. Sizes[1] : Expected!RackSlot(i - 1) = 1 + (i - 1) * n
  BY SizeNumbers DEF Expected!RackSlot
<1> HIDE DEF n
<1>5. ASSUME NEW i \in 1 .. Sizes[1]
      PROVE  (-1 - Expected!RackSlot(0)) + (i - 1) * (-n) = -1 - Expected!RackSlot(i - 1)
  <2>1. PICK x \in Int : x = (i - 1) * n
    BY <1>1
  <2>2. (i - 1) * (-n) = -x
    BY <1>1, <2>1
  <2>3. Expected!RackSlot(i - 1) = 1 + x
    BY <1>4, <2>1
  <2>4. (-1 - 1) + (-x) = -1 - (1 + x)
    BY <2>1
  <2> QED
    BY <1>4, <2>2, <2>3, <2>4
<1>6. Sizes[2] * (Sizes[3] * Weight) = Sizes[2] * Sizes[3] * Weight
  BY SizeNumbers DEF Weight
<1>7. /\ b.items = [i \in 1 .. Sizes[1] |-> (-1 - Expected!RackSlot(0)) + (i - 1) * (-n)]
      /\ b.item_weights = [i \in 1 .. Sizes[1] |-> Sizes[2] * Sizes[3] * Weight]
  BY <1>6 DEF Row, n
<1>8. b.items = [i \in 1 .. Sizes[1] |-> -1 - Expected!RackSlot(i - 1)]
  BY <1>5, <1>7
<1> QED
  BY <1>2, <1>3, <1>7, <1>8

-----------------------------------------------------------------------------
(* The steps                                                               *)

LEMMA LayoutDevice ==
  ASSUME MapInv, LayoutInv, AddDevice
  PROVE  LayoutInv'
<1>1. PICK b : b = building[3]
  OBVIOUS
<1>2. /\ Depth = 3 /\ Depth' = 3 /\ ~Done /\ building'[3] = WithItem(b, nextOsd, Weight)
      /\ building'[1] = building[1] /\ building'[2] = building[2]
      /\ b \in ABucket /\ nextOsd \in Nat /\ Weight \in Nat
      /\ UNCHANGED <<buckets, item_id, nextBucket, map>>
  BY <1>1, DeviceEffect
<1>3. Held(1)' = Held(1) /\ Held(2)' = Held(2) /\ Held(3) = Len(b.items)
  BY <1>1, <1>2 DEF Held
<1>4. HostNumber' = HostNumber
  BY <1>3 DEF HostNumber
<1>5. HostRow'
  <2>1. /\ Row(b, HostNumber * Sizes[3], 1, Weight) /\ b.type = 1
        /\ nextOsd = HostNumber * Sizes[3] + Held(3)
    BY <1>1, <1>2 DEF LayoutInv, HostRow, MapInv, Counters, HostNumber
  <2>2. PICK x \in Int : x = HostNumber * Sizes[3]
    BY <1>2, Lengths, SizeNumbers DEF HostNumber
  <2>3. nextOsd = x + Len(b.items) * 1
    <3>1. Held(3) \in Nat
      BY <1>2, Lengths
    <3> QED
      BY <1>3, <2>1, <2>2, <3>1
  <2>4. /\ Row(WithItem(b, nextOsd, Weight), x, 1, Weight)
        /\ WithItem(b, nextOsd, Weight).type = b.type
    BY <1>2, <2>1, <2>2, <2>3, RowGrows
  <2> QED
    BY <1>2, <1>4, <2>1, <2>2, <2>4 DEF HostRow
<1>6. RootRow' /\ RackRow'
  BY <1>2, <1>3 DEF LayoutInv, RootRow, RackRow
<1>7. Stored' = Stored /\ Reserved' = Reserved /\ Done' = Done
  BY <1>2 DEF Stored, Reserved, Done
<1>8. \A s \in Stored : Placed(s)'
  BY <1>2 DEF LayoutInv, Placed
<1>9. item_id[1] = Expected!RackSlot(Held(1)) /\ item_id[2] = Expected!HostSlot(Held(1), Held(2))
      /\ Stored = (1 .. nextBucket - 1) \ Reserved
  BY <1>2 DEF LayoutInv
<1> QED
  BY <1>2, <1>3, <1>5, <1>6, <1>7, <1>8, <1>9 DEF LayoutInv

LEMMA LayoutCall ==
  ASSUME MapInv, LayoutInv, CallConstruct
  PROVE  LayoutInv'
<1>1. PICK d \in 1 .. 2 : d = Depth
  BY DEF CallConstruct
<1>2. /\ Depth' = d + 1 /\ ~Done
      /\ building'[d + 1] = NewBucket(-nextBucket - 1, d + 1)
      /\ \A k \in 1 .. d : building'[k] = building[k]
      /\ Len(item_id) = d - 1 /\ Len(item_id') = d /\ item_id'[d] = nextBucket
      /\ \A i \in 1 .. d - 1 : item_id'[i] = item_id[i]
      /\ nextBucket \in Nat /\ nextBucket' = nextBucket + 1
      /\ UNCHANGED <<buckets, nextOsd, map>>
  BY <1>1, CallEffect
<1>3. Stored' = Stored /\ Done' = Done /\ \A s \in Stored : Placed(s)'
  BY <1>2 DEF Stored, Done, LayoutInv, Placed
<1>4. Reserved' = Reserved \union {nextBucket}
  <2>1. \A i \in 1 .. d : i \in 1 .. d - 1 \/ i = d
    OBVIOUS
  <2>2. \A i \in 1 .. d - 1 : i \in 1 .. d
    OBVIOUS
  <2> QED
    BY <1>2, <2>1, <2>2 DEF Reserved
<1>5. Stored' = (1 .. nextBucket' - 1) \ Reserved'
  <2>1. Stored = (1 .. nextBucket - 1) \ Reserved
    BY <1>2 DEF LayoutInv
  <2>2. (1 .. (nextBucket + 1) - 1) \ {nextBucket} = 1 .. nextBucket - 1
    BY <1>2
  <2> QED
    BY <1>2, <1>3, <1>4, <2>1, <2>2
<1>6. Held(1)' = Held(1) /\ Held(1) \in Nat /\ Held(2) \in Nat
  <2>1. 1 \in 1 .. d /\ 1 <= d + 1
    OBVIOUS
  <2> QED
    BY <1>1, <1>2, <2>1, Lengths DEF Held
<1>7. RootRow'
  <2>1. 1 \in 1 .. d
    OBVIOUS
  <2> QED
    BY <1>2, <2>1 DEF LayoutInv, RootRow
<1>8. nextBucket = 1 + Held(1) * (1 + Sizes[2]) + Held(2) + (d - 1)
  BY <1>1, <1>2 DEF MapInv, Counters
<1>9. PICK x \in Int : x = Held(1) * (Sizes[2] + 1)
  BY <1>6, SizeNumbers
<1>10. Expected!RackSlot(Held(1)) = 1 + x /\ Held(1) * (1 + Sizes[2]) = x
  <2>1. 1 + Sizes[2] = Sizes[2] + 1
    BY SizeNumbers
  <2> QED
    BY <1>9, <2>1 DEF Expected!RackSlot
<1>11. CASE d = 1
  <2>1. Held(2) = 0
    BY <1>1, <1>2, <1>11, Lengths
  <2>2. item_id'[1] = Expected!RackSlot(Held(1)')
    BY <1>2, <1>6, <1>8, <1>9, <1>10, <1>11, <2>1
  <2>3. RackRow'
    <3>1. building'[2] = NewBucket(-nextBucket - 1, 2) /\ -nextBucket - 1 \in Int
      BY <1>2, <1>11
    <3>2. -1 - Expected!HostSlot(Held(1), 0) \in Int /\ -1 \in Int /\ Sizes[3] * Weight \in Nat
      BY <1>9, <1>10, SizeNumbers DEF Expected!HostSlot, Weight
    <3>3. Types[2] = 3 /\ 2 \in 1 .. 3
      BY DEF Types
    <3>4. /\ Row(building'[2], -1 - Expected!HostSlot(Held(1), 0), -1, Sizes[3] * Weight)
          /\ building'[2].type = Types[2]
      <4>1. PICK f, m \in Int : f = -1 - Expected!HostSlot(Held(1), 0) /\ m = -1
        BY <3>2
      <4>2. PICK id \in Int : id = -nextBucket - 1
        BY <3>1
      <4>3. PICK w \in Nat : w = Sizes[3] * Weight
        BY <3>2
      <4>4. Row(NewBucket(id, 2), f, m, w) /\ NewBucket(id, 2).type = Types[2]
        BY <3>3, RowStarts
      <4> QED
        BY <3>1, <4>1, <4>2, <4>3, <4>4
    <3> QED
      BY <1>6, <3>3, <3>4 DEF RackRow
  <2> QED
    BY <1>2, <1>3, <1>5, <1>7, <1>11, <2>2, <2>3 DEF LayoutInv
<1>12. CASE d = 2
  <2>1. building'[1] = building[1] /\ building'[2] = building[2] /\ item_id'[1] = item_id[1]
    <3>1. 1 \in 1 .. 2 /\ 2 \in 1 .. 2 /\ 1 \in 1 .. 2 - 1
      OBVIOUS
    <3> QED
      BY <1>2, <1>12, <3>1
  <2>2. Held(2)' = Held(2) /\ HostNumber' = HostNumber
    BY <1>1, <1>2, <1>6, <1>12, <2>1 DEF Held, HostNumber
  <2>3. RackRow' /\ item_id'[1] = Expected!RackSlot(Held(1)')
    BY <1>1, <1>2, <1>6, <1>12, <2>1 DEF LayoutInv, RackRow
  <2>4. item_id'[2] = Expected!HostSlot(Held(1)', Held(2)')
    BY <1>2, <1>6, <1>8, <1>9, <1>10, <1>12, <2>2 DEF Expected!HostSlot
  <2>5. HostRow'
    <3>1. building'[3] = NewBucket(-nextBucket - 1, 3) /\ -nextBucket - 1 \in Int
      BY <1>2, <1>12
    <3>2. HostNumber * Sizes[3] \in Int /\ Weight \in Nat
      BY <1>6, SizeNumbers DEF HostNumber, Weight
    <3>3. Types[3] = 1 /\ 3 \in 1 .. 3 /\ 1 \in Int
      BY DEF Types
    <3>4. Row(building'[3], HostNumber * Sizes[3], 1, Weight) /\ building'[3].type = Types[3]
      <4>1. PICK f \in Int : f = HostNumber * Sizes[3]
        BY <3>2
      <4>2. PICK id \in Int : id = -nextBucket - 1
        BY <3>1
      <4>3. Row(NewBucket(id, 3), f, 1, Weight) /\ NewBucket(id, 3).type = Types[3]
        BY <3>2, <3>3, RowStarts
      <4> QED
        BY <3>1, <4>1, <4>2, <4>3
    <3> QED
      BY <2>2, <3>3, <3>4 DEF HostRow
  <2> QED
    BY <1>2, <1>3, <1>5, <1>7, <1>12, <2>3, <2>4, <2>5 DEF LayoutInv
<1> QED
  BY <1>11, <1>12

LEMMA LayoutReturn ==
  ASSUME MapInv, LayoutInv, ConstructReturns
  PROVE  LayoutInv'
<1>1. PICK d \in 2 .. 3 : d = Depth
  BY DEF ConstructReturns
<1>2. PICK p : p = item_id[d - 1]
  OBVIOUS
<1>3. /\ Depth' = d - 1 /\ ~Done
      /\ buckets' = [buckets EXCEPT ![p] = building[d]]
      /\ building'[d - 1] = WithItem(building[d - 1], -p - 1, building[d].weight)
      /\ \A k \in 1 .. d - 2 : building'[k] = building[k]
      /\ Len(item_id) = d - 1 /\ Len(item_id') = d - 2
      /\ \A i \in 1 .. d - 2 : item_id'[i] = item_id[i] /\ item_id[i] # p
      /\ p \in Slot /\ p \in Nat /\ Held(d) = Sizes[d]
      /\ building[d] \in ABucket /\ building[d - 1] \in ABucket
      /\ Held(d) = Len(building[d].items)
      /\ UNCHANGED <<nextBucket, nextOsd, map>>
  BY <1>1, <1>2, ReturnEffect, SMTT(20)
<1>4. Reserved' = Reserved \ {p} /\ p \in Reserved
  <2>1. \A i \in 1 .. d - 1 : i \in 1 .. d - 2 \/ i = d - 1
    OBVIOUS
  <2>2. d - 1 \in 1 .. d - 1 /\ \A i \in 1 .. d - 2 : i \in 1 .. d - 1
    OBVIOUS
  <2> QED
    BY <1>2, <1>3, <2>1, <2>2 DEF Reserved
<1>5. /\ Stored' = Stored \union {p} /\ Done' = Done
      /\ buckets'[p] = building[d] /\ \A s \in Stored : s # p => buckets'[s] = buckets[s]
  <2>1. building[d] # Null
    BY <1>3, NoBucketIsNull
  <2>2. buckets \in [Slot -> ABucket \union {Null}]
    BY DEF MapInv, MapTyped
  <2> QED
    BY <1>3, <2>1, <2>2 DEF Stored, Done
<1>6. Stored' = (1 .. nextBucket' - 1) \ Reserved'
  <2>1. Stored = (1 .. nextBucket - 1) \ Reserved
    BY <1>3 DEF LayoutInv
  <2>2. p \in 1 .. nextBucket - 1
    <3>1. d - 1 \in 1 .. Len(item_id)
      BY <1>3
    <3> QED
      BY <1>2, <3>1 DEF MapInv, Pending
  <2> QED
    BY <1>3, <1>4, <1>5, <2>1, <2>2
<1>7. \A s \in Stored : s # p => Placed(s)'
  BY <1>5 DEF LayoutInv, Placed
<1>8. /\ Held(1) \in Nat /\ Held(1) < Sizes[1] /\ Held(2) \in Nat
      /\ d = 3 => Held(2) < Sizes[2]
  BY <1>1, <1>3, Lengths
<1>9. Held(1) \in 0 .. Sizes[1] - 1
  BY <1>8, SizeNumbers
<1>10. PICK x \in Int : x = Held(1) * (Sizes[2] + 1)
  BY <1>8, SizeNumbers
<1>11. Expected!RackSlot(Held(1)) = 1 + x
  BY <1>10 DEF Expected!RackSlot
<1>12. CASE d = 3
  <2>1. /\ RootRow /\ RackRow /\ HostRow /\ item_id[1] = Expected!RackSlot(Held(1))
        /\ item_id[2] = Expected!HostSlot(Held(1), Held(2))
    BY <1>1, <1>3, <1>12 DEF LayoutInv
  <2>2. Held(2) \in 0 .. Sizes[2] - 1
    BY <1>8, <1>12, SizeNumbers
  <2>3. p = Expected!HostSlot(Held(1), Held(2)) /\ p = (1 + x) + 1 + Held(2)
    BY <1>2, <1>11, <1>12, <2>1 DEF Expected!HostSlot
  <2>4. PICK h : h = building[3]
    OBVIOUS
  <2>5. /\ Row(h, (Held(1) * Sizes[2] + Held(2)) * Sizes[3], 1, Weight) /\ h.type = 1
        /\ Len(h.items) = Sizes[3] /\ buckets'[p] = h /\ h.weight = Sizes[3] * Weight
    BY <1>3, <1>5, <1>12, <2>1, <2>4 DEF HostRow, HostNumber, Row
  <2>6. Placed(p)'
    <3>1. p \in Expected!Slots
      BY <1>9, <2>2, <2>3, HostNumbers
    <3>2. /\ h.items = Expected!ProgramItems[p] /\ h.item_weights = Expected!ProgramWeights[p]
          /\ Expected!ProgramTypes[p] = 1
      BY <1>9, <2>2, <2>3, <2>5, HostPlaced
    <3> QED
      BY <2>5, <3>1, <3>2 DEF Placed
  <2>7. Depth' = 2 /\ building'[1] = building[1] /\ item_id'[1] = item_id[1]
    <3>1. 1 \in 1 .. 3 - 2
      OBVIOUS
    <3> QED
      BY <1>3, <1>12, <3>1
  <2>8. Held(1)' = Held(1)
    BY <1>1, <1>12, <2>7 DEF Held
  <2>9. RootRow'
    BY <2>1, <2>7 DEF RootRow
  <2>10. RackRow'
    <3>1. PICK b : b = building[2]
      OBVIOUS
    <3>2. b \in ABucket /\ building'[2] = WithItem(b, -p - 1, Sizes[3] * Weight)
          /\ Held(2) = Len(b.items)
      BY <1>1, <1>3, <1>12, <2>4, <2>5, <3>1 DEF Held
    <3>3. PICK f \in Int : f = -1 - Expected!HostSlot(Held(1), 0) /\ f = -1 - ((1 + x) + 1)
      BY <1>10, <1>11 DEF Expected!HostSlot
    <3>4. Row(b, f, -1, Sizes[3] * Weight) /\ b.type = 3 /\ Sizes[3] * Weight \in Nat /\ -1 \in Int
      BY <2>1, <3>1, <3>3, SizeNumbers DEF RackRow, Weight
    <3>5. -p - 1 = f + Len(b.items) * (-1)
      <4>1. -p - 1 = f + Held(2) * (-1)
        BY <1>8, <1>10, <2>3, <3>3
      <4> QED
        BY <3>2, <4>1
    <3>6. PICK w \in Nat : w = Sizes[3] * Weight
      BY <3>4
    <3>7. PICK item, m \in Int : item = -p - 1 /\ m = -1
      BY <1>3
    <3>8. Row(WithItem(b, item, w), f, m, w) /\ WithItem(b, item, w).type = b.type
      <4>1. Row(b, f, m, w) /\ item = f + Len(b.items) * m
        BY <3>4, <3>5, <3>6, <3>7
      <4> QED
        BY <3>2, <4>1, RowGrows
    <3> QED
      BY <2>8, <3>2, <3>3, <3>4, <3>6, <3>7, <3>8 DEF RackRow
  <2>11. \A s \in Stored' : Placed(s)'
    BY <1>5, <1>7, <2>6
  <2> QED
    BY <1>3, <1>5, <1>6, <2>1, <2>7, <2>8, <2>9, <2>10, <2>11 DEF LayoutInv
<1>13. CASE d = 2
  <2>1. /\ RootRow /\ RackRow /\ item_id[1] = Expected!RackSlot(Held(1))
    BY <1>1, <1>3, <1>13 DEF LayoutInv
  <2>2. p = Expected!RackSlot(Held(1))
    BY <1>2, <1>13, <2>1
  <2>3. PICK r : r = building[2]
    OBVIOUS
  <2>4. /\ Row(r, -1 - Expected!HostSlot(Held(1), 0), -1, Sizes[3] * Weight) /\ r.type = 3
        /\ Len(r.items) = Sizes[2] /\ buckets'[p] = r /\ r.weight = Sizes[2] * (Sizes[3] * Weight)
    BY <1>3, <1>5, <1>13, <2>1, <2>3 DEF RackRow, Row
  <2>5. Placed(p)'
    <3>1. p \in Expected!Slots
      BY <1>9, <2>2, RackNumbers
    <3>2. /\ r.items = Expected!ProgramItems[p] /\ r.item_weights = Expected!ProgramWeights[p]
          /\ Expected!ProgramTypes[p] = 3
      BY <1>9, <2>2, <2>4, RackPlaced
    <3> QED
      BY <2>4, <3>1, <3>2 DEF Placed
  <2>6. RootRow'
    <3>1. PICK b : b = building[1]
      OBVIOUS
    <3> DEFINE w == Sizes[2] * (Sizes[3] * Weight)
               n == Sizes[2] + 1
    <3>2. b \in ABucket /\ building'[1] = WithItem(b, -p - 1, w) /\ Held(1) = Len(b.items)
      BY <1>1, <1>3, <1>13, <2>3, <2>4, <3>1 DEF Held
    <3>3. -1 - Expected!RackSlot(0) = -2 /\ w \in Nat /\ n \in Int
      BY SizeNumbers DEF Expected!RackSlot, Weight
    <3>4. Row(b, -2, -n, w) /\ b.type = 10
      BY <2>1, <3>1, <3>3 DEF RootRow
    <3>5. -p - 1 = -2 + Len(b.items) * (-n)
      <4>1. Held(1) * n = x
        BY <1>10
      <4> HIDE DEF n
      <4>2. Held(1) * (-n) = -x
        BY <1>8, <1>10, <3>3, <4>1
      <4>3. -p - 1 = -2 + (-x)
        BY <1>10, <1>11, <2>2
      <4> QED
        BY <3>2, <4>2, <4>3
    <3> HIDE DEF w, n
    <3>6. PICK item, f, m \in Int : item = -p - 1 /\ f = -2 /\ m = -n
      BY <1>3, <3>3
    <3>7. Row(WithItem(b, item, w), f, m, w) /\ WithItem(b, item, w).type = b.type
      <4>1. Row(b, f, m, w) /\ item = f + Len(b.items) * m
        BY <3>4, <3>5, <3>6
      <4> QED
        BY <3>2, <3>3, <4>1, RowGrows
    <3> QED
      BY <3>2, <3>3, <3>4, <3>6, <3>7 DEF RootRow, w, n
  <2>7. \A s \in Stored' : Placed(s)'
    BY <1>5, <1>7, <2>5
  <2> QED
    BY <1>3, <1>5, <1>6, <1>13, <2>6, <2>7 DEF LayoutInv
<1> QED
  BY <1>12, <1>13

LEMMA LayoutFinish ==
  ASSUME MapInv, LayoutInv, Finish
  PROVE  LayoutInv'
<1>1. /\ Depth = 1 /\ Filled /\ buckets' = [buckets EXCEPT ![0] = Current]
      /\ map' = [max_buckets |-> nextBucket, max_devices |-> nextOsd]
      /\ UNCHANGED <<item_id, nextOsd, nextBucket>>
  BY DEF Finish
<1>2. ~Done /\ Done' /\ map.max_buckets' = nextBucket' /\ map.max_devices' = nextOsd'
  BY <1>1, NotDone, NoMapIsNull DEF Done
<1>3. PICK b : b = building[1]
  OBVIOUS
<1>4. /\ Current = b /\ b \in ABucket /\ Len(item_id) = 0 /\ Len(b.items) = Sizes[1]
      /\ Held(1) = Sizes[1] /\ Held(2) = 0
  <2>1. Current = b /\ b \in ABucket /\ Len(item_id) = 0 /\ Held(2) = 0 /\ b.size = Sizes[1]
        /\ Held(1) = Len(b.items)
    BY <1>1, <1>2, <1>3, Lengths
  <2> QED
    BY <1>1, <2>1 DEF Filled
<1>5. RootRow /\ Stored = (1 .. nextBucket - 1) \ Reserved
  BY <1>2 DEF LayoutInv
<1>6. Reserved = {}
  BY <1>4 DEF Reserved
<1>7. 0 \in Slot /\ buckets \in [Slot -> ABucket \union {Null}] /\ nextBucket \in Nat /\ nextBucket >= 1
  BY SizeNumbers DEF Slot, MapInv, MapTyped
<1>8. nextBucket = Expected!RackSlot(Sizes[1])
  <2>1. nextBucket = 1 + Sizes[1] * (1 + Sizes[2]) + 0 + (1 - 1)
    BY <1>1, <1>2, <1>4 DEF MapInv, Counters
  <2>2. PICK x \in Int : x = Sizes[1] * (1 + Sizes[2])
    BY SizeNumbers
  <2>3. x = Sizes[1] * (Sizes[2] + 1)
    BY <2>2, SizeNumbers
  <2> QED
    BY <2>1, <2>2, <2>3 DEF Expected!RackSlot
<1>9. /\ Stored' = Stored \union {0} /\ buckets'[0] = b
      /\ \A s \in Stored : buckets'[s] = buckets[s]
  <2>1. b # Null
    BY <1>4, NoBucketIsNull
  <2>2. 0 \notin Stored
    BY <1>5
  <2> QED
    BY <1>1, <1>4, <1>7, <2>1, <2>2 DEF Stored
<1>10. Stored' = 0 .. nextBucket - 1
  BY <1>5, <1>6, <1>7, <1>9
<1>11. \A s \in Stored : Placed(s)'
  BY <1>9 DEF LayoutInv, Placed
<1>12. Placed(0)'
  <2>1. Row(b, -1 - Expected!RackSlot(0), -(Sizes[2] + 1), Sizes[2] * (Sizes[3] * Weight))
        /\ b.type = 10
    BY <1>3, <1>5 DEF RootRow
  <2>2. /\ 0 \in Expected!Slots
        /\ b.items = Expected!ProgramItems[0] /\ b.item_weights = Expected!ProgramWeights[0]
        /\ Expected!ProgramTypes[0] = 10
    BY <1>4, <2>1, RootPlaced
  <2> QED
    BY <1>9, <2>1, <2>2 DEF Placed
<1>13. nextBucket' = nextBucket
  BY <1>1
<1> QED
  BY <1>2, <1>8, <1>9, <1>10, <1>11, <1>12, <1>13 DEF LayoutInv

LEMMA NextLayout ==
  ASSUME MapInv, LayoutInv, [MapNext]_mapVars
  PROVE  LayoutInv'
<1>1. CASE UNCHANGED mapVars
  <2>1. UNCHANGED <<buckets, building, item_id, nextOsd, nextBucket, map>>
    BY <1>1 DEF mapVars
  <2>2. Depth' = Depth /\ Held(1)' = Held(1) /\ Held(2)' = Held(2)
    BY <2>1 DEF Depth, Held
  <2>3. RootRow' = RootRow /\ RackRow' = RackRow /\ HostRow' = HostRow
    BY <2>1, <2>2 DEF RootRow, RackRow, HostRow, HostNumber
  <2>4. Stored' = Stored /\ Reserved' = Reserved /\ Done' = Done /\ \A s : Placed(s)' = Placed(s)
    BY <2>1 DEF Stored, Reserved, Done, Placed
  <2> QED
    BY <2>1, <2>2, <2>3, <2>4 DEF LayoutInv
<1> QED
  BY <1>1, LayoutDevice, LayoutCall, LayoutReturn, LayoutFinish DEF MapNext

LEMMA InitLayout == MapInit => LayoutInv
<1> SUFFICES ASSUME MapInit PROVE LayoutInv
  OBVIOUS
<1>1. /\ building = <<NewBucket(-1, 1)>> /\ item_id = <<>> /\ nextBucket = 1
      /\ Stored = {} /\ ~Done /\ Depth = 1
  BY DEF MapInit, Stored, Done, Depth
<1>2. RootRow
  <2>1. PICK f, m \in Int : f = -1 - Expected!RackSlot(0) /\ m = -(Sizes[2] + 1)
    BY SizeNumbers DEF Expected!RackSlot
  <2>2. PICK w \in Nat : w = Sizes[2] * (Sizes[3] * Weight)
    BY SizeNumbers DEF Weight
  <2>3. PICK id \in Int : id = -1
    OBVIOUS
  <2>4. Types[1] = 10 /\ 1 \in 1 .. 3
    BY DEF Types
  <2>5. Row(NewBucket(id, 1), f, m, w) /\ NewBucket(id, 1).type = Types[1]
    BY <2>4, RowStarts
  <2>6. building[1] = NewBucket(id, 1)
    BY <1>1, <2>3
  <2> QED
    BY <2>1, <2>2, <2>4, <2>5, <2>6 DEF RootRow
<1>3. 1 .. 1 - 1 = {}
  OBVIOUS
<1> QED
  BY <1>1, <1>2, <1>3 DEF LayoutInv

THEOREM LayoutInvariant == MapSpec => []LayoutInv
  BY MapInvariant, InitLayout, NextLayout, PTL DEF MapSpec

(* For any sizes, the recursion with its two counters fills the slots of   *)
(* the racks and hosts without gaps, numbers the devices host by host and  *)
(* adds their weights up: the map is the one that is written down without  *)
(* the recursion (construct_root, construct_rack, construct_host, init2).  *)
THEOREM RecursionBuildsTheMap == MapSpec => []BuildsProgramMap
<1>1. ASSUME MapInv, LayoutInv PROVE BuildsProgramMap
  <2> SUFFICES ASSUME Done PROVE /\ Stored = Expected!Slots
                                 /\ map.max_buckets = Cardinality(Stored)
                                 /\ \A s \in Stored : Placed(s)
    BY DEF BuildsProgramMap, Placed
  <2>1. /\ map.max_buckets = nextBucket /\ nextBucket = Expected!RackSlot(Sizes[1])
        /\ Stored = 0 .. nextBucket - 1 /\ \A s \in Stored : Placed(s)
    BY <1>1 DEF LayoutInv
  <2>2. nextBucket \in Nat
    BY <1>1, SizeNumbers DEF MapInv, MapTyped
  <2>3. Cardinality(0 .. nextBucket - 1) = nextBucket
    <3>1. 0 \in Int /\ nextBucket - 1 \in Int
      BY <2>2
    <3> QED
      BY <2>2, <3>1, FS_Interval
  <2> QED
    BY <2>1, <2>3 DEF Expected!Slots
<1> QED
  BY <1>1, MapInvariant, LayoutInvariant, PTL

(* What the placement is given when the construction is over. *)
BuiltSlot == 0 .. map.max_buckets - 1
BuiltMap ==
  INSTANCE CrushMap WITH
    MaxBuckets <- map.max_buckets,
    Items <- [s \in BuiltSlot |-> buckets[s].items],
    ItemWeights <- [s \in BuiltSlot |-> buckets[s].item_weights],
    BucketType <- [s \in BuiltSlot |-> buckets[s].type],
    MaxDevices <- map.max_devices,
    WeightMax <- OsdSum

(* What crush_choose_firstn relies on without testing it: when init2 is    *)
(* over, the map in memory is one that the proofs about the placement      *)
(* allow (WellFormed): every reference leads to a bucket of the map        *)
(* further from the root, every bucket has a weight for each item.  No     *)
(* device number reaches max_devices, nor the length of the weight table.  *)
THEOREM BuiltMapIsWellFormed ==
  MapSpec => [](Done => /\ BuiltMap!WellFormed
                        /\ \A s \in BuiltSlot : \A item \in ItemsAt(s) :
                             item < map.max_devices /\ item < OsdSum)
<1> DEFINE P == /\ BuiltMap!WellFormed
                /\ \A s \in BuiltSlot : \A item \in ItemsAt(s) :
                     item < map.max_devices /\ item < OsdSum
<1>1. ASSUME MapInv, LayoutInv, IdsMatchSlots, Done PROVE P
  <2>1. /\ map.max_buckets = nextBucket /\ map.max_devices = nextOsd
        /\ Stored = 0 .. nextBucket - 1 /\ \A s \in Stored : Placed(s)
    BY <1>1 DEF LayoutInv
  <2>2. nextBucket \in Nat \ {0} /\ nextOsd \in Nat /\ nextOsd <= OsdSum /\ OsdSum \in Nat
    BY <1>1, SizeNumbers DEF MapInv, MapTyped
  <2>3. BuiltSlot = Stored /\ BuiltMap!Bucket = Stored
    BY <2>1 DEF BuiltSlot, BuiltMap!Bucket
  <2>4. ASSUME NEW s \in Stored
        PROVE  /\ buckets[s].items \in Seq(Int) /\ buckets[s].item_weights \in Seq(Nat)
               /\ buckets[s].type \in Nat
    <3>1. buckets[s] \in ABucket
      BY <1>1 DEF MapInv, MapTyped, Stored
    <3> QED
      BY <3>1 DEF ABucket
  <2>5. ASSUME NEW s \in Stored
        PROVE  /\ buckets[s].type \in Nat \ {0}
               /\ Len(buckets[s].item_weights) = Len(buckets[s].items)
    <3>1. PICK n \in Nat : /\ DOMAIN Expected!ProgramItems[s] = 1 .. n
                           /\ DOMAIN Expected!ProgramWeights[s] = 1 .. n
                           /\ Expected!ProgramTypes[s] \in {10, 3, 1}
      <4>1. s \in Expected!Slots
        BY <2>1 DEF Placed
      <4>2. CASE s = 0
        BY <4>1, <4>2, SizeNumbers
        DEF Expected!ProgramItems, Expected!ProgramWeights, Expected!ProgramTypes
      <4>3. CASE s # 0 /\ Expected!IsRack(s)
        BY <4>1, <4>3, SizeNumbers
        DEF Expected!ProgramItems, Expected!ProgramWeights, Expected!ProgramTypes
      <4>4. CASE s # 0 /\ ~Expected!IsRack(s)
        BY <4>1, <4>4, SizeNumbers
        DEF Expected!ProgramItems, Expected!ProgramWeights, Expected!ProgramTypes
      <4> QED
        BY <4>2, <4>3, <4>4
    <3>2. DOMAIN buckets[s].items = 1 .. n /\ DOMAIN buckets[s].item_weights = 1 .. n
      BY <2>1, <3>1 DEF Placed
    <3>3. Len(buckets[s].items) = n /\ Len(buckets[s].item_weights) = n
      BY <2>4, <3>2
    <3> QED
      BY <2>1, <3>1, <3>3 DEF Placed
  <2>6. ASSUME NEW s \in Stored, NEW i \in 1 .. Len(buckets[s].items), buckets[s].items[i] < 0
        PROVE  -1 - buckets[s].items[i] \in s + 1 .. nextBucket - 1
    <3>1. PICK item : item = buckets[s].items[i]
      OBVIOUS
    <3>2. item \in ItemsAt(s) /\ item \in Int
      BY <2>4, <3>1 DEF ItemsAt, ToSet
    <3>3. -1 - item \in Stored /\ s < -1 - item
      BY <1>1, <2>6, <3>1, <3>2 DEF IdsMatchSlots
    <3>4. s \in Int
      BY <2>1, <2>2
    <3>5. -1 - item \in 0 .. nextBucket - 1
      BY <2>1, <3>3
    <3>6. -1 - item \in s + 1 .. nextBucket - 1
      BY <2>2, <3>2, <3>3, <3>4, <3>5
    <3> QED
      BY <3>1, <3>6
  <2>7. BuiltMap!WellFormed
    <3>1. map.max_buckets \in Nat \ {0} /\ map.max_devices \in Nat /\ OsdSum \in Nat
      BY <2>1, <2>2
    <3>2. /\ [s \in BuiltSlot |-> buckets[s].items] \in [Stored -> Seq(Int)]
          /\ [s \in BuiltSlot |-> buckets[s].item_weights] \in [Stored -> Seq(Nat)]
          /\ [s \in BuiltSlot |-> buckets[s].type] \in [Stored -> Nat \ {0}]
      BY <2>3, <2>4, <2>5
    <3>3. \A s \in Stored :
            /\ Len([t \in BuiltSlot |-> buckets[t].item_weights][s]) =
                 Len([t \in BuiltSlot |-> buckets[t].items][s])
            /\ \A i \in 1 .. Len([t \in BuiltSlot |-> buckets[t].items][s]) :
                 [t \in BuiltSlot |-> buckets[t].items][s][i] < 0 =>
                   -1 - [t \in BuiltSlot |-> buckets[t].items][s][i] \in s + 1 .. map.max_buckets - 1
      BY <2>1, <2>3, <2>5, <2>6
    <3> QED
      BY <2>3, <3>1, <3>2, <3>3 DEF BuiltMap!WellFormed, BuiltMap!BucketOf
  <2>8. ASSUME NEW s \in BuiltSlot, NEW item \in ItemsAt(s)
        PROVE  item < map.max_devices /\ item < OsdSum
    <3>1. Known(item) /\ item \in Int
      BY <1>1, <2>3, <2>4 DEF MapInv, Consistent, ItemsAt, ToSet
    <3> QED
      BY <2>1, <2>2, <3>1 DEF Known
  <2> QED
    BY <2>7, <2>8
<1> QED
  BY <1>1, MapInvariant, LayoutInvariant, SlotsMatchIds, PTL
=============================================================================
