------------------------------ MODULE CrushMap ------------------------------
(***************************************************************************)
(* The cluster map that the placement functions of CRUSH_Research/main.cpp *)
(* read, and the drawing of an item from a bucket.                         *)
(*                                                                         *)
(* An item is an integer, as in the code: a device if it is not negative,  *)
(* the bucket buckets[-1-item] if it is.  What straw2 draws from a bucket  *)
(* for one object is a function of the bucket and of r; which function is  *)
(* the hash's affair.  Here any item that straw2 can draw may be drawn,    *)
(* and a second draw from the same bucket with the same r gives the same   *)
(* item.                                                                   *)
(***************************************************************************)
EXTENDS Integers, Sequences

CONSTANTS
  MaxBuckets,              \* max_buckets
  Items,                   \* Items[b]: buckets[b]->items
  ItemWeights,             \* ItemWeights[b]: the weights beside them
  BucketType,              \* BucketType[b]: buckets[b]->type
  MaxDevices,              \* max_devices
  WeightMax                \* weight_max: the length of the reweight table

Bucket == 0 .. MaxBuckets - 1
BucketOf(item) == -1 - item
Device == 0 .. MaxDevices - 1

(* Every reference leads to a bucket of the map, further from the root:    *)
(* the functions dereference buckets[-1-item] before they test its range,  *)
(* and descend until they meet the type they look for.                     *)
WellFormed ==
  /\ MaxBuckets \in Nat \ {0}
  /\ MaxDevices \in Nat
  /\ WeightMax \in Nat
  /\ Items \in [Bucket -> Seq(Int)]
  /\ ItemWeights \in [Bucket -> Seq(Nat)]
  /\ BucketType \in [Bucket -> Nat \ {0}]
  /\ \A b \in Bucket :
       /\ Len(ItemWeights[b]) = Len(Items[b])
       /\ \A i \in 1 .. Len(Items[b]) :
            Items[b][i] < 0 => BucketOf(Items[b][i]) \in b + 1 .. MaxBuckets - 1

ASSUME MapAssumption == WellFormed

TypeOf(item) == IF item < 0 THEN BucketType[BucketOf(item)] ELSE 0

(* bucket_straw2_choose: an item of weight 0 draws the shortest straw, and *)
(* wins only where all do; then the first item keeps the lead.             *)
Drawable(b) ==
  LET position == 1 .. Len(Items[b])
      weighed == {i \in position : ItemWeights[b][i] # 0}
  IN  IF weighed # {}
      THEN {Items[b][i] : i \in weighed}
      ELSE {Items[b][i] : i \in position \intersect {1}}

(* draws: the draws made so far for one object, as <<b, r, item>>.         *)
CanDraw(draws, b, r, item) ==
  /\ item \in Drawable(b)
  /\ \A d \in draws : d[1] = b /\ d[2] = r => d[3] = item

(* is_out: what reweight says of a device, for one object, is a set of     *)
(* rejected devices; a device beyond the table is out.                     *)
IsOut(out, item) == item >= WeightMax \/ item \in out
=============================================================================
