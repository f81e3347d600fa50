------------------------------- MODULE Straw2 -------------------------------
(***************************************************************************)
(* A straw2 bucket while its items and weights change: which of its items  *)
(* one object gets (bucket_straw2_choose), in every position for which a   *)
(* choose_arg may hold weights of its own.  A choose_arg has no ids of its *)
(* own: get_choose_arg_ids returns the items.                              *)
(*                                                                         *)
(* The hash of an object, an id and r is an arbitrary but fixed function   *)
(* of the id.                                                              *)
(***************************************************************************)
EXTENDS StrawDraw, TLC

CONSTANTS
  Ids,                     \* the items a bucket may have
  Hashes,                  \* the hashes, of 16 bits
  Weights,                 \* the weights, of 32 bits
  MaxItems                 \* the bound on the size of a bucket, for each value of
                           \* weight_set_positions; 0 if there is no choose_arg

ASSUME HashesAssumption == Hashes \subseteq 0 .. 65535
ASSUME WeightsAssumption == Weights \subseteq (0 .. 255) \X (0 .. Low - 1)
ASSUME MaxItemsAssumption == DOMAIN MaxItems \subseteq Nat

VARIABLES
  hashOf,                  \* the lower half of the object's hash with each id
  bucket,                  \* h.items, item_weights; weight_set of its choose_arg,
                           \* <<>> if there is none
  placed                   \* the item that the object gets, by position

vars == <<hashOf, bucket, placed>>

get_choose_arg_weights(b, position) ==
  IF b.weight_set = <<>> THEN b.item_weights
  ELSE b.weight_set[IF position >= Len(b.weight_set) THEN Len(b.weight_set) ELSE position + 1]

(* Every draw that is possible: TLC tabulates the function. *)
StrawOf == [u \in Hashes |-> [w \in Weights |-> Straw(u, w)]]

(* Bug: the hash is that of the item's place in the bucket, not of its id. *)
BugDraws(b, position) ==
  [i \in DOMAIN b.items |->
     StrawOf[hashOf[SetToSeq(Ids)[i]]][get_choose_arg_weights(b, position)[i]]]

Draws(b, position) ==
  [i \in DOMAIN b.items |-> StrawOf[hashOf[b.items[i]]][get_choose_arg_weights(b, position)[i]]]

bucket_straw2_choose(b, position) == b.items[Highest(Draws(b, position))]

Positions(b) == 0 .. Len(b.weight_set) + 1
Placed(b) == [position \in Positions(b) |-> bucket_straw2_choose(b, position)]

Init ==
  /\ hashOf \in [Ids -> Hashes]
  /\ \E id \in Ids, w \in Weights, positions \in DOMAIN MaxItems :
       bucket = [items |-> <<id>>, item_weights |-> <<w>>,
                 weight_set |-> [p \in 1 .. positions |-> <<w>>]]
  /\ placed = Placed(bucket)

(* New epochs of the map: one weight changes, of the bucket or of one      *)
(* position, or an item comes or goes.                                     *)
ItemReweighed(i, w) == bucket' = [bucket EXCEPT !.item_weights[i] = w]
PositionReweighed(p, i, w) == bucket' = [bucket EXCEPT !.weight_set[p][i] = w]
ItemAdded(id, w) ==
  /\ Len(bucket.items) < MaxItems[Len(bucket.weight_set)]
  /\ bucket' = [items |-> Append(bucket.items, id),
                item_weights |-> Append(bucket.item_weights, w),
                weight_set |-> [p \in DOMAIN bucket.weight_set |->
                                  Append(bucket.weight_set[p], w)]]
ItemRemoved(i) ==
  /\ Len(bucket.items) > 1
  /\ bucket' = [items |-> RemoveAt(bucket.items, i),
                item_weights |-> RemoveAt(bucket.item_weights, i),
                weight_set |-> [p \in DOMAIN bucket.weight_set |->
                                  RemoveAt(bucket.weight_set[p], i)]]

Next ==
  /\ \/ \E i \in DOMAIN bucket.items, w \in Weights :
          \/ ItemReweighed(i, w)
          \/ \E p \in DOMAIN bucket.weight_set : PositionReweighed(p, i, w)
     \/ \E id \in Ids \ ToSet(bucket.items), w \in Weights : ItemAdded(id, w)
     \/ \E i \in DOMAIN bucket.items : ItemRemoved(i)
  /\ placed' = Placed(bucket')
  /\ UNCHANGED hashOf

Spec == Init /\ [][Next]_vars

-----------------------------------------------------------------------------
(* The weight of an id in a position as crush.h:258-262 defines it, with   *)
(* what is not in the bucket lighter than all that is.                     *)
WeightOf(b, id, position) ==
  IF id \notin ToSet(b.items) THEN <<-1, 0>>
  ELSE LET i == CHOOSE j \in DOMAIN b.items : b.items[j] = id
           p == IF position < Len(b.weight_set) THEN position + 1 ELSE Len(b.weight_set)
       IN  IF p = 0 THEN b.item_weights[i] ELSE b.weight_set[p][i]

Heavier(b, c, id, position) == ~AtMost(WeightOf(b, id, position), WeightOf(c, id, position))

(* The least movement (crush.h:121 and :187: additions and removals are    *)
(* optimal): when a bucket changes, an object moves only to an item that   *)
(* has become heavier or away from one that has become lighter, position   *)
(* by position (bucket_straw2_choose: straws are independent of one        *)
(* another and of the order of the items).                                 *)
MovesOnlyWithWeight ==
  [][\A n \in Positions(bucket) :
       placed'[n] # placed[n] => \/ Heavier(bucket', bucket, placed'[n], n)
                                \/ Heavier(bucket, bucket', placed[n], n)]_vars

(* The bucket at one position as CrushMap sees it. *)
Seen(position) ==
  INSTANCE CrushMap WITH
    MaxBuckets <- 1, MaxDevices <- 0, WeightMax <- 0,
    Items <- [b \in {0} |-> bucket.items],
    ItemWeights <- [b \in {0} |-> [i \in DOMAIN bucket.items |->
                      IF get_choose_arg_weights(bucket, position)[i] = Zero THEN 0 ELSE 1]],
    BucketType <- [b \in {0} |-> 1]

(* The longest straw wins, and weight makes a straw longer (crush.h:180 to *)
(* 184): nothing wins against an item before it that is as heavy and whose *)
(* unscaled straw is as long.  An item of weight 0 is never drawn beside   *)
(* one with a weight, however short the latter's straw, which is what the  *)
(* placement modules take for granted (S64_MIN against the division).      *)
LongestStrawWins ==
  \A n \in Positions(bucket) :
    LET high == CHOOSE i \in DOMAIN bucket.items : bucket.items[i] = placed[n]
    IN  /\ placed[n] \in Seen(n)!Drawable(0)
        /\ \A i \in 1 .. high - 1 :
             ~(/\ AtMost(WeightOf(bucket, placed[n], n), WeightOf(bucket, bucket.items[i], n))
               /\ AtMost(crush_ln(hashOf[placed[n]]), crush_ln(hashOf[bucket.items[i]])))
=============================================================================
