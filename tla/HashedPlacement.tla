-------------------------- MODULE HashedPlacement ---------------------------
(***************************************************************************)
(* The run of test in CRUSH_Research/main.cpp: object_num objects, one     *)
(* after the other, are placed by crush_choose_firstn on the program's     *)
(* map.  What CrushFirstn leaves open is decided here by the code: the     *)
(* draws by hash, logarithm and weight, the rejected devices by is_out.    *)
(***************************************************************************)
EXTENDS CrushFirstn, StrawDraw, CrushHash, FiniteSets

CONSTANTS
  FirstObject,             \* the x of the first object
  object_num,
  Reweight                 \* reweight[0 .. WeightMax - 1], 0x10000 for 1.0

ASSUME RunAssumption ==
  /\ FirstObject \in Nat /\ object_num \in Nat \ {0}
  /\ Reweight \in [0 .. WeightMax - 1 -> Nat]

VARIABLE
  placements               \* what the objects placed so far have got

hvars == <<call, rejected, drawn, frame, level, pc, out, out2, placements>>

object == FirstObject + Len(placements)

(* Bug: only devices are drawn anew in each attempt. *)
BugHash(obj, id, r) ==
  crush_hash32(CRUSH_HASH_RJENKINS1,
               <<Word(obj), Word(id), Word(IF id < 0 THEN 0 ELSE r)>>)[2]

(* The lower half of the hash of an object, an item and the attempt. *)
Hash(obj, id, r) == crush_hash32(CRUSH_HASH_RJENKINS1, <<Word(obj), Word(id), Word(r)>>)[2]

(* Bug: what is hashed is the place of the item in its bucket. *)
BugDraws(obj, b, r) ==
  <<>> \o [i \in DOMAIN Items[b] |->
             Straw(Hash(obj, i, r), Plus(Zero, <<0, ItemWeights[b][i]>>))]

(* <<>> \o makes TLC evaluate every draw once. *)
Draws(obj, b, r) ==
  <<>> \o [i \in DOMAIN Items[b] |->
             Straw(Hash(obj, Items[b][i], r), Plus(Zero, <<0, ItemWeights[b][i]>>))]

bucket_straw2_choose(obj, b, r) == Items[b][Highest(Draws(obj, b, r))]

is_out(obj, d) ==
  /\ Reweight[d] < 65536
  /\ crush_hash32(CRUSH_HASH_RJENKINS1, <<Word(obj), Word(d)>>)[2] >= Reweight[d]

Rejected(obj) == {d \in Device : d < WeightMax /\ is_out(obj, d)}

HInit ==
  /\ placements = <<>>
  /\ call \in Calls
  /\ rejected = Rejected(FirstObject)
  /\ drawn = {}
  /\ frame = [l \in Level |-> TopFrame(call)]
  /\ level = "top" /\ pc = "rep"
  /\ out = [i \in 0 .. OutSize - 1 |-> 0]
  /\ out2 = out

Attempt ==
  /\ pc = "draw" /\ Items[F.in] # <<>>
  /\ \E item \in {bucket_straw2_choose(object, F.in, R)} :
       \/ DrawsUseless(item) \/ DrawsBucketOnTheWay(item) \/ DrawsTaken(item)
       \/ DrawsBucket(item) \/ DrawsDevice(item)
  /\ UNCHANGED placements

Proceed ==
  /\ NextReplica \/ EmptyBucket \/ LeafFound \/ LeafMissing \/ Return
  /\ UNCHANGED placements

(* The loop of test goes on: a new array, the next x. *)
NextObject ==
  /\ pc = "done" /\ Len(placements) < object_num
  /\ placements' = Append(placements, Devices)
  /\ rejected' = IF Len(placements) + 1 < object_num THEN Rejected(object + 1) ELSE {}
  /\ drawn' = {}
  /\ frame' = [l \in Level |-> TopFrame(call)]
  /\ pc' = IF Len(placements) + 1 < object_num THEN "rep" ELSE "done"
  /\ out' = [i \in 0 .. OutSize - 1 |-> 0]
  /\ out2' = out'
  /\ UNCHANGED <<call, level>>

HNext == Attempt \/ Proceed \/ NextObject

HSpec == HInit /\ [][HNext]_hvars

-----------------------------------------------------------------------------
Finished == Len(placements) = object_num

BucketWeight == [b \in Bucket |-> FoldLeft(+, 0, ItemWeights[b])]

(* How many replicas are below a bucket. *)
Load(b) ==
  LET below == Below[b]
  IN  Cardinality({c \in (DOMAIN placements) \X (0 .. OutSize - 1) :
                     c[2] \in DOMAIN placements[c[1]] /\ placements[c[1]][c[2]] \in below})

(* n is within four standard deviations of what is expected of independent *)
(* draws.                                                                  *)
AsExpected(n, expected) == (n - expected) * (n - expected) <= 16 * expected

(* When the run is over every rack and every host holds its share of the   *)
(* replicas, in proportion to its weight: neither the hash nor the         *)
(* logarithm, nor the comparison of straws, prefers an item, although the  *)
(* object and the attempt are hashed alike at all levels                   *)
(* (generate_exponential_distribution).                                    *)
FairShares ==
  Finished =>
    \A b \in Bucket \ {0} :
      AsExpected(Load(b), (object_num * OutSize * BucketWeight[b]) \div BucketWeight[0])

(* Where a replica of an object is says nothing about where the others     *)
(* are: they share a rack as often as two independent draws from the root  *)
(* do (crush_hash32_3: r differs from one replica to the next in one bit). *)
IndependentReplicas ==
  Finished =>
    LET share == [i \in DOMAIN Items[0] |-> (object_num * ItemWeights[0][i]) \div BucketWeight[0]]
        expected == FoldLeft(+, 0, [i \in DOMAIN Items[0] |->
                                     (share[i] * ItemWeights[0][i]) \div BucketWeight[0]])
        below == [i \in DOMAIN Items[0] |-> Below[BucketOf(Items[0][i])]]
    IN  \A k, l \in 0 .. OutSize - 1 :
          k < l =>
            AsExpected(Cardinality({o \in DOMAIN placements :
                                      /\ {k, l} \subseteq DOMAIN placements[o]
                                      /\ \E i \in DOMAIN below :
                                           {placements[o][k], placements[o][l]} \subseteq below[i]}),
                       expected)
=============================================================================
