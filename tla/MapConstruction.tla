-------------------------- MODULE MapConstruction ---------------------------
(***************************************************************************)
(* The cluster map that init2 of CRUSH_Research/main.cpp builds: a root of *)
(* racks of hosts of devices, by three functions that call each other and  *)
(* take the identifiers of buckets and devices from two global counters.   *)
(*                                                                         *)
(* building is the stack of the buckets under construction, the root's     *)
(* first; item_id holds the slots that their callers have set aside for    *)
(* them.  A host or rack is stored in its slot when its call returns; the  *)
(* root is in slot 0 from the start, and nobody reads it before the end.   *)
(***************************************************************************)
EXTENDS Integers, Sequences, SequencesExt, FiniteSets

CONSTANTS
  Sizes,                   \* the number of items in the root, a rack, a host
  OsdSum,                  \* osd_sum: the length of the weight tables
  MaxSlots                 \* the length of the array of buckets

ASSUME SizesAssumption ==
  /\ Sizes \in [1 .. 3 -> Nat \ {0}]
  /\ OsdSum \in Nat /\ Sizes[1] * Sizes[2] * Sizes[3] <= OsdSum
  /\ MaxSlots \in Nat /\ 1 + Sizes[1] + Sizes[1] * Sizes[2] <= MaxSlots

VARIABLES
  buckets,                 \* buckets[0 .. MaxSlots - 1]
  building,                \* the buckets under construction, the root's first
  item_id,                 \* the local item_id of the root's and the rack's call
  nextOsd,                 \* global_osd_id
  nextBucket,              \* global_bucket_id
  map                      \* what init2 stores in the map; Null before

mapVars == <<buckets, building, item_id, nextOsd, nextBucket, map>>

Null == [id |-> 0]
Slot == 0 .. MaxSlots - 1

(* construct_root, construct_rack and construct_host by the depth of the   *)
(* call; the types of their buckets; the weight of every device.           *)
Types == <<10, 3, 1>>
Weight == 176

(* A bucket as its function starts it.  All its fields but the items and   *)
(* their weights are set at once.                                          *)
NewBucket(id, depth) ==
  [id |-> id, type |-> Types[depth], size |-> Sizes[depth],
   items |-> <<>>, item_weights |-> <<>>, weight |-> 0]

MapInit ==
  /\ buckets = [s \in Slot |-> Null]
  /\ building = <<NewBucket(-1, 1)>>
  /\ item_id = <<>>
  /\ nextOsd = 0
  /\ nextBucket = 1
  /\ map = Null

Depth == Len(building)
Current == building[Depth]

Filled == Len(Current.items) = Current.size

(* A loop's body: the item and its weight are appended to a bucket, whose  *)
(* weight grows by as much.                                                *)
WithItem(b, item, weight) ==
  [b EXCEPT !.items = Append(@, item),
            !.item_weights = Append(@, weight),
            !.weight = @ + weight]

(* Bug: a host numbers its devices from 0. *)
BugLocalDevices ==
  /\ Depth = 3 /\ ~Filled
  /\ building' = [building EXCEPT ![3] = WithItem(@, Len(@.items), Weight)]
  /\ nextOsd' = nextOsd + 1
  /\ UNCHANGED <<buckets, item_id, nextBucket, map>>

(* construct_host: the next device. *)
AddDevice ==
  /\ Depth = 3 /\ ~Filled
  /\ building' = [building EXCEPT ![3] = WithItem(@, nextOsd, Weight)]
  /\ nextOsd' = nextOsd + 1
  /\ UNCHANGED <<buckets, item_id, nextBucket, map>>

(* construct_rack, construct_root: take the next slot, call for the bucket *)
(* to be put there.                                                        *)
CallConstruct ==
  /\ Depth \in 1 .. 2 /\ ~Filled
  /\ building' = Append(building, NewBucket(-nextBucket - 1, Depth + 1))
  /\ item_id' = Append(item_id, nextBucket)
  /\ nextBucket' = nextBucket + 1
  /\ UNCHANGED <<buckets, nextOsd, map>>

(* Bug: the caller reads the global counter again, which the calls below   *)
(* have moved on, instead of its local.                                    *)
BugCounterReread ==
  /\ Depth \in 2 .. 3 /\ Filled
  /\ buckets' = [buckets EXCEPT ![nextBucket - 1] = Current]
  /\ building' = Append(SubSeq(building, 1, Depth - 2),
                        WithItem(building[Depth - 1], -nextBucket, Current.weight))
  /\ item_id' = Front(item_id)
  /\ UNCHANGED <<nextOsd, nextBucket, map>>

(* The call returns, the caller stores the bucket and adds it as an item.  *)
ConstructReturns ==
  /\ Depth \in 2 .. 3 /\ Filled
  /\ buckets' = [buckets EXCEPT ![Last(item_id)] = Current]
  /\ building' = Append(SubSeq(building, 1, Depth - 2),
                        WithItem(building[Depth - 1], -Last(item_id) - 1, Current.weight))
  /\ item_id' = Front(item_id)
  /\ UNCHANGED <<nextOsd, nextBucket, map>>

(* The end of construct_root and of init2. *)
Finish ==
  /\ Depth = 1 /\ Filled
  /\ buckets' = [buckets EXCEPT ![0] = Current]
  /\ building' = <<>>
  /\ map' = [max_buckets |-> nextBucket, max_devices |-> nextOsd]
  /\ UNCHANGED <<item_id, nextOsd, nextBucket>>

MapNext == AddDevice \/ CallConstruct \/ ConstructReturns \/ Finish

MapSpec == MapInit /\ [][MapNext]_mapVars

-----------------------------------------------------------------------------
Done == map # Null

(* The slots that have been filled. *)
Stored == {s \in Slot : buckets[s] # Null}
ItemsAt(s) == ToSet(buckets[s].items)

MapTypeOK ==
  /\ \A s \in Stored : buckets[s].size = Len(buckets[s].items)
  /\ Depth <= 3 /\ (~Done => Len(item_id) = Depth - 1)
  /\ nextOsd \in 0 .. OsdSum
  /\ nextBucket \in 1 .. MaxSlots

(* The map that the recursion arrives at, slot by slot. *)
Expected ==
  INSTANCE ProgramMap WITH
    Racks <- Sizes[1], Hosts <- Sizes[2], Devices <- Sizes[3], DeviceWeight <- Weight

(* The three functions, with the two counters that they share, fill the    *)
(* slots and number the devices without gaps and in the order of the tree  *)
(* (construct_root, construct_rack, construct_host): device d is in rack   *)
(* d / 150; the weight of an item is that of the devices below it.         *)
BuildsProgramMap ==
  Done =>
    /\ Stored = Expected!Slots /\ map.max_buckets = Cardinality(Stored)
    /\ \A s \in Stored :
         /\ buckets[s].items = Expected!ProgramItems[s]
         /\ buckets[s].item_weights = Expected!ProgramWeights[s]
         /\ buckets[s].type = Expected!ProgramTypes[s]

(* Each bucket is where its id says, and a reference leads to a bucket     *)
(* that is stored, further from the root, in every state of the recursion: *)
(* the slot is chosen before the nested calls and used after them          *)
(* (construct_rack, construct_root).  It is what the placement relies on,  *)
(* which dereferences buckets[-1-item] before it tests the index.          *)
IdsMatchSlots ==
  \A s \in Stored :
    /\ buckets[s].id = -1 - s
    /\ \A item \in ItemsAt(s) : item < 0 => -1 - item \in Stored /\ s < -1 - item

(* Hosts share no device and racks no host: with a replica of each on its  *)
(* own host, a failed host costs an object one replica (construct_host's   *)
(* global counter).                                                        *)
FailureDomainsDisjoint ==
  \A s \in Stored :
    LET mine == ItemsAt(s)
    IN  \A t \in Stored : s < t => mine \intersect ItemsAt(t) = {}
=============================================================================
