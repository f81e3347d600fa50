---------------------------- MODULE CrushFirstn -----------------------------
(***************************************************************************)
(* crush_choose_firstn of CRUSH_Research/main.cpp, as test and do_work4    *)
(* call it: one thread chooses the replicas of one object, one after the   *)
(* other.  With recurse_to_leaf and a type other than 0 the function calls *)
(* itself to find a device below each bucket it has chosen: frame[l] holds *)
(* the locals of the call at level l.                                      *)
(***************************************************************************)
EXTENDS CrushMap

CONSTANTS
  Calls,                   \* argument lists of the outer call
  OutSize                  \* the length of the arrays out and out2

(* A call of the function gets these arguments. tries and recurse_tries    *)
(* come from choose_total_tries, the other tunables from the map; a shift  *)
(* by vary_r - 1 bits is one that an int allows.                           *)
Argument == [numrep : Nat, type : Nat, tries : Nat \ {0}, recurse_tries : Nat \ {0},
             local_retries : Nat, local_fallback_retries : Nat,
             recurse_to_leaf : BOOLEAN, vary_r : Nat, stable : BOOLEAN]

ASSUME CallAssumption ==
  /\ Calls \subseteq Argument
  /\ OutSize \in Nat
  /\ \A c \in Calls : c.type = 0 \/ c.recurse_to_leaf
  /\ \A c \in Calls : c.vary_r = 0 \/ 2 ^ (c.vary_r - 1) \in Nat \ {0}

VARIABLES
  call,                    \* the arguments of the outer call
  rejected,                \* the devices that is_out turns down for this object
  drawn,                   \* the draws made so far
  frame,                   \* frame[l]: the locals at level l
  level,                   \* the level that is running
  pc,                      \* "rep" at the head of the loop over replicas,
                           \* "draw" before a draw, "done" after the return
  out, out2                \* the output arrays: items, and devices below them

vars == <<call, rejected, drawn, frame, level, pc, out, out2>>

Level == {"top", "leaf"}

-----------------------------------------------------------------------------
(* The locals at the call of the function: the loop over rep is about to   *)
(* start.                                                                  *)
Frame(numrep, type, tries, leaf, parent_r, bucket, outpos, count, stable) ==
  [numrep |-> numrep, type |-> type, tries |-> tries, recurse_to_leaf |-> leaf,
   parent_r |-> parent_r, bucket |-> bucket, outpos |-> outpos, count |-> count,
   rep |-> IF stable THEN 0 ELSE outpos,
   ftotal |-> 0, flocal |-> 0, in |-> bucket, item |-> 0]

TopFrame(c) ==
  Frame(c.numrep, c.type, c.tries, c.recurse_to_leaf, 0, 0, 0, OutSize, c.stable)

(* sub_r = vary_r ? r >> (vary_r - 1) : 0 *)
SubR(r) == IF call.vary_r = 0 THEN 0 ELSE r \div 2 ^ (call.vary_r - 1)

(* Bug: the inner call starts from the bucket of the outer one. *)
BugLeafFromTop(f, item, r) ==
  Frame(IF call.stable THEN 1 ELSE f.outpos + 1, 0, call.recurse_tries, FALSE,
        SubR(r), f.bucket, f.outpos, f.count, call.stable)

LeafFrame(f, item, r) ==
  Frame(IF call.stable THEN 1 ELSE f.outpos + 1, 0, call.recurse_tries, FALSE,
        SubR(r), BucketOf(item), f.outpos, f.count, call.stable)

Init ==
  /\ call \in Calls
  /\ rejected \in SUBSET Device
  /\ drawn = {}
  /\ frame = [l \in Level |-> TopFrame(call)]
  /\ level = "top"
  /\ pc = "rep"
  /\ out = [i \in 0 .. OutSize - 1 |-> 0]
  /\ out2 = [i \in 0 .. OutSize - 1 |-> 0]

-----------------------------------------------------------------------------
F == frame[level]
R == F.rep + F.parent_r + F.ftotal

(* The array that the running call takes for out. *)
Output == IF level = "top" THEN out ELSE out2

(* Bugs: one item too many, one too few is compared. *)
BugComparesOneMore(item) == \E i \in 0 .. F.outpos : Output[i] = item
BugComparesOneLess(item) == \E i \in 1 .. F.outpos - 1 : Output[i] = item

Collides(item) == \E i \in 0 .. F.outpos - 1 : Output[i] = item

(* The next replica: the descent starts at the bucket of the call.         *)
NextReplica ==
  /\ pc = "rep"
  /\ F.rep < F.numrep
  /\ F.count > 0
  /\ frame' = [frame EXCEPT ![level].ftotal = 0, ![level].flocal = 0,
                            ![level].in = F.bucket]
  /\ pc' = "draw"
  /\ UNCHANGED <<call, rejected, drawn, level, out, out2>>

(* What a failed attempt at level l leads to.  TryBucket: draw again from  *)
(* the same bucket, TryDescent: start again from the top, GiveUp: go on to *)
(* the next replica with this one missing.                                 *)
RetriesBucket(l, collide) ==
  \/ collide /\ frame[l].flocal + 1 <= call.local_retries
  \/ /\ call.local_fallback_retries > 0
     /\ frame[l].flocal + 1 <= Len(Items[frame[l].in]) + call.local_fallback_retries

TryBucket(l, collide) ==
  /\ RetriesBucket(l, collide)
  /\ frame' = [frame EXCEPT ![l].ftotal = @ + 1, ![l].flocal = @ + 1]
  /\ pc' = "draw"

(* Bug: ftotal is not counted up, the same item is drawn again. *)
BugSameDraw(l, collide) ==
  /\ ~RetriesBucket(l, collide)
  /\ frame[l].ftotal + 1 < frame[l].tries
  /\ frame' = [frame EXCEPT ![l].flocal = 0, ![l].in = frame[l].bucket]
  /\ pc' = "draw"

TryDescent(l, collide) ==
  /\ ~RetriesBucket(l, collide)
  /\ frame[l].ftotal + 1 < frame[l].tries
  /\ frame' = [frame EXCEPT ![l].ftotal = @ + 1, ![l].flocal = 0,
                            ![l].in = frame[l].bucket]
  /\ pc' = "draw"

Skip(l) ==
  /\ frame' = [frame EXCEPT ![l].rep = @ + 1]
  /\ pc' = "rep"

GiveUp(l, collide) ==
  /\ ~RetriesBucket(l, collide)
  /\ frame[l].ftotal + 1 >= frame[l].tries
  /\ Skip(l)

Reject(l, collide) == TryBucket(l, collide) \/ TryDescent(l, collide) \/ GiveUp(l, collide)

(* out[outpos] = item; outpos++; count--; and the loop goes on. *)
Accept(l, item) ==
  /\ frame' = [frame EXCEPT ![l].outpos = @ + 1, ![l].count = @ - 1, ![l].rep = @ + 1]
  /\ pc' = "rep"
  /\ IF l = "top" THEN out' = [out EXCEPT ![frame[l].outpos] = item]
                  ELSE UNCHANGED out

-----------------------------------------------------------------------------
(* An attempt, by what is drawn.                                           *)

EmptyBucket ==
  /\ pc = "draw"
  /\ Items[F.in] = <<>>
  /\ Reject(level, FALSE)
  /\ UNCHANGED <<call, rejected, drawn, level, out, out2>>

Draw(item) ==
  /\ pc = "draw"
  /\ CanDraw(drawn, F.in, R, item)
  /\ drawn' = drawn \union {<<F.in, R, item>>}
  /\ UNCHANGED <<call, rejected>>

(* A device that the map does not have, or one where a bucket is wanted.   *)
DrawsUseless(item) ==
  /\ Draw(item)
  /\ item >= MaxDevices \/ (item >= 0 /\ F.type # 0)
  /\ Skip(level)
  /\ UNCHANGED <<level, out, out2>>

DrawsBucketOnTheWay(item) ==
  /\ Draw(item)
  /\ item < 0 /\ TypeOf(item) # F.type
  /\ frame' = [frame EXCEPT ![level].in = BucketOf(item)]
  /\ UNCHANGED <<level, pc, out, out2>>

Wanted(item) == item < MaxDevices /\ TypeOf(item) = F.type

DrawsTaken(item) ==
  /\ Draw(item)
  /\ Wanted(item)
  /\ Collides(item)
  /\ Reject(level, TRUE)
  /\ UNCHANGED <<level, out, out2>>

(* A new bucket of the wanted type: find a device below it.                *)
DrawsBucket(item) ==
  /\ Draw(item)
  /\ Wanted(item) /\ item < 0
  /\ ~Collides(item)
  /\ frame' = [frame EXCEPT !["top"].item = item, !["leaf"] = LeafFrame(F, item, R)]
  /\ level' = "leaf"
  /\ pc' = "rep"
  /\ UNCHANGED <<out, out2>>

(* Bug: is_out is not asked. *)
BugNotAsked(item) ==
  /\ Draw(item)
  /\ Wanted(item) /\ item >= 0
  /\ ~Collides(item)
  /\ Accept(level, item)
  /\ out2' = [out2 EXCEPT ![F.outpos] = item]
  /\ UNCHANGED level

(* A new device is written to out2 before is_out is asked, and the leaf's  *)
(* out is the outer call's out2.                                           *)
DrawsDevice(item) ==
  /\ Draw(item)
  /\ Wanted(item) /\ item >= 0
  /\ ~Collides(item)
  /\ IF IsOut(rejected, item) THEN Reject(level, FALSE) /\ UNCHANGED out
     ELSE Accept(level, item)
  /\ IF F.recurse_to_leaf \/ (level = "leaf" /\ ~IsOut(rejected, item))
     THEN out2' = [out2 EXCEPT ![F.outpos] = item]
     ELSE UNCHANGED out2
  /\ UNCHANGED level

-----------------------------------------------------------------------------
AtEnd == pc = "rep" /\ ~(F.rep < F.numrep /\ F.count > 0)

(* The inner call returns more than outpos: the bucket and the device      *)
(* below it are chosen.                                                    *)
LeafFound ==
  /\ AtEnd /\ level = "leaf"
  /\ frame["leaf"].outpos > frame["top"].outpos
  /\ level' = "top"
  /\ Accept("top", frame["top"].item)
  /\ UNCHANGED <<call, rejected, drawn, out2>>

LeafMissing ==
  /\ AtEnd /\ level = "leaf"
  /\ frame["leaf"].outpos <= frame["top"].outpos
  /\ level' = "top"
  /\ Reject("top", FALSE)
  /\ UNCHANGED <<call, rejected, drawn, out, out2>>

Return ==
  /\ AtEnd /\ level = "top"
  /\ pc' = "done"
  /\ UNCHANGED <<call, rejected, drawn, frame, level, out, out2>>

AnItem == UNION {Drawable(b) : b \in Bucket}

Next ==
  \/ NextReplica \/ EmptyBucket \/ LeafFound \/ LeafMissing \/ Return
  \/ \E item \in AnItem :
       \/ DrawsUseless(item) \/ DrawsBucketOnTheWay(item) \/ DrawsTaken(item)
       \/ DrawsBucket(item) \/ DrawsDevice(item)

Spec == Init /\ [][Next]_vars

(* Nothing can keep the one thread from going on. *)
FairSpec == Spec /\ WF_vars(Next)

-----------------------------------------------------------------------------
(* Properties                                                              *)

Array == [0 .. OutSize - 1 -> Int]

FrameType ==
  [numrep : Nat, type : Nat, tries : Nat \ {0}, recurse_to_leaf : BOOLEAN,
   parent_r : Nat, bucket : Bucket, outpos : 0 .. OutSize, count : 0 .. OutSize,
   rep : Nat, ftotal : Nat, flocal : Nat, in : Bucket, item : Int]

TypeOK ==
  /\ call \in Calls
  /\ rejected \in SUBSET Device
  /\ drawn \subseteq Bucket \X Nat \X Int
  /\ level \in Level
  /\ pc \in {"rep", "draw", "done"}
  /\ out \in Array /\ out2 \in Array
  /\ frame \in [Level -> FrameType]

outpos == frame["top"].outpos

(* The items chosen so far are of the wanted type and pairwise different,  *)
(* however often a draw hits one of them: no two replicas share a failure  *)
(* domain.                                                                 *)
DomainsDiffer ==
  \A i, j \in 0 .. outpos - 1 :
    /\ TypeOf(out[i]) = call.type
    /\ i # j => out[i] # out[j]

(* The device of a replica lies below the item chosen for it.  Below is    *)
(* read off the map: the items of a bucket, and what lies below them.      *)
Below[b \in Bucket] ==
  UNION {IF Items[b][i] < 0 THEN Below[BucketOf(Items[b][i])] ELSE {Items[b][i]} :
           i \in 1 .. Len(Items[b])}

DevicesInDomains ==
  call.recurse_to_leaf =>
    \A i \in 0 .. outpos - 1 :
      IF call.type = 0 THEN out2[i] = out[i] ELSE out2[i] \in Below[BucketOf(out[i])]

(* The devices chosen so far, a prefix of the placement: test and do_work4 *)
(* pass one array for both outputs, and want devices.                      *)
Devices == [i \in 0 .. outpos - 1 |-> IF call.type = 0 THEN out[i] ELSE out2[i]]

(* The function computes a placement: a list of different devices that are *)
(* not rejected, extended at its end only.                                 *)
Abstract == INSTANCE Placement WITH
  NumRep <- OutSize,
  usable <- {d \in Device : ~IsOut(rejected, d)},
  count <- outpos,
  chosen <- Devices,
  done <- pc = "done"

IsPlacement == Abstract!Spec

(* A device that was drawn and can be used is not left out, although the   *)
(* arrays are longer than the list and hold other values behind its end.   *)
NothingOverlooked ==
  call.type = 0 =>
    \A d \in drawn :
      d[3] \in Device /\ ~IsOut(rejected, d[3])
        => \E i \in 0 .. outpos - 1 : out[i] = d[3]

(* A descent ends at a device, the attempts are limited, and so the        *)
(* function returns.                                                       *)
Returns == <>(pc = "done")
=============================================================================
