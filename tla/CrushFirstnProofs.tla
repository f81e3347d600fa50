-------------------------- MODULE CrushFirstnProofs --------------------------
(***************************************************************************)
(* Theorems about CrushFirstn, for every map that WellFormed allows, all   *)
(* arguments of the call and any set of rejected devices.                  *)
(***************************************************************************)
EXTENDS CrushFirstn, Induction, TLAPS

-----------------------------------------------------------------------------
(* Items and frames                                                        *)

LEMMA Drawn ==
  ASSUME NEW b \in Bucket, NEW item \in Drawable(b)
  PROVE  item \in Int /\ (item < 0 => BucketOf(item) \in Bucket /\ TypeOf(item) # 0)
<1>1. /\ MaxBuckets \in Nat /\ Items[b] \in Seq(Int) /\ BucketType \in [Bucket -> Nat \ {0}]
      /\ \A i \in 1 .. Len(Items[b]) :
           Items[b][i] < 0 => BucketOf(Items[b][i]) \in b + 1 .. MaxBuckets - 1
  BY MapAssumption DEF WellFormed
<1>2. PICK i \in 1 .. Len(Items[b]) : item = Items[b][i]
  BY <1>1 DEF Drawable
<1>3. item \in Int
  BY <1>1, <1>2
<1>4. ASSUME item < 0 PROVE BucketOf(item) \in Bucket
  BY <1>1, <1>2, <1>3, <1>4 DEF Bucket
<1>5. item < 0 => TypeOf(item) # 0
  BY <1>1, <1>4 DEF TypeOf
<1> QED
  BY <1>3, <1>4, <1>5

LEMMA Arguments ==
  ASSUME NEW c \in Calls
  PROVE  /\ c \in Argument /\ OutSize \in Nat /\ (c.type = 0 \/ c.recurse_to_leaf)
         /\ 0 \in Bucket /\ 0 .. 0 \subseteq Nat
  BY CallAssumption, MapAssumption DEF WellFormed, Bucket

LEMMA Shifted ==
  ASSUME call \in Calls, NEW r \in Nat
  PROVE  SubR(r) \in Nat
<1>1. CASE call.vary_r = 0
  BY <1>1 DEF SubR
<1>2. CASE call.vary_r # 0
  <2> DEFINE m == 2 ^ (call.vary_r - 1)
  <2>1. m \in Nat \ {0}
    BY <1>2, CallAssumption
  <2> HIDE DEF m
  <2>2. r \div m \in Nat
    BY <2>1
  <2> QED
    BY <1>2, <2>2 DEF SubR, m
<1> QED
  BY <1>1, <1>2

LEMMA TopTyped ==
  ASSUME NEW c \in Calls
  PROVE  /\ TopFrame(c) \in FrameType
         /\ TopFrame(c).outpos = 0 /\ TopFrame(c).count = OutSize /\ TopFrame(c).type = c.type
  BY Arguments DEF TopFrame, Frame, FrameType, Argument

LEMMA LeafTyped ==
  ASSUME call \in Calls, NEW f \in FrameType, NEW item \in Int, NEW r \in Nat,
         BucketOf(item) \in Bucket
  PROVE  /\ LeafFrame(f, item, r) \in FrameType
         /\ LeafFrame(f, item, r).outpos = f.outpos /\ LeafFrame(f, item, r).count = f.count
         /\ LeafFrame(f, item, r).numrep - 1 <= LeafFrame(f, item, r).rep
<1>1. call \in Argument /\ SubR(r) \in Nat
  BY Arguments, Shifted
<1>2. f.outpos \in Nat
  BY CallAssumption DEF FrameType
<1> QED
  BY <1>1, <1>2 DEF LeafFrame, Frame, FrameType, Argument

-----------------------------------------------------------------------------
(* The inductive invariant                                                 *)

Usable(d) == d \in Device /\ ~IsOut(rejected, d)

(* The list so far: its items of the wanted type and pairwise different,   *)
(* its devices usable and pairwise different.                              *)
Listed ==
  \A i \in 0 .. outpos - 1 :
    /\ TypeOf(out[i]) = call.type
    /\ Usable(IF call.type = 0 THEN out[i] ELSE out2[i])
    /\ \A j \in 0 .. outpos - 1 :
         i # j => out[i] # out[j] /\ (call.type # 0 => out2[i] # out2[j])

(* The inner call looks for one device below a bucket that differs from    *)
(* those chosen, and has found none yet, or one that is not taken.         *)
InLeaf ==
  LET top == frame["top"]
      leaf == frame["leaf"]
  IN  /\ call.type # 0 /\ leaf.type = 0
      /\ top.count > 0 /\ top.rep < top.numrep
      /\ TypeOf(top.item) = call.type
      /\ \A i \in 0 .. top.outpos - 1 : out[i] # top.item
      /\ leaf.numrep - 1 <= leaf.rep
      /\ \/ leaf.outpos = top.outpos /\ leaf.count = top.count
         \/ /\ leaf.outpos = top.outpos + 1 /\ leaf.rep >= leaf.numrep
            /\ Usable(out2[top.outpos])
            /\ \A i \in 0 .. top.outpos - 1 : out2[i] # out2[top.outpos]

Control ==
  /\ frame["top"].type = call.type
  /\ frame["top"].outpos + frame["top"].count = OutSize
  /\ pc = "draw" => F.count > 0 /\ F.rep < F.numrep
  /\ pc = "done" => level = "top"
  /\ level = "leaf" => InLeaf

FirstnInv == TypeOK /\ Control /\ Listed /\ NothingOverlooked

LEMMA InitFirstn == Init => FirstnInv
<1> SUFFICES ASSUME Init PROVE FirstnInv
  OBVIOUS
<1>1. /\ call \in Calls /\ OutSize \in Nat
      /\ frame = [l \in Level |-> TopFrame(call)] /\ "top" \in Level
  BY CallAssumption DEF Init, Level
<1>2. /\ TopFrame(call) \in FrameType /\ TopFrame(call).outpos = 0
      /\ TopFrame(call).count = OutSize /\ TopFrame(call).type = call.type
  BY <1>1, TopTyped
<1>3. TypeOK
  BY <1>1, <1>2 DEF Init, TypeOK, Array, Level
<1>4. Control
  BY <1>1, <1>2 DEF Init, Control
<1>5. outpos = 0
  BY <1>1, <1>2 DEF outpos
<1> QED
  BY <1>3, <1>4, <1>5 DEF FirstnInv, Listed, NothingOverlooked, Init

-----------------------------------------------------------------------------
(* Failed attempts                                                         *)

(* Only the place in the search changes. *)
SameBut(l, new) ==
  /\ frame'[l].outpos = frame[l].outpos /\ frame'[l].count = frame[l].count
  /\ frame'[l].type = frame[l].type /\ frame'[l].numrep = frame[l].numrep
  /\ frame'[l].item = frame[l].item
  /\ frame[l].rep <= frame'[l].rep
  /\ new = "draw" => frame'[l].rep = frame[l].rep
  /\ \A k \in Level : k # l => frame'[k] = frame[k]

LEMMA Rejects ==
  ASSUME TypeOK, NEW l \in Level, NEW collide \in BOOLEAN, Reject(l, collide)
  PROVE  /\ frame' \in [Level -> FrameType] /\ pc' \in {"rep", "draw"}
         /\ SameBut(l, pc')
<1> DEFINE f == frame[l]
<1>1. frame \in [Level -> FrameType] /\ f \in FrameType
  BY DEF TypeOK
<1>2. CASE TryBucket(l, collide)
  BY <1>1, <1>2 DEF TryBucket, FrameType, SameBut
<1>3. CASE TryDescent(l, collide)
  <2>1. pc' = "draw" /\ f.bucket \in Bucket /\ f.ftotal + 1 \in Nat
    BY <1>1, <1>3 DEF TryDescent, FrameType
  <2>2. \A k \in Level : k # l => frame'[k] = frame[k]
    BY <1>1, <1>3 DEF TryDescent
  <2>3. /\ frame' \in [Level -> FrameType]
    <3> DEFINE a == [frame EXCEPT ![l].ftotal = @ + 1]
               b == [a EXCEPT ![l].flocal = 0]
    <3>1. a \in [Level -> FrameType]
      BY <1>1, <2>1 DEF FrameType
    <3>2. b \in [Level -> FrameType]
      BY <3>1 DEF FrameType
    <3>3. frame' = [b EXCEPT ![l].in = f.bucket]
      BY <1>1, <1>3 DEF TryDescent
    <3> HIDE DEF b
    <3> QED
      BY <2>1, <3>2, <3>3 DEF FrameType
  <2>4. SameBut(l, "draw")
    BY <1>1, <1>3, <2>2, <2>3 DEF TryDescent, FrameType, SameBut
  <2> QED
    BY <2>1, <2>3, <2>4
<1>4. CASE GiveUp(l, collide)
  BY <1>1, <1>4 DEF GiveUp, Skip, FrameType, SameBut
<1> QED
  BY <1>2, <1>3, <1>4 DEF Reject

LEMMA Skips ==
  ASSUME TypeOK, NEW l \in Level, Skip(l)
  PROVE  frame' \in [Level -> FrameType] /\ pc' = "rep" /\ SameBut(l, "rep")
  BY DEF TypeOK, Skip, FrameType, SameBut

(* The search goes on at another place, for the same replica or the next:  *)
(* the lists stay as they are, and nothing usable was drawn.               *)
LEMMA SearchOn ==
  ASSUME FirstnInv, NEW l \in Level, l = level \/ l = "top",
         level' = l, pc' \in {"rep", "draw"}, SameBut(l, pc'),
         frame' \in [Level -> FrameType], frame[l].count > 0, frame[l].rep < frame[l].numrep,
         drawn' \subseteq Bucket \X Nat \X Int,
         \A i \in 0 .. outpos - 1 : out2'[i] = out2[i],
         out2' \in Array, UNCHANGED <<call, rejected, out>>,
         call.type = 0 => \A d \in drawn' : d \in drawn \/ d[3] \notin Device
                             \/ IsOut(rejected, d[3]) \/ \E i \in 0 .. outpos - 1 : out[i] = d[3]
  PROVE  FirstnInv'
<1> USE DEF FirstnInv
<1>1. OutSize \in Nat /\ outpos \in 0 .. OutSize
  BY CallAssumption DEF TypeOK, FrameType, outpos, Level
<1>2. TypeOK'
  BY DEF TypeOK
<1>3. /\ frame'["top"].outpos = outpos /\ frame'["top"].count = frame["top"].count
      /\ frame'["top"].type = frame["top"].type /\ frame'["top"].item = frame["top"].item
      /\ frame'["top"].numrep = frame["top"].numrep
      /\ outpos' = outpos
  BY DEF SameBut, Level, outpos
<1>4. Listed'
  BY <1>1, <1>3 DEF Listed, Usable
<1>5. NothingOverlooked'
  BY <1>3 DEF NothingOverlooked
<1>6. Control'
  <2>1. CASE l = "top"
    BY <1>3, <2>1 DEF Control, F, SameBut
  <2>2. CASE l = "leaf"
    <3>1. level = "leaf" /\ frame'["top"] = frame["top"]
      BY <2>2 DEF SameBut, Level
    <3>2. /\ frame'["leaf"].outpos = frame["leaf"].outpos
          /\ frame'["leaf"].type = frame["leaf"].type
          /\ frame'["leaf"].count = frame["leaf"].count
          /\ frame'["leaf"].numrep = frame["leaf"].numrep
          /\ frame["leaf"].rep <= frame'["leaf"].rep
          /\ pc' = "draw" => frame'["leaf"].rep = frame["leaf"].rep
          /\ frame["leaf"] \in FrameType /\ frame'["leaf"] \in FrameType
      BY <2>2 DEF SameBut, TypeOK, Level
    <3>3. InLeaf
      BY <3>1 DEF Control
    <3>4. InLeaf'
      BY <1>1, <2>2, <3>1, <3>2, <3>3 DEF InLeaf, Usable, FrameType, outpos
    <3> QED
      BY <1>3, <2>2, <3>1, <3>2, <3>4 DEF Control, F
  <2> QED
    BY <2>1, <2>2 DEF Level
<1> QED
  BY <1>2, <1>4, <1>5, <1>6

-----------------------------------------------------------------------------
(* The steps                                                               *)

LEMMA Running ==
  ASSUME FirstnInv
  PROVE  /\ F \in FrameType /\ level \in Level /\ F.in \in Bucket /\ R \in Nat
         /\ F.outpos \in Nat /\ OutSize \in Nat /\ outpos \in 0 .. OutSize
         /\ frame["top"] \in FrameType /\ frame["leaf"] \in FrameType
         /\ level = "top" => F.type = call.type /\ F.outpos = outpos
         /\ call.type = 0 => level = "top" /\ F.type = 0 /\ Output = out
         /\ pc = "draw" => /\ F.count > 0 /\ F.rep < F.numrep
                           /\ F.outpos = outpos /\ outpos < OutSize
<1>1. /\ frame["top"] \in FrameType /\ frame["leaf"] \in FrameType /\ level \in Level
      /\ F \in FrameType /\ OutSize \in Nat
  BY CallAssumption DEF FirstnInv, TypeOK, F, Level
<1>2. F.in \in Bucket /\ R \in Nat /\ F.outpos \in Nat /\ outpos \in 0 .. OutSize
  BY <1>1 DEF FrameType, R, outpos
<1>3. level = "top" => F.type = call.type /\ F.outpos = outpos
  BY DEF FirstnInv, Control, F, outpos
<1>4. level = "leaf" => call.type # 0
  BY DEF FirstnInv, Control, InLeaf
<1>5. ASSUME pc = "draw"
      PROVE  F.count > 0 /\ F.rep < F.numrep /\ F.outpos = outpos /\ outpos < OutSize
  <2>1. F.count > 0 /\ F.rep < F.numrep
    BY <1>5 DEF FirstnInv, Control
  <2>2. CASE level = "top"
    <3>1. frame["top"].outpos + frame["top"].count = OutSize /\ frame["top"].count > 0
      BY <2>1, <2>2 DEF FirstnInv, Control, F
    <3> QED
      BY <1>1, <1>3, <2>1, <2>2, <3>1 DEF FrameType, outpos
  <2>3. CASE level = "leaf"
    <3>1. frame["leaf"].rep < frame["leaf"].numrep /\ InLeaf
      BY <2>1, <2>3 DEF F, FirstnInv, Control
    <3>2. frame["leaf"].outpos = frame["top"].outpos /\ frame["top"].count > 0
      BY <1>1, <3>1 DEF InLeaf, FrameType
    <3>3. frame["top"].outpos + frame["top"].count = OutSize
      BY DEF FirstnInv, Control
    <3> QED
      BY <1>1, <2>1, <2>3, <3>2, <3>3 DEF FrameType, outpos, F
  <2> QED
    BY <1>1, <2>2, <2>3 DEF Level
<1> QED
  BY <1>1, <1>2, <1>3, <1>4, <1>5 DEF Level, Output

LEMMA DrawStep ==
  ASSUME FirstnInv, NEW item, Draw(item)
  PROVE  /\ item \in Int /\ pc = "draw" /\ UNCHANGED <<call, rejected>>
         /\ item < 0 => BucketOf(item) \in Bucket /\ TypeOf(item) # 0
         /\ drawn' \subseteq Bucket \X Nat \X Int
         /\ \A d \in drawn' : d \in drawn \/ d[3] = item
<1>1. F.in \in Bucket /\ R \in Nat
  BY Running
<1>2. item \in Drawable(F.in) /\ drawn' = drawn \union {<<F.in, R, item>>} /\ pc = "draw"
      /\ UNCHANGED <<call, rejected>>
  BY DEF Draw, CanDraw
<1>3. item \in Int /\ (item < 0 => BucketOf(item) \in Bucket /\ TypeOf(item) # 0)
  BY <1>1, <1>2, Drawn
<1> QED
  BY <1>1, <1>2, <1>3 DEF FirstnInv, TypeOK

LEMMA NextReplicaStep ==
  ASSUME FirstnInv, NextReplica
  PROVE  FirstnInv'
<1> DEFINE a == [frame EXCEPT ![level].ftotal = 0]
           b == [a EXCEPT ![level].flocal = 0]
<1>1. /\ F \in FrameType /\ level \in Level /\ F.bucket \in Bucket /\ F = frame[level]
      /\ frame \in [Level -> FrameType]
  BY Running DEF FirstnInv, TypeOK, FrameType, F
<1>2. a \in [Level -> FrameType]
  BY <1>1 DEF FrameType
<1>3. b \in [Level -> FrameType]
  <2>1. a[level] \in FrameType
    BY <1>1, <1>2
  <2>2. [a[level] EXCEPT !.flocal = 0] \in FrameType
    BY <2>1 DEF FrameType
  <2> QED
    BY <1>1, <1>2, <2>2
<1>4. frame' \in [Level -> FrameType]
  <2>1. frame' = [b EXCEPT ![level].in = F.bucket]
    BY <1>1 DEF NextReplica
  <2> HIDE DEF b
  <2> QED
    BY <1>1, <1>3, <2>1 DEF FrameType
<1>5. /\ SameBut(level, "draw") /\ pc' = "draw" /\ frame[level].count > 0
      /\ frame[level].rep < frame[level].numrep
  BY <1>1 DEF NextReplica, SameBut, FrameType
<1>6. UNCHANGED <<call, rejected, drawn, level, out, out2>>
  BY DEF NextReplica
<1> QED
  BY <1>1, <1>4, <1>5, <1>6, SearchOn DEF FirstnInv, TypeOK

LEMMA EmptyBucketStep ==
  ASSUME FirstnInv, EmptyBucket
  PROVE  FirstnInv'
<1>1. /\ level \in Level /\ pc = "draw" /\ Reject(level, FALSE) /\ TypeOK
      /\ frame[level].count > 0 /\ frame[level].rep < frame[level].numrep
      /\ UNCHANGED <<call, rejected, drawn, level, out, out2>>
  BY Running DEF EmptyBucket, FirstnInv, F
<1>2. frame' \in [Level -> FrameType] /\ pc' \in {"rep", "draw"} /\ SameBut(level, pc')
  BY <1>1, Rejects
<1> QED
  BY <1>1, <1>2, SearchOn DEF TypeOK

LEMMA UselessStep ==
  ASSUME FirstnInv, NEW item, DrawsUseless(item)
  PROVE  FirstnInv'
<1>1. /\ level \in Level /\ pc = "draw" /\ Skip(level) /\ TypeOK /\ Draw(item)
      /\ frame[level].count > 0 /\ frame[level].rep < frame[level].numrep
      /\ UNCHANGED <<level, out, out2>>
  BY Running, DrawStep DEF DrawsUseless, FirstnInv, F
<1>2. frame' \in [Level -> FrameType] /\ pc' = "rep" /\ SameBut(level, "rep")
  BY <1>1, Skips
<1>3. item \in Int /\ (call.type = 0 => item \notin Device)
  BY Running, DrawStep, MapAssumption DEF DrawsUseless, Device, WellFormed
<1> QED
  BY <1>1, <1>2, <1>3, DrawStep, SearchOn DEF TypeOK

LEMMA OnTheWayStep ==
  ASSUME FirstnInv, NEW item, DrawsBucketOnTheWay(item)
  PROVE  FirstnInv'
<1>1. /\ level \in Level /\ pc = "draw" /\ TypeOK /\ Draw(item)
      /\ frame[level].count > 0 /\ frame[level].rep < frame[level].numrep
      /\ item \in Int /\ item < 0 /\ BucketOf(item) \in Bucket
      /\ UNCHANGED <<level, pc, out, out2>>
      /\ frame' = [frame EXCEPT ![level].in = BucketOf(item)]
  BY Running, DrawStep DEF DrawsBucketOnTheWay, FirstnInv, F
<1>2. frame' \in [Level -> FrameType] /\ SameBut(level, pc')
  BY <1>1 DEF TypeOK, FrameType, SameBut
<1>3. item \notin Device
  BY <1>1, MapAssumption DEF Device, WellFormed
<1> QED
  BY <1>1, <1>2, <1>3, DrawStep, SearchOn DEF TypeOK

LEMMA TakenStep ==
  ASSUME FirstnInv, NEW item, DrawsTaken(item)
  PROVE  FirstnInv'
<1>1. /\ level \in Level /\ pc = "draw" /\ Reject(level, TRUE) /\ TypeOK /\ Draw(item)
      /\ frame[level].count > 0 /\ frame[level].rep < frame[level].numrep
      /\ UNCHANGED <<level, out, out2>>
  BY Running, DrawStep DEF DrawsTaken, FirstnInv, F
<1>2. frame' \in [Level -> FrameType] /\ pc' \in {"rep", "draw"} /\ SameBut(level, pc')
  BY <1>1, Rejects
<1>3. call.type = 0 => \E i \in 0 .. outpos - 1 : out[i] = item
  BY Running, <1>1 DEF DrawsTaken, Collides
<1> QED
  BY <1>1, <1>2, <1>3, DrawStep, SearchOn DEF TypeOK

(* A bucket of the wanted type, hence not 0: the inner call starts with    *)
(* the lists as they are.                                                  *)
LEMMA BucketStep ==
  ASSUME FirstnInv, NEW item, DrawsBucket(item)
  PROVE  FirstnInv'
<1> USE DEF FirstnInv
<1>1. /\ Draw(item) /\ Wanted(item) /\ item < 0 /\ ~Collides(item)
      /\ frame' = [frame EXCEPT !["top"].item = item, !["leaf"] = LeafFrame(F, item, R)]
      /\ level' = "leaf" /\ pc' = "rep" /\ UNCHANGED <<out, out2>>
  BY DEF DrawsBucket
<1>2. /\ item \in Int /\ pc = "draw" /\ UNCHANGED <<call, rejected>>
      /\ BucketOf(item) \in Bucket /\ TypeOf(item) # 0
      /\ drawn' \subseteq Bucket \X Nat \X Int /\ \A d \in drawn' : d \in drawn \/ d[3] = item
  BY <1>1, DrawStep
<1>3. level = "top" /\ call.type # 0 /\ TypeOf(item) = call.type
  <2>1. F.type # 0
    BY <1>1, <1>2 DEF Wanted
  <2>2. level = "top"
    <3>1. CASE level = "leaf"
      <4>1. InLeaf
        BY <3>1 DEF Control
      <4>2. frame["leaf"].type = 0
        BY <4>1 DEF InLeaf
      <4> QED
        BY <2>1, <3>1, <4>2 DEF F
    <3> QED
      BY <3>1, Running DEF Level
  <2> QED
    BY <1>1, <2>1, <2>2, Running DEF Wanted
<1> DEFINE new == LeafFrame(F, item, R)
<1>4. /\ new \in FrameType /\ new.outpos = F.outpos /\ new.count = F.count
      /\ new.numrep - 1 <= new.rep /\ new.type = 0
  BY <1>2, Running, LeafTyped DEF TypeOK, LeafFrame, Frame
<1> HIDE DEF new
<1>5. /\ frame' = [frame EXCEPT !["top"].item = item, !["leaf"] = new]
      /\ frame \in [Level -> FrameType]
  BY <1>1 DEF new, TypeOK
<1>6. frame' \in [Level -> FrameType]
  BY <1>2, <1>4, <1>5 DEF FrameType, Level
<1>7. /\ frame'["leaf"] = new /\ frame'["top"].item = item
      /\ frame'["top"].outpos = outpos /\ frame'["top"].count = frame["top"].count
      /\ frame'["top"].type = frame["top"].type /\ frame'["top"].numrep = frame["top"].numrep
      /\ frame'["top"].rep = frame["top"].rep /\ F = frame["top"]
  BY <1>3, <1>5 DEF FrameType, Level, outpos, F
<1>8. outpos' = outpos
  BY <1>7 DEF outpos
<1>9. TypeOK'
  BY <1>1, <1>2, <1>6 DEF TypeOK, Level
<1>10. Listed' /\ NothingOverlooked'
  BY <1>1, <1>2, <1>3, <1>8 DEF Listed, Usable, NothingOverlooked
<1>11. Control'
  <2>1. frame["top"].count > 0 /\ frame["top"].rep < frame["top"].numrep
    BY <1>2, <1>7, Running
  <2>2. \A i \in 0 .. outpos - 1 : out[i] # item
    BY <1>1, <1>3, <1>7 DEF Collides, Output, outpos
  <2>3. InLeaf'
    BY <1>1, <1>2, <1>3, <1>4, <1>7, <2>1, <2>2 DEF InLeaf, TypeOf, outpos
  <2> QED
    BY <1>1, <1>2, <1>7, <2>3 DEF Control, outpos
<1> QED
  BY <1>9, <1>10, <1>11

LEMMA Accepts ==
  ASSUME FirstnInv, NEW l \in Level, NEW item \in Int, Accept(l, item),
         frame[l].outpos < OutSize, frame[l].count > 0
  PROVE  /\ frame' \in [Level -> FrameType] /\ pc' = "rep"
         /\ frame'[l].outpos = frame[l].outpos + 1 /\ frame'[l].count = frame[l].count - 1
         /\ frame'[l].rep = frame[l].rep + 1 /\ frame'[l].numrep = frame[l].numrep
         /\ frame'[l].type = frame[l].type
         /\ \A k \in Level : k # l => frame'[k] = frame[k]
<1>1. frame \in [Level -> FrameType] /\ frame[l] \in FrameType /\ OutSize \in Nat
  BY CallAssumption DEF FirstnInv, TypeOK
<1> DEFINE a == [frame EXCEPT ![l].outpos = @ + 1]
           b == [a EXCEPT ![l].count = @ - 1]
<1>2. a \in [Level -> FrameType] /\ a[l].count = frame[l].count
  BY <1>1 DEF FrameType
<1>3. b \in [Level -> FrameType] /\ b[l].rep = frame[l].rep
  <2>1. a[l].count - 1 \in 0 .. OutSize /\ a[l].rep = frame[l].rep
    BY <1>1, <1>2 DEF FrameType
  <2>2. b = [a EXCEPT ![l].count = a[l].count - 1]
    OBVIOUS
  <2> HIDE DEF a
  <2> QED
    BY <1>2, <2>1, <2>2 DEF FrameType
<1>4. frame' \in [Level -> FrameType]
  <2>1. frame' = [b EXCEPT ![l].rep = @ + 1]
    BY <1>1 DEF Accept
  <2> HIDE DEF b
  <2> QED
    BY <1>1, <1>3, <2>1 DEF FrameType
<1> QED
  BY <1>1, <1>4 DEF Accept, FrameType

(* The list grows by one item and its device. *)
LEMMA Longer ==
  ASSUME FirstnInv, NEW item \in Int, outpos < OutSize, outpos' = outpos + 1,
         TypeOf(item) = call.type, \A i \in 0 .. outpos - 1 : out[i] # item,
         out' = [out EXCEPT ![outpos] = item],
         \A i \in 0 .. outpos - 1 : out2'[i] = out2[i],
         Usable(IF call.type = 0 THEN item ELSE out2'[outpos]),
         call.type # 0 => \A i \in 0 .. outpos - 1 : out2[i] # out2'[outpos],
         UNCHANGED <<call, rejected>>
  PROVE  Listed'
<1>1. outpos \in Nat /\ OutSize \in Nat
  BY Running
<1>2. out \in Array /\ out'[outpos] = item /\ \A i \in 0 .. outpos - 1 : out'[i] = out[i]
  BY <1>1 DEF FirstnInv, TypeOK, Array
<1>3. \A i \in 0 .. outpos' - 1 : i \in 0 .. outpos - 1 \/ i = outpos
  BY <1>1
<1> QED
  BY <1>1, <1>2, <1>3 DEF FirstnInv, Listed, Usable

LEMMA DeviceStep ==
  ASSUME FirstnInv, NEW item, DrawsDevice(item)
  PROVE  FirstnInv'
<1> USE DEF FirstnInv
<1>1. /\ Draw(item) /\ Wanted(item) /\ item >= 0 /\ ~Collides(item)
      /\ UNCHANGED level
      /\ out2' = out2 \/ out2' = [out2 EXCEPT ![F.outpos] = item]
  BY DEF DrawsDevice
<1>2. /\ item \in Int /\ pc = "draw" /\ UNCHANGED <<call, rejected>>
      /\ drawn' \subseteq Bucket \X Nat \X Int /\ \A d \in drawn' : d \in drawn \/ d[3] = item
  BY <1>1, DrawStep
<1>3. /\ level \in Level /\ F = frame[level] /\ F.count > 0 /\ F.rep < F.numrep
      /\ F.outpos = outpos /\ outpos < OutSize /\ outpos \in Nat /\ OutSize \in Nat
      /\ F \in FrameType /\ frame["top"] \in FrameType
  BY <1>2, Running DEF F
<1>4. F.type = 0 /\ TypeOf(item) = 0 /\ item \in Device
  BY <1>1, <1>2, MapAssumption DEF Wanted, TypeOf, Device, WellFormed
<1>5. out2' \in Array /\ \A i \in 0 .. outpos - 1 : out2'[i] = out2[i]
  BY <1>1, <1>2, <1>3 DEF TypeOK, Array
<1>6. CASE IsOut(rejected, item)
  <2>1. Reject(level, FALSE) /\ UNCHANGED out
    BY <1>6 DEF DrawsDevice
  <2>2. frame' \in [Level -> FrameType] /\ pc' \in {"rep", "draw"} /\ SameBut(level, pc')
    BY <1>3, <2>1, Rejects
  <2> QED
    BY <1>1, <1>2, <1>3, <1>5, <1>6, <2>1, <2>2, SearchOn
<1>7. CASE ~IsOut(rejected, item)
  <2>1. Accept(level, item)
    BY <1>7 DEF DrawsDevice
  <2>2. /\ frame' \in [Level -> FrameType] /\ pc' = "rep"
        /\ frame'[level].outpos = outpos + 1 /\ frame'[level].count = F.count - 1
        /\ frame'[level].rep = F.rep + 1 /\ frame'[level].numrep = F.numrep
        /\ frame'[level].type = F.type
        /\ \A k \in Level : k # level => frame'[k] = frame[k]
    BY <1>2, <1>3, <2>1, Accepts
  <2>3. CASE level = "top"
    <3>1. /\ call.type = 0 /\ outpos' = outpos + 1 /\ out' = [out EXCEPT ![outpos] = item]
          /\ \A i \in 0 .. outpos - 1 : out[i] # item
      BY <1>1, <1>3, <1>4, <2>1, <2>2, <2>3, Running DEF outpos, Accept, Collides, Output
    <3>2. Listed'
      BY <1>2, <1>3, <1>4, <1>5, <1>7, <3>1, Longer DEF Usable
    <3>3. /\ out' \in Array /\ out'[outpos] = item
          /\ \A i \in 0 .. outpos - 1 : out'[i] = out[i]
      BY <1>2, <1>3, <3>1 DEF TypeOK, Array
    <3>4. TypeOK'
      BY <1>1, <1>2, <1>5, <2>2, <3>3 DEF TypeOK
    <3>5. NothingOverlooked'
      BY <1>2, <1>3, <3>1, <3>3 DEF NothingOverlooked
    <3>6. Control'
      BY <1>1, <1>2, <1>3, <2>2, <2>3 DEF Control, FrameType, outpos
    <3> QED
      BY <3>2, <3>4, <3>5, <3>6
  <2>4. CASE level = "leaf"
    <3>1. InLeaf /\ frame'["top"] = frame["top"] /\ outpos' = outpos /\ out' = out
          /\ call.type # 0
      BY <2>1, <2>2, <2>4 DEF Control, InLeaf, outpos, Accept, Level
    <3>2. out2' = [out2 EXCEPT ![outpos] = item] /\ out2'[outpos] = item
      BY <1>2, <1>3, <1>7, <2>4 DEF DrawsDevice, TypeOK, Array
    <3>3. \A i \in 0 .. outpos - 1 : out2[i] # item
      BY <1>1, <1>3, <2>4 DEF Collides, Output
    <3>4. TypeOK'
      BY <1>1, <1>2, <1>5, <2>2, <3>1 DEF TypeOK
    <3>5. Listed' /\ NothingOverlooked'
      BY <1>2, <1>3, <1>5, <3>1 DEF Listed, Usable, NothingOverlooked
    <3>6. InLeaf'
      BY <1>2, <1>3, <1>4, <1>5, <1>7, <2>2, <2>4, <3>1, <3>2, <3>3
      DEF InLeaf, Usable, outpos, FrameType
    <3> QED
      BY <1>1, <1>2, <2>2, <2>4, <3>1, <3>4, <3>5, <3>6 DEF Control
  <2> QED
    BY <1>3, <2>3, <2>4 DEF Level
<1> QED
  BY <1>6, <1>7

LEMMA FoundStep ==
  ASSUME FirstnInv, LeafFound
  PROVE  FirstnInv'
<1> USE DEF FirstnInv
<1> DEFINE top == frame["top"]
<1>1. /\ level = "leaf" /\ level' = "top" /\ Accept("top", top.item)
      /\ frame["leaf"].outpos > top.outpos
      /\ UNCHANGED <<call, rejected, drawn, out2>>
  BY DEF LeafFound
<1>2. /\ InLeaf /\ call.type # 0 /\ outpos = top.outpos /\ outpos \in Nat /\ OutSize \in Nat
      /\ top \in FrameType /\ frame["leaf"] \in FrameType
  BY <1>1, Running DEF Control, InLeaf, outpos
<1>3. /\ top.count > 0 /\ TypeOf(top.item) = call.type /\ top.item \in Int
      /\ \A i \in 0 .. outpos - 1 : out[i] # top.item
      /\ Usable(out2[outpos])
      /\ \A i \in 0 .. outpos - 1 : out2[i] # out2[outpos]
  BY <1>1, <1>2 DEF InLeaf, FrameType
<1>4. outpos < OutSize
  BY <1>2, <1>3 DEF Control, FrameType
<1>5. /\ frame' \in [Level -> FrameType] /\ pc' = "rep"
      /\ frame'["top"].outpos = outpos + 1 /\ frame'["top"].count = top.count - 1
      /\ frame'["top"].type = top.type
  BY <1>1, <1>2, <1>3, <1>4, Accepts DEF Level
<1>6. outpos' = outpos + 1 /\ out' = [out EXCEPT ![outpos] = top.item]
  BY <1>1, <1>5 DEF outpos, Accept
<1>7. Listed'
  BY <1>1, <1>2, <1>3, <1>4, <1>6, Longer DEF Usable
<1>8. TypeOK'
  <2>1. out' \in Array
    BY <1>3, <1>6 DEF TypeOK, Array
  <2> QED
    BY <1>1, <1>5, <2>1 DEF TypeOK, Level
<1>9. NothingOverlooked'
  BY <1>1, <1>2 DEF NothingOverlooked
<1>10. Control'
  BY <1>1, <1>2, <1>5 DEF Control, FrameType, outpos
<1> QED
  BY <1>7, <1>8, <1>9, <1>10

LEMMA MissingStep ==
  ASSUME FirstnInv, LeafMissing
  PROVE  FirstnInv'
<1>1. /\ level = "leaf" /\ level' = "top" /\ Reject("top", FALSE) /\ TypeOK /\ "top" \in Level
      /\ UNCHANGED <<call, rejected, drawn, out, out2>>
  BY DEF LeafMissing, FirstnInv, Level
<1>2. frame["top"].count > 0 /\ frame["top"].rep < frame["top"].numrep
  BY <1>1 DEF FirstnInv, Control, InLeaf
<1>3. frame' \in [Level -> FrameType] /\ pc' \in {"rep", "draw"} /\ SameBut("top", pc')
  BY <1>1, Rejects
<1> QED
  BY <1>1, <1>2, <1>3, SearchOn DEF TypeOK

LEMMA StillSteps ==
  ASSUME FirstnInv, Return \/ UNCHANGED vars
  PROVE  FirstnInv'
<1>1. /\ UNCHANGED <<call, rejected, drawn, frame, level, out, out2>> /\ outpos' = outpos
      /\ pc' = pc \/ (pc' = "done" /\ level = "top")
  BY DEF Return, vars, outpos
<1>2. TypeOK' /\ Listed' /\ NothingOverlooked'
  BY <1>1 DEF FirstnInv, TypeOK, Listed, Usable, NothingOverlooked
<1>3. Control'
  BY <1>1 DEF FirstnInv, Control, InLeaf, Usable, F
<1> QED
  BY <1>2, <1>3 DEF FirstnInv

LEMMA NextFirstn ==
  ASSUME FirstnInv, [Next]_vars
  PROVE  FirstnInv'
  BY NextReplicaStep, EmptyBucketStep, FoundStep, MissingStep, StillSteps, UselessStep,
     OnTheWayStep, TakenStep, BucketStep, DeviceStep
  DEF Next

-----------------------------------------------------------------------------
(* What follows                                                            *)

(* In every reachable state the list is one of different items and         *)
(* different usable devices, and the inner call has a device to hand out   *)
(* that is not in it, or none.                                             *)
THEOREM FirstnInvariant == Spec => []FirstnInv
  BY InitFirstn, NextFirstn, PTL DEF Spec

(* The output arrays, the counters and the bucket that is searched keep    *)
(* their types: outpos stays within the arrays, in within the map.         *)
THEOREM FirstnTypes == Spec => []TypeOK
<1>1. FirstnInv => TypeOK
  BY DEF FirstnInv
<1> QED
  BY <1>1, FirstnInvariant, PTL

(* No two replicas share a failure domain (crush_choose_firstn's test for  *)
(* collisions).                                                            *)
THEOREM ChosenDomainsDiffer == Spec => []DomainsDiffer
<1>1. FirstnInv => DomainsDiffer
  BY DEF FirstnInv, Listed, DomainsDiffer
<1> QED
  BY <1>1, FirstnInvariant, PTL

(* A device that was drawn and can be used is in the list.                 *)
THEOREM NoDeviceOverlooked == Spec => []NothingOverlooked
<1>1. FirstnInv => NothingOverlooked
  BY DEF FirstnInv
<1> QED
  BY <1>1, FirstnInvariant, PTL

-----------------------------------------------------------------------------
(* The function computes a placement                                       *)

(* A step that leaves the list alone. *)
Quiet ==
  /\ outpos' = outpos /\ UNCHANGED <<call, rejected>>
  /\ \A i \in 0 .. outpos - 1 : out'[i] = out[i] /\ out2'[i] = out2[i]
  /\ pc # "done" /\ pc' # "done"

LEMMA QuietSearch ==
  ASSUME FirstnInv, NEW l \in Level, NEW collide \in BOOLEAN,
         Reject(l, collide) \/ Skip(l)
  PROVE  outpos' = outpos /\ pc' # "done"
<1>1. SameBut(l, pc') /\ pc' \in {"rep", "draw"}
  BY Rejects, Skips DEF FirstnInv
<1> QED
  BY <1>1 DEF SameBut, outpos, Level

LEMMA QuietSteps ==
  ASSUME FirstnInv,
         \/ NextReplica \/ EmptyBucket \/ LeafMissing
         \/ \E item : \/ DrawsUseless(item) \/ DrawsBucketOnTheWay(item)
                      \/ DrawsTaken(item) \/ DrawsBucket(item)
  PROVE  Quiet
<1>1. level \in Level /\ "top" \in Level /\ frame \in [Level -> FrameType]
  BY DEF FirstnInv, TypeOK, Level
<1>2. CASE NextReplica
  BY <1>1, <1>2 DEF NextReplica, Quiet, outpos, FrameType, Level
<1>3. CASE EmptyBucket
  BY <1>1, <1>3, QuietSearch DEF EmptyBucket, Quiet
<1>4. CASE LeafMissing
  BY <1>1, <1>4, QuietSearch DEF LeafMissing, AtEnd, Quiet
<1>5. ASSUME NEW item, DrawsUseless(item) \/ DrawsTaken(item) PROVE Quiet
  <2>1. /\ UNCHANGED <<call, rejected, out, out2>> /\ pc = "draw"
        /\ Skip(level) \/ Reject(level, TRUE)
    BY <1>5, DrawStep DEF DrawsUseless, DrawsTaken
  <2> QED
    BY <1>1, <2>1, QuietSearch DEF Quiet
<1>6. ASSUME NEW item, DrawsBucketOnTheWay(item) PROVE Quiet
  BY <1>1, <1>6, DrawStep DEF DrawsBucketOnTheWay, Quiet, outpos, FrameType, Level
<1>7. ASSUME NEW item, DrawsBucket(item) PROVE Quiet
  BY <1>1, <1>7, DrawStep DEF DrawsBucket, Quiet, outpos, FrameType, Level
<1> QED
  BY <1>2, <1>3, <1>4, <1>5, <1>6, <1>7

LEMMA QuietStutters ==
  ASSUME FirstnInv, Quiet
  PROVE  UNCHANGED Abstract!vars
<1>1. Devices' = Devices
  BY DEF Quiet, Devices
<1> QED
  BY <1>1 DEF Quiet, Abstract!vars

LEMMA Places ==
  ASSUME FirstnInv, NEW d, Usable(d), \A i \in 0 .. outpos - 1 : Devices[i] # d,
         outpos < OutSize, outpos' = outpos + 1, UNCHANGED <<call, rejected>>,
         Devices' = [i \in 0 .. outpos |-> IF i = outpos THEN d ELSE Devices[i]],
         pc # "done", pc' # "done"
  PROVE  Abstract!Next
<1>1. d \in {e \in Device : ~IsOut(rejected, e)}
  BY DEF Usable
<1>2. Abstract!Place(d)
  BY DEF Abstract!Place
<1> QED
  BY <1>1, <1>2 DEF Abstract!Next

LEMMA DeviceRefines ==
  ASSUME FirstnInv, NEW item, DrawsDevice(item)
  PROVE  Abstract!Next \/ UNCHANGED Abstract!vars
<1>1. /\ Draw(item) /\ Wanted(item) /\ item >= 0 /\ ~Collides(item)
      /\ out2' = out2 \/ out2' = [out2 EXCEPT ![F.outpos] = item]
  BY DEF DrawsDevice
<1>2. item \in Int /\ pc = "draw" /\ UNCHANGED <<call, rejected>>
  BY <1>1, DrawStep
<1>3. /\ level \in Level /\ F = frame[level] /\ F.count > 0
      /\ F.outpos = outpos /\ outpos < OutSize /\ outpos \in Nat /\ OutSize \in Nat
  BY <1>2, Running DEF F
<1>4. F.type = 0 /\ item \in Device
  BY <1>1, <1>2, MapAssumption DEF Wanted, TypeOf, Device, WellFormed
<1>5. \A i \in 0 .. outpos - 1 : out2'[i] = out2[i]
  BY <1>1, <1>2, <1>3 DEF FirstnInv, TypeOK, Array
<1>6. CASE IsOut(rejected, item)
  <2>1. Reject(level, FALSE) /\ UNCHANGED out
    BY <1>6 DEF DrawsDevice
  <2>2. Quiet
    BY <1>2, <1>3, <1>5, <2>1, QuietSearch DEF Quiet
  <2> QED
    BY <2>2, QuietStutters
<1>7. CASE ~IsOut(rejected, item)
  <2>1. Accept(level, item)
    BY <1>7 DEF DrawsDevice
  <2>2. /\ pc' = "rep" /\ frame'[level].outpos = outpos + 1
        /\ \A k \in Level : k # level => frame'[k] = frame[k]
    BY <1>2, <1>3, <2>1, Accepts
  <2>3. CASE level = "leaf"
    <3>1. Quiet
      BY <1>2, <1>5, <2>1, <2>2, <2>3 DEF Quiet, Accept, outpos, Level
    <3> QED
      BY <3>1, QuietStutters
  <2>4. CASE level = "top"
    <3>1. /\ call.type = 0 /\ outpos' = outpos + 1 /\ out' = [out EXCEPT ![outpos] = item]
          /\ \A i \in 0 .. outpos - 1 : out[i] # item
      BY <1>1, <1>3, <1>4, <2>1, <2>2, <2>4, Running DEF outpos, Accept, Collides, Output
    <3>2. /\ out'[outpos] = item /\ \A i \in 0 .. outpos - 1 : out'[i] = out[i]
      BY <1>3, <3>1 DEF FirstnInv, TypeOK, Array
    <3>3. Devices = [i \in 0 .. outpos - 1 |-> out[i]]
      BY <3>1 DEF Devices
    <3>4. Devices' = [i \in 0 .. outpos |-> IF i = outpos THEN item ELSE Devices[i]]
      BY <1>2, <1>3, <3>1, <3>2, <3>3 DEF Devices
    <3> QED
      BY <1>2, <1>3, <1>4, <1>7, <2>2, <3>1, <3>3, <3>4, Places DEF Usable
  <2> QED
    BY <1>3, <2>3, <2>4 DEF Level
<1> QED
  BY <1>6, <1>7

LEMMA FoundRefines ==
  ASSUME FirstnInv, LeafFound
  PROVE  Abstract!Next
<1> DEFINE top == frame["top"]
<1>1. /\ level = "leaf" /\ Accept("top", top.item) /\ pc = "rep"
      /\ frame["leaf"].outpos > top.outpos
      /\ UNCHANGED <<call, rejected, drawn, out2>>
  BY DEF LeafFound, AtEnd
<1>2. /\ InLeaf /\ call.type # 0 /\ outpos = top.outpos /\ outpos \in Nat /\ OutSize \in Nat
      /\ top \in FrameType /\ frame["leaf"] \in FrameType
  BY <1>1, Running DEF FirstnInv, Control, InLeaf, outpos
<1>3. /\ top.count > 0 /\ top.item \in Int /\ Usable(out2[outpos])
      /\ \A i \in 0 .. outpos - 1 : out2[i] # out2[outpos]
  BY <1>1, <1>2 DEF InLeaf, FrameType
<1>4. outpos < OutSize
  BY <1>2, <1>3 DEF FirstnInv, Control, FrameType
<1>5. pc' = "rep" /\ outpos' = outpos + 1
  BY <1>1, <1>2, <1>3, <1>4, Accepts DEF Level, outpos
<1>6. Devices = [i \in 0 .. outpos - 1 |-> out2[i]]
  BY <1>2 DEF Devices
<1>7. Devices' = [i \in 0 .. outpos |-> IF i = outpos THEN out2[outpos] ELSE Devices[i]]
  BY <1>1, <1>2, <1>5, <1>6 DEF Devices
<1> QED
  BY <1>1, <1>2, <1>3, <1>4, <1>5, <1>6, <1>7, Places

(* Every run of the function builds a list of different devices that are   *)
(* not rejected, at most as long as the arrays, and extends it at its end  *)
(* only: choosing by domain and device, with its retries, is a placement.  *)
THEOREM FirstnIsPlacement == Spec => IsPlacement
<1>1. Init => Abstract!Init
  <2> SUFFICES ASSUME Init PROVE Abstract!Init
    OBVIOUS
  <2>1. outpos = 0
    BY TopTyped DEF Init, outpos, Level
  <2> QED
    BY <2>1 DEF Init, Devices, Abstract!Init
<1>2. FirstnInv /\ [Next]_vars => Abstract!Next \/ UNCHANGED Abstract!vars
  <2> SUFFICES ASSUME FirstnInv, [Next]_vars
               PROVE  Abstract!Next \/ UNCHANGED Abstract!vars
    OBVIOUS
  <2>1. CASE Return
    <3>1. Devices' = Devices /\ outpos' = outpos
      BY <2>1 DEF Return, Devices, outpos
    <3>2. Abstract!Stop
      BY <2>1, <3>1 DEF Return, AtEnd, Abstract!Stop
    <3> QED
      BY <3>2 DEF Abstract!Next
  <2>2. CASE LeafFound
    BY <2>2, FoundRefines
  <2>3. CASE \E item \in AnItem : DrawsDevice(item)
    BY <2>3, DeviceRefines
  <2>4. CASE UNCHANGED vars
    BY <2>4 DEF vars, outpos, Devices, Abstract!vars
  <2> QED
    BY <2>1, <2>2, <2>3, <2>4, QuietSteps, QuietStutters DEF Next
<1> QED
  BY <1>1, <1>2, FirstnInvariant, PTL DEF Spec, IsPlacement, Abstract!Spec

-----------------------------------------------------------------------------
(* Devices below their domains                                             *)

Under(g, b) ==
  UNION {IF Items[b][i] < 0 THEN g[BucketOf(Items[b][i])] ELSE {Items[b][i]} :
           i \in 1 .. Len(Items[b])}

(* The recursion of Below is well founded, because references lead away    *)
(* from the root: it is defined bucket by bucket, the last one first.      *)
LEMMA BelowDefined == \A b \in Bucket : Below[b] = Under(Below, b)
<1> DEFINE LastBuckets(k) == {b \in Bucket : b >= MaxBuckets - k}
           Solves(g, k) == g = [b \in LastBuckets(k) |-> Under(g, b)]
           S == {k \in Nat : \E g : Solves(g, k)}
<1>1. /\ MaxBuckets \in Nat
      /\ \A b \in Bucket : \A i \in 1 .. Len(Items[b]) :
           Items[b][i] < 0 => BucketOf(Items[b][i]) \in b + 1 .. MaxBuckets - 1
  BY MapAssumption DEF WellFormed
<1>2. 0 \in S
  <2>1. LastBuckets(0) = {}
    BY <1>1 DEF Bucket
  <2> DEFINE none == [b \in {} |-> {}]
  <2>2. Solves(none, 0)
    BY <2>1
  <2> QED
    BY <2>2
<1>3. ASSUME NEW k \in Nat, k \in S PROVE k + 1 \in S
  <2>1. PICK g : Solves(g, k)
    BY <1>3
  <2> DEFINE h == [b \in LastBuckets(k + 1) |-> IF b \in LastBuckets(k) THEN g[b] ELSE Under(g, b)]
  <2>2. \A b \in LastBuckets(k) : b \in LastBuckets(k + 1)
    BY <1>1 DEF Bucket
  <2>3. \A b \in LastBuckets(k) : g[b] = Under(g, b)
    BY <2>1
  <2>4. \A b \in LastBuckets(k + 1) : h[b] = Under(g, b)
    BY <2>3
  <2>5. \A b \in LastBuckets(k) : h[b] = g[b]
    BY <2>2
  <2>6. ASSUME NEW b \in LastBuckets(k + 1), NEW i \in 1 .. Len(Items[b]), Items[b][i] < 0
        PROVE  h[BucketOf(Items[b][i])] = g[BucketOf(Items[b][i])]
    <3>1. BucketOf(Items[b][i]) \in LastBuckets(k)
      BY <1>1, <2>6 DEF Bucket
    <3> QED
      BY <2>5, <3>1
  <2> HIDE DEF h
  <2>7. \A b \in LastBuckets(k + 1) : Under(h, b) = Under(g, b)
    BY <2>6 DEF Under
  <2>8. Solves(h, k + 1)
    <3>1. h = [b \in LastBuckets(k + 1) |-> h[b]]
      BY DEF h
    <3>2. \A b \in LastBuckets(k + 1) : h[b] = Under(h, b)
      BY <2>4, <2>7
    <3> QED
      BY <3>1, <3>2
  <2> HIDE DEF Solves
  <2>9. \E f : Solves(f, k + 1)
    BY <2>8
  <2> QED
    BY <2>9
<1>4. MaxBuckets \in S
  <2> HIDE DEF S
  <2> QED
    BY <1>1, <1>2, <1>3, NumberInduction
<1>5. LastBuckets(MaxBuckets) = Bucket
  BY <1>1 DEF Bucket
<1> DEFINE Defines(g) == g = [b \in Bucket |-> Under(g, b)]
<1>6. \E g : Defines(g)
  BY <1>4, <1>5
<1>7. Below = CHOOSE g : Defines(g)
  BY DEF Below, Under
<1> HIDE DEF Defines
<1>8. Defines(Below)
  BY <1>6, <1>7
<1> QED
  BY <1>8 DEF Defines

(* What lies below an item of a bucket lies below the bucket.              *)
LEMMA BelowItems ==
  ASSUME NEW b \in Bucket, NEW item \in Drawable(b)
  PROVE  /\ item < 0 => Below[BucketOf(item)] \subseteq Below[b]
         /\ item >= 0 => item \in Below[b]
<1>1. PICK i \in 1 .. Len(Items[b]) : item = Items[b][i]
  BY MapAssumption DEF Drawable, WellFormed
<1>2. item \in Int
  BY Drawn
<1>3. (IF Items[b][i] < 0 THEN Below[BucketOf(Items[b][i])] ELSE {Items[b][i]})
        \subseteq Below[b]
  BY BelowDefined DEF Under
<1> QED
  BY <1>1, <1>2, <1>3

(* The inner call searches below the bucket chosen for the replica, at     *)
(* every depth, and what it has found lies there.                          *)
Searching ==
  level = "leaf" =>
    LET top == frame["top"]
        leaf == frame["leaf"]
    IN  /\ leaf.bucket = BucketOf(top.item)
        /\ leaf.in \in Bucket /\ Below[leaf.in] \subseteq Below[leaf.bucket]
        /\ leaf.outpos > top.outpos => out2[top.outpos] \in Below[leaf.bucket]

DomainInv ==
  /\ DevicesInDomains
  /\ Searching
  /\ frame["top"].recurse_to_leaf = call.recurse_to_leaf

LEMMA InitDomain == Init => DomainInv
<1> SUFFICES ASSUME Init PROVE DomainInv
  OBVIOUS
<1>1. /\ call \in Calls /\ frame["top"] = TopFrame(call) /\ level = "top"
  BY DEF Init, Level
<1>2. outpos = 0 /\ frame["top"].recurse_to_leaf = call.recurse_to_leaf
  BY <1>1, TopTyped DEF outpos, TopFrame, Frame
<1> QED
  BY <1>1, <1>2 DEF DomainInv, DevicesInDomains, Searching

(* A failed attempt at level l searches the same bucket again, or starts   *)
(* from the bucket of the call.                                            *)
SearchesSame(l) ==
  /\ frame'[l].in \in {frame[l].in, frame[l].bucket}
  /\ frame'[l].bucket = frame[l].bucket
  /\ frame'[l].recurse_to_leaf = frame[l].recurse_to_leaf

LEMMA RejectsInPlace ==
  ASSUME TypeOK, NEW l \in Level, NEW collide \in BOOLEAN, Reject(l, collide) \/ Skip(l)
  PROVE  SearchesSame(l)
<1>1. frame \in [Level -> FrameType]
  BY DEF TypeOK
<1>2. CASE TryBucket(l, collide)
  BY <1>1, <1>2 DEF TryBucket, FrameType, SearchesSame
<1>3. CASE TryDescent(l, collide)
  BY <1>1, <1>3 DEF TryDescent, FrameType, SearchesSame
<1>4. CASE Skip(l)
  BY <1>1, <1>4 DEF Skip, FrameType, SearchesSame
<1> QED
  BY <1>2, <1>3, <1>4 DEF Reject, GiveUp

(* Steps that go on with the search leave what is chosen where it is.      *)
LEMMA SearchOnDomain ==
  ASSUME FirstnInv, DomainInv, NEW l \in Level, l = level \/ l = "top", level' = l,
         SameBut(l, pc'), SearchesSame(l), frame' \in [Level -> FrameType],
         \A i \in 0 .. outpos - 1 : out2'[i] = out2[i],
         l = "leaf" => out2' = out2,
         UNCHANGED <<call, out>>
  PROVE  DomainInv'
<1>1. outpos' = outpos /\ outpos \in Nat
  BY Running DEF SameBut, outpos, Level
<1>2. DevicesInDomains'
  BY <1>1 DEF DomainInv, DevicesInDomains
<1>3. frame'["top"].recurse_to_leaf = call.recurse_to_leaf
  BY DEF DomainInv, SameBut, SearchesSame, Level
<1>4. Searching'
  <2> SUFFICES ASSUME l = "leaf" PROVE Searching'
    BY DEF Searching
  <2>1. frame'["top"] = frame["top"] /\ frame'["leaf"].outpos = frame["leaf"].outpos
    BY DEF SameBut, Level
  <2>2. frame["leaf"] \in FrameType
    BY Running
  <2> QED
    BY <2>1, <2>2 DEF DomainInv, Searching, SearchesSame, FrameType
<1> QED
  BY <1>2, <1>3, <1>4 DEF DomainInv

LEMMA NextReplicaDomain ==
  ASSUME FirstnInv, DomainInv, NextReplica
  PROVE  DomainInv'
<1>1. /\ level \in Level /\ frame \in [Level -> FrameType] /\ F = frame[level]
      /\ F \in FrameType /\ UNCHANGED <<call, level, out, out2>> /\ pc' = "draw"
      /\ frame' = [frame EXCEPT ![level].ftotal = 0, ![level].flocal = 0, ![level].in = F.bucket]
  BY DEF NextReplica, FirstnInv, TypeOK, F
<1>2. SameBut(level, pc') /\ SearchesSame(level)
  BY <1>1 DEF SameBut, SearchesSame, FrameType
<1>3. frame' \in [Level -> FrameType]
  BY NextReplicaStep DEF FirstnInv, TypeOK
<1> QED
  BY <1>1, <1>2, <1>3, SearchOnDomain

LEMMA RejectDomain ==
  ASSUME FirstnInv, DomainInv, NEW l \in Level, l = level \/ l = "top", level' = l,
         NEW collide \in BOOLEAN, Reject(l, collide) \/ Skip(l),
         \A i \in 0 .. outpos - 1 : out2'[i] = out2[i],
         l = "leaf" => out2' = out2,
         UNCHANGED <<call, out>>
  PROVE  DomainInv'
<1>1. TypeOK
  BY DEF FirstnInv
<1>2. frame' \in [Level -> FrameType] /\ SameBut(l, pc')
  BY <1>1, Rejects, Skips
<1>3. SearchesSame(l)
  BY <1>1, RejectsInPlace
<1> QED
  BY <1>2, <1>3, SearchOnDomain

LEMMA OnTheWayDomain ==
  ASSUME FirstnInv, DomainInv, NEW item, DrawsBucketOnTheWay(item)
  PROVE  DomainInv'
<1>1. /\ level \in Level /\ frame \in [Level -> FrameType] /\ F = frame[level] /\ F.in \in Bucket
      /\ item \in Drawable(F.in) /\ item < 0 /\ BucketOf(item) \in Bucket
      /\ frame["top"] \in FrameType /\ frame["leaf"] \in FrameType
      /\ UNCHANGED <<call, level, pc, out, out2>>
      /\ frame' = [frame EXCEPT ![level].in = BucketOf(item)]
  BY Running, DrawStep DEF DrawsBucketOnTheWay, FirstnInv, TypeOK, Draw, CanDraw, F
<1>2. Below[BucketOf(item)] \subseteq Below[F.in]
  BY <1>1, BelowItems
<1>3. outpos' = outpos /\ frame'["top"].recurse_to_leaf = frame["top"].recurse_to_leaf
  BY <1>1 DEF outpos, FrameType, Level
<1>4. DevicesInDomains'
  BY <1>1, <1>3 DEF DomainInv, DevicesInDomains
<1>5. Searching'
  <2> SUFFICES ASSUME level = "leaf" PROVE Searching'
    BY <1>1 DEF Searching
  <2>1. /\ frame'["top"] = frame["top"] /\ frame'["leaf"].in = BucketOf(item)
        /\ frame'["leaf"].bucket = frame["leaf"].bucket
        /\ frame'["leaf"].outpos = frame["leaf"].outpos
    BY <1>1 DEF FrameType, Level
  <2> QED
    BY <1>1, <1>2, <2>1 DEF DomainInv, Searching
<1> QED
  BY <1>1, <1>3, <1>4, <1>5 DEF DomainInv

LEMMA BucketDomain ==
  ASSUME FirstnInv, DomainInv, NEW item, DrawsBucket(item)
  PROVE  DomainInv'
<1>1. /\ frame \in [Level -> FrameType] /\ F.outpos = outpos /\ outpos \in Nat
      /\ item \in Int /\ BucketOf(item) \in Bucket /\ call \in Calls
      /\ R \in Nat /\ F \in FrameType
      /\ UNCHANGED <<call, out, out2>> /\ level' = "leaf"
      /\ frame' = [frame EXCEPT !["top"].item = item, !["leaf"] = LeafFrame(F, item, R)]
  BY Running, DrawStep DEF DrawsBucket, FirstnInv, TypeOK
<1> DEFINE new == LeafFrame(F, item, R)
<1>2. /\ new.bucket = BucketOf(item) /\ new.in = BucketOf(item) /\ new.outpos = outpos
  BY <1>1 DEF LeafFrame, Frame
<1> HIDE DEF new
<1>3. /\ frame'["leaf"] = new /\ frame'["top"].item = item
      /\ frame'["top"].outpos = outpos
      /\ frame'["top"].recurse_to_leaf = frame["top"].recurse_to_leaf
  BY <1>1 DEF new, FrameType, Level, outpos
<1>4. outpos' = outpos
  BY <1>3 DEF outpos
<1>5. DevicesInDomains'
  BY <1>1, <1>4 DEF DomainInv, DevicesInDomains
<1>6. Searching'
  <2>1. BucketOf(item) = new.bucket /\ new.in = new.bucket /\ ~(new.outpos > outpos)
    BY <1>1, <1>2
  <2> QED
    BY <1>1, <1>3, <2>1 DEF Searching
<1> QED
  BY <1>1, <1>3, <1>5, <1>6 DEF DomainInv

(* An accepted device: at the top it is the item itself, in the inner call *)
(* it lies below the bucket that is searched.                              *)
LEMMA DeviceDomain ==
  ASSUME FirstnInv, DomainInv, NEW item, DrawsDevice(item)
  PROVE  DomainInv'
<1>1. /\ Draw(item) /\ Wanted(item) /\ item >= 0 /\ UNCHANGED level
      /\ out2' = out2 \/ out2' = [out2 EXCEPT ![F.outpos] = item]
  BY DEF DrawsDevice
<1>2. /\ item \in Int /\ pc = "draw" /\ UNCHANGED <<call, rejected>> /\ item \in Drawable(F.in)
  BY <1>1, DrawStep DEF Draw, CanDraw
<1>3. /\ level \in Level /\ F = frame[level] /\ F.count > 0 /\ F.in \in Bucket
      /\ F.outpos = outpos /\ outpos < OutSize /\ outpos \in Nat /\ OutSize \in Nat
      /\ F \in FrameType /\ frame["top"] \in FrameType /\ frame["leaf"] \in FrameType
      /\ out \in Array /\ out2 \in Array /\ frame \in [Level -> FrameType]
  BY <1>2, Running DEF F, FirstnInv, TypeOK
<1>4. item \in Below[F.in]
  BY <1>1, <1>2, <1>3, BelowItems
<1>5. \A i \in 0 .. outpos - 1 : out2'[i] = out2[i]
  BY <1>1, <1>3 DEF Array
<1>6. CASE IsOut(rejected, item)
  <2>1. Reject(level, FALSE) /\ UNCHANGED out
    BY <1>6 DEF DrawsDevice
  <2>2. F.recurse_to_leaf \/ out2' = out2
    BY <1>6 DEF DrawsDevice
  <2>3. CASE level = "top"
    BY <1>1, <1>2, <1>3, <1>5, <2>1, <2>3, RejectDomain
  <2>4. CASE level = "leaf"
    <3>1. frame'["top"] = frame["top"] /\ outpos' = outpos
      BY <1>3, <2>1, <2>4, Rejects DEF FirstnInv, SameBut, Level, outpos
    <3>2. SearchesSame("leaf") /\ SameBut("leaf", pc')
      BY <1>3, <2>1, <2>4, Rejects, RejectsInPlace DEF FirstnInv
    <3>3. DevicesInDomains'
      BY <1>2, <1>5, <2>1, <3>1 DEF DomainInv, DevicesInDomains
    <3>4. frame["leaf"].outpos = outpos
      BY <1>3, <2>4
    <3>5. Searching'
      BY <1>1, <1>3, <2>4, <3>1, <3>2, <3>4
      DEF DomainInv, Searching, SearchesSame, SameBut, FrameType, outpos
    <3> QED
      BY <1>2, <3>1, <3>3, <3>5 DEF DomainInv
  <2> QED
    BY <1>3, <2>3, <2>4 DEF Level
<1>7. CASE ~IsOut(rejected, item)
  <2>1. Accept(level, item)
    BY <1>7 DEF DrawsDevice
  <2>2. /\ frame'[level].outpos = outpos + 1
        /\ \A k \in Level : k # level => frame'[k] = frame[k]
    BY <1>2, <1>3, <2>1, Accepts
  <2>3. /\ frame'[level].recurse_to_leaf = frame[level].recurse_to_leaf
        /\ frame'[level].in = frame[level].in /\ frame'[level].bucket = frame[level].bucket
    BY <1>3, <2>1 DEF Accept, FrameType
  <2>4. CASE level = "top"
    <3>1. /\ call.type = 0 /\ outpos' = outpos + 1 /\ out' = [out EXCEPT ![outpos] = item]
      BY <1>1, <1>2, <1>3, <2>1, <2>2, <2>4, Running, MapAssumption
      DEF outpos, Accept, Wanted, TypeOf, WellFormed
    <3>2. /\ out'[outpos] = item /\ \A i \in 0 .. outpos - 1 : out'[i] = out[i]
      BY <1>2, <1>3, <3>1 DEF Array
    <3>3. call.recurse_to_leaf => out2'[outpos] = item
      <4>1. F.recurse_to_leaf = call.recurse_to_leaf
        BY <1>3, <2>4 DEF DomainInv
      <4>2. F.recurse_to_leaf => out2' = [out2 EXCEPT ![F.outpos] = item]
        BY DEF DrawsDevice
      <4> QED
        BY <1>2, <1>3, <4>1, <4>2 DEF Array
    <3>4. \A i \in 0 .. outpos' - 1 : i \in 0 .. outpos - 1 \/ i = outpos
      BY <1>3, <3>1
    <3>5. DevicesInDomains'
      BY <1>2, <1>5, <3>1, <3>2, <3>3, <3>4 DEF DomainInv, DevicesInDomains
    <3> QED
      BY <1>1, <1>2, <2>3, <2>4, <3>5 DEF DomainInv, Searching
  <2>5. CASE level = "leaf"
    <3>1. frame'["top"] = frame["top"] /\ outpos' = outpos /\ out' = out
          /\ frame["top"].outpos = outpos
      BY <2>1, <2>2, <2>5 DEF outpos, Accept, Level
    <3>2. out2'[outpos] = item
      BY <1>2, <1>3, <1>7, <2>5 DEF DrawsDevice, Array
    <3>3. DevicesInDomains'
      BY <1>2, <1>5, <3>1 DEF DomainInv, DevicesInDomains
    <3>4. Searching'
      BY <1>1, <1>3, <1>4, <2>3, <2>5, <3>1, <3>2 DEF DomainInv, Searching
    <3> QED
      BY <1>2, <3>1, <3>3, <3>4 DEF DomainInv
  <2> QED
    BY <1>3, <2>4, <2>5 DEF Level
<1> QED
  BY <1>6, <1>7

LEMMA FoundDomain ==
  ASSUME FirstnInv, DomainInv, LeafFound
  PROVE  DomainInv'
<1> DEFINE top == frame["top"]
<1>1. /\ level = "leaf" /\ level' = "top" /\ Accept("top", top.item)
      /\ frame["leaf"].outpos > top.outpos
      /\ UNCHANGED <<call, rejected, drawn, out2>>
  BY DEF LeafFound
<1>2. /\ InLeaf /\ call.type # 0 /\ outpos = top.outpos /\ outpos \in Nat /\ OutSize \in Nat
      /\ top \in FrameType /\ frame["leaf"] \in FrameType /\ frame \in [Level -> FrameType]
      /\ out \in Array
  BY <1>1, Running DEF FirstnInv, TypeOK, Control, InLeaf, outpos
<1>3. out2[outpos] \in Below[BucketOf(top.item)]
  BY <1>1, <1>2 DEF DomainInv, Searching
<1>4. outpos < OutSize /\ top.count > 0 /\ top.item \in Int
  BY <1>2 DEF FirstnInv, Control, InLeaf, FrameType
<1>5. frame'["top"].outpos = outpos + 1
  BY <1>1, <1>2, <1>4, Accepts DEF Level
<1>6. outpos' = outpos + 1 /\ out' = [out EXCEPT ![outpos] = top.item]
  BY <1>1, <1>5 DEF outpos, Accept
<1>7. out'[outpos] = top.item /\ \A i \in 0 .. outpos - 1 : out'[i] = out[i]
  BY <1>2, <1>4, <1>6 DEF Array
<1>8. \A i \in 0 .. outpos' - 1 : i \in 0 .. outpos - 1 \/ i = outpos
  BY <1>2, <1>6
<1>9. DevicesInDomains'
  BY <1>1, <1>2, <1>3, <1>7, <1>8 DEF DomainInv, DevicesInDomains
<1>10. frame'["top"].recurse_to_leaf = top.recurse_to_leaf
  BY <1>1, <1>2 DEF Accept, FrameType, Level
<1> QED
  BY <1>1, <1>9, <1>10 DEF DomainInv, Searching

LEMMA StillDomain ==
  ASSUME FirstnInv, DomainInv, Return \/ UNCHANGED vars
  PROVE  DomainInv'
<1>1. UNCHANGED <<call, frame, level, out, out2>> /\ outpos' = outpos
  BY DEF Return, vars, outpos
<1> QED
  BY <1>1 DEF DomainInv, DevicesInDomains, Searching

LEMMA NextDomain ==
  ASSUME FirstnInv, DomainInv, [Next]_vars
  PROVE  DomainInv'
<1>1. level \in Level /\ "top" \in Level /\ TRUE \in BOOLEAN /\ FALSE \in BOOLEAN
  BY DEF FirstnInv, TypeOK, Level
<1>2. CASE EmptyBucket
  BY <1>1, <1>2, RejectDomain DEF EmptyBucket
<1>3. CASE LeafMissing
  BY <1>1, <1>3, RejectDomain DEF LeafMissing
<1>4. ASSUME NEW item, DrawsUseless(item) \/ DrawsTaken(item) PROVE DomainInv'
  <2>1. UNCHANGED <<call, level, out, out2>> /\ (Skip(level) \/ Reject(level, TRUE))
    BY <1>4, DrawStep DEF DrawsUseless, DrawsTaken
  <2> QED
    BY <1>1, <2>1, RejectDomain
<1> QED
  BY <1>2, <1>3, <1>4, NextReplicaDomain, OnTheWayDomain, BucketDomain, DeviceDomain,
     FoundDomain, StillDomain
  DEF Next

(* The device of a replica lies below the item chosen for it, however deep *)
(* the tree and however often the inner call has started anew (the         *)
(* recursive call of crush_choose_firstn and its descent).                 *)
THEOREM DevicesBelowDomains == Spec => []DevicesInDomains
<1>1. FirstnInv /\ DomainInv /\ [Next]_vars => DomainInv'
  BY NextDomain
<1>2. DomainInv => DevicesInDomains
  BY DEF DomainInv
<1> QED
  BY <1>1, <1>2, InitDomain, FirstnInvariant, PTL DEF Spec
-----------------------------------------------------------------------------
(* The function comes to an end                                            *)

Left(n) == IF n > 0 THEN n ELSE 0

(* What the call at level l has before it: the replicas it looks for, and  *)
(* for the one it looks for its attempts, the way down to a device and the *)
(* draws from the bucket it is in.                                         *)
Replicas(l) ==
  2 * Left(frame[l].numrep - frame[l].rep) + IF level = l /\ pc = "rep" THEN 1 ELSE 0
Attempts(l) == Left(frame[l].tries - frame[l].ftotal)
WayDown(l) == MaxBuckets - frame[l].in
LocalTries(l) ==
  Left((call.local_retries + Len(Items[frame[l].in]) + call.local_fallback_retries)
       - frame[l].flocal)

(* The outer call's part comes first: while the inner call runs, the outer *)
(* one stands still.                                                       *)
Measure ==
  <<Replicas("top"), Attempts("top"), WayDown("top"), LocalTries("top"),
    IF level = "top" THEN 1 ELSE 0,
    Replicas("leaf"), Attempts("leaf"), WayDown("leaf"), LocalTries("leaf")>>

Measures == [1 .. 9 -> Nat]
(* A step of the call at level l that lowers what lies before it.          *)
Fewer4(a, b, c, d, p, q, r, s) ==
  \/ p < a
  \/ p = a /\ q < b
  \/ p = a /\ q = b /\ r < c
  \/ p = a /\ q = b /\ r = c /\ s < d

Advances(l) ==
  Fewer4(Replicas(l), Attempts(l), WayDown(l), LocalTries(l),
         Replicas(l)', Attempts(l)', WayDown(l)', LocalTries(l)')

Stands(l) ==
  /\ Replicas(l)' = Replicas(l) /\ Attempts(l)' = Attempts(l)
  /\ WayDown(l)' = WayDown(l) /\ LocalTries(l)' = LocalTries(l)

LEMMA LeftNat == \A n \in Int : Left(n) \in Nat
  BY DEF Left

LEMMA Numbers ==
  ASSUME TypeOK, NEW l \in Level
  PROVE  /\ Replicas(l) \in Nat /\ Attempts(l) \in Nat /\ WayDown(l) \in Nat
         /\ LocalTries(l) \in Nat
<1>1. /\ frame[l].numrep \in Nat /\ frame[l].rep \in Nat /\ frame[l].tries \in Nat
      /\ frame[l].ftotal \in Nat /\ frame[l].flocal \in Nat /\ frame[l].in \in Bucket
      /\ call.local_retries \in Nat /\ call.local_fallback_retries \in Nat
  BY Arguments DEF TypeOK, FrameType, Argument
<1>2. MaxBuckets \in Nat /\ Items[frame[l].in] \in Seq(Int)
  BY <1>1, MapAssumption DEF WellFormed
<1>3. Len(Items[frame[l].in]) \in Nat
  BY <1>2
<1>4. WayDown(l) \in Nat
  BY <1>1, <1>2 DEF WayDown, Bucket
<1>5. Replicas(l) \in Nat
  BY <1>1, LeftNat DEF Replicas
<1>6. Attempts(l) \in Nat
  BY <1>1, LeftNat DEF Attempts
<1>7. LocalTries(l) \in Nat
  <2> DEFINE n == (call.local_retries + Len(Items[frame[l].in]) + call.local_fallback_retries)
                  - frame[l].flocal
  <2>1. n \in Int
    BY <1>1, <1>3
  <2> HIDE DEF n
  <2>2. Left(n) \in Nat
    BY <2>1, LeftNat
  <2> QED
    BY <2>2 DEF LocalTries, n
<1> QED
  BY <1>4, <1>5, <1>6, <1>7

LEMMA MeasureTyped ==
  ASSUME TypeOK
  PROVE  Measure \in Measures
<1>1. "top" \in Level /\ "leaf" \in Level
  BY DEF Level
<1> QED
  BY <1>1, Numbers DEF Measure, Measures

LEMMA Lowered ==
  ASSUME TypeOK, TypeOK',
         \/ Advances("top")
         \/ Stands("top") /\ level = "top" /\ level' # "top"
         \/ Stands("top") /\ (level = "top" <=> level' = "top") /\ Advances("leaf")
  PROVE  Lower(Measure', Measure, 9)
<1>1. Measure \in Measures /\ (Measure \in Measures)'
  BY MeasureTyped, PTL
<1>2. "top" \in Level /\ "leaf" \in Level
  BY DEF Level
<1>3. /\ Measure[1] = Replicas("top") /\ Measure[2] = Attempts("top")
      /\ Measure[3] = WayDown("top") /\ Measure[4] = LocalTries("top")
      /\ Measure[5] = IF level = "top" THEN 1 ELSE 0
      /\ Measure[6] = Replicas("leaf") /\ Measure[7] = Attempts("leaf")
      /\ Measure[8] = WayDown("leaf") /\ Measure[9] = LocalTries("leaf")
  BY DEF Measure
<1>4. /\ Measure'[1] = Replicas("top")' /\ Measure'[2] = Attempts("top")'
      /\ Measure'[3] = WayDown("top")' /\ Measure'[4] = LocalTries("top")'
      /\ Measure'[5] = IF level' = "top" THEN 1 ELSE 0
      /\ Measure'[6] = Replicas("leaf")' /\ Measure'[7] = Attempts("leaf")'
      /\ Measure'[8] = WayDown("leaf")' /\ Measure'[9] = LocalTries("leaf")'
  BY DEF Measure
<1> DEFINE m == Measure
           n == Measure'
<1>5. \E j \in 1 .. 9 : n[j] < m[j] /\ \A i \in 1 .. j - 1 : n[i] = m[i]
  <2>1. CASE Advances("top")
    <3>1. \/ n[1] < m[1]
          \/ n[1] = m[1] /\ n[2] < m[2]
          \/ n[1] = m[1] /\ n[2] = m[2] /\ n[3] < m[3]
          \/ n[1] = m[1] /\ n[2] = m[2] /\ n[3] = m[3] /\ n[4] < m[4]
      BY <1>3, <1>4, <2>1, Zenon DEF Advances, Fewer4
    <3> HIDE DEF m, n
    <3> QED
      BY <3>1
  <2>2. ASSUME Stands("top")
        PROVE  n[1] = m[1] /\ n[2] = m[2] /\ n[3] = m[3] /\ n[4] = m[4]
    BY <1>3, <1>4, <2>2, Zenon DEF Stands
  <2>3. CASE Stands("top") /\ level = "top" /\ level' # "top"
    <3>1. n[5] < m[5]
      BY <1>3, <1>4, <2>3
    <3> HIDE DEF m, n
    <3> QED
      BY <2>2, <2>3, <3>1
  <2>4. CASE Stands("top") /\ (level = "top" <=> level' = "top") /\ Advances("leaf")
    <3>1. n[5] = m[5]
      BY <1>3, <1>4, <2>4
    <3>2. \/ n[6] < m[6]
          \/ n[6] = m[6] /\ n[7] < m[7]
          \/ n[6] = m[6] /\ n[7] = m[7] /\ n[8] < m[8]
          \/ n[6] = m[6] /\ n[7] = m[7] /\ n[8] = m[8] /\ n[9] < m[9]
      BY <1>3, <1>4, <2>4, Zenon DEF Advances, Fewer4
    <3> HIDE DEF m, n
    <3> QED
      BY <2>2, <2>4, <3>1, <3>2
  <2> QED
    BY <2>1, <2>3, <2>4
<1> QED
  BY <1>5 DEF Lower

(* The locals of the call at level l, with the types that count here.      *)
LEMMA Counters ==
  ASSUME TypeOK, NEW l \in Level
  PROVE  /\ frame[l] \in FrameType /\ frame \in [Level -> FrameType]
         /\ frame[l].numrep \in Nat /\ frame[l].rep \in Nat /\ frame[l].tries \in Nat
         /\ frame[l].ftotal \in Nat /\ frame[l].flocal \in Nat /\ frame[l].in \in Bucket
         /\ frame[l].in \in Nat /\ MaxBuckets \in Nat
         /\ call.local_retries \in Nat /\ call.local_fallback_retries \in Nat
         /\ Len(Items[frame[l].in]) \in Nat
<1>1. /\ frame[l] \in FrameType /\ frame[l].in \in Bucket
      /\ call.local_retries \in Nat /\ call.local_fallback_retries \in Nat
  BY Arguments DEF TypeOK, FrameType, Argument
<1>2. MaxBuckets \in Nat /\ Items[frame[l].in] \in Seq(Int)
  BY <1>1, MapAssumption DEF WellFormed
<1>3. Len(Items[frame[l].in]) \in Nat
  BY <1>2
<1> QED
  BY <1>1, <1>2, <1>3 DEF TypeOK, FrameType, Bucket

(* Going on to the next replica. *)
LEMMA NextAdvances ==
  ASSUME TypeOK, TypeOK', NEW l \in Level, ~(level = l /\ pc = "rep"),
         frame[l].rep < frame[l].numrep,
         frame'[l].rep = frame[l].rep + 1, frame'[l].numrep = frame[l].numrep
  PROVE  Advances(l)
<1>1. frame[l].rep \in Nat /\ frame[l].numrep \in Nat
  BY Counters
<1>2. Replicas(l) = 2 * (frame[l].numrep - frame[l].rep)
  BY <1>1 DEF Replicas, Left
<1>3. Replicas(l)' <= 2 * (frame[l].numrep - frame[l].rep - 1) + 1
  BY <1>1 DEF Replicas, Left
<1>4. Replicas(l) \in Nat /\ (Replicas(l) \in Nat)'
  BY Numbers, PTL
<1>5. Replicas(l)' < Replicas(l)
  BY <1>1, <1>2, <1>3, <1>4
<1> QED
  BY <1>5 DEF Advances, Fewer4

(* A failed attempt. *)
LEMMA RejectAdvances ==
  ASSUME TypeOK, TypeOK', NEW l \in Level, NEW collide \in BOOLEAN, Reject(l, collide),
         ~(level = l /\ pc = "rep"), frame[l].rep < frame[l].numrep, UNCHANGED call
  PROVE  Advances(l)
<1> DEFINE f == frame[l]
           g == frame'[l]
           bound == call.local_retries + Len(Items[f.in]) + call.local_fallback_retries
<1>1. /\ frame \in [Level -> FrameType] /\ f \in FrameType
      /\ f.tries \in Nat /\ f.ftotal \in Nat /\ f.flocal \in Nat
      /\ f.rep \in Nat /\ f.numrep \in Nat
      /\ call.local_retries \in Nat /\ call.local_fallback_retries \in Nat
      /\ Len(Items[f.in]) \in Nat
  BY Counters
<1>2. CASE TryBucket(l, collide)
  <2>1. /\ g.ftotal = f.ftotal + 1 /\ g.flocal = f.flocal + 1 /\ g.in = f.in /\ pc' = "draw"
        /\ g.rep = f.rep /\ g.numrep = f.numrep /\ g.tries = f.tries
    BY <1>1, <1>2 DEF TryBucket, FrameType
  <2>2. f.flocal + 1 <= bound
    <3>1. \/ f.flocal + 1 <= call.local_retries
          \/ f.flocal + 1 <= Len(Items[f.in]) + call.local_fallback_retries
      BY <1>2, Zenon DEF TryBucket, RetriesBucket
    <3>2. ASSUME NEW m \in Nat, NEW n \in Nat, NEW k \in Nat, NEW j \in Nat,
                 j + 1 <= m \/ j + 1 <= n + k
          PROVE  j + 1 <= m + n + k
      BY <3>2
    <3> QED
      BY <1>1, <3>1, <3>2, Zenon
  <2>3. Replicas(l)' = Replicas(l)
    BY <2>1 DEF Replicas
  <2>4. Attempts(l)' <= Attempts(l)
    BY <1>1, <2>1 DEF Attempts, Left
  <2>5. WayDown(l)' = WayDown(l)
    BY <2>1 DEF WayDown
  <2>6. LocalTries(l) = bound - f.flocal /\ LocalTries(l)' = Left(bound - (f.flocal + 1))
    <3>1. LocalTries(l) = Left(bound - f.flocal)
      BY DEF LocalTries
    <3>2. LocalTries(l)' = Left(bound - (f.flocal + 1))
      BY <2>1 DEF LocalTries
    <3> HIDE DEF bound
    <3>3. Left(bound - f.flocal) = bound - f.flocal
      <4>1. bound \in Int
        BY <1>1 DEF bound
      <4> QED
        BY <1>1, <2>2, <4>1 DEF Left
    <3> QED
      BY <3>1, <3>2, <3>3
  <2>7. bound \in Nat
    BY <1>1
  <2> HIDE DEF bound
  <2>8. LocalTries(l)' < LocalTries(l)
    BY <1>1, <2>2, <2>6, <2>7 DEF Left
  <2>9. Attempts(l) \in Nat /\ (Attempts(l) \in Nat)'
    BY Numbers, PTL
  <2>10. Attempts(l)' < Attempts(l) \/ Attempts(l)' = Attempts(l)
    BY <2>4, <2>9
  <2> QED
    BY <2>3, <2>5, <2>8, <2>10, Zenon DEF Advances, Fewer4
<1>3. CASE TryDescent(l, collide)
  <2>1. /\ g.ftotal = f.ftotal + 1 /\ pc' = "draw"
        /\ g.rep = f.rep /\ g.numrep = f.numrep /\ g.tries = f.tries
    BY <1>1, <1>3 DEF TryDescent, FrameType
  <2>2. f.ftotal + 1 < f.tries
    BY <1>3 DEF TryDescent
  <2>3. Replicas(l)' = Replicas(l)
    BY <2>1 DEF Replicas
  <2>4. Attempts(l)' < Attempts(l)
    BY <1>1, <2>1, <2>2 DEF Attempts, Left
  <2> QED
    BY <2>3, <2>4, Zenon DEF Advances, Fewer4
<1>4. CASE GiveUp(l, collide)
  <2>1. g.rep = f.rep + 1 /\ g.numrep = f.numrep
    BY <1>1, <1>4 DEF GiveUp, Skip, FrameType
  <2> QED
    BY <2>1, NextAdvances
<1> QED
  BY <1>2, <1>3, <1>4 DEF Reject

(* The part of a call that does not move. *)
LEMMA Unmoved ==
  ASSUME TypeOK, NEW l \in Level, UNCHANGED call,
         frame'[l] = frame[l] \/ frame'[l] = [frame[l] EXCEPT !.item = frame'[l].item],
         (level = l /\ pc = "rep") <=> (level' = l /\ pc' = "rep")
  PROVE  Stands(l)
<1>1. /\ frame'[l].numrep = frame[l].numrep /\ frame'[l].rep = frame[l].rep
      /\ frame'[l].tries = frame[l].tries /\ frame'[l].ftotal = frame[l].ftotal
      /\ frame'[l].flocal = frame[l].flocal /\ frame'[l].in = frame[l].in
  BY Counters DEF FrameType
<1> QED
  BY <1>1 DEF Stands, Replicas, Attempts, WayDown, LocalTries

(* It is enough that the call that runs advances. *)
LEMMA LevelAdvances ==
  ASSUME FirstnInv, FirstnInv', level' = level, UNCHANGED call, Advances(level),
         \A k \in Level : k # level => frame'[k] = frame[k]
  PROVE  Lower(Measure', Measure, 9)
<1>1. level \in Level /\ "top" \in Level /\ TypeOK /\ TypeOK'
  BY DEF FirstnInv, TypeOK, Level
<1>2. CASE level = "top"
  BY <1>1, <1>2, Lowered
<1>3. CASE level = "leaf"
  <2>1. Stands("top")
    BY <1>1, <1>3, Unmoved
  <2> QED
    BY <1>1, <1>3, <2>1, Lowered
<1> QED
  BY <1>1, <1>2, <1>3 DEF Level

(* What a step leaves alone of the other call. *)
LEMMA OtherStands ==
  ASSUME TypeOK, NEW l \in Level, NEW collide \in BOOLEAN,
         Reject(l, collide) \/ Skip(l)
  PROVE  \A k \in Level : k # l => frame'[k] = frame[k]
  BY Rejects, Skips DEF SameBut

LEMMA NextReplicaLowers ==
  ASSUME FirstnInv, FirstnInv', NextReplica
  PROVE  Lower(Measure', Measure, 9)
<1>1. /\ level \in Level /\ TypeOK /\ TypeOK' /\ pc = "rep" /\ pc' = "draw"
      /\ level' = level /\ UNCHANGED call
      /\ frame' = [frame EXCEPT ![level].ftotal = 0, ![level].flocal = 0,
                                ![level].in = F.bucket]
  BY DEF NextReplica, FirstnInv, TypeOK
<1>2. frame \in [Level -> FrameType] /\ frame[level] \in FrameType
      /\ frame[level].rep \in Nat /\ frame[level].numrep \in Nat
  BY <1>1, Counters
<1>3. /\ frame'[level].numrep = frame[level].numrep /\ frame'[level].rep = frame[level].rep
      /\ \A k \in Level : k # level => frame'[k] = frame[k]
  BY <1>1, <1>2 DEF FrameType
<1> DEFINE n == 2 * Left(frame[level].numrep - frame[level].rep)
<1>4. Replicas(level) = n + 1 /\ Replicas(level)' = n + 0
  BY <1>1, <1>3 DEF Replicas
<1>5. n \in Nat
  BY <1>2, LeftNat
<1> HIDE DEF n
<1>6. Replicas(level)' < Replicas(level)
  BY <1>4, <1>5
<1>7. Advances(level)
  BY <1>1, <1>6 DEF Advances, Fewer4
<1> QED
  BY <1>1, <1>3, <1>7, LevelAdvances

LEMMA FailureLowers ==
  ASSUME FirstnInv, FirstnInv', NEW collide \in BOOLEAN, pc = "draw",
         Reject(level, collide) \/ Skip(level), level' = level, UNCHANGED call
  PROVE  Lower(Measure', Measure, 9)
<1>1. /\ level \in Level /\ TypeOK /\ TypeOK' /\ frame[level].rep < frame[level].numrep
  BY Running DEF FirstnInv, TypeOK, F
<1>2. \A k \in Level : k # level => frame'[k] = frame[k]
  BY <1>1, OtherStands
<1>3. CASE Reject(level, collide)
  BY <1>1, <1>2, <1>3, RejectAdvances, LevelAdvances
<1>4. CASE Skip(level)
  <2>1. frame'[level].rep = frame[level].rep + 1 /\ frame'[level].numrep = frame[level].numrep
    BY <1>1, <1>4, Counters DEF Skip, FrameType
  <2> QED
    BY <1>1, <1>2, <2>1, NextAdvances, LevelAdvances
<1> QED
  BY <1>3, <1>4

(* A reference leads further from the root. *)
LEMMA Deeper ==
  ASSUME NEW b \in Bucket, NEW item \in Drawable(b), item < 0
  PROVE  BucketOf(item) \in Nat /\ b < BucketOf(item)
<1>1. /\ MaxBuckets \in Nat \ {0} /\ Items[b] \in Seq(Int)
      /\ \A i \in 1 .. Len(Items[b]) :
           Items[b][i] < 0 => BucketOf(Items[b][i]) \in b + 1 .. MaxBuckets - 1
  BY MapAssumption DEF WellFormed
<1>2. PICK i \in 1 .. Len(Items[b]) : item = Items[b][i]
  BY <1>1 DEF Drawable
<1>3. BucketOf(item) \in b + 1 .. MaxBuckets - 1 /\ b \in Nat
  BY <1>1, <1>2 DEF Bucket
<1> QED
  BY <1>1, <1>3

LEMMA OnTheWayLowers ==
  ASSUME FirstnInv, FirstnInv', NEW item, DrawsBucketOnTheWay(item)
  PROVE  Lower(Measure', Measure, 9)
<1>1. /\ level \in Level /\ TypeOK /\ TypeOK' /\ level' = level /\ UNCHANGED <<call, pc>>
      /\ F.in \in Bucket /\ item \in Drawable(F.in) /\ item < 0
      /\ frame' = [frame EXCEPT ![level].in = BucketOf(item)]
  BY Running DEF DrawsBucketOnTheWay, Draw, CanDraw, FirstnInv, TypeOK
<1>2. frame \in [Level -> FrameType] /\ frame[level] \in FrameType /\ MaxBuckets \in Nat
      /\ frame[level].in \in Nat
  BY <1>1, Counters
<1>3. /\ frame'[level].numrep = frame[level].numrep /\ frame'[level].rep = frame[level].rep
      /\ frame'[level].tries = frame[level].tries /\ frame'[level].ftotal = frame[level].ftotal
      /\ frame'[level].in = BucketOf(item)
      /\ \A k \in Level : k # level => frame'[k] = frame[k]
  BY <1>1, <1>2 DEF FrameType
<1>4. BucketOf(item) \in Nat /\ frame[level].in < BucketOf(item)
  BY <1>1, Deeper DEF F
<1>5. Replicas(level)' = Replicas(level) /\ Attempts(level)' = Attempts(level)
  BY <1>1, <1>3 DEF Replicas, Attempts
<1>6. WayDown(level)' < WayDown(level)
  <2>1. WayDown(level)' = MaxBuckets - BucketOf(item)
    BY <1>1, <1>3 DEF WayDown
  <2>2. WayDown(level) = MaxBuckets - frame[level].in
    BY DEF WayDown
  <2> QED
    BY <1>2, <1>4, <2>1, <2>2
<1>7. Advances(level)
  BY <1>1, <1>5, <1>6 DEF Advances, Fewer4
<1> QED
  BY <1>1, <1>3, <1>7, LevelAdvances

(* The inner call starts: the outer one is where it was. *)
LEMMA BucketLowers ==
  ASSUME FirstnInv, FirstnInv', NEW item, DrawsBucket(item)
  PROVE  Lower(Measure', Measure, 9)
<1>1. /\ TypeOK /\ TypeOK' /\ UNCHANGED call /\ pc = "draw" /\ level' = "leaf" /\ pc' = "rep"
      /\ frame' = [frame EXCEPT !["top"].item = item, !["leaf"] = LeafFrame(F, item, R)]
      /\ frame \in [Level -> FrameType] /\ "top" \in Level /\ "leaf" \in Level
  BY DEF DrawsBucket, Draw, FirstnInv, TypeOK, Level
<1>2. level = "top"
  <2>1. F.type # 0
    BY DrawStep DEF DrawsBucket, Wanted
  <2>2. ASSUME level = "leaf" PROVE FALSE
    <3>1. frame["leaf"].type = 0
      BY <2>2 DEF FirstnInv, Control, InLeaf
    <3> QED
      BY <2>1, <2>2, <3>1 DEF F
  <2> QED
    BY <1>1, <2>2 DEF TypeOK, Level
<1>3. /\ frame'["top"].numrep = frame["top"].numrep /\ frame'["top"].rep = frame["top"].rep
      /\ frame'["top"].tries = frame["top"].tries /\ frame'["top"].ftotal = frame["top"].ftotal
      /\ frame'["top"].flocal = frame["top"].flocal /\ frame'["top"].in = frame["top"].in
  BY <1>1 DEF FrameType
<1>4. Stands("top")
  BY <1>1, <1>3 DEF Stands, Replicas, Attempts, WayDown, LocalTries
<1> QED
  BY <1>1, <1>2, <1>4, Lowered

LEMMA AcceptLowers ==
  ASSUME FirstnInv, FirstnInv', NEW l \in Level, NEW item \in Int, Accept(l, item),
         ~(level = l /\ pc = "rep"), frame[l].rep < frame[l].numrep,
         frame[l].outpos < OutSize, frame[l].count > 0, UNCHANGED call,
         l = "top" \/ (l = level /\ level' = level)
  PROVE  Lower(Measure', Measure, 9)
<1>1. TypeOK /\ TypeOK' /\ level \in Level
  BY DEF FirstnInv, TypeOK
<1>2. /\ frame'[l].rep = frame[l].rep + 1 /\ frame'[l].numrep = frame[l].numrep
      /\ \A k \in Level : k # l => frame'[k] = frame[k]
  BY Accepts
<1>3. Advances(l)
  BY <1>1, <1>2, NextAdvances
<1> QED
  BY <1>1, <1>2, <1>3, LevelAdvances, Lowered

LEMMA DeviceLowers ==
  ASSUME FirstnInv, FirstnInv', NEW item, DrawsDevice(item)
  PROVE  Lower(Measure', Measure, 9)
<1>1. /\ level \in Level /\ pc = "draw" /\ UNCHANGED call /\ level' = level /\ item \in Int
      /\ F = frame[level] /\ F.count > 0 /\ F.rep < F.numrep
      /\ F.outpos < OutSize
  BY Running, DrawStep DEF DrawsDevice, F
<1>2. Reject(level, FALSE) \/ Accept(level, item)
  BY DEF DrawsDevice
<1> QED
  BY <1>1, <1>2, FailureLowers, AcceptLowers

(* The inner call is over: the outer one has a replica more, or a failed   *)
(* attempt.                                                                *)
LEMMA LeafLowers ==
  ASSUME FirstnInv, FirstnInv', LeafFound \/ LeafMissing
  PROVE  Lower(Measure', Measure, 9)
<1>1. /\ TypeOK /\ TypeOK' /\ level = "leaf" /\ level' = "top" /\ UNCHANGED call
      /\ "top" \in Level
  BY DEF LeafFound, LeafMissing, FirstnInv, TypeOK, Level
<1>2. /\ frame["top"].count > 0 /\ frame["top"].rep < frame["top"].numrep
      /\ frame["top"].outpos + frame["top"].count = OutSize
  BY <1>1 DEF FirstnInv, Control, InLeaf
<1>3. /\ frame["top"].item \in Int /\ frame["top"].outpos < OutSize
  BY <1>1, <1>2, CallAssumption DEF TypeOK, FrameType
<1>4. CASE LeafFound
  BY <1>1, <1>2, <1>3, <1>4, AcceptLowers DEF LeafFound
<1>5. CASE LeafMissing
  BY <1>1, <1>2, <1>5, RejectAdvances, Lowered DEF LeafMissing
<1> QED
  BY <1>4, <1>5

LEMMA ReturnLowers ==
  ASSUME FirstnInv, FirstnInv', Return
  PROVE  Lower(Measure', Measure, 9)
<1>1. /\ TypeOK /\ TypeOK' /\ level = "top" /\ level' = "top" /\ pc = "rep" /\ pc' = "done"
      /\ UNCHANGED <<call, frame>> /\ "top" \in Level
  BY DEF Return, AtEnd, FirstnInv, TypeOK, Level
<1> DEFINE n == 2 * Left(frame["top"].numrep - frame["top"].rep)
<1>2. Replicas("top") = n + 1 /\ Replicas("top")' = n + 0
  BY <1>1 DEF Replicas
<1>3. n \in Nat
  <2>1. frame["top"].numrep - frame["top"].rep \in Int
    BY <1>1, Counters
  <2> QED
    BY <2>1, LeftNat
<1> HIDE DEF n
<1>4. Advances("top")
  BY <1>2, <1>3 DEF Advances, Fewer4
<1> QED
  BY <1>1, <1>4, Lowered

LEMMA NextLowers ==
  ASSUME FirstnInv, FirstnInv', Next
  PROVE  Lower(Measure', Measure, 9)
<1>1. TRUE \in BOOLEAN /\ FALSE \in BOOLEAN
  OBVIOUS
<1>2. CASE EmptyBucket
  BY <1>1, <1>2, FailureLowers DEF EmptyBucket
<1>3. ASSUME NEW item, DrawsUseless(item) \/ DrawsTaken(item)
      PROVE  Lower(Measure', Measure, 9)
  BY <1>1, <1>3, DrawStep, FailureLowers DEF DrawsUseless, DrawsTaken
<1> QED
  BY <1>2, <1>3, NextReplicaLowers, OnTheWayLowers, BucketLowers, DeviceLowers, LeafLowers,
     ReturnLowers
  DEF Next

(* Every step of crush_choose_firstn lowers what it has before it: the     *)
(* replicas, the attempts for one of them (the reject paths with ftotal    *)
(* and flocal), the way down (the descent through in), and the same of its *)
(* recursive call.  By NoEndlessDescent the function takes finitely many   *)
(* steps, for every well-formed map and whatever is drawn and rejected.    *)
THEOREM EveryStepIsProgress ==
  Spec => /\ [](Measure \in Measures)
          /\ [][Lower(Measure', Measure, 9)]_vars
<1>1. FirstnInv => Measure \in Measures
  BY MeasureTyped DEF FirstnInv
<1>2. FirstnInv /\ FirstnInv' /\ [Next]_vars => [Lower(Measure', Measure, 9)]_vars
  BY NextLowers
<1> QED
  BY <1>1, <1>2, FirstnInvariant, PTL DEF Spec

(* The draws so far are a function of the bucket and of r, with items that *)
(* can be drawn there.                                                     *)
Consistent ==
  /\ \A d \in drawn : d[1] \in Bucket /\ d[3] \in Drawable(d[1])
  /\ \A d, e \in drawn : d[1] = e[1] /\ d[2] = e[2] => d[3] = e[3]

LEMMA ConsistentStep ==
  ASSUME FirstnInv, Consistent, [Next]_vars
  PROVE  Consistent'
<1>1. CASE UNCHANGED drawn
  BY <1>1 DEF Consistent
<1>2. ASSUME NEW item, Draw(item) PROVE Consistent'
  <2> DEFINE new == <<F.in, R, item>>
  <2>1. F.in \in Bucket
    BY Running
  <2>2. /\ drawn' = drawn \union {new} /\ item \in Drawable(F.in)
        /\ \A d \in drawn : d[1] = F.in /\ d[2] = R => d[3] = item
    BY <1>2 DEF Draw, CanDraw
  <2>3. new[1] = F.in /\ new[2] = R /\ new[3] = item
    OBVIOUS
  <2> HIDE DEF new
  <2>4. \A d \in drawn' : d[1] \in Bucket /\ d[3] \in Drawable(d[1])
    BY <2>1, <2>2, <2>3 DEF Consistent
  <2>5. \A d, e \in drawn' : d[1] = e[1] /\ d[2] = e[2] => d[3] = e[3]
    BY <2>2, <2>3 DEF Consistent
  <2> QED
    BY <2>4, <2>5 DEF Consistent
<1> QED
  BY <1>1, <1>2
  DEF Next, vars, NextReplica, EmptyBucket, LeafFound, LeafMissing, Return, DrawsUseless,
      DrawsBucketOnTheWay, DrawsTaken, DrawsBucket, DrawsDevice

(* A bucket with items has one that can be drawn, also where all its items *)
(* have weight 0 or the same draw was made before (bucket_straw2_choose    *)
(* always returns an item).                                                *)
CanGoOn == pc = "draw" /\ Items[F.in] # <<>> => \E item \in AnItem : CanDraw(drawn, F.in, R, item)

LEMMA SomethingDrawable ==
  ASSUME NEW b \in Bucket, Items[b] # <<>>
  PROVE  Drawable(b) # {}
<1>1. Items[b] \in Seq(Int)
  BY MapAssumption DEF WellFormed
<1>2. 1 \in 1 .. Len(Items[b])
  BY <1>1
<1> QED
  BY <1>2 DEF Drawable

(* The attempts never stop at a draw that cannot be made: with             *)
(* EveryStepIsProgress, the function goes on until it returns.             *)
THEOREM ADrawIsPossible == Spec => []CanGoOn
<1>1. Init => Consistent
  BY DEF Init, Consistent
<1>2. ASSUME FirstnInv, Consistent PROVE CanGoOn
  <2>1. F.in \in Bucket
    BY <1>2, Running
  <2>2. SUFFICES ASSUME Items[F.in] # <<>>
                 PROVE  \E item \in AnItem : CanDraw(drawn, F.in, R, item)
    BY DEF CanGoOn
  <2>3. PICK any \in Drawable(F.in) : TRUE
    BY <2>1, <2>2, SomethingDrawable
  <2>4. \A item \in Drawable(F.in) : item \in AnItem
    BY <2>1 DEF AnItem
  <2>5. CASE \E d \in drawn : d[1] = F.in /\ d[2] = R
    <3>1. PICK d \in drawn : d[1] = F.in /\ d[2] = R
      BY <2>5
    <3>2. d[3] \in Drawable(F.in)
      BY <1>2, <3>1 DEF Consistent
    <3>3. CanDraw(drawn, F.in, R, d[3])
      BY <1>2, <3>1, <3>2 DEF Consistent, CanDraw
    <3> QED
      BY <2>4, <3>2, <3>3
  <2>6. CASE ~ \E d \in drawn : d[1] = F.in /\ d[2] = R
    BY <2>3, <2>4, <2>6 DEF CanDraw
  <2> QED
    BY <2>5, <2>6
<1> QED
  BY <1>1, <1>2, ConsistentStep, FirstnInvariant, PTL DEF Spec
=============================================================================
