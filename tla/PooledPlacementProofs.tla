------------------------ MODULE PooledPlacementProofs ------------------------
(***************************************************************************)
(* Theorems about ParallelPlacement, for every number of replicas, objects *)
(* and attempts, every map and every content of a new array, and about     *)
(* PooledPlacement, which has the same threads as tasks, for any number of *)
(* workers.                                                                *)
(***************************************************************************)
EXTENDS PooledPlacement, Induction, FiniteSetTheorems, TLAPS

(* Abbreviations of the actions, expanded in every proof. *)
USE DEF callerVars, localVars

-----------------------------------------------------------------------------
(* The parallel placement: its inductive invariant                         *)

(* How far the threads of each object are, as the caller has left them:    *)
(* outpos counts the threads of the object that have reported.             *)
Progress ==
  /\ \A t \in Thread : t[1] < object => thread[t] = "done"
  /\ \A t \in Thread : t[1] > object => thread[t] = "none"
  /\ object = 0 => caller = "next"
  /\ caller = "launch" => launched < NumRep
  /\ caller = "spin" => launched = NumRep
  /\ allocated <=> caller # "next"
  /\ object > 0 => outpos = Cardinality(Reported)
  /\ \A t \in Thread : t[1] = object =>
       /\ thread[t] = "none" <=> t[2] >= launched
       /\ caller = "next" => thread[t] = "done"

(* What a thread knows about its item. *)
Chosen(t) ==
  /\ thread[t] \in {"none", "ready"} => ftotal[t] = 0
  /\ thread[t] \in {"none", "ready", "draw", "store"} => ~skipped[t]
  /\ thread[t] \in {"ready", "draw", "store"} => ftotal[t] < Tries
  /\ thread[t] = "store" => item[t] \in Device
  /\ t[1] = object /\ thread[t] \in {"report", "done"} /\ ~skipped[t]
       => item[t] \in Device \ rejected
  /\ t[1] = object /\ thread[t] = "done" => out[t[2]] = item[t]

(* The replicas that had reported at its test still are what they were. *)
Different(t) ==
  thread[t] \in {"store", "report", "done"} /\ t[1] = object /\ ~skipped[t] =>
    \A k \in sawReported[t] :
      thread[<<object, k>>] = "done" /\ item[t] # item[<<object, k>>]

(* Every attempt of the primary before the present one has failed. *)
Failed(i) == i < 0 \/ i \in rejected

PrimaryTried(t) ==
  t[1] = object /\ t[2] = 0 =>
    /\ \A r \in 0 .. ftotal[t] - 1 : \E d \in drawn : d[1] = r /\ Failed(d[2])
    /\ thread[t] \in {"store", "report", "done"} /\ ~skipped[t]
         => <<ftotal[t], item[t]>> \in drawn

OneDraw == \A d, e \in drawn : d[1] = e[1] => d[2] = e[2]

ParallelInv ==
  /\ TypeOK
  /\ Progress
  /\ \A t \in Thread : Chosen(t)
  /\ \A t \in Thread : Different(t)
  /\ OneDraw
  /\ \A t \in Thread : PrimaryTried(t)

-----------------------------------------------------------------------------
LEMMA Numbers ==
  /\ NumRep \in Nat \ {0} /\ Objects \in Nat /\ Tries \in Nat \ {0}
  /\ MaxDevices \in Nat /\ Stable \in BOOLEAN
  /\ Garbage \subseteq Int
  /\ \A o \in 1 .. Objects : Ends[o] \subseteq Int
  BY ParallelAssumption

(* Thread is a set of pairs. *)
LEMMA Pairs ==
  /\ \A t \in Thread : t = <<t[1], t[2]>> /\ t[1] \in Object /\ t[2] \in Replica
  /\ \A o \in Object, k \in Replica :
       <<o, k>> \in Thread /\ <<o, k>>[1] = o /\ <<o, k>>[2] = k
  BY DEF Thread

LEMMA ReplicaFinite == IsFiniteSet(Replica) /\ Cardinality(Replica) = NumRep
  BY Numbers, FS_Interval DEF Replica

(* All replicas are reported when outpos says so. *)
LEMMA AllCounted ==
  /\ Cardinality(Reported) \in 0 .. NumRep
  /\ Cardinality(Reported) = NumRep => Reported = Replica
<1>1. Reported \subseteq Replica
  BY DEF Reported
<1>2. IsFiniteSet(Reported) /\ Cardinality(Reported) <= Cardinality(Replica)
      /\ (Cardinality(Reported) = Cardinality(Replica) => Reported = Replica)
  BY <1>1, ReplicaFinite, FS_Subset
<1> QED
  BY <1>2, ReplicaFinite, FS_CardinalityType, Numbers

LEMMA InitParallel == Init => ParallelInv
<1> SUFFICES ASSUME Init PROVE ParallelInv
  OBVIOUS
<1> USE Numbers, Pairs
<1>1. TypeOK
  <2>1. skipped \in [Thread -> BOOLEAN]
    BY Zenon DEF Init
  <2>2. /\ object \in 0 .. Objects /\ drawn \subseteq Nat \X Int /\ rejected \subseteq Device
        /\ outpos \in 0 .. NumRep /\ launched \in 0 .. NumRep
        /\ caller \in {"next", "launch", "spin"}
    BY DEF Init
  <2>4. allocated \in BOOLEAN
    BY DEF Init
  <2>3. /\ out \in [Replica -> Int] /\ ftotal \in [Thread -> 0 .. Tries]
        /\ item \in [Thread -> Int] /\ sawReported \in [Thread -> SUBSET Replica]
        /\ thread \in [Thread -> {"none", "ready", "draw", "store", "report", "done"}]
    BY DEF Init
  <2> QED
    BY <2>1, <2>2, <2>3, <2>4 DEF TypeOK
<1>2. Progress
  BY DEF Init, Progress, Object
<1>3. \A t \in Thread : Chosen(t) /\ Different(t) /\ PrimaryTried(t)
  BY DEF Init, Chosen, Different, PrimaryTried
<1>4. OneDraw
  BY DEF Init, OneDraw
<1> QED
  BY <1>1, <1>2, <1>3, <1>4 DEF ParallelInv

-----------------------------------------------------------------------------
(* The caller                                                              *)

LEMMA NextObjectStep == ParallelInv /\ NextObject => ParallelInv'
<1> SUFFICES ASSUME ParallelInv, NextObject PROVE ParallelInv'
  OBVIOUS
<1> USE Numbers, Pairs
<1> USE DEF ParallelInv
<1>0. /\ thread' = thread
      /\ \A t \in Thread : thread[t] \in {"none", "done"}
      /\ \A t \in Thread : t[1] = object' => thread[t] = "none"
      /\ \A t \in Thread : t[1] < object' => thread[t] = "done"
      /\ object' = object + 1 /\ object \in Nat
  <2>1. object' = object + 1 /\ object \in Nat /\ thread' = thread
    BY DEF NextObject, TypeOK
  <2>2. \A t \in Thread : t[1] \in Nat
    BY DEF Object
  <2>3. /\ \A t \in Thread : t[1] <= object => thread[t] = "done"
        /\ \A t \in Thread : t[1] > object => thread[t] = "none"
    <3>1. \A t \in Thread : t[1] = object => thread[t] = "done"
      BY DEF NextObject, Progress
    <3>2. /\ \A t \in Thread : t[1] < object => thread[t] = "done"
          /\ \A t \in Thread : t[1] > object => thread[t] = "none"
      BY DEF Progress
    <3> QED
      BY <2>1, <2>2, <3>1, <3>2
  <2> QED
    BY <2>1, <2>2, <2>3
<1>1. TypeOK'
  <2>1. skipped' \in [Thread -> BOOLEAN]
    BY Zenon DEF NextObject, TypeOK
  <2>2. /\ object' \in 0 .. Objects /\ drawn' \subseteq Nat \X Int /\ rejected' \subseteq Device
        /\ allocated' \in BOOLEAN /\ outpos' \in 0 .. NumRep /\ launched' \in 0 .. NumRep
        /\ caller' \in {"next", "launch", "spin"} /\ out' \in [Replica -> Int]
    BY DEF NextObject, TypeOK
  <2>3. /\ ftotal' \in [Thread -> 0 .. Tries] /\ item' \in [Thread -> Int]
        /\ sawReported' \in [Thread -> SUBSET Replica]
    BY DEF NextObject, TypeOK
  <2> QED
    BY <2>1, <2>2, <2>3, <1>0 DEF TypeOK
<1>2. /\ \A t \in Thread : thread[t] = "done" => ~skipped'[t] /\ ftotal'[t] = 0
      /\ \A t \in Thread : thread[t] = "none" => ~skipped'[t] /\ ftotal'[t] = 0
  BY DEF NextObject, TypeOK, Chosen
<1>3. Reported' = {}
  BY <1>0, <1>1 DEF Reported, TypeOK, Object, NextObject
<1>4. Progress'
  <2>1. outpos' = 0 /\ Cardinality(Reported') = 0
    BY <1>3, FS_EmptySet DEF NextObject
  <2>2. \A t \in Thread : t[1] > object' => thread[t] = "none"
    BY <1>0 DEF Progress, Object
  <2> QED
    BY <1>0, <2>1, <2>2 DEF NextObject, Progress, Replica
<1>5. \A t \in Thread : Chosen(t)'
  BY <1>0, <1>2 DEF Chosen
<1>6. \A t \in Thread : Different(t)'
  BY <1>0 DEF Different
<1>7. OneDraw'
  BY DEF NextObject, OneDraw
<1>8. \A t \in Thread : PrimaryTried(t)'
  BY <1>0, <1>2 DEF PrimaryTried
<1> QED
  BY <1>1, <1>4, <1>5, <1>6, <1>7, <1>8

LEMMA LaunchStep == ParallelInv /\ Launch => ParallelInv'
<1> SUFFICES ASSUME ParallelInv, Launch PROVE ParallelInv'
  OBVIOUS
<1> USE Numbers, Pairs
<1> USE DEF ParallelInv
<1> DEFINE u == <<object, launched>>
<1>0. u \in Thread /\ u[1] = object /\ u[2] = launched /\ thread[u] = "none"
  <2>1. object \in Object /\ launched \in Replica
    BY DEF Launch, Progress, TypeOK, Object, Replica
  <2>2. u \in Thread /\ u[1] = object /\ u[2] = launched
    BY <2>1
  <2> QED
    BY <2>1, <2>2 DEF Progress, Replica
<1>1. TypeOK'
  <2>1. launched' \in 0 .. NumRep
    BY DEF Launch, TypeOK, Progress
  <2> QED
    BY <1>0, <2>1 DEF Launch, TypeOK
<1>2. Reported' = Reported
  <2>1. \A k \in Replica : thread'[<<object, k>>] = "done" <=> thread[<<object, k>>] = "done"
    BY <1>0 DEF Launch, TypeOK, Object
  <2> QED
    BY <2>1 DEF Reported, Launch
<1>3. Progress'
  <2>1. /\ object' = object /\ launched' = launched + 1 /\ caller = "launch"
        /\ outpos' = outpos /\ allocated' = allocated
        /\ caller' = IF launched + 1 = NumRep THEN "spin" ELSE "launch"
    BY DEF Launch
  <2>2. launched \in Nat /\ launched + 1 <= NumRep
    BY <2>1 DEF Progress, TypeOK
  <2>3. thread'[u] = "ready" /\ \A t \in Thread : t # u => thread'[t] = thread[t]
    BY <1>0 DEF Launch, TypeOK
  <2>4. \A t \in Thread : t[1] = object => (thread'[t] = "none" <=> t[2] >= launched')
    <3> SUFFICES ASSUME NEW t \in Thread, t[1] = object
                 PROVE  thread'[t] = "none" <=> t[2] >= launched + 1
      BY <2>1
    <3>1. CASE t = u
      BY <1>0, <2>2, <2>3, <3>1
    <3>2. CASE t # u
      <4>1. t[2] # launched /\ t[2] \in Nat
        BY <1>0, <3>2 DEF Replica
      <4>2. thread[t] = "none" <=> t[2] >= launched
        BY DEF Progress
      <4> QED
        BY <2>2, <2>3, <3>2, <4>1, <4>2
    <3> QED
      BY <3>1, <3>2
  <2>5. \A t \in Thread : /\ t[1] < object => thread'[t] = "done"
                          /\ t[1] > object => thread'[t] = "none"
    <3>1. object \in Nat
      BY DEF TypeOK, Object
    <3>2. \A t \in Thread : t[1] < object \/ t[1] > object => t # u
      BY <1>0, <3>1
    <3> QED
      BY <2>3, <3>2 DEF Progress
  <2>6. object # 0 /\ allocated
    BY <2>1 DEF Progress
  <2> QED
    BY <1>2, <2>1, <2>2, <2>4, <2>5, <2>6 DEF Progress
<1>4. \A t \in Thread : Chosen(t)'
  BY <1>0 DEF Launch, Chosen, TypeOK
<1>5. \A t \in Thread : Different(t)'
  BY <1>0 DEF Launch, Different, TypeOK, Object
<1>6. OneDraw' /\ \A t \in Thread : PrimaryTried(t)'
  BY <1>0 DEF Launch, PrimaryTried, OneDraw, TypeOK, Failed
<1> QED
  BY <1>1, <1>3, <1>4, <1>5, <1>6

LEMMA CollectStep == ParallelInv /\ Collect => ParallelInv'
<1> SUFFICES ASSUME ParallelInv, Collect PROVE ParallelInv'
  OBVIOUS
<1> USE Numbers, Pairs
<1> USE DEF ParallelInv
<1>1. TypeOK'
  BY DEF Collect, TypeOK
<1>2. Reported' = Reported /\ Reported = Replica
  BY AllCounted DEF Collect, Reported, Progress, TypeOK
<1>3. \A t \in Thread : t[1] = object => thread[t] = "done"
  BY <1>2 DEF Reported
<1>4. Progress'
  BY <1>2, <1>3 DEF Collect, Progress
<1>5. \A t \in Thread : Chosen(t)' /\ Different(t)' /\ PrimaryTried(t)'
  BY DEF Collect, Chosen, Different, PrimaryTried, Failed
<1>6. OneDraw'
  BY DEF Collect, OneDraw
<1> QED
  BY <1>1, <1>4, <1>5, <1>6

-----------------------------------------------------------------------------
(* A thread t = <<object, replica>>                                        *)

(* Only threads of the object being placed are at work. *)
LEMMA AtWork ==
  ASSUME ParallelInv, NEW t \in Thread, thread[t] \in {"ready", "draw", "store", "report"}
  PROVE  /\ t = <<object, t[2]>> /\ t[1] = object /\ t[2] \in Replica
         /\ object \in Object /\ allocated /\ caller # "next"
<1>1. t = <<t[1], t[2]>> /\ t[1] \in Object /\ t[2] \in Replica
  BY Pairs
<1>2. ~(t[1] < object) /\ ~(t[1] > object)
  BY DEF ParallelInv, Progress
<1>3. t[1] = object
  BY <1>1, <1>2, Numbers DEF Object, ParallelInv, TypeOK
<1> QED
  BY <1>1, <1>3 DEF ParallelInv, Progress

(* Until t reports, its steps leave the reports as they are. *)
LEMMA SameReports ==
  ASSUME ParallelInv, NEW t \in Thread, thread[t] \in {"ready", "draw", "store"},
         NEW s, s # "done", thread' = [thread EXCEPT ![t] = s], object' = object
  PROVE  /\ Reported' = Reported
         /\ \A u \in Thread : thread[u] = "done" => thread'[u] = "done"
<1>1. \A u \in Thread : thread'[u] = "done" <=> thread[u] = "done"
  BY DEF ParallelInv, TypeOK
<1>2. \A k \in Replica : <<object, k>> \in Thread
  BY AtWork, Pairs
<1> QED
  BY <1>1, <1>2 DEF Reported

(* The steps of a thread that is not reporting keep what the caller knows. *)
LEMMA ProgressKept ==
  ASSUME ParallelInv, NEW t \in Thread,
         thread[t] \in {"ready", "draw", "store"},
         NEW s \in {"draw", "store", "report"},
         thread' = [thread EXCEPT ![t] = s],
         UNCHANGED <<object, allocated, caller, launched, outpos>>
  PROVE  Progress'
<1>1. t[1] = object /\ caller # "next"
  BY AtWork
<1>2. Reported' = Reported
  BY SameReports
<1>3. /\ \A u \in Thread : u # t => thread'[u] = thread[u]
      /\ thread'[t] = s
  BY DEF ParallelInv, TypeOK
<1> QED
  BY <1>1, <1>2, <1>3, Numbers DEF ParallelInv, Progress, TypeOK

LEMMA BeginStep ==
  ASSUME ParallelInv, NEW t \in Thread, Begin(t)
  PROVE  ParallelInv'
<1> USE DEF ParallelInv
<1>0. thread[t] = "ready"
  BY DEF Begin
<1>1. TypeOK'
  BY DEF Begin, TypeOK
<1>2. Progress'
  BY <1>0, ProgressKept DEF Begin
<1>3. \A u \in Thread : Chosen(u)'
  BY <1>0 DEF Begin, Chosen, TypeOK
<1>4. \A u \in Thread : Different(u)'
  BY <1>0, SameReports DEF Begin, Different, TypeOK
<1>5. OneDraw' /\ \A u \in Thread : PrimaryTried(u)'
  BY <1>0 DEF Begin, PrimaryTried, OneDraw, Failed, TypeOK
<1> QED
  BY <1>1, <1>2, <1>3, <1>4, <1>5

(* What a descent adds to the draws. *)
LEMMA DescendKeeps ==
  ASSUME ParallelInv, NEW t \in Thread, NEW i \in Int, Descend(t, i)
  PROVE  /\ R(t) \in Nat
         /\ drawn' \subseteq Nat \X Int
         /\ drawn \subseteq drawn'
         /\ <<R(t), i>> \in drawn'
         /\ OneDraw'
         /\ item' \in [Thread -> Int] /\ item'[t] = i
         /\ \A u \in Thread : u # t => item'[u] = item[u]
<1>1. R(t) \in Nat
  <2>1. ftotal[t] \in Nat /\ t[2] \in Nat
    BY Pairs, Numbers DEF ParallelInv, TypeOK, Replica
  <2> QED
    BY <2>1 DEF R
<1>2. drawn' = drawn \union {<<R(t), i>>}
  BY DEF Descend
<1>3. OneDraw'
  BY <1>2 DEF Descend, ParallelInv, OneDraw
<1> QED
  BY <1>1, <1>2, <1>3 DEF Descend, ParallelInv, TypeOK

(* The types and the locals of t after a failed attempt. *)
LEMMA RejectKeeps ==
  ASSUME ParallelInv, NEW t \in Thread, Reject(t), thread[t] \in {"draw", "store"}
  PROVE  /\ ftotal' \in [Thread -> 0 .. Tries] /\ ftotal'[t] = ftotal[t] + 1
         /\ skipped' \in [Thread -> BOOLEAN]
         /\ \E s \in {"draw", "report"} : thread' = [thread EXCEPT ![t] = s]
         /\ thread'[t] = "draw" => ~skipped'[t] /\ ftotal'[t] < Tries
         /\ thread'[t] = "report" => skipped'[t]
         /\ \A u \in Thread : u # t => /\ ftotal'[u] = ftotal[u]
                                      /\ skipped'[u] = skipped[u]
                                      /\ thread'[u] = thread[u]
<1>1. ftotal[t] \in Nat /\ ftotal[t] < Tries /\ ~skipped[t]
  BY Numbers DEF ParallelInv, Chosen, TypeOK
<1>2. /\ ftotal' \in [Thread -> 0 .. Tries] /\ ftotal'[t] = ftotal[t] + 1
      /\ \A u \in Thread : u # t => ftotal'[u] = ftotal[u]
  BY <1>1, Numbers DEF Reject, ParallelInv, TypeOK
<1>3. CASE ftotal[t] + 1 < Tries
  BY <1>1, <1>2, <1>3 DEF Reject, ParallelInv, TypeOK
<1>4. CASE ~(ftotal[t] + 1 < Tries)
  BY <1>1, <1>2, <1>4 DEF Reject, ParallelInv, TypeOK
<1> QED
  BY <1>3, <1>4

(* What holds of the threads other than t, whose locals t does not write. *)
LEMMA OthersKept ==
  ASSUME ParallelInv, NEW t \in Thread,
         thread[t] \in {"ready", "draw", "store", "report"},
         UNCHANGED <<object, rejected>>,
         \A u \in Thread : u # t =>
           /\ thread'[u] = thread[u] /\ ftotal'[u] = ftotal[u] /\ item'[u] = item[u]
           /\ skipped'[u] = skipped[u] /\ sawReported'[u] = sawReported[u],
         \A k \in Replica : k # t[2] => out'[k] = out[k],
         drawn \subseteq drawn'
  PROVE  \A u \in Thread : u # t => Chosen(u)' /\ Different(u)' /\ PrimaryTried(u)'
<1> TAKE u \in Thread
<1> HAVE u # t
<1>1. u[1] = object => u[2] # t[2] /\ u[2] \in Replica
  BY Pairs, AtWork
<1>2. Chosen(u)'
  BY <1>1 DEF ParallelInv, Chosen
<1>3. PrimaryTried(u)'
  BY DEF ParallelInv, PrimaryTried, Failed
<1>4. Different(u)'
  <2> SUFFICES ASSUME thread[u] \in {"store", "report", "done"}, u[1] = object, ~skipped[u],
                      NEW k \in sawReported[u]
               PROVE  thread'[<<object, k>>] = "done" /\ item'[u] # item'[<<object, k>>]
    BY DEF Different
  <2>1. thread[<<object, k>>] = "done" /\ item[u] # item[<<object, k>>]
    BY DEF ParallelInv, Different
  <2>2. <<object, k>> \in Thread
    BY AtWork, Pairs DEF ParallelInv, TypeOK
  <2> QED
    BY <2>1, <2>2
<1> QED
  BY <1>2, <1>3, <1>4

LEMMA EndsBeyondMapStep ==
  ASSUME ParallelInv, NEW t \in Thread, NEW i \in Int, EndsBeyondMap(t, i)
  PROVE  ParallelInv'
<1> USE DEF ParallelInv
<1>0. thread[t] = "draw" /\ Descend(t, i)
  BY DEF EndsBeyondMap, Descend
<1>1. /\ skipped' \in [Thread -> BOOLEAN] /\ skipped'[t]
      /\ \A u \in Thread : u # t => skipped'[u] = skipped[u]
  BY DEF EndsBeyondMap, TypeOK
<1>2. TypeOK'
  BY <1>0, <1>1, DescendKeeps DEF EndsBeyondMap, TypeOK
<1>3. Progress'
  BY <1>0, ProgressKept DEF EndsBeyondMap
<1>4. thread'[t] = "report" /\ \A u \in Thread : u # t => thread'[u] = thread[u]
  BY DEF EndsBeyondMap, TypeOK
<1>5. \A u \in Thread : u # t => Chosen(u)' /\ Different(u)' /\ PrimaryTried(u)'
  BY <1>0, <1>1, <1>4, DescendKeeps, OthersKept DEF EndsBeyondMap
<1>6. Chosen(t)' /\ Different(t)'
  BY <1>1, <1>4 DEF Chosen, Different
<1>7. PrimaryTried(t)'
  <2>1. drawn \subseteq drawn' /\ ftotal' = ftotal /\ rejected' = rejected /\ object' = object
    BY <1>0, DescendKeeps DEF EndsBeyondMap, callerVars
  <2>2. PrimaryTried(t)
    OBVIOUS
  <2> QED
    BY <1>1, <1>4, <2>1, <2>2 DEF PrimaryTried, Failed
<1> QED
  BY <1>0, <1>2, <1>3, <1>5, <1>6, <1>7, DescendKeeps

(* A failed attempt at an item that cannot be used. *)
LEMMA RejectStep ==
  ASSUME ParallelInv, NEW t \in Thread, thread[t] \in {"draw", "store"}, Reject(t),
         UNCHANGED <<object, rejected, allocated, caller, launched, outpos>>,
         out' \in [Replica -> Int], \A k \in Replica : k # t[2] => out'[k] = out[k],
         OneDraw', drawn \subseteq drawn', drawn' \subseteq Nat \X Int,
         item' \in [Thread -> Int], sawReported' \in [Thread -> SUBSET Replica],
         \A u \in Thread : u # t => item'[u] = item[u] /\ sawReported'[u] = sawReported[u],
         t[2] = 0 => \E d \in drawn' : d[1] = ftotal[t] /\ Failed(d[2])
  PROVE  ParallelInv'
<1> USE DEF ParallelInv
<1>1. PICK s \in {"draw", "report"} : thread' = [thread EXCEPT ![t] = s]
  BY RejectKeeps
<1>2. thread'[t] = s
  BY <1>1 DEF TypeOK
<1>3. TypeOK'
  BY <1>1, RejectKeeps DEF TypeOK
<1>4. Progress'
  BY <1>1, ProgressKept
<1>5. \A u \in Thread : u # t => Chosen(u)' /\ Different(u)' /\ PrimaryTried(u)'
  BY RejectKeeps, OthersKept
<1>6. Chosen(t)' /\ Different(t)'
  BY <1>2, RejectKeeps DEF Chosen, Different
<1>7. PrimaryTried(t)'
  <2>1. ftotal'[t] = ftotal[t] + 1 /\ ftotal[t] \in Nat
    BY RejectKeeps, Numbers DEF TypeOK
  <2>2. SUFFICES ASSUME t[1] = object, t[2] = 0, NEW r \in 0 .. ftotal[t]
                 PROVE  \E d \in drawn' : d[1] = r /\ Failed(d[2])
    BY <1>2, <2>1, RejectKeeps DEF PrimaryTried, Failed
  <2>3. CASE r = ftotal[t]
    BY <2>2, <2>3
  <2>4. CASE r \in 0 .. ftotal[t] - 1
    BY <2>2, <2>4 DEF PrimaryTried
  <2> QED
    BY <2>1, <2>3, <2>4
<1> QED
  BY <1>3, <1>4, <1>5, <1>6, <1>7

LEMMA EndsInEmptyBucketStep ==
  ASSUME ParallelInv, NEW t \in Thread, NEW i \in Int, EndsInEmptyBucket(t, i)
  PROVE  ParallelInv'
<1>1. thread[t] = "draw" /\ Descend(t, i) /\ i < 0
  BY DEF EndsInEmptyBucket, Descend
<1>2. t[2] = 0 => R(t) = ftotal[t]
  BY Numbers DEF R, ParallelInv, TypeOK
<1>3. t[2] = 0 => \E d \in drawn' : d[1] = ftotal[t] /\ Failed(d[2])
  BY <1>1, <1>2, DescendKeeps DEF Failed
<1> QED
  BY <1>1, <1>3, DescendKeeps, RejectStep DEF EndsInEmptyBucket, ParallelInv, TypeOK

LEMMA EndsAtDeviceStep ==
  ASSUME ParallelInv, NEW t \in Thread, NEW i \in Int, EndsAtDevice(t, i)
  PROVE  ParallelInv'
<1> USE DEF ParallelInv
<1>1. /\ thread[t] = "draw" /\ Descend(t, i) /\ i \in Device
      /\ UNCHANGED <<callerVars, out, outpos>>
  BY DEF EndsAtDevice, Descend
<1>2. /\ sawReported' \in [Thread -> SUBSET Replica]
      /\ sawReported'[t] = Reported \intersect (0 .. t[2] - 1)
      /\ \A u \in Thread : u # t => sawReported'[u] = sawReported[u]
  BY DEF EndsAtDevice, TypeOK, Reported
<1>3. CASE Collides(t, i)
  <2>1. t[2] # 0
    BY <1>3 DEF Collides
  <2>2. Reject(t)
    BY <1>3 DEF EndsAtDevice
  <2>3. /\ UNCHANGED <<object, rejected, allocated, caller, launched, outpos>>
        /\ out' \in [Replica -> Int] /\ \A k \in Replica : out'[k] = out[k]
    BY <1>1 DEF TypeOK
  <2>4. /\ OneDraw' /\ drawn \subseteq drawn' /\ drawn' \subseteq Nat \X Int
        /\ item' \in [Thread -> Int] /\ \A u \in Thread : u # t => item'[u] = item[u]
    BY <1>1, DescendKeeps
  <2> QED
    BY <1>1, <1>2, <2>1, <2>2, <2>3, <2>4, RejectStep
<1>4. CASE ~Collides(t, i)
  <2>1. /\ thread' = [thread EXCEPT ![t] = "store"] /\ UNCHANGED <<ftotal, skipped>>
        /\ thread'[t] = "store" /\ \A u \in Thread : u # t => thread'[u] = thread[u]
    BY <1>4 DEF EndsAtDevice, TypeOK
  <2>2. TypeOK'
    BY <1>1, <1>2, <2>1, DescendKeeps DEF TypeOK
  <2>3. Progress'
    BY <1>1, <2>1, ProgressKept
  <2>4. \A u \in Thread : u # t => Chosen(u)' /\ Different(u)' /\ PrimaryTried(u)'
    BY <1>1, <1>2, <2>1, DescendKeeps, OthersKept
  <2>5. Chosen(t)'
    BY <1>1, <2>1, DescendKeeps DEF Chosen
  <2>6. Different(t)'
    <3> SUFFICES ASSUME NEW k \in sawReported'[t]
                 PROVE  thread'[<<object, k>>] = "done" /\ item'[t] # item'[<<object, k>>]
      BY <1>1 DEF Different
    <3>1. /\ k \in 0 .. t[2] - 1 /\ k \in Replica /\ <<object, k>> \in Thread
          /\ <<object, k>>[1] = object /\ <<object, k>>[2] = k
          /\ thread[<<object, k>>] = "done"
      BY <1>1, <1>2, AtWork, Pairs DEF Reported
    <3>2. out[k] # i /\ out[k] = item[<<object, k>>] /\ item'[t] = i
      BY <1>1, <1>4, <3>1, DescendKeeps DEF Collides, Chosen
    <3> QED
      BY <1>1, <2>1, <3>1, <3>2, DescendKeeps
  <2>7. PrimaryTried(t)'
    <3>1. t[2] = 0 => R(t) = ftotal[t]
      BY Numbers DEF R, TypeOK
    <3> QED
      <4>1. /\ drawn \subseteq drawn' /\ <<R(t), i>> \in drawn' /\ item'[t] = i
            /\ ftotal' = ftotal /\ rejected' = rejected /\ object' = object
        BY <1>1, <2>1, DescendKeeps
      <4>2. t[2] = 0 => <<ftotal'[t], item'[t]>> \in drawn'
        BY <3>1, <4>1
      <4>3. PrimaryTried(t)
        OBVIOUS
      <4> QED
        BY <4>1, <4>2, <4>3 DEF PrimaryTried, Failed
  <2> QED
    BY <1>1, <2>2, <2>3, <2>4, <2>5, <2>6, <2>7, DescendKeeps
<1> QED
  BY <1>3, <1>4

LEMMA StoreStep ==
  ASSUME ParallelInv, NEW t \in Thread, Store(t)
  PROVE  ParallelInv'
<1> USE DEF ParallelInv
<1>1. /\ thread[t] = "store" /\ t[1] = object /\ t[2] \in Replica
      /\ UNCHANGED <<callerVars, drawn, outpos, item, sawReported>>
  BY AtWork DEF Store
<1>2. /\ out' \in [Replica -> Int]
      /\ \A k \in Replica : k # t[2] => out'[k] = out[k]
  BY <1>1 DEF Store, TypeOK
<1>3. item[t] \in Device /\ OneDraw'
  BY <1>1 DEF Chosen, OneDraw
<1>4. CASE item[t] \in rejected
  <2>1. t[2] = 0 => <<ftotal[t], item[t]>> \in drawn'
    BY <1>1 DEF PrimaryTried, Chosen
  <2>2. t[2] = 0 => \E d \in drawn' : d[1] = ftotal[t] /\ Failed(d[2])
    BY <1>4, <2>1 DEF Failed
  <2>3. Reject(t)
    BY <1>4 DEF Store
  <2> QED
    BY <1>1, <1>2, <1>3, <2>2, <2>3, RejectStep DEF TypeOK
<1>5. CASE item[t] \notin rejected
  <2>1. /\ thread' = [thread EXCEPT ![t] = "report"] /\ UNCHANGED <<ftotal, skipped>>
        /\ thread'[t] = "report" /\ \A u \in Thread : u # t => thread'[u] = thread[u]
    BY <1>5 DEF Store, TypeOK
  <2>2. TypeOK'
    BY <1>1, <1>2, <2>1 DEF TypeOK
  <2>3. Progress'
    BY <1>1, <2>1, ProgressKept
  <2>4. \A u \in Thread : u # t => Chosen(u)' /\ Different(u)' /\ PrimaryTried(u)'
    BY <1>1, <1>2, <2>1, OthersKept
  <2>5. Chosen(t)'
    BY <1>1, <1>3, <1>5, <2>1 DEF Chosen
  <2>6. Different(t)'
    <3> SUFFICES ASSUME ~skipped[t], NEW k \in sawReported[t]
                 PROVE  thread'[<<object, k>>] = "done" /\ item[t] # item[<<object, k>>]
      BY <1>1, <2>1 DEF Different
    <3>1. thread[<<object, k>>] = "done" /\ item[t] # item[<<object, k>>]
      BY <1>1 DEF Different
    <3>2. <<object, k>> \in Thread
      BY <1>1, AtWork, Pairs DEF TypeOK
    <3> QED
      BY <1>1, <2>1, <3>1, <3>2
  <2>7. PrimaryTried(t)'
    BY <1>1, <2>1 DEF PrimaryTried, Chosen, Failed
  <2> QED
    BY <1>3, <2>2, <2>3, <2>4, <2>5, <2>6, <2>7
<1> QED
  BY <1>4, <1>5

LEMMA ReportStep ==
  ASSUME ParallelInv, NEW t \in Thread, Report(t)
  PROVE  ParallelInv'
<1> USE DEF ParallelInv
<1>1. /\ thread[t] = "report" /\ t = <<object, t[2]>> /\ t[1] = object /\ t[2] \in Replica
      /\ object \in Object /\ UNCHANGED <<callerVars, drawn, localVars>>
  BY AtWork DEF Report
<1>2. /\ out' \in [Replica -> Int] /\ out'[t[2]] = item[t]
      /\ \A k \in Replica : k # t[2] => out'[k] = out[k]
  BY <1>1 DEF Report, TypeOK
<1>3. /\ thread' \in [Thread -> {"none", "ready", "draw", "store", "report", "done"}]
      /\ thread'[t] = "done" /\ \A u \in Thread : u # t => thread'[u] = thread[u]
  BY DEF Report, TypeOK
<1>4. Reported' = Reported \union {t[2]} /\ t[2] \notin Reported
  <2>1. \A k \in Replica : thread'[<<object, k>>] = "done"
                           <=> thread[<<object, k>>] = "done" \/ k = t[2]
    BY <1>1, <1>3, Pairs
  <2> QED
    BY <1>1, <2>1 DEF Reported
<1>5. outpos' = Cardinality(Reported') /\ outpos' \in 0 .. NumRep
  <2>1. IsFiniteSet(Reported)
    BY ReplicaFinite, FS_Subset DEF Reported
  <2>2. Cardinality(Reported') = Cardinality(Reported) + 1
    BY <1>4, <2>1, FS_AddElement
  <2>3. Cardinality(Reported)' \in 0 .. NumRep
    <3>1. Reported' \subseteq Replica
      BY DEF Reported
    <3> QED
      BY <3>1, ReplicaFinite, FS_Subset, FS_CardinalityType, Numbers
  <2>4. outpos' = outpos + 1 /\ outpos = Cardinality(Reported)
    BY <1>1, Numbers DEF Report, Progress, Object
  <2> QED
    BY <2>2, <2>3, <2>4
<1>6. TypeOK'
  BY <1>1, <1>2, <1>3, <1>5 DEF TypeOK
<1>7. Progress'
  BY <1>1, <1>3, <1>5, AtWork DEF Progress
<1>8. \A u \in Thread : u # t => Chosen(u)' /\ Different(u)' /\ PrimaryTried(u)'
  BY <1>1, <1>2, <1>3, OthersKept
<1>9. Chosen(t)' /\ PrimaryTried(t)'
  BY <1>1, <1>2, <1>3 DEF Chosen, PrimaryTried, Failed
<1>10. Different(t)'
  <2> SUFFICES ASSUME ~skipped[t], NEW k \in sawReported[t]
               PROVE  thread'[<<object, k>>] = "done" /\ item[t] # item[<<object, k>>]
    BY <1>1, <1>3 DEF Different
  <2>1. thread[<<object, k>>] = "done" /\ item[t] # item[<<object, k>>]
    BY <1>1 DEF Different
  <2>2. <<object, k>> \in Thread
    BY <1>1, Pairs DEF TypeOK
  <2> QED
    BY <1>1, <1>3, <2>1, <2>2
<1>11. OneDraw'
  BY <1>1 DEF OneDraw
<1> QED
  BY <1>6, <1>7, <1>8, <1>9, <1>10, <1>11

-----------------------------------------------------------------------------
(* The theorems                                                            *)

LEMMA StutterParallel == ParallelInv /\ UNCHANGED vars => ParallelInv'
  BY DEF ParallelInv, vars, TypeOK, Progress, Reported, Chosen, Different, OneDraw,
         PrimaryTried, Failed

LEMMA NextParallel == ParallelInv /\ [Next]_vars => ParallelInv'
<1> SUFFICES ASSUME ParallelInv, [Next]_vars PROVE ParallelInv'
  OBVIOUS
<1>1. CASE CallerStep
  BY <1>1, NextObjectStep, LaunchStep, CollectStep DEF CallerStep
<1>2. ASSUME NEW t \in Thread, Begin(t) PROVE ParallelInv'
  BY <1>2, BeginStep
<1>3. ASSUME NEW t \in Thread, Works(t) PROVE ParallelInv'
  <2>1. \A i \in Ends[t[1]] : i \in Int
    BY Numbers, Pairs DEF Object
  <2> QED
    BY <1>3, <2>1, EndsBeyondMapStep, EndsInEmptyBucketStep, EndsAtDeviceStep,
       StoreStep, ReportStep DEF Works
<1>4. CASE UNCHANGED vars
  BY <1>4, StutterParallel
<1> QED
  BY <1>1, <1>2, <1>3, <1>4 DEF Next

(* The caller and the threads keep the inductive invariant (do_work1 to    *)
(* do_work3, main.cpp:624-1105; pthread_crush_choose_firstn, :1153).       *)
THEOREM ParallelInvariant == Spec => []ParallelInv
<1> QED
  BY InitParallel, NextParallel, PTL DEF Spec

(* Types, for any number of replicas, objects and attempts. *)
THEOREM ParallelTypes == Spec => []TypeOK
<1>1. ParallelInv => TypeOK
  BY DEF ParallelInv
<1> QED
  BY <1>1, ParallelInvariant, PTL

(* No thread outlives the array and the object that it works for. *)
LEMMA InvStays == ParallelInv => StaysWithObject
  BY AtWork DEF StaysWithObject

THEOREM ThreadsStayWithObject == Spec => []StaysWithObject
  BY InvStays, ParallelInvariant, PTL

(* No thread overwrites what another one has reported. *)
THEOREM ReportedStay == Spec => []ReportsStay
<1>1. ParallelInv => ReportsStay
  BY DEF ParallelInv, Chosen, ReportsStay
<1> QED
  BY <1>1, ParallelInvariant, PTL

(* What a thread reports and did not give up is a device that is in. *)
THEOREM ReplicasAreUsable == Spec => []ReplicasUsable
<1>1. ParallelInv => ReplicasUsable
  BY DEF ParallelInv, Chosen, ReplicasUsable
<1> QED
  BY <1>1, ParallelInvariant, PTL

(* A replica differs from all that were reported before its last test. *)
THEOREM ReportedDiffer == Spec => []DiffersFromReported
<1>1. ParallelInv => DiffersFromReported
  BY DEF ParallelInv, Different, DiffersFromReported
<1> QED
  BY <1>1, ParallelInvariant, PTL

(* The primary is the one that the sequential loop would choose. *)
LEMMA InvPrimary == ParallelInv => PrimaryAsSequential
<1> SUFFICES ASSUME ParallelInv, NEW t \in Thread,
                    t = <<object, 0>>, thread[t] = "done", ~skipped[t]
             PROVE  /\ <<R(t), item[t]>> \in drawn
                    /\ \A d \in drawn : d[1] < R(t) => d[2] < 0 \/ d[2] \in rejected
  BY DEF PrimaryAsSequential
<1>1. t[1] = object /\ t[2] = 0 /\ ftotal[t] \in Nat
  BY DEF ParallelInv, TypeOK
<1>2. R(t) = ftotal[t]
  BY <1>1, Numbers DEF R
<1>3. /\ <<ftotal[t], item[t]>> \in drawn
      /\ \A r \in 0 .. ftotal[t] - 1 : \E d \in drawn : d[1] = r /\ Failed(d[2])
  BY <1>1 DEF ParallelInv, PrimaryTried
<1>4. ASSUME NEW d \in drawn, d[1] < ftotal[t] PROVE Failed(d[2])
  <2>1. d[1] \in 0 .. ftotal[t] - 1
    BY <1>1, <1>4 DEF ParallelInv, TypeOK
  <2> QED
    BY <1>3, <2>1 DEF ParallelInv, OneDraw
<1> QED
  BY <1>2, <1>3, <1>4 DEF Failed

THEOREM PrimaryIsSequential == Spec => []PrimaryAsSequential
  BY InvPrimary, ParallelInvariant, PTL

-----------------------------------------------------------------------------
(* On the pool: the numbers of the tasks                                   *)

LEMMA Distribute ==
  ASSUME NEW a \in Int, NEW b \in Int, a < b
  PROVE  NumRep * a + NumRep <= NumRep * b
<1>1. NumRep \in Nat /\ NumRep > 0
  BY Numbers
<1>2. NumRep * a + NumRep = NumRep * (a + 1)
  BY <1>1
<1>3. NumRep * (a + 1) <= NumRep * b
  BY <1>1
<1> QED
  BY <1>2, <1>3

LEMMA TaskNumbers ==
  /\ \A t \in Thread : Task(t) \in 1 .. NumRep * Objects
  /\ \A t, u \in Thread : Task(t) = Task(u) => t = u
<1>1. ASSUME NEW t \in Thread PROVE Task(t) \in 1 .. NumRep * Objects
  <2>1. t[1] \in 1 .. Objects /\ t[2] \in 0 .. NumRep - 1
    BY Pairs DEF Object, Replica
  <2>2. NumRep * (t[1] - 1) + NumRep <= NumRep * Objects
    BY <2>1, Distribute, Numbers
  <2>3. 0 <= NumRep * (t[1] - 1)
    BY <2>1, Numbers
  <2> QED
    BY <2>1, <2>2, <2>3, Numbers DEF Task
<1>2. ASSUME NEW t \in Thread, NEW u \in Thread, Task(t) = Task(u) PROVE t = u
  <2>1. /\ t[1] \in Int /\ t[2] \in 0 .. NumRep - 1 /\ t = <<t[1], t[2]>>
        /\ u[1] \in Int /\ u[2] \in 0 .. NumRep - 1 /\ u = <<u[1], u[2]>>
    BY Pairs DEF Object, Replica
  <2>2. ~(t[1] < u[1]) /\ ~(u[1] < t[1])
    <3>1. t[1] < u[1] => NumRep * (t[1] - 1) + NumRep <= NumRep * (u[1] - 1)
      BY <2>1, Distribute
    <3>2. u[1] < t[1] => NumRep * (u[1] - 1) + NumRep <= NumRep * (t[1] - 1)
      BY <2>1, Distribute
    <3>3. NumRep * (t[1] - 1) \in Int /\ NumRep * (u[1] - 1) \in Int
      BY <2>1, Numbers
    <3> QED
      BY <1>2, <2>1, <3>1, <3>2, <3>3, Numbers DEF Task
  <2>3. t[1] = u[1]
    BY <2>1, <2>2
  <2>4. NumRep * (t[1] - 1) \in Int
    BY <2>1, Numbers
  <2> QED
    BY <1>2, <2>1, <2>3, <2>4 DEF Task
<1> QED
  BY <1>1, <1>2

-----------------------------------------------------------------------------
(* The inductive invariant                                                 *)

(* A task has been started when its thread is past "ready"; what has been  *)
(* accepted are the tasks that the caller launched.                        *)
Tasks ==
  /\ started \in 0 .. NumRep * Objects
  /\ \A t \in Thread : Task(t) <= started <=> thread[t] \notin {"none", "ready"}
  /\ accepted = IF object = 0 THEN 0 ELSE NumRep * (object - 1) + launched

PooledInv ==
  /\ ParallelInv
  /\ Tasks
  /\ destroyed \in BOOLEAN
  /\ NoTaskLost

LEMMA InitPooled == PInit => PooledInv
<1> SUFFICES ASSUME PInit PROVE PooledInv
  OBVIOUS
<1>1. ParallelInv
  BY InitParallel DEF PInit
<1>2. started = 0 /\ accepted = 0 /\ destroyed = FALSE /\ object = 0
  BY DEF PInit, Pool!Init, Init
<1>3. \A t \in Thread : thread[t] = "none"
  BY DEF PInit, Init
<1>4. NumRep * Objects \in Nat
  BY Numbers
<1>5. Tasks
  BY <1>2, <1>3, <1>4, TaskNumbers DEF Tasks
<1> QED
  BY <1>1, <1>2, <1>5 DEF PooledInv, NoTaskLost

(* When the caller goes on, all tasks of the object have been launched and *)
(* started.                                                                *)
LEMMA AllLaunched ==
  ASSUME PooledInv, caller = "next", object > 0
  PROVE  launched = NumRep /\ started >= NumRep * (object - 1) + NumRep
<1> DEFINE k == NumRep - 1
           t == <<object, k>>
<1>1. object \in Object /\ k \in Replica
  BY Numbers DEF PooledInv, ParallelInv, TypeOK, Object, Replica
<1>2. t \in Thread /\ t[1] = object /\ t[2] = k
  BY <1>1, Pairs
<1>3. thread[t] = "done"
  BY <1>2 DEF PooledInv, ParallelInv, Progress
<1>4. k < launched
  BY <1>2, <1>3, Numbers DEF PooledInv, ParallelInv, Progress, TypeOK
<1>5. launched = NumRep
  BY <1>4, Numbers DEF PooledInv, ParallelInv, TypeOK
<1>6. Task(t) <= started
  BY <1>2, <1>3 DEF PooledInv, Tasks
<1>7. NumRep * (object - 1) \in Int
  BY Numbers DEF PooledInv, ParallelInv, TypeOK
<1> QED
  BY <1>2, <1>5, <1>6, <1>7, Numbers DEF Task, PooledInv, Tasks

LEMMA SameTasks ==
  ASSUME ParallelInv, Tasks, UNCHANGED vars, UNCHANGED <<started, accepted>>
  PROVE  ParallelInv' /\ Tasks'
<1>1. ParallelInv'
  BY StutterParallel
<1>2. UNCHANGED <<object, launched, thread>>
  BY DEF vars
<1> QED
  BY <1>1, <1>2 DEF Tasks, Task

LEMMA NextPooled == PooledInv /\ [PNext]_pvars => PooledInv'
<1> SUFFICES ASSUME PooledInv, [PNext]_pvars PROVE PooledInv'
  OBVIOUS
<1> USE DEF PooledInv
<1>1. ASSUME Prepare PROVE PooledInv'
  <2>1. ParallelInv'
    BY <1>1, NextObjectStep DEF Prepare
  <2>2. Tasks'
    <3>1. object' = object + 1 /\ object \in Nat /\ launched' = 0 /\ caller = "next"
      BY <1>1 DEF Prepare, NextObject, ParallelInv, TypeOK
    <3>2. thread' = thread /\ UNCHANGED <<started, accepted>>
      BY <1>1 DEF Prepare, NextObject, tasks
    <3>3. NumRep * (object - 1) + NumRep = NumRep * object /\ NumRep * object \in Int
      BY <3>1, Numbers
    <3>4. object = 0 => NumRep * object = 0
      BY Numbers
    <3>5. accepted = NumRep * object
      BY <3>1, <3>3, <3>4, AllLaunched DEF Tasks
    <3> QED
      BY <3>1, <3>2, <3>3, <3>5 DEF Tasks, Task
  <2> QED
    BY <1>1, <2>1, <2>2 DEF Prepare, NoTaskLost, tasks
<1>2. ASSUME Add PROVE PooledInv'
  <2>1. ParallelInv'
    BY <1>2, LaunchStep DEF Add
  <2>2. Tasks'
    <3>1. /\ accepted' = accepted + 1 /\ launched' = launched + 1
          /\ UNCHANGED <<object, started>> /\ object > 0 /\ launched \in Nat
      BY <1>2 DEF Add, Launch, Pool!Submit, ParallelInv, Progress, TypeOK
    <3>2. \A t \in Thread : thread'[t] \notin {"none", "ready"}
                              <=> thread[t] \notin {"none", "ready"}
      <4> DEFINE u == <<object, launched>>
      <4>1. thread[u] = "none" /\ thread' = [thread EXCEPT ![u] = "ready"]
        <5>1. object \in Object /\ launched \in Replica
          BY <1>2, Numbers DEF Add, Launch, ParallelInv, Progress, TypeOK, Object, Replica
        <5> QED
          BY <1>2, <5>1, Pairs DEF Add, Launch, ParallelInv, Progress, Replica
      <4> QED
        BY <4>1 DEF ParallelInv, TypeOK
    <3>3. NumRep * (object - 1) \in Int
      BY <1>2, Numbers DEF ParallelInv, TypeOK
    <3> QED
      BY <3>1, <3>2, <3>3 DEF Tasks, Task
  <2> QED
    BY <1>2, <2>1, <2>2 DEF Add, NoTaskLost, Pool!Submit
<1>3. ASSUME AllReported PROVE PooledInv'
  BY <1>3, CollectStep DEF AllReported, Collect, Tasks, Task, tasks, NoTaskLost
<1>4. ASSUME Destroy PROVE PooledInv'
  <2>1. ParallelInv' /\ Tasks'
    BY <1>4, SameTasks DEF Destroy, tasks
  <2>2. started = NumRep * Objects
    <3>1. CASE Objects = 0
      <4>1. NumRep * Objects = 0
        BY <3>1, Numbers
      <4> QED
        BY <4>1 DEF Tasks
    <3>2. CASE Objects > 0
      <4>1. started >= NumRep * (Objects - 1) + NumRep
        BY <1>4, <3>2, AllLaunched DEF Destroy
      <4>2. NumRep * (Objects - 1) + NumRep = NumRep * Objects /\ NumRep * Objects \in Int
        BY Numbers
      <4> QED
        BY <4>1, <4>2 DEF Tasks
    <3> QED
      BY <3>1, <3>2, Numbers
  <2> QED
    BY <1>4, <2>1, <2>2 DEF Destroy, NoTaskLost, tasks
<1>5. ASSUME NEW t \in Thread, Dequeue(t) PROVE PooledInv'
  <2>1. ParallelInv'
    BY <1>5, BeginStep DEF Dequeue
  <2>2. /\ Task(t) = started + 1 /\ started' = started + 1 /\ UNCHANGED <<accepted, destroyed>>
        /\ thread[t] = "ready" /\ thread' = [thread EXCEPT ![t] = "draw"]
        /\ UNCHANGED <<object, launched>> /\ ~destroyed
    BY <1>5 DEF Dequeue, Begin, Pool!Start
  <2>3. \A u \in Thread : u # t => Task(u) # started + 1 /\ Task(u) \in Int
    BY <2>2, TaskNumbers
  <2>4. started' \in 0 .. NumRep * Objects
    BY <2>2, TaskNumbers
  <2>5. Tasks'
    <3>1. \A u \in Thread : (Task(u) <= started + 1) <=> (Task(u) <= started \/ u = t)
      BY <2>2, <2>3, TaskNumbers DEF Tasks
    <3>2. \A u \in Thread : Task(u)' = Task(u)
      BY DEF Task
    <3> QED
      BY <2>2, <2>4, <3>1, <3>2 DEF Tasks, ParallelInv, TypeOK
  <2> QED
    BY <2>1, <2>2, <2>5 DEF NoTaskLost
<1>6. ASSUME NEW t \in Thread, Work(t) PROVE PooledInv'
  <2>1. Works(t) /\ UNCHANGED <<started, accepted, destroyed>>
    BY <1>6 DEF Work, tasks
  <2>2. ParallelInv'
    BY <2>1, NextParallel DEF Next
  <2>3. /\ UNCHANGED <<object, launched>>
        /\ \A u \in Thread : thread'[u] \notin {"none", "ready"}
                               <=> thread[u] \notin {"none", "ready"}
    <3>1. thread[t] \in {"draw", "store", "report"}
      BY <2>1 DEF Works, EndsBeyondMap, EndsInEmptyBucket, EndsAtDevice, Descend, Store, Report
    <3>2. UNCHANGED <<object, launched>>
      BY <2>1 DEF Works, EndsBeyondMap, EndsInEmptyBucket, EndsAtDevice, Store, Report
    <3>3. \E s \in {"draw", "store", "report", "done"} : thread' = [thread EXCEPT ![t] = s]
      BY <2>1 DEF Works, EndsBeyondMap, EndsInEmptyBucket, EndsAtDevice, Reject, Store, Report
    <3> QED
      BY <3>1, <3>2, <3>3 DEF ParallelInv, TypeOK
  <2> QED
    BY <2>1, <2>2, <2>3 DEF Tasks, Task, NoTaskLost
<1>7. ASSUME NEW t \in Thread, TaskReturns(t) PROVE PooledInv'
  BY <1>7, SameTasks DEF TaskReturns, Pool!Finish, NoTaskLost
<1>8. CASE UNCHANGED pvars
  BY <1>8, SameTasks DEF pvars, tasks, NoTaskLost
<1> QED
  BY <1>1, <1>2, <1>3, <1>4, <1>5, <1>6, <1>7, <1>8 DEF PNext, PCaller, PWorker

LEMMA PooledInvariant == PSpec => []PooledInv
  BY InitPooled, NextPooled, PTL DEF PSpec

(* The caller, which looks at outpos only, never destroys a pool in which  *)
(* a task of any object still waits (test_pthreadPool, main.cpp:1363).     *)
THEOREM NoTaskIsLost == PSpec => []NoTaskLost
<1>1. PooledInv => NoTaskLost
  BY DEF PooledInv
<1> QED
  BY <1>1, PooledInvariant, PTL

(* At most the tasks of one object wait in the pool's queue: its capacity  *)
(* of ten would do for ten replicas, and threadPoolAdd never blocks.       *)
THEOREM QueueHoldsOneObject == PSpec => [](accepted - started <= NumRep)
<1>1. ASSUME PooledInv PROVE accepted - started <= NumRep
  <2>1. object \in 0 .. Objects /\ launched \in 0 .. NumRep
    BY <1>1 DEF PooledInv, ParallelInv, TypeOK
  <2>2. started >= NumRep * (object - 1)
    <3>1. CASE object > 1
      <4> DEFINE t == <<object - 1, NumRep - 1>>
      <4>1. t \in Thread /\ t[1] = object - 1 /\ t[2] = NumRep - 1
        BY <2>1, <3>1, Pairs, Numbers DEF Object, Replica
      <4>2. Task(t) <= started
        BY <1>1, <2>1, <4>1, Numbers DEF PooledInv, ParallelInv, Progress, Tasks
      <4>3. Task(t) = NumRep * (object - 1)
        <5>1. NumRep * ((object - 1) - 1) + NumRep = NumRep * (object - 1)
          BY <2>1, Numbers
        <5>2. NumRep * ((object - 1) - 1) \in Int
          BY <2>1, Numbers
        <5> QED
          BY <4>1, <5>1, <5>2, Numbers DEF Task
      <4> QED
        BY <1>1, <2>1, <4>2, <4>3, Numbers DEF PooledInv, Tasks
    <3>2. CASE object <= 1
      <4>1. NumRep * (object - 1) <= 0
        BY <2>1, <3>2, Numbers
      <4> QED
        BY <1>1, <2>1, <4>1, Numbers DEF PooledInv, Tasks
    <3> QED
      BY <2>1, <3>1, <3>2
  <2>3. NumRep * (object - 1) \in Int
    BY <2>1, Numbers
  <2> QED
    BY <1>1, <2>1, <2>2, <2>3, Numbers DEF PooledInv, Tasks
<1> QED
  BY <1>1, PooledInvariant, PTL

(* What holds of the placements under any start of the threads holds when  *)
(* the pool starts them (test_pthreadPool): no thread works for an object  *)
(* whose out is freed, every replica is usable, the primary is the one the *)
(* sequential function chooses, and a replica differs from those that were *)
(* reported before its draw.                                               *)
THEOREM PooledPlacementIsSafe ==
  PSpec => [](StaysWithObject /\ ReplicasUsable /\ PrimaryAsSequential /\ DiffersFromReported)
<1>1. ParallelInv => ReplicasUsable /\ DiffersFromReported
  BY DEF ParallelInv, Chosen, Different, ReplicasUsable, DiffersFromReported
<1>2. PooledInv => StaysWithObject /\ ReplicasUsable /\ PrimaryAsSequential /\ DiffersFromReported
  BY <1>1, InvStays, InvPrimary DEF PooledInv
<1> QED
  BY <1>2, PooledInvariant, PTL

-----------------------------------------------------------------------------
(* One worker                                                              *)

(* A worker that has begun a task holds it until it returns; with one      *)
(* worker each task is at its end when the next one starts, so that every  *)
(* test for collisions meets all lower replicas reported.                  *)
Held ==
  /\ IsFiniteSet(running)
  /\ \A i, j \in running : i = j
  /\ \A t \in Thread : thread[t] \in {"draw", "store", "report"} => Task(t) \in running

InTurn ==
  \A t, u \in Thread :
    Task(u) < Task(t) /\ thread[t] \notin {"none", "ready"} => thread[u] = "done"

SawLower(t) ==
  t[1] = object /\ thread[t] \in {"store", "report", "done"} /\ ~skipped[t]
    => sawReported[t] = 0 .. t[2] - 1

OneWorkerInv == Held /\ InTurn /\ \A t \in Thread : SawLower(t)

LEMMA InitOneWorker == PInit => OneWorkerInv
<1> SUFFICES ASSUME PInit PROVE OneWorkerInv
  OBVIOUS
<1>1. running = {} /\ \A t \in Thread : thread[t] = "none"
  BY DEF PInit, Pool!Init, Init
<1> QED
  BY <1>1, FS_EmptySet DEF OneWorkerInv, Held, InTurn, SawLower

(* The lower replicas of an object are tasks before those of the higher.   *)
LEMMA LowerTasks ==
  ASSUME NEW t \in Thread, NEW k \in 0 .. t[2] - 1
  PROVE  /\ <<t[1], k>> \in Thread /\ <<t[1], k>>[1] = t[1] /\ <<t[1], k>>[2] = k
         /\ Task(<<t[1], k>>) < Task(t)
<1>1. t[1] \in 1 .. Objects /\ t[2] \in 0 .. NumRep - 1 /\ k \in Replica
  BY Pairs, Numbers DEF Object, Replica
<1>2. <<t[1], k>> \in Thread /\ <<t[1], k>>[1] = t[1] /\ <<t[1], k>>[2] = k
  BY <1>1, Pairs DEF Object
<1>3. NumRep * (t[1] - 1) \in Int
  BY <1>1, Numbers
<1> QED
  BY <1>1, <1>2, <1>3 DEF Task

(* The steps that leave the threads' places and tests alone.               *)
LEMMA OneWorkerKept ==
  ASSUME OneWorkerInv, UNCHANGED <<object, thread, skipped, sawReported>>,
         running' \subseteq running,
         \A t \in Thread : thread[t] \in {"draw", "store", "report"} /\ Task(t) \in running
                             => Task(t) \in running'
  PROVE  OneWorkerInv'
<1>1. IsFiniteSet(running')
  BY FS_Subset DEF OneWorkerInv, Held
<1>2. \A t \in Thread : Task(t)' = Task(t)
  BY DEF Task
<1> QED
  BY <1>1, <1>2 DEF OneWorkerInv, Held, InTurn, SawLower

LEMMA LaunchOneWorker ==
  ASSUME PooledInv, OneWorkerInv, Add
  PROVE  OneWorkerInv'
<1> DEFINE u == <<object, launched>>
<1>1. thread[u] = "none" /\ thread' = [thread EXCEPT ![u] = "ready"]
  <2>1. object \in Object /\ launched \in Replica
    BY Numbers DEF PooledInv, Add, Launch, ParallelInv, Progress, TypeOK, Object, Replica
  <2> QED
    BY <2>1, Pairs DEF Add, Launch, PooledInv, ParallelInv, Progress, Replica
<1>2. UNCHANGED <<object, skipped, sawReported, running>>
  BY DEF Add, Launch, Pool!Submit
<1>3. \A t \in Thread : Task(t)' = Task(t) /\ (thread'[t] = thread[t]
                           \/ (thread[t] = "none" /\ thread'[t] = "ready"))
  BY <1>1 DEF Task, PooledInv, ParallelInv, TypeOK
<1> QED
  BY <1>2, <1>3 DEF OneWorkerInv, Held, InTurn, SawLower

LEMMA DequeueOneWorker ==
  ASSUME Workers = 1, PooledInv, OneWorkerInv, NEW t \in Thread, Dequeue(t)
  PROVE  OneWorkerInv'
<1>1. /\ Task(t) = started + 1 /\ thread[t] = "ready" /\ thread' = [thread EXCEPT ![t] = "draw"]
      /\ running' = running \union {started + 1} /\ Cardinality(running) < 1
      /\ UNCHANGED <<object, skipped, sawReported>>
  BY DEF Dequeue, Begin, Pool!Start
<1>2. running = {}
  <2>1. IsFiniteSet(running)
    BY DEF OneWorkerInv, Held
  <2>2. Cardinality(running) \in Nat
    BY <2>1, FS_CardinalityType
  <2> QED
    BY <1>1, <2>1, <2>2, FS_EmptySet
<1>3. thread \in [Thread -> {"none", "ready", "draw", "store", "report", "done"}]
  BY DEF PooledInv, ParallelInv, TypeOK
<1>4. \A u \in Thread : thread[u] \in {"none", "ready", "done"}
  BY <1>2, <1>3 DEF OneWorkerInv, Held
<1>5. \A u \in Thread : Task(u)' = Task(u) /\ Task(u) \in Int
  BY TaskNumbers DEF Task
<1>6. \A u \in Thread : Task(u) <= started => thread[u] = "done"
  BY <1>4 DEF PooledInv, Tasks
<1>7. Held'
  <2>1. running' = {Task(t)}
    BY <1>1, <1>2
  <2>2. IsFiniteSet(running')
    BY <2>1, FS_Singleton, Zenon
  <2> QED
    BY <1>1, <1>3, <1>4, <1>5, <2>1, <2>2 DEF Held
<1>8. InTurn'
  <2> SUFFICES ASSUME NEW v \in Thread, NEW u \in Thread, Task(u) < Task(v),
                      thread'[v] \notin {"none", "ready"}
               PROVE  thread'[u] = "done"
    BY <1>5 DEF InTurn
  <2>1. CASE v = t
    <3>1. started \in Int /\ Task(u) <= started /\ u # t
      BY <1>1, <1>5, <2>1 DEF PooledInv, Tasks
    <3> QED
      BY <1>1, <1>3, <1>6, <3>1
  <2>2. CASE v # t
    <3>1. thread[v] \notin {"none", "ready"}
      BY <1>1, <1>3, <2>2
    <3>2. thread[u] = "done"
      BY <3>1 DEF OneWorkerInv, InTurn
    <3> QED
      BY <1>1, <1>3, <3>2
  <2> QED
    BY <2>1, <2>2
<1>9. \A u \in Thread : SawLower(u)'
  BY <1>1, <1>3 DEF OneWorkerInv, SawLower
<1> QED
  BY <1>7, <1>8, <1>9 DEF OneWorkerInv

LEMMA WorkOneWorker ==
  ASSUME PooledInv, OneWorkerInv, NEW t \in Thread, Works(t), UNCHANGED running
  PROVE  OneWorkerInv'
<1>1. /\ thread[t] \in {"draw", "store", "report"} /\ object' = object
      /\ \E s \in {"draw", "store", "report", "done"} : thread' = [thread EXCEPT ![t] = s]
  BY DEF Works, EndsBeyondMap, EndsInEmptyBucket, EndsAtDevice, Descend, Reject, Store, Report
<1>2. /\ thread \in [Thread -> {"none", "ready", "draw", "store", "report", "done"}]
      /\ skipped \in [Thread -> BOOLEAN] /\ sawReported \in [Thread -> SUBSET Replica]
  BY DEF PooledInv, ParallelInv, TypeOK
<1>3. \A u \in Thread : Task(u)' = Task(u) /\ Task(u) \in Int
  BY TaskNumbers DEF Task
<1>4. Held' /\ InTurn'
  BY <1>1, <1>2, <1>3 DEF OneWorkerInv, Held, InTurn
<1>5. \A u \in Thread : u # t => /\ thread'[u] = thread[u] /\ skipped'[u] = skipped[u]
                                 /\ sawReported'[u] = sawReported[u]
  BY <1>1, <1>2 DEF Works, EndsBeyondMap, EndsInEmptyBucket, EndsAtDevice, Reject, Store, Report
<1>6. SawLower(t)'
  <2> SUFFICES ASSUME t[1] = object, thread'[t] \in {"store", "report", "done"}, ~skipped'[t]
               PROVE  sawReported'[t] = 0 .. t[2] - 1
    BY <1>1 DEF SawLower
  <2>1. CASE \E i \in Ends[t[1]] : EndsBeyondMap(t, i)
    BY <1>2, <2>1 DEF EndsBeyondMap
  <2>2. ASSUME NEW i \in Ends[t[1]], EndsInEmptyBucket(t, i)
        PROVE  FALSE
    <3>1. thread' = [thread EXCEPT ![t] = "draw"] \/ skipped' = [skipped EXCEPT ![t] = TRUE]
      BY <2>2 DEF EndsInEmptyBucket, Reject
    <3> QED
      BY <1>2, <3>1
  <2>3. ASSUME NEW i \in Ends[t[1]], EndsAtDevice(t, i)
        PROVE  sawReported'[t] = 0 .. t[2] - 1
    <3>1. t[2] \in Replica /\ 0 .. t[2] - 1 \subseteq Replica
      BY Pairs, Numbers DEF Replica
    <3>2. \A k \in 0 .. t[2] - 1 : thread[<<object, k>>] = "done"
      <4> TAKE k \in 0 .. t[2] - 1
      <4>1. <<object, k>> \in Thread /\ Task(<<object, k>>) < Task(t)
        BY LowerTasks
      <4> QED
        BY <1>1, <4>1 DEF OneWorkerInv, InTurn
    <3>3. Reported \intersect (0 .. t[2] - 1) = 0 .. t[2] - 1
      BY <3>1, <3>2 DEF Reported
    <3>4. sawReported' = [sawReported EXCEPT ![t] = Reported \intersect (0 .. t[2] - 1)]
      BY <2>3 DEF EndsAtDevice
    <3> QED
      BY <1>2, <3>3, <3>4
  <2>4. ASSUME Store(t) PROVE sawReported'[t] = 0 .. t[2] - 1
    <3>1. thread[t] = "store" /\ sawReported' = sawReported
      BY <2>4 DEF Store
    <3>2. ~skipped[t]
      BY <1>2, <2>4 DEF Store, Reject
    <3> QED
      BY <3>1, <3>2 DEF OneWorkerInv, SawLower
  <2>5. ASSUME Report(t) PROVE sawReported'[t] = 0 .. t[2] - 1
    BY <2>5 DEF Report, OneWorkerInv, SawLower
  <2> QED
    BY <2>1, <2>2, <2>3, <2>4, <2>5 DEF Works
<1>7. \A u \in Thread : SawLower(u)'
  BY <1>1, <1>5, <1>6 DEF OneWorkerInv, SawLower
<1> QED
  BY <1>4, <1>7 DEF OneWorkerInv

LEMMA NextOneWorker ==
  Workers = 1 /\ PooledInv /\ OneWorkerInv /\ [PNext]_pvars => OneWorkerInv'
<1> SUFFICES ASSUME Workers = 1, PooledInv, OneWorkerInv, [PNext]_pvars
             PROVE  OneWorkerInv'
  OBVIOUS
<1>1. ASSUME Prepare PROVE OneWorkerInv'
  <2>1. UNCHANGED <<thread, running>> /\ object' = object + 1 /\ object \in Nat
    BY <1>1 DEF Prepare, NextObject, tasks, PooledInv, ParallelInv, TypeOK
  <2>2. \A t \in Thread : t[1] = object + 1 => thread[t] = "none"
    BY <2>1 DEF PooledInv, ParallelInv, Progress
  <2>3. \A t \in Thread : Task(t)' = Task(t)
    BY DEF Task
  <2> QED
    BY <2>1, <2>2, <2>3 DEF OneWorkerInv, Held, InTurn, SawLower
<1>2. ASSUME Add PROVE OneWorkerInv'
  BY <1>2, LaunchOneWorker
<1>3. ASSUME AllReported \/ Destroy PROVE OneWorkerInv'
  BY <1>3, OneWorkerKept DEF AllReported, Collect, Destroy, vars, tasks
<1>4. ASSUME NEW t \in Thread, Dequeue(t) PROVE OneWorkerInv'
  BY <1>4, DequeueOneWorker
<1>5. ASSUME NEW t \in Thread, Work(t) PROVE OneWorkerInv'
  BY <1>5, WorkOneWorker DEF Work, tasks
<1>6. ASSUME NEW t \in Thread, TaskReturns(t) PROVE OneWorkerInv'
  <2>1. /\ thread[t] = "done" /\ running' = running \ {Task(t)}
        /\ UNCHANGED <<object, thread, skipped, sawReported>>
    BY <1>6 DEF TaskReturns, Pool!Finish, vars
  <2>2. \A u \in Thread : thread[u] \in {"draw", "store", "report"} => Task(u) # Task(t)
    BY <2>1, TaskNumbers
  <2> QED
    BY <2>1, <2>2, OneWorkerKept
<1>7. CASE UNCHANGED pvars
  BY <1>7, OneWorkerKept DEF pvars, vars, tasks
<1> QED
  BY <1>1, <1>2, <1>3, <1>4, <1>5, <1>6, <1>7 DEF PNext, PCaller, PWorker

(* With one worker in the pool the replicas that were not given up are on  *)
(* different devices, as main.cpp:696 says: the collision that             *)
(* parallel_replicas shows needs two threads between test and report.      *)
THEOREM OneWorkerKeepsReplicasApart == Workers = 1 => (PSpec => []ReplicasDiffer)
<1> SUFFICES ASSUME Workers = 1 PROVE PSpec => []ReplicasDiffer
  OBVIOUS
<1>1. PooledInv /\ OneWorkerInv => ReplicasDiffer
  <2> SUFFICES ASSUME PooledInv, OneWorkerInv
               PROVE  ReplicasDiffer
    OBVIOUS
  <2>1. ASSUME NEW t \in Thread, NEW u \in Thread, t[1] = object, u[1] = object, t[2] < u[2],
               thread[u] = "done", ~skipped[u]
        PROVE  item[t] # item[u]
    <3>1. t = <<object, t[2]>> /\ t[2] \in 0 .. u[2] - 1
      BY <2>1, Pairs, Numbers DEF Replica
    <3>2. sawReported[u] = 0 .. u[2] - 1
      BY <2>1 DEF OneWorkerInv, SawLower
    <3> QED
      BY <2>1, <3>1, <3>2 DEF PooledInv, ParallelInv, Different
  <2>2. \A t, u \in Thread : t # u /\ t[1] = object /\ u[1] = object => t[2] < u[2] \/ u[2] < t[2]
    BY Pairs, Numbers DEF Replica
  <2> QED
    BY <2>1, <2>2 DEF ReplicasDiffer
<1>2. PooledInv /\ OneWorkerInv /\ [PNext]_pvars => OneWorkerInv'
  BY NextOneWorker
<1> QED
  BY <1>1, <1>2, InitOneWorker, PooledInvariant, PTL DEF PSpec

-----------------------------------------------------------------------------
(* On the pool: the caller and the tasks come to their end                 *)

(* What the pool holds is what has been started and has not returned, and  *)
(* the descents for an object end where the map lets them.                 *)
Holding ==
  /\ running \subseteq 1 .. started
  /\ IsFiniteSet(running)
  /\ \A n \in running : \E t \in Thread : Task(t) = n
  /\ finished = (1 .. started) \ running

DrawnInMap == \A d \in drawn : object \in Object /\ d[2] \in Ends[object]

ReturnInv == PooledInv /\ Holding /\ DrawnInMap

LEMMA InitReturn == PInit => ReturnInv
<1> SUFFICES ASSUME PInit PROVE ReturnInv
  OBVIOUS
<1>1. PooledInv
  BY InitPooled
<1>2. running = {} /\ finished = {} /\ started = 0 /\ drawn = {}
  BY DEF PInit, Init, Pool!Init
<1>3. IsFiniteSet(running)
  BY <1>2, FS_EmptySet
<1> QED
  BY <1>1, <1>2, <1>3 DEF ReturnInv, Holding, DrawnInMap

(* A task is held from its start until its function has returned. *)
LEMMA NextHolding ==
  ASSUME PooledInv, Holding, [PNext]_pvars
  PROVE  Holding'
<1>1. \A t \in Thread : Task(t)' = Task(t)
  BY DEF Task
<1>2. CASE UNCHANGED <<started, running, finished>>
  BY <1>1, <1>2 DEF Holding
<1>3. ASSUME NEW t \in Thread, Dequeue(t) PROVE Holding'
  <2>1. /\ Task(t) = started + 1 /\ started' = started + 1 /\ finished' = finished
        /\ running' = running \union {started + 1}
    BY <1>3 DEF Dequeue, Pool!Start
  <2>2. IsFiniteSet(running')
    BY <2>1, FS_AddElement DEF Holding
  <2>3. started \in Nat
    BY Numbers DEF PooledInv, Tasks
  <2>4. \A n \in running' : \E u \in Thread : Task(u) = n
    BY <2>1 DEF Holding
  <2>5. running' \subseteq 1 .. started + 1 /\ finished = (1 .. started + 1) \ running'
    BY <2>1, <2>3 DEF Holding
  <2> QED
    BY <1>1, <2>1, <2>2, <2>4, <2>5 DEF Holding
<1>4. ASSUME NEW t \in Thread, TaskReturns(t) PROVE Holding'
  <2>1. /\ Task(t) \in running /\ started' = started /\ running' = running \ {Task(t)}
        /\ finished' = finished \union {Task(t)}
    BY <1>4 DEF TaskReturns, Pool!Finish
  <2>2. IsFiniteSet(running')
    BY <2>1, FS_RemoveElement DEF Holding
  <2>3. finished' = (1 .. started) \ running'
    BY <2>1 DEF Holding
  <2> QED
    BY <1>1, <2>1, <2>2, <2>3 DEF Holding
<1>5. CASE Prepare \/ Add \/ AllReported \/ Destroy \/ \E t \in Thread : Work(t)
  BY <1>2, <1>5 DEF Prepare, Add, AllReported, Destroy, Work, Pool!Submit, tasks
<1>6. CASE UNCHANGED pvars
  BY <1>2, <1>6 DEF pvars, tasks
<1> QED
  BY <1>3, <1>4, <1>5, <1>6 DEF PNext, PCaller, PWorker

LEMMA NextDrawn ==
  ASSUME PooledInv, DrawnInMap, [PNext]_pvars
  PROVE  DrawnInMap'
<1>1. CASE UNCHANGED <<object, drawn>>
  BY <1>1 DEF DrawnInMap
<1>2. CASE Prepare
  BY <1>2 DEF Prepare, NextObject, DrawnInMap
<1>3. ASSUME NEW t \in Thread, Work(t) PROVE DrawnInMap'
  <2>1. CASE Store(t) \/ Report(t)
    BY <1>1, <2>1 DEF Store, Report
  <2>2. ASSUME NEW i \in Ends[t[1]],
               EndsBeyondMap(t, i) \/ EndsInEmptyBucket(t, i) \/ EndsAtDevice(t, i)
        PROVE  DrawnInMap'
    <3>1. drawn' = drawn \union {<<R(t), i>>} /\ object' = object /\ thread[t] = "draw"
      BY <2>2 DEF EndsBeyondMap, EndsInEmptyBucket, EndsAtDevice, Descend
    <3>2. t[1] = object /\ object \in Object
      BY <3>1, AtWork DEF PooledInv
    <3>3. i \in Ends[object]
      BY <2>2, <3>2
    <3> QED
      BY <3>1, <3>2, <3>3 DEF DrawnInMap
  <2> QED
    BY <1>3, <2>1, <2>2 DEF Work, Works
<1>4. CASE Add \/ AllReported \/ Destroy \/ \E t \in Thread : Dequeue(t) \/ TaskReturns(t)
  BY <1>1, <1>4 DEF Add, AllReported, Destroy, Dequeue, TaskReturns, Launch, Collect, Begin,
                    vars
<1>5. CASE UNCHANGED pvars
  BY <1>1, <1>5 DEF pvars, vars
<1> QED
  BY <1>2, <1>3, <1>4, <1>5 DEF PNext, PCaller, PWorker

LEMMA ReturnInvariant == PSpec => []ReturnInv
<1>1. ReturnInv /\ [PNext]_pvars => ReturnInv'
  BY NextPooled, NextHolding, NextDrawn DEF ReturnInv
<1> QED
  BY <1>1, InitReturn, PTL DEF PSpec

-----------------------------------------------------------------------------
(* What is left to do                                                      *)

CallerStage ==
  CASE caller = "launch" -> 2
    [] caller = "spin" -> 1
    [] caller = "next" -> 0

(* An attempt of a thread is a draw and, unless it fails there, a store. *)
Rank(t) ==
  CASE thread[t] \in {"none", "done"} -> 0
    [] thread[t] = "report" -> 1
    [] thread[t] = "store" -> 2 * (Tries - ftotal[t])
    [] thread[t] = "draw" -> 2 * (Tries - ftotal[t]) + 1
    [] thread[t] = "ready" -> 2 * Tries + 2

WorkSteps == {p \in Thread \X (1 .. 2 * Tries + 2) : p[2] <= Rank(p[1])}
WorkLeft == Cardinality(WorkSteps)
PoolLeft == IF destroyed THEN 0 ELSE 1
RunningLeft == Cardinality(running)

Measure ==
  <<Objects - object, CallerStage, NumRep - launched, PoolLeft, WorkLeft, RunningLeft>>

LEMMA RankType == TypeOK => \A u \in Thread : Rank(u) \in 0 .. 2 * Tries + 2
<1> SUFFICES ASSUME TypeOK, NEW u \in Thread PROVE Rank(u) \in 0 .. 2 * Tries + 2
  OBVIOUS
<1>1. Tries \in Nat /\ ftotal[u] \in 0 .. Tries
  BY Numbers DEF TypeOK
<1>2. Tries - ftotal[u] \in 0 .. Tries
  BY <1>1
<1> QED
  BY <1>1, <1>2 DEF Rank, TypeOK

LEMMA ThreadFinite == IsFiniteSet(Thread)
<1>1. 1 \in Int /\ Objects \in Int
  BY Numbers
<1>2. IsFiniteSet(Object)
  BY <1>1, FS_Interval, Zenon DEF Object
<1> QED
  BY <1>2, ReplicaFinite, FS_Product, Zenon DEF Thread

LEMMA WorkCounted == IsFiniteSet(WorkSteps) /\ WorkLeft \in Nat
<1>1. 1 \in Int /\ 2 * Tries + 2 \in Int
  BY Numbers
<1>2. IsFiniteSet(1 .. 2 * Tries + 2)
  BY <1>1, FS_Interval, Zenon
<1>3. IsFiniteSet(Thread \X (1 .. 2 * Tries + 2))
  BY <1>2, ThreadFinite, FS_Product, Zenon
<1>4. WorkSteps \in SUBSET (Thread \X (1 .. 2 * Tries + 2))
  BY DEF WorkSteps
<1>5. IsFiniteSet(WorkSteps)
  BY <1>3, <1>4, FS_Subset, Zenon
<1> QED
  BY <1>5, FS_CardinalityType DEF WorkLeft

LEMMA MeasureTyped == ReturnInv => Measure \in [1 .. 6 -> Nat]
<1> SUFFICES ASSUME ReturnInv PROVE Measure \in [1 .. 6 -> Nat]
  OBVIOUS
<1>1. TypeOK /\ IsFiniteSet(running)
  BY DEF ReturnInv, PooledInv, ParallelInv, Holding
<1>2. Objects - object \in Nat /\ NumRep - launched \in Nat
  BY <1>1, Numbers DEF TypeOK
<1>3. CallerStage \in Nat
  BY <1>1 DEF TypeOK, CallerStage
<1>4. RunningLeft \in Nat
  BY <1>1, FS_CardinalityType DEF RunningLeft
<1>5. PoolLeft \in Nat
  BY DEF PoolLeft
<1> QED
  BY <1>2, <1>3, <1>4, <1>5, WorkCounted DEF Measure

(* The first number that changes falls. *)
Falls ==
  \/ Objects - object' < Objects - object
  \/ object' = object /\ CallerStage' < CallerStage
  \/ UNCHANGED <<object, caller>> /\ NumRep - launched' < NumRep - launched
  \/ UNCHANGED <<object, caller, launched>> /\ PoolLeft' < PoolLeft
  \/ UNCHANGED <<object, caller, launched, destroyed>> /\ WorkLeft' < WorkLeft
  \/ UNCHANGED <<object, caller, launched, destroyed>> /\ WorkLeft' = WorkLeft /\ RunningLeft' < RunningLeft

LEMMA FallsLowers == Falls => Lower(Measure', Measure, 6)
<1> DEFINE m == Measure
           n == Measure'
<1>1. /\ m[1] = Objects - object /\ m[2] = CallerStage /\ m[3] = NumRep - launched
      /\ m[4] = PoolLeft /\ m[5] = WorkLeft /\ m[6] = RunningLeft
  BY DEF Measure
<1>2. /\ n[1] = Objects - object' /\ n[2] = CallerStage' /\ n[3] = NumRep - launched'
      /\ n[4] = PoolLeft' /\ n[5] = WorkLeft' /\ n[6] = RunningLeft'
  BY DEF Measure
<1> SUFFICES ASSUME Falls PROVE Lower(n, m, 6)
  OBVIOUS
<1>3. /\ object' = object => n[1] = m[1]
      /\ caller' = caller => n[2] = m[2]
      /\ launched' = launched => n[3] = m[3]
      /\ destroyed' = destroyed => n[4] = m[4]
  <2>1. caller' = caller => CallerStage' = CallerStage
    BY DEF CallerStage
  <2>2. destroyed' = destroyed => PoolLeft' = PoolLeft
    BY DEF PoolLeft
  <2> QED
    BY <1>1, <1>2, <2>1, <2>2, Zenon
<1>4. \/ n[1] < m[1]
      \/ n[1] = m[1] /\ n[2] < m[2]
      \/ n[1] = m[1] /\ n[2] = m[2] /\ n[3] < m[3]
      \/ n[1] = m[1] /\ n[2] = m[2] /\ n[3] = m[3] /\ n[4] < m[4]
      \/ n[1] = m[1] /\ n[2] = m[2] /\ n[3] = m[3] /\ n[4] = m[4] /\ n[5] < m[5]
      \/ /\ n[1] = m[1] /\ n[2] = m[2] /\ n[3] = m[3] /\ n[4] = m[4] /\ n[5] = m[5]
         /\ n[6] < m[6]
  BY <1>1, <1>2, <1>3, Zenon DEF Falls
<1> HIDE DEF m, n
<1> QED
  BY <1>4 DEF Lower

(* One thread goes on, the others stand still. *)
LEMMA LessWork ==
  ASSUME TypeOK, TypeOK', NEW t \in Thread, Rank(t)' < Rank(t),
         \A u \in Thread : u # t => Rank(u)' = Rank(u)
  PROVE  WorkLeft' < WorkLeft
<1>1. \A u \in Thread : Rank(u) \in 0 .. 2 * Tries + 2
  BY RankType
<1>2. (\A u \in Thread : Rank(u) \in 0 .. 2 * Tries + 2)'
  BY RankType, PTL
<1>3. Tries \in Nat
  BY Numbers
<1>4. WorkSteps' \subseteq WorkSteps
  BY <1>1, <1>2, <1>3 DEF WorkSteps
<1>5. WorkSteps' # WorkSteps
  <2> DEFINE p == <<t, Rank(t)>>
  <2>1. p \in WorkSteps /\ p \notin WorkSteps'
    BY <1>1, <1>2, <1>3 DEF WorkSteps
  <2> QED
    BY <2>1
<1>6. IsFiniteSet(WorkSteps) /\ WorkLeft \in Nat /\ (IsFiniteSet(WorkSteps) /\ WorkLeft \in Nat)'
  BY WorkCounted, PTL
<1>7. /\ Cardinality(WorkSteps') <= Cardinality(WorkSteps)
      /\ Cardinality(WorkSteps') = Cardinality(WorkSteps) => WorkSteps' = WorkSteps
  BY <1>4, <1>6, FS_Subset
<1> QED
  BY <1>5, <1>6, <1>7 DEF WorkLeft

(* What one step of a thread makes of its rank. *)
LEMMA ThreadGoesOn ==
  ASSUME ReturnInv, ReturnInv', NEW t \in Thread, Begin(t) \/ Works(t),
         UNCHANGED destroyed
  PROVE  Falls
<1> USE DEF ReturnInv, PooledInv, ParallelInv, TypeOK
<1>1. Tries \in Nat /\ ftotal[t] \in 0 .. Tries
  BY Numbers
<1>2. UNCHANGED <<object, caller, launched>>
  BY DEF Begin, Works, EndsBeyondMap, EndsInEmptyBucket, EndsAtDevice, Store, Report
<1>3. /\ \E s \in {"draw", "store", "report", "done"} : thread' = [thread EXCEPT ![t] = s]
      /\ \E n \in Nat : ftotal' = [ftotal EXCEPT ![t] = n]
  <2>1. CASE Begin(t)
    BY <1>1, <2>1 DEF Begin
  <2>2. CASE Works(t)
    BY <1>1, <2>2 DEF Works, EndsBeyondMap, EndsInEmptyBucket, EndsAtDevice, Reject, Store, Report
  <2> QED
    BY <2>1, <2>2
<1>4. \A u \in Thread : u # t => thread'[u] = thread[u] /\ ftotal'[u] = ftotal[u]
  BY <1>3
<1>5. \A u \in Thread : u # t => Rank(u)' = Rank(u)
  BY <1>4 DEF Rank
<1>6. CASE Begin(t)
  <2>1. thread[t] = "ready" /\ thread'[t] = "draw" /\ ftotal'[t] \in 0 .. Tries
    BY <1>1, <1>6 DEF Begin
  <2>2. Rank(t) = 2 * Tries + 2 /\ Rank(t)' = 2 * (Tries - ftotal'[t]) + 1
    BY <2>1 DEF Rank
  <2>3. Rank(t)' < Rank(t)
    BY <1>1, <2>1, <2>2
  <2> QED
    BY <1>2, <1>5, <2>3, LessWork DEF Falls
<1>7. CASE Works(t)
  <2>1. \/ /\ thread[t] = "draw"
           /\ \/ thread'[t] = "draw" /\ ftotal'[t] = ftotal[t] + 1
              \/ thread'[t] = "report"
              \/ thread'[t] = "store" /\ ftotal'[t] = ftotal[t]
        \/ /\ thread[t] = "store"
           /\ \/ thread'[t] = "draw" /\ ftotal'[t] = ftotal[t] + 1
              \/ thread'[t] = "report"
        \/ thread[t] = "report" /\ thread'[t] = "done"
    BY <1>7 DEF Works, EndsBeyondMap, EndsInEmptyBucket, EndsAtDevice, Descend, Reject,
                Store, Report
  <2>2. thread[t] \in {"draw", "store"} => Tries - ftotal[t] \in Nat \ {0}
    BY <1>1 DEF Chosen
  <2>3. /\ thread[t] = "draw" => Rank(t) = 2 * (Tries - ftotal[t]) + 1
        /\ thread[t] = "store" => Rank(t) = 2 * (Tries - ftotal[t])
        /\ thread[t] = "report" => Rank(t) = 1
    BY DEF Rank
  <2>4. /\ thread'[t] = "draw" => Rank(t)' = 2 * (Tries - ftotal'[t]) + 1
        /\ thread'[t] = "store" => Rank(t)' = 2 * (Tries - ftotal'[t])
        /\ thread'[t] = "report" => Rank(t)' = 1
        /\ thread'[t] = "done" => Rank(t)' = 0
    BY DEF Rank
  <2>5. Rank(t)' < Rank(t)
    BY <1>1, <2>1, <2>2, <2>3, <2>4
  <2> QED
    BY <1>2, <1>5, <2>5, LessWork DEF Falls
<1> QED
  BY <1>6, <1>7

(* The caller places the next object, adds the next task, sees that all    *)
(* have reported, or destroys the pool, which it does once.                *)
LEMMA CallerGoesOn ==
  ASSUME ReturnInv, PCaller
  PROVE  Falls
<1>1. object \in Int /\ launched \in Int /\ Objects \in Int /\ NumRep \in Int
  BY Numbers DEF ReturnInv, PooledInv, ParallelInv, TypeOK
<1>2. CASE Prepare
  <2>1. object' = object + 1
    BY <1>2 DEF Prepare, NextObject
  <2> QED
    BY <1>1, <2>1 DEF Falls
<1>3. CASE Add
  <2>1. /\ object' = object /\ launched' = launched + 1 /\ caller = "launch"
        /\ caller' \in {"launch", "spin"}
    BY <1>3 DEF Add, Launch
  <2>2. CASE caller' = "launch"
    BY <1>1, <2>1, <2>2 DEF Falls
  <2>3. CASE caller' = "spin"
    BY <2>1, <2>3 DEF Falls, CallerStage
  <2> QED
    BY <2>1, <2>2, <2>3
<1>4. CASE AllReported
  BY <1>4 DEF AllReported, Collect, Falls, CallerStage
<1>5. CASE Destroy
  <2>1. UNCHANGED <<object, caller, launched>>
    BY <1>5 DEF Destroy, vars
  <2>2. ~destroyed /\ destroyed'
    BY <1>5, Zenon DEF Destroy
  <2>3. PoolLeft' < PoolLeft
    BY <2>2 DEF PoolLeft
  <2> QED
    BY <2>1, <2>3 DEF Falls
<1> QED
  BY <1>2, <1>3, <1>4, <1>5 DEF PCaller

LEMMA ReturnGoesOn ==
  ASSUME ReturnInv, NEW t \in Thread, TaskReturns(t)
  PROVE  Falls
<1>1. /\ UNCHANGED <<object, caller, launched, thread, ftotal, destroyed>>
      /\ Task(t) \in running /\ running' = running \ {Task(t)}
  BY DEF TaskReturns, vars, Pool!Finish
<1>2. WorkLeft' = WorkLeft
  BY <1>1 DEF WorkLeft, WorkSteps, Rank
<1>3. /\ IsFiniteSet(running) /\ Cardinality(running) \in Nat
      /\ Cardinality(running') = Cardinality(running) - 1
  BY <1>1, FS_RemoveElement, FS_CardinalityType DEF ReturnInv, Holding
<1>4. RunningLeft' < RunningLeft
  BY <1>3 DEF RunningLeft
<1> QED
  BY <1>1, <1>2, <1>4 DEF Falls

(* Every step of the caller and of a worker lowers what is left: the       *)
(* objects, the tasks to add, the attempts of the threads, the functions   *)
(* that have not returned.  By NoEndlessDescent the placement on the pool  *)
(* comes to rest after finitely many steps, however the tasks share the    *)
(* workers; no do_work draws for ever.                                     *)
THEOREM EveryTaskStepIsProgress ==
  PSpec => [](Measure \in [1 .. 6 -> Nat]) /\ [][Lower(Measure', Measure, 6)]_pvars
<1>1. ASSUME ReturnInv, ReturnInv', PNext PROVE Falls
  <2>1. ASSUME NEW t \in Thread, PWorker(t) PROVE Falls
    BY <1>1, <2>1, ThreadGoesOn, ReturnGoesOn DEF PWorker, Dequeue, Work
  <2> QED
    BY <1>1, <2>1, CallerGoesOn DEF PNext
<1>2. ReturnInv /\ ReturnInv' /\ [PNext]_pvars => [Lower(Measure', Measure, 6)]_pvars
  BY <1>1, FallsLowers
<1> QED
  BY <1>2, ReturnInvariant, MeasureTyped, PTL DEF PSpec

-----------------------------------------------------------------------------
(* Somebody can always go on                                               *)

CallerCanGo ==
  \/ caller = "next" /\ object < Objects
  \/ caller = "launch" /\ accepted < NumRep * Objects
  \/ caller = "spin" /\ outpos = NumRep
  \/ caller = "next" /\ object = Objects /\ ~destroyed

ThreadCanGo(t) ==
  \/ /\ thread[t] = "ready" /\ ~destroyed
     /\ Task(t) = started + 1 /\ started < accepted
     /\ Cardinality(running) < Workers
  \/ thread[t] = "draw" /\ \E i \in Ends[t[1]] : \A d \in drawn : d[1] = R(t) => d[2] = i
  \/ thread[t] \in {"store", "report"}
  \/ thread[t] = "done" /\ Task(t) \in running

AllReturned == destroyed /\ finished = 1 .. NumRep * Objects

(* A descent for r that another thread made before ends where it ended. *)
LEMMA CanDraw ==
  ASSUME ReturnInv, NEW t \in Thread, thread[t] = "draw"
  PROVE  \E i \in Ends[t[1]] : \A d \in drawn : d[1] = R(t) => d[2] = i
<1>1. t[1] = object /\ object \in Object
  BY AtWork DEF ReturnInv, PooledInv
<1>2. CASE \E e \in drawn : e[1] = R(t)
  <2>1. PICK e \in drawn : e[1] = R(t)
    BY <1>2
  <2>2. e[2] \in Ends[t[1]]
    BY <1>1, <2>1 DEF ReturnInv, DrawnInMap
  <2>3. \A d \in drawn : d[1] = R(t) => d[2] = e[2]
    BY <2>1 DEF ReturnInv, PooledInv, ParallelInv, OneDraw
  <2> QED
    BY <2>2, <2>3
<1>3. CASE ~ \E e \in drawn : e[1] = R(t)
  <2>1. Ends[t[1]] # {}
    BY <1>1, ParallelAssumption DEF Object
  <2> QED
    BY <1>3, <2>1
<1> QED
  BY <1>2, <1>3

(* Once it is started, a task goes on until its function has returned. *)
LEMMA HeldCanGo ==
  ASSUME ReturnInv, running # {}
  PROVE  \E t \in Thread : ThreadCanGo(t)
<1>1. PICK n \in running : TRUE
  OBVIOUS
<1>2. PICK t \in Thread : Task(t) = n
  BY <1>1 DEF ReturnInv, Holding
<1>3. Task(t) <= started
  BY <1>1, <1>2, Numbers DEF ReturnInv, Holding, PooledInv, Tasks
<1>4. thread[t] \in {"draw", "store", "report", "done"}
  BY <1>3 DEF ReturnInv, PooledInv, ParallelInv, TypeOK, Tasks
<1> QED
  BY <1>1, <1>2, <1>4, CanDraw DEF ThreadCanGo

(* The task just before that of replica k of the object being placed.      *)
LEMMA TaskBefore ==
  ASSUME ReturnInv, object \in Object, NEW k \in Replica,
         \A j \in Replica : j < k => thread[<<object, j>>] = "done"
  PROVE  Task(<<object, k>>) - 1 <= started
<1> USE DEF ReturnInv, PooledInv, ParallelInv, TypeOK, Object, Replica
<1>1. /\ object \in Nat /\ k \in Nat /\ NumRep \in Nat \ {0}
      /\ NumRep * (object - 1) \in Nat /\ started \in Nat
  BY Numbers DEF Tasks
<1>2. Task(<<object, k>>) = NumRep * (object - 1) + k + 1
  BY DEF Task
<1>3. CASE k > 0
  <2> DEFINE u == <<object, k - 1>>
  <2>1. k - 1 \in Replica /\ u \in Thread
    BY <1>1, <1>3, Pairs
  <2>2. thread[u] = "done"
    BY <1>1, <2>1
  <2>3. Task(u) <= started
    BY <2>1, <2>2 DEF Tasks
  <2>4. Task(u) = NumRep * (object - 1) + (k - 1) + 1
    BY DEF Task
  <2> QED
    BY <1>1, <1>2, <2>3, <2>4
<1>4. CASE k = 0 /\ object > 1
  <2> DEFINE u == <<object - 1, NumRep - 1>>
  <2>1. u \in Thread /\ u[1] = object - 1
    <3>1. object - 1 \in 1 .. Objects /\ NumRep - 1 \in 0 .. NumRep - 1
      BY <1>1, <1>4, Numbers
    <3> QED
      BY <3>1, Pairs, Zenon
  <2>2. thread[u] = "done"
    BY <1>1, <2>1 DEF Progress
  <2>3. Task(u) <= started
    BY <2>1, <2>2 DEF Tasks
  <2>4. Task(u) = NumRep * (object - 2) + (NumRep - 1) + 1
    BY <1>1 DEF Task
  <2>5. NumRep * (object - 2) + NumRep = NumRep * (object - 1) /\ NumRep * (object - 2) \in Int
    BY <1>1
  <2> QED
    BY <1>1, <1>2, <1>4, <2>3, <2>4, <2>5
<1>5. CASE k = 0 /\ object = 1
  <2>1. NumRep * (object - 1) = 0
    BY <1>1, <1>5
  <2> QED
    BY <1>1, <1>2, <1>5, <2>1
<1> QED
  BY <1>1, <1>3, <1>4, <1>5

(* While the caller spins and no worker holds a task, the task of the      *)
(* lowest replica that has not begun is the next in the queue.             *)
LEMMA NextCanGo ==
  ASSUME ReturnInv, caller = "spin", outpos # NumRep, running = {}
  PROVE  \E t \in Thread : ThreadCanGo(t)
<1> USE DEF ReturnInv, PooledInv, ParallelInv, TypeOK
<1>1. object \in Object /\ launched = NumRep /\ NumRep \in Nat \ {0}
  BY Numbers DEF Progress, Object
<1>2. \A k \in Replica : <<object, k>> \in Thread /\ <<object, k>>[1] = object /\ <<object, k>>[2] = k
  BY <1>1, Pairs
<1>3. \A k \in Replica : thread[<<object, k>>] \in {"ready", "draw", "store", "report", "done"}
  <2>1. \A k \in Replica : ~(k >= launched)
    BY <1>1 DEF Replica
  <2> QED
    BY <1>2, <2>1 DEF Progress
<1>4. CASE \E k \in Replica : thread[<<object, k>>] \in {"draw", "store", "report"}
  BY <1>2, <1>4, CanDraw DEF ThreadCanGo
<1>5. CASE \A k \in Replica : thread[<<object, k>>] \in {"ready", "done"}
  <2> DEFINE Waiting == {k \in Replica : thread[<<object, k>>] = "ready"}
  <2>1. Waiting # {}
    <3>1. Reported # Replica
      BY <1>1, ReplicaFinite DEF Progress, Object
    <3> QED
      BY <1>5, <3>1 DEF Reported
  <2>2. PICK k \in Waiting : \A j \in Waiting : k <= j
    <3>1. Waiting \subseteq Nat
      BY DEF Replica
    <3> QED
      BY <2>1, <3>1, LeastElement
  <2>3. k \in Replica /\ thread[<<object, k>>] = "ready" /\ k \in 0 .. NumRep - 1
    BY DEF Replica
  <2>4. \A j \in Replica : j < k => thread[<<object, j>>] = "done"
    BY <1>5, <2>2, <2>3 DEF Replica
  <2> DEFINE t == <<object, k>>
  <2>5. t \in Thread /\ ~(Task(t) <= started) /\ Task(t) - 1 <= started
        /\ Task(t) \in 1 .. NumRep * Objects /\ started \in 0 .. NumRep * Objects
    BY <1>1, <1>2, <2>3, <2>4, TaskBefore, TaskNumbers DEF Tasks
  <2>6. NumRep * Objects \in Int
    BY Numbers
  <2>7. Task(t) = started + 1
    BY <2>5, <2>6
  <2>8. ~destroyed
    BY <2>5, <2>6 DEF NoTaskLost
  <2>9. started < accepted
    <3>1. Task(t) = NumRep * (object - 1) + k + 1
      BY DEF Task
    <3>2. accepted = NumRep * (object - 1) + NumRep
      BY <1>1 DEF Tasks, Object
    <3>3. NumRep * (object - 1) \in Int /\ started \in Int
      BY <1>1, <2>5, <2>6, Numbers DEF Object
    <3> QED
      BY <1>1, <2>3, <2>7, <3>1, <3>2, <3>3
  <2>10. Cardinality(running) < Workers
    BY PooledAssumption, FS_EmptySet
  <2> QED
    BY <2>3, <2>5, <2>7, <2>8, <2>9, <2>10 DEF ThreadCanGo
<1> QED
  BY <1>3, <1>4, <1>5

(* Until the pool is destroyed and every task has returned there is always *)
(* somebody who waits for nobody: the caller does not spin, or every       *)
(* replica has reported, or a worker has a task, or one is free for the    *)
(* task that is next in the queue.  With EveryTaskStepIsProgress, the only *)
(* place to come to rest is the one AllTasksReturn names; what fairness    *)
(* adds is that such a thread is scheduled.                                *)
THEOREM PlacementNeverStuck ==
  PSpec => [](\/ AllReturned
              \/ CallerCanGo
              \/ \E t \in Thread : ThreadCanGo(t))
<1>1. ASSUME ReturnInv PROVE AllReturned \/ CallerCanGo \/ \E t \in Thread : ThreadCanGo(t)
  <2> USE DEF ReturnInv, PooledInv, ParallelInv, TypeOK
  <2>1. CASE running # {}
    BY <1>1, <2>1, HeldCanGo
  <2>2. CASE caller = "spin" /\ running = {}
    BY <1>1, <2>2, NextCanGo DEF CallerCanGo
  <2>3. CASE caller = "launch"
    <3>1. object \in 1 .. Objects /\ launched < NumRep /\ launched \in Nat /\ NumRep \in Nat
      BY <1>1, <2>3, Numbers DEF Progress
    <3>2. NumRep * (object - 1) + NumRep <= NumRep * Objects
      BY <3>1, Distribute, Numbers
    <3>3. NumRep * (object - 1) \in Int /\ NumRep * Objects \in Int
      BY <3>1, Numbers
    <3>4. accepted = NumRep * (object - 1) + launched
      BY <1>1, <3>1 DEF Tasks
    <3>5. accepted < NumRep * Objects
      BY <3>1, <3>2, <3>3, <3>4
    <3> QED
      BY <2>3, <3>5 DEF CallerCanGo
  <2>4. CASE caller = "next" /\ running = {}
    <3>1. CASE object = Objects /\ destroyed
      <4>1. started = NumRep * Objects
        BY <1>1, <3>1 DEF NoTaskLost
      <4>2. finished = 1 .. started
        BY <1>1, <2>4 DEF Holding
      <4> QED
        BY <3>1, <4>1, <4>2 DEF AllReturned
    <3>2. CASE ~(object = Objects /\ destroyed)
      <4>1. object < Objects \/ object = Objects
        BY <1>1, Numbers
      <4> QED
        BY <2>4, <3>2, <4>1 DEF CallerCanGo
    <3> QED
      BY <3>1, <3>2
  <2> QED
    BY <1>1, <2>1, <2>2, <2>3, <2>4
<1> QED
  BY <1>1, ReturnInvariant, PTL
=============================================================================
