------------------------- MODULE ParallelPlacement --------------------------
(***************************************************************************)
(* The parallel placement of CRUSH_Research/main.cpp: one caller hands the *)
(* same firstn_info to do_work1, do_work2 and do_work3, each of which      *)
(* chooses one replica of an object, spins until outpos says that all have *)
(* reported, frees the array out, and goes on to the next object with the  *)
(* same firstn_info.                                                       *)
(*                                                                         *)
(* The cluster map is read only, so the descent of a thread from the root  *)
(* with a given r is one step; what it ends at is a function of r for one  *)
(* object.  The accesses to firstn under the mutex are the steps between   *)
(* which threads interleave.  As in both callers, the type is 0,           *)
(* recurse_to_leaf is set, out2 is out and there are no local retries.     *)
(***************************************************************************)
EXTENDS Integers, FiniteSets

CONSTANTS
  NumRep,                  \* numrep, the number of do_work functions: 3
  Objects,                 \* how many objects the caller places
  Tries,                   \* firstn->tries
  Stable,                  \* firstn->stable
  MaxDevices,              \* map->max_devices
  Ends,                    \* what a descent for an object may end at, see below
  Garbage                  \* what a new array out may hold

ASSUME ParallelAssumption ==
  /\ NumRep \in Nat \ {0}
  /\ Objects \in Nat
  /\ Tries \in Nat \ {0}
  /\ Stable \in BOOLEAN
  /\ MaxDevices \in Nat
  /\ Ends \in [1 .. Objects -> (SUBSET Int) \ {{}}]
  /\ Garbage \subseteq Int
  /\ Garbage # {}

(* A descent ends at a device of the map, at an item that is no device of  *)
(* the map (not below MaxDevices), or in an empty bucket: then item is the *)
(* number of that bucket, a negative one.                                  *)
Device == 0 .. MaxDevices - 1
Replica == 0 .. NumRep - 1           \* the local constant outpos of a thread
Object == 1 .. Objects
Thread == Object \X Replica

VARIABLES
  object,                  \* firstn->x: the object being placed, 0 before the first
  drawn,                   \* where the descents for it ended: pairs <<r, item>>
  rejected,                \* the devices is_out turns down for it
  out, allocated,          \* the array, and whether it is allocated
  outpos,                  \* firstn->outpos
  caller,                  \* where the caller is
  launched,                \* how many threads it has started for this object
  thread,                  \* thread[t]: where t is in its do_work function
  ftotal, item,            \* its locals
  skipped,                 \* its local skip_rep
  sawReported              \* history: lower replicas reported at t's last test

callerVars == <<object, rejected, allocated, caller, launched>>
localVars == <<ftotal, item, skipped, sawReported>>
vars == <<callerVars, drawn, out, outpos, thread, localVars>>

Init ==
  /\ object = 0
  /\ drawn = {}
  /\ rejected = {}
  /\ out = [k \in Replica |-> 0]
  /\ allocated = FALSE
  /\ outpos = 0
  /\ caller = "next"
  /\ launched = 0
  /\ thread = [t \in Thread |-> "none"]
  /\ ftotal = [t \in Thread |-> 0]
  /\ item = [t \in Thread |-> 0]
  /\ skipped = [t \in Thread |-> FALSE]
  /\ sawReported = [t \in Thread |-> {}]

-----------------------------------------------------------------------------
(* The caller                                                              *)

(* A new array and the next object; the rest of firstn stays as it is.     *)
(* The locals of a thread that has returned are gone.                      *)
NextObject ==
  /\ caller = "next"
  /\ object < Objects
  /\ object' = object + 1
  /\ drawn' = {}
  /\ rejected' \in SUBSET Device
  /\ out' \in [Replica -> Garbage]
  /\ allocated' = TRUE
  /\ outpos' = 0
  /\ launched' = 0
  /\ caller' = "launch"
  /\ LET kept(local, none) == [t \in Thread |-> IF thread[t] = "done" THEN none ELSE local[t]]
     IN  /\ ftotal' = kept(ftotal, 0)
         /\ item' = kept(item, 0)
         /\ skipped' = kept(skipped, FALSE)
         /\ sawReported' = kept(sawReported, {})
  /\ UNCHANGED thread

Launch ==
  /\ caller = "launch"
  /\ thread' = [thread EXCEPT ![<<object, launched>>] = "ready"]
  /\ launched' = launched + 1
  /\ caller' = IF launched + 1 = NumRep THEN "spin" ELSE "launch"
  /\ UNCHANGED <<object, drawn, rejected, out, allocated, outpos, localVars>>

(* Bug: the caller waits for one report less. *)
BugReturnsEarly ==
  /\ caller = "spin"
  /\ outpos >= NumRep - 1
  /\ allocated' = FALSE
  /\ caller' = "next"
  /\ UNCHANGED <<object, drawn, rejected, out, outpos, launched, thread, localVars>>

(* The loop on outpos, read without the mutex, ends; out is deleted. *)
Collect ==
  /\ caller = "spin"
  /\ outpos = NumRep
  /\ allocated' = FALSE
  /\ caller' = "next"
  /\ UNCHANGED <<object, drawn, rejected, out, outpos, launched, thread, localVars>>

-----------------------------------------------------------------------------
(* A thread t = <<object, replica>>                                        *)

Begin(t) ==
  /\ thread[t] = "ready"
  /\ thread' = [thread EXCEPT ![t] = "draw"]
  /\ UNCHANGED <<callerVars, drawn, out, outpos, localVars>>

(* r = rep + parent_r + ftotal, where parent_r and outpos are the number   *)
(* in the name of the function, less one.                                  *)
R(t) == (IF Stable THEN 0 ELSE t[2]) + t[2] + ftotal[t]

Descend(t, i) ==
  /\ thread[t] = "draw"
  /\ \A d \in drawn : d[1] = R(t) => d[2] = i
  /\ drawn' = drawn \union {<<R(t), i>>}
  /\ item' = [item EXCEPT ![t] = i]

Reported == {k \in Replica : thread[<<object, k>>] = "done"}

(* Bug: the items of all other replicas are compared. *)
BugComparesAll(t, i) == \E k \in Replica \ {t[2]} : out[k] = i

(* Bug: the item of the replica before this one is not compared. *)
BugComparesOneLess(t, i) == \E k \in 0 .. t[2] - 2 : out[k] = i

(* The items of the lower replicas, as they are in out at this moment. *)
Collides(t, i) == \E k \in 0 .. t[2] - 1 : out[k] = i

(* A failed attempt: start again with the next r, or give up. *)
Reject(t) ==
  /\ ftotal' = [ftotal EXCEPT ![t] = @ + 1]
  /\ IF ftotal[t] + 1 < Tries
     THEN thread' = [thread EXCEPT ![t] = "draw"] /\ UNCHANGED skipped
     ELSE /\ thread' = [thread EXCEPT ![t] = "report"]
          /\ skipped' = [skipped EXCEPT ![t] = TRUE]

EndsBeyondMap(t, i) ==
  /\ Descend(t, i)
  /\ i >= MaxDevices
  /\ skipped' = [skipped EXCEPT ![t] = TRUE]
  /\ thread' = [thread EXCEPT ![t] = "report"]
  /\ UNCHANGED <<callerVars, out, outpos, ftotal, sawReported>>

EndsInEmptyBucket(t, i) ==
  /\ Descend(t, i)
  /\ i < 0
  /\ Reject(t)
  /\ UNCHANGED <<callerVars, out, outpos, sawReported>>

(* The test for collisions is one critical section ... *)
EndsAtDevice(t, i) ==
  /\ Descend(t, i)
  /\ i \in Device
  /\ sawReported' = [sawReported EXCEPT ![t] = Reported \intersect (0 .. t[2] - 1)]
  /\ IF Collides(t, i)
     THEN Reject(t)
     ELSE thread' = [thread EXCEPT ![t] = "store"] /\ UNCHANGED <<ftotal, skipped>>
  /\ UNCHANGED <<callerVars, out, outpos>>

(* Bug: is_out is not asked. *)
BugNotAsked(t) ==
  /\ thread[t] = "store"
  /\ out' = [out EXCEPT ![t[2]] = item[t]]
  /\ thread' = [thread EXCEPT ![t] = "report"]
  /\ UNCHANGED <<callerVars, drawn, outpos, localVars>>

(* ... the item is stored in out2, which is out, in a second one, before   *)
(* is_out decides ...                                                      *)
Store(t) ==
  /\ thread[t] = "store"
  /\ out' = [out EXCEPT ![t[2]] = item[t]]
  /\ IF item[t] \in rejected
     THEN Reject(t)
     ELSE thread' = [thread EXCEPT ![t] = "report"] /\ UNCHANGED <<ftotal, skipped>>
  /\ UNCHANGED <<callerVars, drawn, outpos, item, sawReported>>

(* Bug: a replica that was given up is not counted, as in the loop of      *)
(* crush_choose_firstn.                                                    *)
BugSkipsReport(t) ==
  /\ thread[t] = "report"
  /\ IF skipped[t]
     THEN UNCHANGED <<out, outpos>>
     ELSE out' = [out EXCEPT ![t[2]] = item[t]] /\ outpos' = outpos + 1
  /\ thread' = [thread EXCEPT ![t] = "done"]
  /\ UNCHANGED <<callerVars, drawn, localVars>>

(* ... and the replica is reported in a third, also one that was given up. *)
Report(t) ==
  /\ thread[t] = "report"
  /\ out' = [out EXCEPT ![t[2]] = item[t]]
  /\ outpos' = outpos + 1
  /\ thread' = [thread EXCEPT ![t] = "done"]
  /\ UNCHANGED <<callerVars, drawn, localVars>>

-----------------------------------------------------------------------------
(* Everything do_work does once it has begun. *)
Works(t) ==
  \/ \E i \in Ends[t[1]] : EndsBeyondMap(t, i) \/ EndsInEmptyBucket(t, i) \/ EndsAtDevice(t, i)
  \/ Store(t)
  \/ Report(t)

CallerStep == NextObject \/ Launch \/ Collect

Next == CallerStep \/ \E t \in Thread : Begin(t) \/ Works(t)

Spec == Init /\ [][Next]_vars

-----------------------------------------------------------------------------
(* Properties                                                              *)

TypeOK ==
  /\ object \in 0 .. Objects
  /\ drawn \subseteq Nat \X Int
  /\ rejected \subseteq Device
  /\ out \in [Replica -> Int]
  /\ allocated \in BOOLEAN
  /\ outpos \in 0 .. NumRep
  /\ caller \in {"next", "launch", "spin"}
  /\ launched \in 0 .. NumRep
  /\ thread \in [Thread -> {"none", "ready", "draw", "store", "report", "done"}]
  /\ ftotal \in [Thread -> 0 .. Tries]
  /\ item \in [Thread -> Int]
  /\ skipped \in [Thread -> BOOLEAN]
  /\ sawReported \in [Thread -> SUBSET Replica]

(* A thread that still uses firstn works for the object whose x is in it,  *)
(* and the array is allocated: the caller, which only looks at outpos,     *)
(* neither frees the array nor moves on while a detached thread runs.      *)
StaysWithObject ==
  \A t \in Thread :
    thread[t] \in {"ready", "draw", "store", "report"} => t[1] = object /\ allocated

(* What a thread has reported stays in the array until it is freed: no     *)
(* other thread's tentative item overwrites it.                            *)
ReportsStay ==
  \A t \in Thread :
    thread[t] = "done" /\ t[1] = object /\ allocated => out[t[2]] = item[t]

(* A replica that was not given up is on a device that is not rejected.    *)
ReplicasUsable ==
  \A t \in Thread :
    thread[t] = "done" /\ t[1] = object /\ ~skipped[t] => item[t] \in Device \ rejected

(* The primary does not depend on the schedule: it is the first device     *)
(* drawn that is not rejected, the one crush_choose_firstn chooses first.  *)
PrimaryAsSequential ==
  \A t \in Thread :
    (t = <<object, 0>> /\ thread[t] = "done" /\ ~skipped[t]) =>
      /\ <<R(t), item[t]>> \in drawn
      /\ \A d \in drawn : d[1] < R(t) => d[2] < 0 \/ d[2] \in rejected

(* What the test for collisions guarantees: a replica differs from those   *)
(* that were reported before its last test.  Hence threads that run one    *)
(* after the other choose different devices.                               *)
DiffersFromReported ==
  \A t \in Thread :
    (t[1] = object /\ thread[t] = "done" /\ ~skipped[t]) =>
      \A k \in sawReported[t] : item[t] # item[<<object, k>>]

(* main.cpp:696, "collision? item是否与osd[]里面的osd相同？": an item that *)
(* is already among the chosen OSDs is not chosen again.  So replicas that *)
(* were not given up are on different devices.                             *)
ReplicasDiffer ==
  \A t, u \in Thread :
    (/\ t # u /\ t[1] = object /\ u[1] = object
     /\ thread[t] = "done" /\ thread[u] = "done"
     /\ ~skipped[t] /\ ~skipped[u]) => item[t] # item[u]
=============================================================================
