----------------------------- MODULE Placement ------------------------------
(***************************************************************************)
(* What a placement of one object is: a list of at most NumRep different   *)
(* devices, none of them rejected by its reweight, built from the primary  *)
(* on.  A list may end early, and never changes once a device is in it.    *)
(***************************************************************************)
EXTENDS Integers

CONSTANTS Device, NumRep

VARIABLES
  usable,                  \* the devices that are not rejected for the object
  count,                   \* how many devices the list holds
  chosen,                  \* chosen[i]: the i-th of them, from 0 on
  done                     \* the list is complete

vars == <<usable, count, chosen, done>>

Init ==
  /\ usable \in SUBSET Device
  /\ count = 0
  /\ chosen = [i \in 0 .. -1 |-> 0]
  /\ done = FALSE

Place(d) ==
  /\ ~done
  /\ count < NumRep
  /\ \A i \in 0 .. count - 1 : chosen[i] # d
  /\ count' = count + 1
  /\ chosen' = [i \in 0 .. count |-> IF i = count THEN d ELSE chosen[i]]
  /\ UNCHANGED <<usable, done>>

Stop ==
  /\ ~done
  /\ done' = TRUE
  /\ UNCHANGED <<usable, count, chosen>>

Next == (\E d \in usable : Place(d)) \/ Stop

Spec == Init /\ [][Next]_vars
=============================================================================
