--------------------------- MODULE MCCrushFirstn ----------------------------
(***************************************************************************)
(* A small cluster map for TLC: a root with two hosts and a third one that *)
(* is empty.  Device 3 has no weight, so that it is never drawn; device 4  *)
(* lies beyond max_devices.                                                *)
(***************************************************************************)
EXTENDS CrushFirstn

MCItems ==
  [b \in 0 .. 3 |->
     CASE b = 0 -> <<-2, -3, -4>>
       [] b = 1 -> <<0, 3, 1>>
       [] b = 2 -> <<2, 4>>
       [] b = 3 -> <<>>]

MCItemWeights ==
  [b \in 0 .. 3 |->
     CASE b = 0 -> <<1, 1, 1>>
       [] b = 1 -> <<1, 0, 1>>
       [] b = 2 -> <<1, 1>>
       [] b = 3 -> <<>>]

MCBucketType == [b \in 0 .. 3 |-> IF b = 0 THEN 10 ELSE 1]

Plain == [numrep |-> 3, type |-> 0, tries |-> 2, recurse_tries |-> 1,
          local_retries |-> 0, local_fallback_retries |-> 0,
          recurse_to_leaf |-> TRUE, vary_r |-> 1, stable |-> TRUE]

(* As the program calls it; for hosts; and with the legacy tunables. *)
MCCalls ==
  {Plain, [Plain EXCEPT !.type = 1],
   [Plain EXCEPT !.type = 1, !.stable = FALSE, !.vary_r = 0, !.recurse_tries = 2],
   [Plain EXCEPT !.local_retries = 1],
   [Plain EXCEPT !.local_fallback_retries = 1, !.recurse_to_leaf = FALSE]}
=============================================================================
