--------------------------- MODULE MCCrushProgram ---------------------------
(***************************************************************************)
(* The program's own run: five racks of ten hosts of fifteen devices, its  *)
(* tunables, its 256 objects.                                              *)
(***************************************************************************)
EXTENDS CrushProgram

MCSizes == <<5, 10, 15>>
MCItems == Expected!ProgramItems
MCItemWeights == Expected!ProgramWeights
MCBucketType == Expected!ProgramTypes
MCReweight == [d \in 0 .. 9999 |-> 65536]
MCCalls ==
  {[numrep |-> 3, type |-> 0, tries |-> 51, recurse_tries |-> 1,
    local_retries |-> 0, local_fallback_retries |-> 0,
    recurse_to_leaf |-> TRUE, vary_r |-> 1, stable |-> TRUE]}
=============================================================================
