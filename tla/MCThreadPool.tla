---------------------------- MODULE MCThreadPool ----------------------------
(***************************************************************************)
(* Small instances of ThreadPool for TLC.  Clients are interchangeable:    *)
(* the runs of safety properties use that.  Workers are not, because the   *)
(* manager scans threadIDs from its first entry on.                        *)
(***************************************************************************)
EXTENDS ThreadPool, TLC

ClientSymmetry == Permutations(Producers)
=============================================================================
