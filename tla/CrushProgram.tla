---------------------------- MODULE CrushProgram ----------------------------
(***************************************************************************)
(* main of CRUSH_Research/main.cpp as far as test: init2 builds the map,   *)
(* then test places its objects on it.  The placement reads the map as the *)
(* constants of CrushMap; BuildsProgramMap is what makes them the built    *)
(* map.                                                                    *)
(***************************************************************************)
EXTENDS MapConstruction, HashedPlacement

MainInit == MapInit /\ HInit

Build == MapNext /\ UNCHANGED hvars
Test == Done /\ HNext /\ UNCHANGED mapVars

MainNext == Build \/ Test

MainSpec == MainInit /\ [][MainNext]_<<mapVars, hvars>>
=============================================================================
