------------------------ MODULE MCParallelPlacement -------------------------
(***************************************************************************)
(* One object, two devices, an item that max_devices excludes and an empty *)
(* bucket; what a new array holds is no device.                            *)
(***************************************************************************)
EXTENDS ParallelPlacement

MCEnds == <<Device \union {MaxDevices, -2}>>
MCNoDevice == {-1}
=============================================================================
