--------------------------- MODULE MCPooledPlacement ---------------------------
(* Two devices and an item that max_devices excludes for the first object; *)
(* for the second one, whose tasks meet workers that still have tasks of   *)
(* the first, a device and an empty bucket.  A new array holds zeros, as   *)
(* pthreadPool_crush_choose_firstn fills in: they make device 0 look taken *)
(* until the cell is written.                                              *)
EXTENDS PooledPlacement

MCEnds == <<Device \union {MaxDevices}, {0, -2}>>
=============================================================================
