----------------------------- MODULE ProgramMap -----------------------------
(***************************************************************************)
(* The map that init2 of CRUSH_Research/main.cpp arrives at, without its   *)
(* recursion: racks and their hosts have consecutive slots, devices are    *)
(* numbered host by host.                                                  *)
(***************************************************************************)
EXTENDS Integers, Sequences

CONSTANTS
  Racks, Hosts, Devices,   \* the sizes of the root, a rack, a host; not 0
  DeviceWeight             \* the weight of every device

(* Slot 0 is the root's; j counts the racks from 0, k a rack's hosts. *)
RackSlot(j) == 1 + j * (Hosts + 1)
HostSlot(j, k) == RackSlot(j) + 1 + k
Slots == 0 .. RackSlot(Racks) - 1

RackOf(slot) == (slot - 1) \div (Hosts + 1)
IsRack(slot) == slot # 0 /\ slot = RackSlot(RackOf(slot))

ProgramItems ==
  [s \in Slots |->
     IF s = 0 THEN [i \in 1 .. Racks |-> -1 - RackSlot(i - 1)]
     ELSE IF IsRack(s) THEN [i \in 1 .. Hosts |-> -1 - HostSlot(RackOf(s), i - 1)]
     ELSE LET k == s - HostSlot(RackOf(s), 0)
          IN  [i \in 1 .. Devices |-> (RackOf(s) * Hosts + k) * Devices + i - 1]]

ProgramWeights ==
  [s \in Slots |->
     IF s = 0 THEN [i \in 1 .. Racks |-> Hosts * Devices * DeviceWeight]
     ELSE IF IsRack(s) THEN [i \in 1 .. Hosts |-> Devices * DeviceWeight]
     ELSE [i \in 1 .. Devices |-> DeviceWeight]]

ProgramTypes == [s \in Slots |-> IF s = 0 THEN 10 ELSE IF IsRack(s) THEN 3 ELSE 1]
=============================================================================
