--------------------------- MODULE MCDeviceReport ---------------------------
(***************************************************************************)
(* DeviceReport for TLC: every code, flag and dock evidence of a base      *)
(* status, with or without a full battery and a reported suction; three    *)
(* reports, all of which may be handled at once.                           *)
(***************************************************************************)
EXTENDS DeviceReport, TLC

CONSTANTS null, room, h1, h2, h3

MCReadings ==
  {[battery |-> null, fan |-> null], [battery |-> "full", fan |-> "max"]}
MCRooms == {room}
MCSuctions == {"quiet", "ultra"}
MCHandlers == {h1, h2, h3}
MCCalls == Permutations(MCHandlers)
=============================================================================
