------------------------- MODULE MCDeviceLifecycle -------------------------
(***************************************************************************)
(* DeviceLifecycle, born from Pairing, for TLC. Two addresses and two      *)
(* accounts are what a move and a new sign-in need; a second client        *)
(* identity shows one that was not stopped; two probes let an identify of  *)
(* an earlier search overlap a validate. Three changes reach every overlap *)
(* of a move, a save, a sign-in and a deletion with the awaits.            *)
(***************************************************************************)
EXTENDS Pairing

CONSTANTS c1, c2, a1, a2, u1, u2, p1, p2, none

MCClients == {c1, c2}
MCAddresses == {a1, a2}
MCAccounts == {u1, u2}
MCProbes == {p1, p2}
=============================================================================
