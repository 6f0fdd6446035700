--------------------------- MODULE MCCloudSocket ---------------------------
(***************************************************************************)
(* CloudSocket for TLC. Two sessions let a refresh of the old one end      *)
(* after the new sign-in; a second caller shares its refresh with the      *)
(* socket; three frames on two topics can wait, overtake and be dropped.   *)
(***************************************************************************)
EXTENDS CloudSocket

CONSTANTS u1, u2, none, socket_, robots, t1, t2, other

MCSessions == {u1, u2}
MCCallers == {socket_, robots}
MCTopics == {t1, t2}
=============================================================================
