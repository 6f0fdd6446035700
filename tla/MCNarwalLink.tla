---------------------------- MODULE MCNarwalLink ----------------------------
(***************************************************************************)
(* NarwalLink for TLC. Three socket identities leave room for an orphan    *)
(* and a successor beside the current socket; a backoff of three steps     *)
(* grows, saturates and resets.                                            *)
(***************************************************************************)
EXTENDS NarwalLink

CONSTANTS s1, s2, s3, none

MCSockets == {s1, s2, s3}
MCNoSocket == none
MCBackoffSteps == 3
=============================================================================
