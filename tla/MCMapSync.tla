----------------------------- MODULE MCMapSync -----------------------------
(***************************************************************************)
(* MapSync for TLC. The ticks keep the order of the delays of              *)
(* constants.js: guard 10 s, request 15 s, emit 30 s, retry 60 s and more. *)
(***************************************************************************)
EXTENDS MapSync

CONSTANTS a, b, none

MCCells == {a, b}
MCNoMap == none
MCRetryTicks == <<4, 5>>
=============================================================================
