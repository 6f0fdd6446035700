----------------------------- MODULE LinkPromise -----------------------------
(***************************************************************************)
(* What a NarwalClient promises its host about one robot's connection,     *)
(* whatever sockets, timers and errors it takes to keep that promise:      *)
(*                                                                         *)
(*  - once started it is always dialling, connected or waiting to redial;  *)
(*  - 'connected' and 'disconnected' strictly alternate, so an outage is   *)
(*    reported exactly once however many redials it takes;                 *)
(*  - after stop() it never dials and never reports again.                 *)
(*                                                                         *)
(* NarwalLink is shown to implement this specification.                    *)
(***************************************************************************)

VARIABLES
  phase,   \* what the client is doing about the connection
  view,    \* the last connection event the host was given
  earlier  \* the one before it

vars == <<phase, view, earlier>>

Phases == {"idle", "trying", "up", "waiting", "stopped"}
Views == {"none", "connected", "disconnected"}

TypeOK ==
  /\ phase \in Phases
  /\ {view, earlier} \subseteq Views

Init ==
  /\ phase = "idle"
  /\ view = "none" /\ earlier = "none"

\* An event is never the one the host was given last. With one event only, a
\* repetition could not be told from silence: the two last ones would be alike.
Report(event) ==
  /\ view # event
  /\ view' = event /\ earlier' = view

\* The first dial, or a redial after the backoff. Dialling may fail on the
\* spot; the host hears nothing of it and the client waits again.
Dial ==
  /\ phase \in {"idle", "waiting"}
  /\ phase' \in {"trying", "waiting"}
  /\ UNCHANGED <<view, earlier>>

\* The robot answers.
Answer ==
  /\ phase = "trying"
  /\ phase' = "up"
  /\ Report("connected")

\* The link, or the attempt, fails: the host is told unless it knows.
Lose ==
  /\ phase \in {"trying", "up"}
  /\ phase' = "waiting"
  /\ IF view = "disconnected" THEN UNCHANGED <<view, earlier>> ELSE Report("disconnected")

Stop ==
  /\ phase \in {"trying", "up", "waiting"}
  /\ phase' = "stopped"
  /\ UNCHANGED <<view, earlier>>

Next == Dial \/ Answer \/ Lose \/ Stop

Spec == Init /\ [][Next]_vars
=============================================================================
