---------------------------- MODULE SocketPromise ----------------------------
(***************************************************************************)
(* What NarwalClient expects of a socket, whichever transport it is: it    *)
(* opens at most once, closes at most once, never opens after it closed,   *)
(* and reports nothing of the kind once the client terminated it. This is  *)
(* the socket NarwalLink and MapSync take as given.                        *)
(***************************************************************************)
EXTENDS Sequences

VARIABLES
  told,  \* the 'open' and 'close' events emitted so far
  live   \* neither closed nor terminated

Init == told = <<>> /\ live = TRUE

Open == live /\ told = <<>> /\ told' = <<"open">> /\ UNCHANGED live

Close == live /\ told' = Append(told, "close") /\ live' = FALSE

Terminate == live /\ live' = FALSE /\ UNCHANGED told

Next == Open \/ Close \/ Terminate

Spec == Init /\ [][Next]_<<told, live>>
=============================================================================
