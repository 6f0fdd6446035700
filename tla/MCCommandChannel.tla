-------------------------- MODULE MCCommandChannel --------------------------
(***************************************************************************)
(* CommandChannel for TLC. Two commands share a topic, as two pauses do,   *)
(* so that the reply of the one can be taken for the other's; the third has *)
(* a topic of its own and no visible effect (locate). Two links leave room *)
(* for a reply that arrives after the drop. The two pauses are symmetric   *)
(* (used for the safety runs only).                                        *)
(***************************************************************************)
EXTENDS CommandChannel, TLC

CONSTANTS pause1, pause2, locate, Pause, Yell, noCommand, noTopic, noReply

MCCommands == {pause1, pause2, locate}
MCTopics == {Pause, Yell}
MCTopicOf == [c \in MCCommands |-> IF c = locate THEN Yell ELSE Pause]
MCConfirmable == {pause1, pause2}
MCSymmetry == Permutations({pause1, pause2})

\* For liveness: one command of either kind.
TwoCommands == {pause1, locate}
TwoTopicOf == [c \in TwoCommands |-> IF c = locate THEN Yell ELSE Pause]
TwoConfirmable == {pause1}
=============================================================================
