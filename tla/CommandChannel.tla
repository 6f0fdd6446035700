--------------------------- MODULE CommandChannel ---------------------------
(***************************************************************************)
(* The binary commands of lib/NarwalClient.js: _command, its race between  *)
(* the robot's reply and the robot's status, and _sendBinaryCommand with   *)
(* the promise chain, the response queue and the response waiter.          *)
(*                                                                         *)
(* JavaScript runs one callback at a time and finishes the promise         *)
(* reactions it caused before the next one. The reactions are steps of     *)
(* their own here (React, RunNext, Settle) and everything that starts a    *)
(* callback waits for them (Calm), except the further frames of a chunk    *)
(* the socket is delivering in one go (MoreOfChunk).                       *)
(***************************************************************************)
EXTENDS Naturals, Sequences

CONSTANTS
  Commands,      \* the commands the host gives, each once
  Topics,        \* the robot's command topics
  TopicOf,       \* TopicOf[c]: the topic of a command
  Confirmable,   \* the commands with a visible effect (confirm # null)
  MaxQueued,     \* MAX_QUEUED_RESPONSES
  MaxLinks,      \* bound: how many links are opened
  NoCommand, NoTopic, NoReply

VARIABLES
  cloud,      \* constructed with a cloud connection (never changes)
  ws,         \* _ws: none, "open", or "closing" once the peer closes
  links,      \* how many links there have been
  chain,      \* _binaryCommandChain: commands not yet settled, in order
  active,     \* the command that was sent and whose run awaits a response
  late,       \* the active command's timeout has passed
  waiter,     \* a response waiter is registered
  handed,     \* the response that resolved the waiter, until run goes on
  queue,      \* _binaryResponses
  reply,      \* reply[c]: how the promise of _sendBinaryCommand stands
  call,       \* call[c]: what the host has been told
  status,     \* the topics whose effect lastStatus shows
  shown,      \* the commands whose _waitForStatusMatch resolved true
  expired,    \* those whose _waitForStatusMatch timed out
  robot,      \* robot[c]: the frame and the reply of c between the two ends
  issuedOn, sentOn,  \* history: the link that was open at either time
  answer,     \* history: answer[c], the response c was settled with
  before      \* history: before[c], whose replies had come in when c was sent

client == <<chain, active, late, waiter, handed, queue, reply>>
confirm == <<status, shown, expired>>
history == <<issuedOn, sentOn, answer, before>>
vars == <<cloud, ws, links, client, call, confirm, robot, history>>

\* A response frame: the command the robot answers (never visible to the
\* client), the topic it names, and its numeric result code if it has one.
Replies ==
  [cmd: Commands \cup {NoCommand}, topic: Topics \cup {NoTopic}, code: {"ok", "refused", "none"}]

ASSUME CommandAssumption ==
  /\ NoCommand \notin Commands /\ NoTopic \notin Topics /\ NoReply \notin Replies
  /\ TopicOf \in [Commands -> Topics]
  /\ Confirmable \subseteq Commands
  /\ MaxQueued \in Nat \ {0} /\ MaxLinks \in Nat

TypeOK ==
  /\ cloud \in BOOLEAN /\ ws \in {"none", "open", "closing"} /\ links \in 0..MaxLinks
  /\ chain \in Seq(Commands)
  /\ active \in Commands \cup {NoCommand}
  /\ late \in BOOLEAN /\ waiter \in BOOLEAN
  /\ handed \in Replies \cup {NoReply}
  /\ queue \in Seq(Replies) /\ Len(queue) <= MaxQueued
  /\ reply \in [Commands -> {"none", "pending", "ok", "refused", "timeout", "failed"}]
  /\ call \in [Commands -> {"none", "waiting", "ok", "error"}]
  /\ status \subseteq Topics /\ shown \subseteq Commands /\ expired \subseteq Commands
  /\ robot \in [Commands -> {"none", "got", "ok", "refused", "gone"}]
  /\ issuedOn \in [Commands -> 0..MaxLinks] /\ sentOn \in [Commands -> 0..MaxLinks]
  /\ answer \in [Commands -> Replies \cup {NoReply}]
  /\ before \in [Commands -> SUBSET Commands]

Init ==
  /\ cloud \in BOOLEAN
  /\ ws = "none" /\ links = 0
  /\ chain = <<>> /\ active = NoCommand /\ late = FALSE
  /\ waiter = FALSE /\ handed = NoReply /\ queue = <<>>
  /\ reply = [c \in Commands |-> "none"]
  /\ call = [c \in Commands |-> "none"]
  /\ status = {} /\ shown = {} /\ expired = {}
  /\ robot = [c \in Commands |-> "none"]
  /\ issuedOn = [c \in Commands |-> 0] /\ sentOn = [c \in Commands |-> 0]
  /\ answer = [c \in Commands |-> NoReply]
  /\ before = [c \in Commands |-> {}]

-----------------------------------------------------------------------------
\* The topics whose effect a status can show.
Visible == {TopicOf[c] : c \in Confirmable}

\* The result of _command, once it has one.

Waits(c) == call[c] = "waiting"

\* Over the cloud a visible effect is watched for: _waitForStatusMatch.
Watches(c) == cloud /\ c \in Confirmable

\* The bug of taking every failed reply for a lost one.
LenientVerdict(c) ==
  CASE reply[c] = "ok" \/ c \in shown                      -> "ok"
    [] reply[c] \in {"refused", "failed", "timeout"} /\ c \notin shown ->
         IF ~cloud \/ c \in expired THEN "error"
         ELSE IF c \in Confirmable THEN "waiting" ELSE "ok"
    [] reply[c] = "pending" /\ c \notin shown              -> "waiting"

\* _command: locally the reply decides. Over the cloud the status may decide
\* first, and decides alone when the reply timed out; without a visible effect
\* a command that got no reply counts as sent.
Verdict(c) ==
  CASE reply[c] = "ok" \/ c \in shown                      -> "ok"
    [] reply[c] \in {"refused", "failed"} /\ c \notin shown -> "error"
    [] reply[c] = "timeout" /\ c \notin shown ->
         IF ~cloud \/ c \in expired THEN "error"
         ELSE IF c \in Confirmable THEN "waiting" ELSE "ok"
    [] reply[c] = "pending" /\ c \notin shown              -> "waiting"

\* Reactions that are due.
SettleDue == \E c \in Commands : Waits(c) /\ Verdict(c) # "waiting"
RunDue == active = NoCommand /\ chain # <<>>

\* Between two callbacks: no reaction is due.
Calm == handed = NoReply /\ ~RunDue /\ ~SettleDue

\* The socket emits all frames of one chunk before any reaction runs.
MoreOfChunk == ws = "open" /\ ~RunDue /\ ~SettleDue

-----------------------------------------------------------------------------
\* _sendBinaryCommand.

\* The end of the active command's run: its promise and so the chain go on.
EndRun(c, result) ==
  /\ reply' = [reply EXCEPT ![c] = result]
  /\ active' = NoCommand
  /\ chain' = Tail(chain)

\* The bug of forgetting to drain.
KeepResponses == queue

\* _drainBinaryResponses: what came in before the command is sent.
Drained == <<>>

\* run, from its start to its first wait.
RunNext ==
  /\ RunDue /\ ~SettleDue
  /\ LET c == Head(chain) IN
       IF ws # "open"
         THEN /\ EndRun(c, "failed")
              /\ UNCHANGED <<late, waiter, handed, queue, robot, sentOn, before>>
         ELSE /\ active' = c
              /\ late' = FALSE
              /\ robot' = [robot EXCEPT ![c] = "got"]
              /\ sentOn' = [sentOn EXCEPT ![c] = links]
              /\ before' = [before EXCEPT ![c] = {d \in Commands : robot[d] = "gone"}]
              /\ IF Drained = <<>>
                   THEN waiter' = TRUE /\ queue' = <<>> /\ UNCHANGED handed
                   ELSE handed' = Head(Drained) /\ queue' = Tail(Drained) /\ UNCHANGED waiter
              /\ UNCHANGED <<chain, reply>>
  /\ UNCHANGED <<cloud, ws, links, call, confirm, issuedOn, answer>>

\* The bug of a client that ignores the topic of a reply.
AnyTopic(c, m) == TRUE

\* isReplyTo: local replies name no topic.
IsReplyTo(c, m) == m.topic \in {NoTopic, TopicOf[c]}

\* The bug of waiting although responses are queued.
RegisterWaiter ==
  /\ waiter' = TRUE
  /\ handed' = NoReply
  /\ UNCHANGED queue

\* _waitForBinaryResponse: a queued response first, else a waiter.
WaitForResponse ==
  IF queue # <<>>
    THEN handed' = Head(queue) /\ queue' = Tail(queue) /\ UNCHANGED waiter
    ELSE waiter' = TRUE /\ handed' = NoReply /\ UNCHANGED queue

\* run goes on with a response: its answer, or unrelated to it; then it waits
\* again unless its time is over.
React ==
  /\ handed # NoReply
  /\ ~SettleDue
  /\ IF IsReplyTo(active, handed) /\ handed.code # "none"
       THEN /\ EndRun(active, handed.code)
            /\ answer' = [answer EXCEPT ![active] = handed]
            /\ handed' = NoReply
            /\ UNCHANGED <<waiter, queue>>
       ELSE /\ UNCHANGED answer
            /\ IF late
                 THEN /\ EndRun(active, "timeout")
                      /\ handed' = NoReply
                      /\ UNCHANGED <<waiter, queue>>
                 ELSE WaitForResponse /\ UNCHANGED <<chain, active, reply>>
  /\ UNCHANGED <<cloud, ws, links, late, call, confirm, robot, issuedOn, sentOn, before>>

\* The bug of a timeout that drops the waiter and tells nobody.
ForgetWaiter ==
  /\ waiter /\ late /\ Calm
  /\ waiter' = FALSE
  /\ UNCHANGED <<cloud, ws, links, chain, active, late, handed, queue, reply, call,
                 confirm, robot, history>>

\* The waiter's timer, set to what is left of the command's time.
WaiterTimeout ==
  /\ waiter /\ late /\ Calm
  /\ waiter' = FALSE
  /\ EndRun(active, "timeout")
  /\ UNCHANGED <<cloud, ws, links, late, handed, queue, call, confirm, robot, history>>

TimePasses ==
  /\ active # NoCommand /\ ~late
  /\ late' = TRUE
  /\ UNCHANGED <<cloud, ws, links, chain, active, waiter, handed, queue, reply, call,
                 confirm, robot, history>>

-----------------------------------------------------------------------------
\* The host and _command.

\* A command method: _command starts the reply and, over the cloud, the watch
\* for its effect, which may be on show already.
Issue(c) ==
  /\ Calm
  /\ call[c] = "none"
  /\ call' = [call EXCEPT ![c] = "waiting"]
  /\ reply' = [reply EXCEPT ![c] = "pending"]
  /\ chain' = Append(chain, c)
  /\ issuedOn' = [issuedOn EXCEPT ![c] = IF ws = "open" THEN links ELSE 0]
  /\ shown' = IF Watches(c) /\ TopicOf[c] \in status THEN shown \cup {c} ELSE shown
  /\ UNCHANGED <<cloud, ws, links, active, late, waiter, handed, queue, status, expired,
                 robot, sentOn, answer, before>>

\* The caller's promise settles; its watch is of no use any more.
Settle(c) ==
  /\ Waits(c) /\ Verdict(c) # "waiting"
  /\ call' = [call EXCEPT ![c] = Verdict(c)]
  /\ expired' = expired \ {c}
  /\ UNCHANGED <<cloud, ws, links, client, status, shown, robot, history>>

\* CLOUD_CONFIRM_TIMEOUT_MS after the call.
ConfirmTimeout(c) ==
  /\ Calm
  /\ Waits(c) /\ Watches(c) /\ c \notin shown \cup expired
  /\ expired' = expired \cup {c}
  /\ UNCHANGED <<cloud, ws, links, client, call, status, shown, robot, history>>

-----------------------------------------------------------------------------
\* What comes in.

\* The bug of a queue one too long.
NewestAndOne(s) == IF Len(s) > MaxQueued + 1 THEN Tail(s) ELSE s

\* The newest few of the responses nobody waits for.
Newest(s) == IF Len(s) > MaxQueued THEN Tail(s) ELSE s

\* _enqueueBinaryResponse.
Enqueue(m) ==
  IF waiter
    THEN waiter' = FALSE /\ handed' = m /\ UNCHANGED queue
    ELSE queue' = Newest(Append(queue, m)) /\ UNCHANGED <<waiter, handed>>

\* The robot's reply to a command: over the cloud it names the topic.
ReceiveReply(c) ==
  /\ MoreOfChunk
  /\ robot[c] \in {"ok", "refused"}
  /\ robot' = [robot EXCEPT ![c] = "gone"]
  /\ Enqueue([cmd |-> c, topic |-> IF cloud THEN TopicOf[c] ELSE NoTopic, code |-> robot[c]])
  /\ UNCHANGED <<cloud, ws, links, chain, active, late, reply, call, confirm, history>>

\* The answer to a discovery, wake or poll frame.
ReceiveOther ==
  /\ MoreOfChunk
  /\ Enqueue([cmd |-> NoCommand, topic |-> NoTopic, code |-> "none"])
  /\ UNCHANGED <<cloud, ws, links, chain, active, late, reply, call, confirm, robot, history>>

\* A status frame; the watching commands see it at once (onStatus).
ReceiveStatus ==
  /\ MoreOfChunk /\ cloud
  /\ \E topics \in SUBSET Visible :
       /\ status' = topics
       /\ shown' = shown \cup {c \in Commands :
                                 Waits(c) /\ Watches(c) /\ c \notin expired /\ TopicOf[c] \in topics}
  /\ UNCHANGED <<cloud, ws, links, client, call, expired, robot, history>>

\* The bug of a lost link that leaves the waiter to its timeout.
NoRejection == UNCHANGED <<chain, active, waiter, reply>>

\* _rejectBinaryResponseWaiters: the active command fails with the link.
RejectWaiters ==
  IF waiter
    THEN waiter' = FALSE /\ EndRun(active, "failed")
    ELSE UNCHANGED <<chain, active, waiter, reply>>

\* The peer starts the closing handshake of a WebSocket.
PeerCloses ==
  /\ Calm /\ ws = "open" /\ ~cloud
  /\ ws' = "closing"
  /\ UNCHANGED <<cloud, links, client, call, confirm, robot, history>>

\* _onClose or stop(): the socket is gone and _failAllPending runs. The queued
\* responses stay. Over the local link nothing of it can arrive any more; the
\* cloud delivers a late reply to the next link.
LinkDown ==
  /\ Calm /\ ws # "none"
  /\ ws' = "none"
  /\ RejectWaiters
  /\ robot' = IF cloud THEN robot
              ELSE [c \in Commands |-> IF robot[c] = "none" THEN "none" ELSE "gone"]
  /\ UNCHANGED <<cloud, links, late, handed, queue, call, confirm, history>>

LinkUp ==
  /\ Calm /\ ws = "none" /\ links < MaxLinks
  /\ ws' = "open"
  /\ links' = links + 1
  /\ UNCHANGED <<cloud, client, call, confirm, robot, history>>

\* The robot carries out or refuses a command it received, at any time.
RobotReplies(c) ==
  /\ robot[c] = "got"
  /\ \E code \in {"ok", "refused"} : robot' = [robot EXCEPT ![c] = code]
  /\ UNCHANGED <<cloud, ws, links, client, call, confirm, history>>

-----------------------------------------------------------------------------

Next ==
  \/ \E c \in Commands : Issue(c) \/ Settle(c) \/ ConfirmTimeout(c)
  \/ RunNext \/ React \/ WaiterTimeout \/ TimePasses
  \/ \E c \in Commands : ReceiveReply(c) \/ RobotReplies(c)
  \/ ReceiveOther \/ ReceiveStatus
  \/ PeerCloses \/ LinkDown \/ LinkUp

\* Reactions run and timers fire; libuv visits due timers between any two
\* batches of network callbacks, so a stream of frames cannot starve them.
Fairness ==
  /\ WF_vars(RunNext) /\ WF_vars(React) /\ WF_vars(TimePasses)
  /\ SF_vars(WaiterTimeout)
  /\ \A c \in Commands : WF_vars(Settle(c)) /\ SF_vars(ConfirmTimeout(c))

Spec == Init /\ [][Next]_vars

FairSpec == Spec /\ Fairness

-----------------------------------------------------------------------------
(***************************************************************************)
(* Properties.                                                             *)
(***************************************************************************)

\* _drainBinaryResponses: a command is never settled with a response that had
\* come in before the command was sent, over any number of links and queued
\* commands.
FreshAnswer ==
  \A c \in Commands : answer[c] # NoReply => answer[c].cmd \notin before[c]

\* "A reply that names another topic is never the answer to this command":
\* over the cloud, where late replies outlive their link, a command is only
\* settled by the robot's reply to a command of its own kind.
OwnTopic ==
  \A c \in Commands :
    cloud /\ answer[c] # NoReply => TopicOf[answer[c].cmd] = TopicOf[c]

\* A command given on one link never reaches the robot on a later one: what is
\* still queued when the link drops fails with it (_failAllPending rejects the
\* active command, the chain runs the rest against a socket that is gone). A
\* start queued behind a slow command does not start the robot minutes later.
SentOnItsLink ==
  \A c \in Commands : sentOn[c] # 0 => sentOn[c] = issuedOn[c]

\* A refused command is reported as done only where the robot's status, not the
\* reply, is what the caller was told.
RefusalIsError ==
  \A c \in Commands :
    answer[c] # NoReply /\ answer[c].code = "refused" /\ call[c] = "ok" => c \in shown

\* A command that waits has no response left unread, and only the command at the
\* head of the chain waits: responses and waiters never pass each other.
NoReplyOverlooked ==
  /\ waiter => queue = <<>> /\ handed = NoReply
  /\ active # NoCommand => chain # <<>> /\ active = Head(chain) /\ (waiter \/ handed # NoReply)

\* Every command gets its result, whatever the robot, the link and the commands
\* before it do: no lost reply or lost link blocks the chain for good.
EverySettles ==
  \A c \in Commands : Waits(c) ~> call[c] \in {"ok", "error"}

\* NarwalClient.js on _command: "A reply that refuses the command is always an
\* error." Not so when the status shows the effect first.
RefusalAlwaysError ==
  \A c \in Commands :
    answer[c] # NoReply /\ answer[c].code = "refused" => call[c] # "ok"

\* CHANGELOG.md: a command only accepts "the robot's answer to that command".
\* Not so for a reply that comes after its command timed out.
AnsweredByItself ==
  \A c \in Commands : answer[c] # NoReply => answer[c].cmd = c
=============================================================================
