----------------------- MODULE CommandChannel_proofs -----------------------
(***************************************************************************)
(* Theorems about CommandChannel, for any commands and topics, any number  *)
(* of links and any limit of the response queue.                           *)
(***************************************************************************)
EXTENDS CommandChannel, SequenceTheorems, TLAPS

USE CommandAssumption

-----------------------------------------------------------------------------
(***************************************************************************)
(* Sequences.                                                              *)
(***************************************************************************)

\* The tail of a sequence has its elements but the first, each a place earlier.
LEMMA TailShifts ==
  ASSUME NEW S, NEW s \in Seq(S), s # <<>>
  PROVE  /\ Tail(s) \in Seq(S) /\ Len(Tail(s)) = Len(s) - 1
         /\ Head(s) = s[1] /\ 1 \in 1..Len(s) /\ Head(s) \in S
         /\ \A i \in 1..Len(Tail(s)) : i + 1 \in 1..Len(s) /\ Tail(s)[i] = s[i + 1]
<1>1. Len(s) \in Nat /\ Len(s) # 0
  BY EmptySeq
<1> QED BY <1>1, HeadTailProperties

\* Appending leaves the elements in their places.
LEMMA AppendKeeps ==
  ASSUME NEW S, NEW s \in Seq(S), NEW x \in S
  PROVE  /\ Append(s, x) \in Seq(S) /\ Len(Append(s, x)) = Len(s) + 1
         /\ Append(s, x) # <<>>
         /\ \A i \in 1..Len(s) : Append(s, x)[i] = s[i]
         /\ Append(s, x)[Len(s) + 1] = x
  BY AppendProperties

\* The response queue keeps its limit, and holds no response it did not hold
\* before but the new one.
LEMMA NewestKeeps ==
  ASSUME NEW s \in Seq(Replies), Len(s) <= MaxQueued, NEW m \in Replies
  PROVE  /\ Newest(Append(s, m)) \in Seq(Replies)
         /\ Len(Newest(Append(s, m))) <= MaxQueued
         /\ \A i \in 1..Len(Newest(Append(s, m))) :
              \/ Newest(Append(s, m))[i] = m
              \/ \E j \in 1..Len(s) : Newest(Append(s, m))[i] = s[j]
<1> DEFINE t == Append(s, m)
<1>1. /\ t \in Seq(Replies) /\ Len(t) = Len(s) + 1 /\ t # <<>>
      /\ \A i \in 1..Len(t) : t[i] = m \/ \E j \in 1..Len(s) : t[i] = s[j]
  BY AppendKeeps
<1>2. /\ Tail(t) \in Seq(Replies) /\ Len(Tail(t)) = Len(t) - 1
      /\ \A i \in 1..Len(Tail(t)) : i + 1 \in 1..Len(t) /\ Tail(t)[i] = t[i + 1]
  BY <1>1, TailShifts
<1>3. Len(s) \in Nat
  OBVIOUS
<1> HIDE DEF t
<1>4. Newest(t) \in {t, Tail(t)} /\ (Len(t) > MaxQueued => Newest(t) = Tail(t))
  BY DEF Newest
<1>5. CASE Newest(t) = t
  BY <1>1, <1>3, <1>4, <1>5 DEF t
<1>6. CASE Newest(t) = Tail(t)
  BY <1>1, <1>2, <1>3, <1>4, <1>6 DEF t
<1> QED BY <1>4, <1>5, <1>6 DEF t

-----------------------------------------------------------------------------
(***************************************************************************)
(* The inductive invariant: the types and four more parts.                 *)
(***************************************************************************)

\* The run that is active: it is the chain's first, it was sent, and it waits
\* exactly when the response machinery is in use.
RunInv ==
  /\ NoReplyOverlooked
  /\ active = NoCommand => ~waiter /\ handed = NoReply
  /\ active # NoCommand => robot[active] # "none"
  /\ ws = "none" => active = NoCommand

\* The commands in the chain: given once, not sent but for the first, and given
\* on the link that is open if one is.
ChainInv ==
  /\ \A i, j \in 1..Len(chain) : chain[i] = chain[j] => i = j
  /\ \A i \in 1..Len(chain) : call[chain[i]] # "none"
  /\ \A i \in 1..Len(chain) : i # 1 \/ active = NoCommand => robot[chain[i]] = "none"
  /\ ws = "open" => \A i \in 1..Len(chain) : issuedOn[chain[i]] = links

\* What a command has when it was not given or not sent yet.
HistoryInv ==
  /\ \A c \in Commands : call[c] = "none" => robot[c] = "none"
  /\ \A c \in Commands : call[c] # "none" => reply[c] # "none"
  /\ \A c \in Commands : robot[c] = "none" => sentOn[c] = 0 /\ answer[c] = NoReply
  /\ SentOnItsLink

\* A response in the client's hands: over the cloud it names the topic of the
\* command it replies to, and it came in after the active command was sent.
Genuine(m) ==
  /\ cloud /\ m.code # "none" => m.cmd \in Commands /\ m.topic = TopicOf[m.cmd]
  /\ active # NoCommand => m.cmd \notin before[active]

AnswerInv ==
  /\ handed # NoReply => Genuine(handed)
  /\ \A i \in 1..Len(queue) : Genuine(queue[i])
  /\ active # NoCommand => before[active] \subseteq {c \in Commands : robot[c] = "gone"}
  /\ FreshAnswer
  /\ OwnTopic

CommandInv == TypeOK /\ RunInv /\ ChainInv /\ HistoryInv /\ AnswerInv

-----------------------------------------------------------------------------
(***************************************************************************)
(* What the handlers share.                                                *)
(***************************************************************************)

\* The end of a run: the chain goes on with commands that were not sent.
LEMMA RunEnds ==
  ASSUME CommandInv, chain # <<>>, NEW result \in {"ok", "refused", "timeout", "failed"},
         EndRun(Head(chain), result)
  PROVE  /\ chain' \in Seq(Commands) /\ active' = NoCommand
         /\ reply' \in [Commands ->
              {"none", "pending", "ok", "refused", "timeout", "failed"}]
         /\ \A c \in Commands : reply[c] # "none" => reply'[c] # "none"
         /\ \A i \in 1..Len(chain') : /\ i + 1 \in 1..Len(chain)
                                      /\ chain'[i] = chain[i + 1]
                                      /\ robot[chain'[i]] = "none"
         /\ Head(chain) = chain[1] /\ 1 \in 1..Len(chain) /\ Head(chain) \in Commands
<1> USE DEF CommandInv
<1>1. chain \in Seq(Commands)
  BY DEF TypeOK
<1>2. /\ chain' \in Seq(Commands) /\ active' = NoCommand
      /\ \A i \in 1..Len(chain') : i + 1 \in 1..Len(chain) /\ chain'[i] = chain[i + 1]
      /\ Head(chain) = chain[1] /\ 1 \in 1..Len(chain) /\ Head(chain) \in Commands
  BY <1>1, TailShifts DEF EndRun
<1>3. \A i \in 1..Len(chain') : robot[chain'[i]] = "none"
  BY <1>2 DEF ChainInv
<1>4. /\ reply' \in [Commands -> {"none", "pending", "ok", "refused", "timeout", "failed"}]
      /\ \A c \in Commands : reply[c] # "none" => reply'[c] # "none"
  BY <1>2 DEF TypeOK, EndRun
<1> QED BY <1>2, <1>3, <1>4

\* A step that leaves the channel alone.
LEMMA Untouched ==
  ASSUME CommandInv, TypeOK',
         UNCHANGED <<cloud, ws, links, chain, active, waiter, handed, queue, reply, call,
                     robot, issuedOn, sentOn, answer, before>>
  PROVE  CommandInv'
<1> USE DEF CommandInv
<1>1. RunInv' /\ ChainInv'
  BY DEF RunInv, NoReplyOverlooked, ChainInv
<1>2. HistoryInv'
  BY DEF HistoryInv, SentOnItsLink
<1>3. AnswerInv'
  BY DEF AnswerInv, Genuine, FreshAnswer, OwnTopic
<1> QED BY <1>1, <1>2, <1>3

\* A genuine response is taken in: by the waiter or into the queue.
LEMMA EnqueueKeeps ==
  ASSUME CommandInv, NEW m \in Replies, Enqueue(m), Genuine(m)
  PROVE  /\ waiter' \in BOOLEAN /\ handed' \in Replies \cup {NoReply}
         /\ queue' \in Seq(Replies) /\ Len(queue') <= MaxQueued
         /\ waiter' => queue' = <<>> /\ handed' = NoReply
         /\ active # NoCommand => waiter' \/ handed' # NoReply
         /\ active = NoCommand => ~waiter' /\ handed' = NoReply
         /\ handed' # NoReply => Genuine(handed')
         /\ \A i \in 1..Len(queue') : Genuine(queue'[i])
<1> USE DEF CommandInv
<1>1. CASE waiter
  BY <1>1 DEF Enqueue, TypeOK, RunInv, NoReplyOverlooked, AnswerInv
<1>2. CASE ~waiter
  <2>1. /\ queue \in Seq(Replies) /\ Len(queue) <= MaxQueued
        /\ queue' = Newest(Append(queue, m)) /\ waiter' = waiter /\ handed' = handed
    BY <1>2 DEF Enqueue, TypeOK
  <2>2. /\ queue' \in Seq(Replies) /\ Len(queue') <= MaxQueued
        /\ \A i \in 1..Len(queue') :
             queue'[i] = m \/ \E j \in 1..Len(queue) : queue'[i] = queue[j]
    <3> DEFINE t == Newest(Append(queue, m))
    <3>1. /\ t \in Seq(Replies) /\ Len(t) <= MaxQueued
          /\ \A i \in 1..Len(t) : t[i] = m \/ \E j \in 1..Len(queue) : t[i] = queue[j]
      BY <2>1, NewestKeeps
    <3>2. queue' = t
      BY <2>1
    <3> HIDE DEF t
    <3> QED BY <3>1, <3>2
  <2>3. \A i \in 1..Len(queue') : Genuine(queue'[i])
    BY <2>2 DEF AnswerInv
  <2> QED BY <1>2, <2>1, <2>2, <2>3 DEF TypeOK, RunInv, NoReplyOverlooked, AnswerInv
<1> QED BY <1>1, <1>2 DEF TypeOK

-----------------------------------------------------------------------------
(***************************************************************************)
(* Every step keeps the invariant.                                         *)
(***************************************************************************)

\* A command that was given has a verdict.
LEMMA VerdictType ==
  ASSUME TypeOK, NEW c \in Commands, reply[c] # "none"
  PROVE  Verdict(c) \in {"ok", "error", "waiting"}
<1>1. reply[c] \in {"pending", "ok", "refused", "timeout", "failed"}
  BY DEF TypeOK
<1>2. CASE reply[c] = "ok" \/ c \in shown
  <2>1. Verdict(c) = "ok"
    BY <1>2, Zenon DEF Verdict
  <2> QED BY <2>1
<1>3. CASE reply[c] \in {"refused", "failed"} /\ c \notin shown
  <2>1. Verdict(c) = "error"
    BY <1>3, Zenon DEF Verdict
  <2> QED BY <2>1
<1>4. CASE reply[c] = "timeout" /\ c \notin shown
  <2>1. Verdict(c) = IF ~cloud \/ c \in expired THEN "error"
                     ELSE IF c \in Confirmable THEN "waiting" ELSE "ok"
    BY <1>4, Zenon DEF Verdict
  <2> QED BY <2>1
<1>5. CASE reply[c] = "pending" /\ c \notin shown
  <2>1. Verdict(c) = "waiting"
    BY <1>5, Zenon DEF Verdict
  <2> QED BY <2>1
<1> QED BY <1>1, <1>2, <1>3, <1>4, <1>5

LEMMA CommandInit == Init => CommandInv
<1> SUFFICES ASSUME Init PROVE CommandInv
  OBVIOUS
<1>1. TypeOK
  <2>1. queue \in Seq(Replies) /\ Len(queue) <= MaxQueued /\ chain \in Seq(Commands)
    BY DEF Init
  <2>6. cloud \in BOOLEAN /\ late \in BOOLEAN /\ waiter \in BOOLEAN
    BY Zenon DEF Init
  <2>2. /\ ws \in {"none", "open", "closing"} /\ links \in 0..MaxLinks
        /\ active \in Commands \cup {NoCommand} /\ handed \in Replies \cup {NoReply}
        /\ status \subseteq Topics /\ shown \subseteq Commands /\ expired \subseteq Commands
    BY DEF Init
  <2>3. /\ reply \in [Commands -> {"none", "pending", "ok", "refused", "timeout", "failed"}]
        /\ call \in [Commands -> {"none", "waiting", "ok", "error"}]
        /\ robot \in [Commands -> {"none", "got", "ok", "refused", "gone"}]
    BY DEF Init
  <2>4. issuedOn \in [Commands -> 0..MaxLinks] /\ sentOn \in [Commands -> 0..MaxLinks]
    BY DEF Init
  <2>5. answer \in [Commands -> Replies \cup {NoReply}] /\ before \in [Commands -> SUBSET Commands]
    BY DEF Init
  <2> QED BY <2>1, <2>2, <2>3, <2>4, <2>5, <2>6, Zenon DEF TypeOK
<1>2. RunInv /\ ChainInv
  BY DEF Init, RunInv, NoReplyOverlooked, ChainInv
<1>3. HistoryInv /\ AnswerInv
  BY DEF Init, HistoryInv, SentOnItsLink, AnswerInv, Genuine, FreshAnswer, OwnTopic
<1> QED BY <1>1, <1>2, <1>3 DEF CommandInv

\* A new command goes to the end of the chain: it was never in it.
LEMMA IssueKeeps ==
  ASSUME CommandInv, NEW c \in Commands, Issue(c)
  PROVE  CommandInv'
<1> USE DEF CommandInv
<1>1. /\ chain \in Seq(Commands) /\ chain' = Append(chain, c) /\ robot' = robot
      /\ call[c] = "none" /\ robot[c] = "none" /\ sentOn[c] = 0
  BY DEF Issue, TypeOK, HistoryInv
<1>2. /\ chain' \in Seq(Commands) /\ Len(chain') = Len(chain) + 1 /\ chain' # <<>>
      /\ \A i \in 1..Len(chain) : chain'[i] = chain[i] /\ chain[i] # c
      /\ chain'[Len(chain) + 1] = c
  BY <1>1, AppendKeeps DEF ChainInv
<1>3. chain # <<>> => Head(chain') = Head(chain)
  BY <1>1, <1>2, TailShifts
<1>4. TypeOK'
  BY <1>2 DEF Issue, TypeOK
<1>5. RunInv'
  BY <1>2, <1>3 DEF Issue, RunInv, NoReplyOverlooked
<1>6. ChainInv'
  <2>1. Len(chain) \in Nat /\ \A i \in 1..Len(chain') : i \in 1..Len(chain) \/ i = Len(chain) + 1
    BY <1>1, <1>2
  <2>2. /\ \A d \in Commands : d # c => call'[d] = call[d] /\ issuedOn'[d] = issuedOn[d]
        /\ call'[c] = "waiting" /\ (ws = "open" => issuedOn'[c] = links)
        /\ UNCHANGED <<ws, links, active, robot>>
    BY DEF Issue, TypeOK
  <2>3. \A i \in 1..Len(chain) : chain[i] \in Commands
    BY <1>1
  <2>4. active # NoCommand => chain # <<>> /\ 1 \in 1..Len(chain)
    BY <1>1, TailShifts DEF RunInv, NoReplyOverlooked
  <2> QED BY <1>1, <1>2, <2>1, <2>2, <2>3, <2>4 DEF ChainInv
<1>7. HistoryInv'
  BY <1>1 DEF Issue, TypeOK, HistoryInv, SentOnItsLink
<1>8. AnswerInv'
  BY DEF Issue, AnswerInv, Genuine, FreshAnswer, OwnTopic
<1> QED BY <1>4, <1>5, <1>6, <1>7, <1>8

LEMMA SettleKeeps ==
  ASSUME CommandInv, NEW c \in Commands, Settle(c)
  PROVE  CommandInv'
<1> USE DEF CommandInv
<1>1. Verdict(c) \in {"ok", "error"}
  BY VerdictType DEF Settle, Waits, HistoryInv
<1>2. TypeOK'
  BY <1>1 DEF Settle, TypeOK, client, history
<1>3. \A d \in Commands : call'[d] # "none" <=> call[d] # "none"
  BY <1>1 DEF Settle, Waits, TypeOK
<1>4. RunInv'
  BY DEF Settle, RunInv, NoReplyOverlooked, client
<1>5. ChainInv'
  <2>1. \A i \in 1..Len(chain) : chain[i] \in Commands
    BY DEF TypeOK
  <2> QED BY <1>3, <2>1 DEF Settle, ChainInv, client, history
<1>6. HistoryInv'
  BY <1>3 DEF Settle, HistoryInv, SentOnItsLink, client, history
<1>7. AnswerInv'
  BY DEF Settle, AnswerInv, Genuine, FreshAnswer, OwnTopic, client, history
<1> QED BY <1>2, <1>4, <1>5, <1>6, <1>7

\* The next command of the chain fails without a link, or is sent on the link it
\* was given on.
LEMMA RunNextKeeps ==
  ASSUME CommandInv, RunNext
  PROVE  CommandInv'
<1> USE DEF CommandInv
<1> DEFINE c == Head(chain)
<1>1. /\ active = NoCommand /\ chain # <<>> /\ ~waiter /\ handed = NoReply
      /\ UNCHANGED <<cloud, ws, links, call, status, shown, expired, issuedOn, answer>>
  BY DEF RunNext, RunDue, RunInv, confirm
<1>2. /\ chain \in Seq(Commands) /\ c = chain[1] /\ 1 \in 1..Len(chain) /\ c \in Commands
      /\ robot[c] = "none" /\ call[c] # "none" /\ c # NoCommand
      /\ sentOn[c] = 0 /\ answer[c] = NoReply
  BY <1>1, TailShifts DEF TypeOK, ChainInv, HistoryInv
<1>3. CASE ws # "open"
  <2>1. EndRun(c, "failed") /\ UNCHANGED <<late, waiter, handed, queue, robot, sentOn, before>>
    BY <1>3 DEF RunNext
  <2>2. /\ chain' \in Seq(Commands) /\ active' = NoCommand
        /\ reply' \in [Commands -> {"none", "pending", "ok", "refused", "timeout", "failed"}]
        /\ \A d \in Commands : reply[d] # "none" => reply'[d] # "none"
        /\ \A i \in 1..Len(chain') : /\ i + 1 \in 1..Len(chain)
                                     /\ chain'[i] = chain[i + 1]
                                     /\ robot[chain'[i]] = "none"
    BY <1>1, <2>1, RunEnds
  <2> HIDE DEF c
  <2>3. TypeOK'
    BY <1>1, <2>1, <2>2 DEF TypeOK
  <2>4. RunInv'
    BY <1>1, <2>1, <2>2 DEF RunInv, NoReplyOverlooked
  <2>5. ChainInv'
    <3>1. \A i \in 1..Len(chain') : i \in Nat
      BY <2>2
    <3> QED BY <1>1, <2>1, <2>2, <3>1 DEF ChainInv
  <2>6. HistoryInv'
    BY <1>1, <2>1, <2>2 DEF HistoryInv, SentOnItsLink
  <2>7. AnswerInv'
    BY <1>1, <2>1, <2>2 DEF AnswerInv, Genuine, FreshAnswer, OwnTopic
  <2> QED BY <2>3, <2>4, <2>5, <2>6, <2>7
<1>4. CASE ws = "open"
  <2>1. /\ active' = c /\ late' = FALSE /\ waiter' = TRUE /\ queue' = <<>> /\ handed' = NoReply
        /\ robot' = [robot EXCEPT ![c] = "got"] /\ sentOn' = [sentOn EXCEPT ![c] = links]
        /\ before' = [before EXCEPT ![c] = {d \in Commands : robot[d] = "gone"}]
        /\ UNCHANGED <<chain, reply>>
    BY <1>1, <1>4 DEF RunNext, Drained
  <2>2. c = Head(chain)
    OBVIOUS
  <2> HIDE DEF c
  <2>3. queue' \in Seq(Replies) /\ Len(queue') <= MaxQueued
    BY <2>1
  <2>4. TypeOK'
    <3>1. robot' \in [Commands -> {"none", "got", "ok", "refused", "gone"}]
      BY <1>2, <2>1 DEF TypeOK
    <3>2. sentOn' \in [Commands -> 0..MaxLinks] /\ before' \in [Commands -> SUBSET Commands]
      BY <1>2, <2>1 DEF TypeOK
    <3>3. active' \in Commands \cup {NoCommand} /\ handed' \in Replies \cup {NoReply}
      BY <1>2, <2>1
    <3>4. late' \in BOOLEAN /\ waiter' \in BOOLEAN
      BY <2>1
    <3> QED BY <1>1, <2>1, <2>3, <3>1, <3>2, <3>3, <3>4 DEF TypeOK
  <2>5. RunInv'
    BY <1>1, <1>2, <1>4, <2>1, <2>2 DEF TypeOK, RunInv, NoReplyOverlooked
  <2>6. ChainInv'
    <3>1. \A i \in 1..Len(chain) : chain[i] \in Commands
      BY <1>2
    <3>2. \A i \in 1..Len(chain) : i # 1 => chain[i] # c
      BY <1>2 DEF ChainInv
    <3>3. \A d \in Commands : d # c => robot'[d] = robot[d]
      BY <1>2, <2>1 DEF TypeOK
    <3> QED BY <1>1, <1>2, <2>1, <3>1, <3>2, <3>3 DEF ChainInv
  <2>7. HistoryInv'
    <3>1. issuedOn[c] = links
      BY <1>2, <1>4 DEF ChainInv
    <3> QED BY <1>1, <1>2, <2>1, <3>1 DEF TypeOK, HistoryInv, SentOnItsLink
  <2>8. AnswerInv'
    <3>1. /\ before'[c] = {d \in Commands : robot[d] = "gone"}
          /\ \A d \in Commands : d # c => before'[d] = before[d]
      BY <1>2, <2>1 DEF TypeOK
    <3>2. \A d \in Commands : robot[d] = "gone" => robot'[d] = "gone"
      BY <1>2, <2>1 DEF TypeOK
    <3>3. FreshAnswer' /\ OwnTopic'
      BY <1>1, <1>2, <3>1 DEF AnswerInv, FreshAnswer, OwnTopic
    <3>4. active' # NoCommand => before'[active'] \subseteq {d \in Commands : robot'[d] = "gone"}
      BY <2>1, <3>1, <3>2
    <3>5. Len(queue') = 0
      BY <2>1
    <3> QED BY <2>1, <3>3, <3>4, <3>5 DEF AnswerInv
  <2> QED BY <2>4, <2>5, <2>6, <2>7, <2>8
<1> QED BY <1>3, <1>4

\* The end of the active run by a timeout or a lost link: no answer is recorded.
LEMMA EndKeeps ==
  ASSUME CommandInv, TypeOK', active # NoCommand,
         NEW result \in {"timeout", "failed"}, EndRun(active, result),
         waiter' = FALSE, handed' = NoReply,
         \A d \in Commands : robot[d] = "none" <=> robot'[d] = "none",
         ws' = "open" => ws = "open",
         UNCHANGED <<cloud, links, queue, call, issuedOn, sentOn, answer, before>>
  PROVE  CommandInv'
<1> USE DEF CommandInv
<1>1. chain # <<>> /\ active = Head(chain)
  BY DEF RunInv, NoReplyOverlooked
<1>2. /\ chain' \in Seq(Commands) /\ active' = NoCommand
      /\ \A d \in Commands : reply[d] # "none" => reply'[d] # "none"
      /\ \A i \in 1..Len(chain') : /\ i + 1 \in 1..Len(chain)
                                   /\ chain'[i] = chain[i + 1]
                                   /\ robot[chain'[i]] = "none"
  BY <1>1, RunEnds
<1>3. RunInv'
  BY <1>2 DEF RunInv, NoReplyOverlooked
<1>4. ChainInv'
  <2>1. \A i \in 1..Len(chain') : i \in Nat /\ chain'[i] \in Commands
    BY <1>2
  <2> QED BY <1>2, <2>1 DEF ChainInv
<1>5. HistoryInv'
  BY <1>2 DEF HistoryInv, SentOnItsLink
<1>6. AnswerInv'
  BY <1>2 DEF AnswerInv, Genuine, FreshAnswer, OwnTopic
<1> QED BY <1>3, <1>4, <1>5, <1>6

\* The run takes a response: the answer to its command, or one unrelated to it.
LEMMA ReactKeeps ==
  ASSUME CommandInv, React
  PROVE  CommandInv'
<1> USE DEF CommandInv
<1>1. /\ handed # NoReply /\ handed \in Replies /\ Genuine(handed)
      /\ active # NoCommand /\ active \in Commands /\ waiter = FALSE
      /\ chain # <<>> /\ active = Head(chain) /\ robot[active] # "none"
      /\ UNCHANGED <<cloud, ws, links, late, call, status, shown, expired, robot, issuedOn,
                    sentOn, before>>
  BY DEF React, TypeOK, RunInv, NoReplyOverlooked, AnswerInv, confirm
<1>2. CASE IsReplyTo(active, handed) /\ handed.code # "none"
  <2>1. /\ EndRun(active, handed.code) /\ answer' = [answer EXCEPT ![active] = handed]
        /\ handed' = NoReply /\ UNCHANGED <<waiter, queue>>
    BY <1>2 DEF React
  <2>2. handed.code \in {"ok", "refused"}
    BY <1>1, <1>2 DEF Replies
  <2>3. /\ chain' \in Seq(Commands) /\ active' = NoCommand
        /\ reply' \in [Commands -> {"none", "pending", "ok", "refused", "timeout", "failed"}]
        /\ \A d \in Commands : reply[d] # "none" => reply'[d] # "none"
        /\ \A i \in 1..Len(chain') : /\ i + 1 \in 1..Len(chain)
                                     /\ chain'[i] = chain[i + 1]
                                     /\ robot[chain'[i]] = "none"
    BY <1>1, <2>1, <2>2, RunEnds
  <2>4. answer' \in [Commands -> Replies \cup {NoReply}]
    BY <1>1, <2>1 DEF TypeOK
  <2>5. TypeOK'
    BY <1>1, <2>1, <2>3, <2>4 DEF TypeOK
  <2>6. RunInv'
    BY <1>1, <2>1, <2>3 DEF RunInv, NoReplyOverlooked
  <2>7. ChainInv'
    <3>1. \A i \in 1..Len(chain') : i \in Nat
      BY <2>3
    <3> QED BY <1>1, <2>3, <3>1 DEF ChainInv
  <2>8. HistoryInv'
    <3>1. \A d \in Commands : d # active => answer'[d] = answer[d]
      BY <2>1 DEF TypeOK
    <3> QED BY <1>1, <2>3, <3>1 DEF HistoryInv, SentOnItsLink
  <2>9. AnswerInv'
    <3>1. answer'[active] = handed /\ \A d \in Commands : d # active => answer'[d] = answer[d]
      BY <1>1, <2>1 DEF TypeOK
    <3>2. handed.cmd \notin before[active]
      BY <1>1 DEF Genuine
    <3>3. cloud => TopicOf[handed.cmd] = TopicOf[active]
      <4>1. cloud => handed.topic = TopicOf[handed.cmd] /\ handed.cmd \in Commands
        BY <1>1, <1>2 DEF Genuine
      <4>2. handed.topic \in {NoTopic, TopicOf[active]}
        BY <1>2 DEF IsReplyTo
      <4> QED BY <4>1, <4>2
    <3>4. FreshAnswer'
      BY <1>1, <3>1, <3>2 DEF AnswerInv, FreshAnswer
    <3>5. OwnTopic'
      BY <1>1, <3>1, <3>3 DEF AnswerInv, OwnTopic
    <3> QED BY <1>1, <2>1, <2>3, <3>4, <3>5 DEF AnswerInv, Genuine
  <2> QED BY <2>5, <2>6, <2>7, <2>8, <2>9
<1>3. CASE ~(IsReplyTo(active, handed) /\ handed.code # "none")
  <2>1. answer' = answer
    BY <1>3 DEF React
  <2>2. CASE late
    <3>1. EndRun(active, "timeout") /\ handed' = NoReply /\ UNCHANGED <<waiter, queue>>
      BY <1>3, <2>2 DEF React
    <3>2. /\ chain' \in Seq(Commands) /\ active' = NoCommand
          /\ reply' \in [Commands -> {"none", "pending", "ok", "refused", "timeout", "failed"}]
      BY <1>1, <3>1, RunEnds
    <3>3. TypeOK'
      BY <1>1, <2>1, <3>1, <3>2 DEF TypeOK
    <3> QED BY <1>1, <2>1, <3>1, <3>3, EndKeeps
  <2>3. CASE ~late
    <3>1. WaitForResponse /\ UNCHANGED <<chain, active, reply>>
      BY <1>3, <2>3 DEF React
    <3>2. /\ queue' \in Seq(Replies) /\ Len(queue') <= MaxQueued
          /\ waiter' \in BOOLEAN /\ handed' \in Replies \cup {NoReply}
          /\ waiter' => queue' = <<>> /\ handed' = NoReply
          /\ waiter' \/ handed' # NoReply
          /\ handed' # NoReply => Genuine(handed')
          /\ \A i \in 1..Len(queue') : Genuine(queue'[i])
      <4>1. queue \in Seq(Replies) /\ Len(queue) <= MaxQueued
        BY DEF TypeOK
      <4>2. CASE queue = <<>>
        BY <1>1, <3>1, <4>1, <4>2 DEF WaitForResponse
      <4>3. CASE queue # <<>>
        <5>1. handed' = Head(queue) /\ queue' = Tail(queue) /\ waiter' = FALSE
          BY <1>1, <3>1, <4>3 DEF WaitForResponse
        <5>2. /\ queue' \in Seq(Replies) /\ Len(queue') = Len(queue) - 1
              /\ handed' = queue[1] /\ 1 \in 1..Len(queue) /\ handed' \in Replies
              /\ \A i \in 1..Len(queue') : i + 1 \in 1..Len(queue) /\ queue'[i] = queue[i + 1]
          BY <4>1, <4>3, <5>1, TailShifts
        <5>3. Genuine(handed') /\ \A i \in 1..Len(queue') : Genuine(queue'[i])
          BY <5>2 DEF AnswerInv
        <5>4. Len(queue') <= MaxQueued
          BY <4>1, <5>2
        <5>5. handed' # NoReply
          BY <5>2
        <5> QED BY <5>1, <5>2, <5>3, <5>4, <5>5
      <4> QED BY <4>2, <4>3
    <3>3. TypeOK'
      BY <1>1, <2>1, <3>1, <3>2 DEF TypeOK
    <3>4. RunInv'
      BY <1>1, <3>1, <3>2 DEF RunInv, NoReplyOverlooked
    <3>5. ChainInv' /\ HistoryInv'
      BY <1>1, <2>1, <3>1 DEF ChainInv, HistoryInv, SentOnItsLink
    <3>6. AnswerInv'
      BY <1>1, <2>1, <3>1, <3>2 DEF AnswerInv, Genuine, FreshAnswer, OwnTopic
    <3> QED BY <3>3, <3>4, <3>5, <3>6
  <2> QED BY <2>2, <2>3
<1> QED BY <1>2, <1>3

LEMMA WaiterTimeoutKeeps ==
  ASSUME CommandInv, WaiterTimeout
  PROVE  CommandInv'
<1> USE DEF CommandInv
<1>1. /\ active # NoCommand /\ chain # <<>> /\ active = Head(chain) /\ handed = NoReply
      /\ EndRun(active, "timeout") /\ waiter' = FALSE
      /\ UNCHANGED <<cloud, ws, links, late, handed, queue, call, status, shown, expired,
                    robot, issuedOn, sentOn, answer, before>>
  BY DEF WaiterTimeout, Calm, RunInv, NoReplyOverlooked, confirm, history
<1>2. /\ chain' \in Seq(Commands) /\ active' = NoCommand
      /\ reply' \in [Commands -> {"none", "pending", "ok", "refused", "timeout", "failed"}]
  BY <1>1, RunEnds
<1>3. TypeOK'
  BY <1>1, <1>2 DEF TypeOK
<1> QED BY <1>1, <1>3, EndKeeps

\* The robot's reply to a command that was sent comes in for the first time.
LEMMA ReceiveReplyKeeps ==
  ASSUME CommandInv, NEW c \in Commands, ReceiveReply(c)
  PROVE  CommandInv'
<1> USE DEF CommandInv
<1> DEFINE m == [cmd |-> c, topic |-> IF cloud THEN TopicOf[c] ELSE NoTopic, code |-> robot[c]]
<1>1. /\ robot[c] \in {"ok", "refused"} /\ robot' = [robot EXCEPT ![c] = "gone"] /\ Enqueue(m)
      /\ UNCHANGED <<cloud, ws, links, chain, active, late, reply, call, status, shown, expired,
                    issuedOn, sentOn, answer, before>>
  BY DEF ReceiveReply, confirm, history
<1>2. m \in Replies
  BY <1>1 DEF Replies
<1>3. Genuine(m)
  BY <1>1 DEF Genuine, AnswerInv
<1> HIDE DEF m
<1>4. /\ waiter' \in BOOLEAN /\ handed' \in Replies \cup {NoReply}
      /\ queue' \in Seq(Replies) /\ Len(queue') <= MaxQueued
      /\ waiter' => queue' = <<>> /\ handed' = NoReply
      /\ active # NoCommand => waiter' \/ handed' # NoReply
      /\ active = NoCommand => ~waiter' /\ handed' = NoReply
      /\ handed' # NoReply => Genuine(handed')
      /\ \A i \in 1..Len(queue') : Genuine(queue'[i])
  BY <1>1, <1>2, <1>3, EnqueueKeeps
<1>5. /\ \A d \in Commands : robot'[d] = "none" <=> robot[d] = "none"
      /\ \A d \in Commands : robot[d] = "gone" => robot'[d] = "gone"
      /\ robot' \in [Commands -> {"none", "got", "ok", "refused", "gone"}]
  BY <1>1 DEF TypeOK
<1>6. TypeOK'
  BY <1>1, <1>4, <1>5 DEF TypeOK
<1>7. RunInv'
  BY <1>1, <1>4, <1>5 DEF RunInv, NoReplyOverlooked, TypeOK
<1>8. ChainInv'
  <2>1. \A i \in 1..Len(chain) : chain[i] \in Commands
    BY DEF TypeOK
  <2> QED BY <1>1, <1>5, <2>1 DEF ChainInv
<1>9. HistoryInv'
  BY <1>1, <1>5 DEF HistoryInv, SentOnItsLink
<1>10. AnswerInv'
  BY <1>1, <1>4, <1>5 DEF AnswerInv, Genuine, FreshAnswer, OwnTopic
<1> QED BY <1>6, <1>7, <1>8, <1>9, <1>10

LEMMA ReceiveOtherKeeps ==
  ASSUME CommandInv, ReceiveOther
  PROVE  CommandInv'
<1> USE DEF CommandInv
<1> DEFINE m == [cmd |-> NoCommand, topic |-> NoTopic, code |-> "none"]
<1>1. /\ Enqueue(m)
      /\ UNCHANGED <<cloud, ws, links, chain, active, late, reply, call, status, shown, expired,
                    robot, issuedOn, sentOn, answer, before>>
  BY DEF ReceiveOther, confirm, history
<1>2. m \in Replies
  BY DEF Replies
<1>3. Genuine(m)
  BY DEF Genuine, TypeOK
<1> HIDE DEF m
<1>4. /\ waiter' \in BOOLEAN /\ handed' \in Replies \cup {NoReply}
      /\ queue' \in Seq(Replies) /\ Len(queue') <= MaxQueued
      /\ waiter' => queue' = <<>> /\ handed' = NoReply
      /\ active # NoCommand => waiter' \/ handed' # NoReply
      /\ active = NoCommand => ~waiter' /\ handed' = NoReply
      /\ handed' # NoReply => Genuine(handed')
      /\ \A i \in 1..Len(queue') : Genuine(queue'[i])
  BY <1>1, <1>2, <1>3, EnqueueKeeps
<1>5. TypeOK'
  BY <1>1, <1>4 DEF TypeOK
<1>6. RunInv'
  BY <1>1, <1>4 DEF RunInv, NoReplyOverlooked
<1>7. ChainInv' /\ HistoryInv'
  BY <1>1 DEF ChainInv, HistoryInv, SentOnItsLink
<1>8. AnswerInv'
  BY <1>1, <1>4 DEF AnswerInv, Genuine, FreshAnswer, OwnTopic
<1> QED BY <1>5, <1>6, <1>7, <1>8

\* The link goes: the active command fails with it, and what is left in the
\* chain was not sent.
LEMMA LinkDownKeeps ==
  ASSUME CommandInv, LinkDown
  PROVE  CommandInv'
<1> USE DEF CommandInv
<1>1. /\ handed = NoReply /\ ws' = "none" /\ RejectWaiters
      /\ UNCHANGED <<cloud, links, late, handed, queue, call, status, shown, expired,
                    issuedOn, sentOn, answer, before>>
  BY DEF LinkDown, Calm, confirm, history
<1>2. robot' = IF cloud THEN robot
               ELSE [c \in Commands |-> IF robot[c] = "none" THEN "none" ELSE "gone"]
  BY DEF LinkDown
<1>3. /\ \A d \in Commands : robot'[d] = "none" <=> robot[d] = "none"
      /\ \A d \in Commands : robot[d] = "gone" => robot'[d] = "gone"
      /\ robot' \in [Commands -> {"none", "got", "ok", "refused", "gone"}]
  BY <1>2 DEF TypeOK
<1>4. CASE waiter
  <2>1. /\ active # NoCommand /\ chain # <<>> /\ active = Head(chain)
        /\ EndRun(active, "failed") /\ waiter' = FALSE
    BY <1>1, <1>4 DEF RejectWaiters, RunInv, NoReplyOverlooked
  <2>2. /\ chain' \in Seq(Commands) /\ active' = NoCommand
        /\ reply' \in [Commands -> {"none", "pending", "ok", "refused", "timeout", "failed"}]
    BY <2>1, RunEnds
  <2>3. TypeOK'
    BY <1>1, <1>3, <2>1, <2>2 DEF TypeOK
  <2> QED BY <1>1, <1>3, <2>1, <2>3, EndKeeps
<1>5. CASE ~waiter
  <2>1. active = NoCommand /\ UNCHANGED <<chain, active, waiter, reply>>
    BY <1>1, <1>5 DEF RejectWaiters, RunInv, NoReplyOverlooked
  <2>2. TypeOK'
    BY <1>1, <1>3, <2>1 DEF TypeOK
  <2>3. RunInv'
    BY <1>1, <2>1 DEF RunInv, NoReplyOverlooked
  <2>4. ChainInv'
    <3>1. \A i \in 1..Len(chain) : chain[i] \in Commands
      BY DEF TypeOK
    <3> QED BY <1>1, <1>3, <2>1, <3>1 DEF ChainInv
  <2>5. HistoryInv'
    BY <1>1, <1>3, <2>1 DEF HistoryInv, SentOnItsLink
  <2>6. AnswerInv'
    BY <1>1, <1>3, <2>1 DEF AnswerInv, Genuine, FreshAnswer, OwnTopic
  <2> QED BY <2>2, <2>3, <2>4, <2>5, <2>6
<1> QED BY <1>4, <1>5

\* A link opens while nothing is in the chain.
LEMMA LinkUpKeeps ==
  ASSUME CommandInv, LinkUp
  PROVE  CommandInv'
<1> USE DEF CommandInv
<1>1. /\ active = NoCommand /\ chain = <<>> /\ ws' = "open" /\ links' = links + 1
      /\ links < MaxLinks
      /\ UNCHANGED <<cloud, chain, active, late, waiter, handed, queue, reply, call, status,
                    shown, expired, robot, issuedOn, sentOn, answer, before>>
  BY DEF LinkUp, Calm, RunDue, RunInv, client, confirm, history
<1>2. TypeOK'
  <2>1. links' \in 0..MaxLinks
    BY <1>1 DEF TypeOK
  <2> QED BY <1>1, <2>1 DEF TypeOK
<1>3. RunInv'
  BY <1>1 DEF RunInv, NoReplyOverlooked
<1>4. ChainInv'
  <2>1. Len(chain') = 0
    BY <1>1
  <2> QED BY <2>1 DEF ChainInv
<1>5. HistoryInv' /\ AnswerInv'
  BY <1>1 DEF HistoryInv, SentOnItsLink, AnswerInv, Genuine, FreshAnswer, OwnTopic
<1> QED BY <1>2, <1>3, <1>4, <1>5

LEMMA PeerClosesKeeps ==
  ASSUME CommandInv, PeerCloses
  PROVE  CommandInv'
<1> USE DEF CommandInv
<1>1. /\ ws' = "closing" /\ ws = "open"
      /\ UNCHANGED <<cloud, links, chain, active, late, waiter, handed, queue, reply, call, status,
                    shown, expired, robot, issuedOn, sentOn, answer, before>>
  BY DEF PeerCloses, client, confirm, history
<1>2. TypeOK'
  BY <1>1 DEF TypeOK
<1>3. RunInv' /\ ChainInv'
  BY <1>1 DEF RunInv, NoReplyOverlooked, ChainInv
<1>4. HistoryInv' /\ AnswerInv'
  BY <1>1 DEF HistoryInv, SentOnItsLink, AnswerInv, Genuine, FreshAnswer, OwnTopic
<1> QED BY <1>2, <1>3, <1>4

\* Only commands that were sent are answered.
LEMMA RobotRepliesKeeps ==
  ASSUME CommandInv, NEW c \in Commands, RobotReplies(c)
  PROVE  CommandInv'
<1> USE DEF CommandInv
<1>1. /\ robot[c] = "got"
      /\ UNCHANGED <<cloud, ws, links, chain, active, late, waiter, handed, queue, reply, call, status,
                    shown, expired, issuedOn, sentOn, answer, before>>
  BY DEF RobotReplies, client, confirm, history
<1>2. PICK code \in {"ok", "refused"} : robot' = [robot EXCEPT ![c] = code]
  BY DEF RobotReplies
<1>3. /\ \A d \in Commands : robot'[d] = "none" <=> robot[d] = "none"
      /\ \A d \in Commands : robot[d] = "gone" => robot'[d] = "gone"
      /\ robot' \in [Commands -> {"none", "got", "ok", "refused", "gone"}]
  BY <1>1, <1>2 DEF TypeOK
<1>4. TypeOK'
  BY <1>1, <1>3 DEF TypeOK
<1>5. RunInv'
  BY <1>1, <1>3 DEF RunInv, NoReplyOverlooked, TypeOK
<1>6. ChainInv'
  <2>1. \A i \in 1..Len(chain) : chain[i] \in Commands
    BY DEF TypeOK
  <2> QED BY <1>1, <1>3, <2>1 DEF ChainInv
<1>7. HistoryInv'
  BY <1>1, <1>3 DEF HistoryInv, SentOnItsLink
<1>8. AnswerInv'
  BY <1>1, <1>3 DEF AnswerInv, Genuine, FreshAnswer, OwnTopic
<1> QED BY <1>4, <1>5, <1>6, <1>7, <1>8

\* The steps that leave the chain, the responses and the robot alone.
LEMMA ConfirmTimeoutKeeps ==
  ASSUME CommandInv, NEW c \in Commands, ConfirmTimeout(c)
  PROVE  CommandInv'
<1>1. TypeOK'
  BY DEF ConfirmTimeout, CommandInv, TypeOK, client, history
<1> QED BY <1>1, Untouched DEF ConfirmTimeout, client, history

LEMMA ReceiveStatusKeeps ==
  ASSUME CommandInv, ReceiveStatus
  PROVE  CommandInv'
<1>1. Visible \subseteq Topics
  BY DEF Visible
<1>2. TypeOK'
  BY <1>1 DEF ReceiveStatus, CommandInv, TypeOK, client, history
<1> QED BY <1>2, Untouched DEF ReceiveStatus, client, history

LEMMA TimePassesKeeps ==
  ASSUME CommandInv, TimePasses
  PROVE  CommandInv'
<1>1. TypeOK'
  BY DEF TimePasses, CommandInv, TypeOK, confirm, history
<1> QED BY <1>1, Untouched DEF TimePasses, confirm, history

LEMMA StutterKeeps ==
  ASSUME CommandInv, UNCHANGED vars
  PROVE  CommandInv'
<1>1. TypeOK'
  BY DEF vars, client, confirm, history, CommandInv, TypeOK
<1> QED BY <1>1, Untouched DEF vars, client, confirm, history

LEMMA CommandStep == CommandInv /\ [Next]_vars => CommandInv'
<1> SUFFICES ASSUME CommandInv, [Next]_vars PROVE CommandInv'
  OBVIOUS
<1>1. ASSUME NEW c \in Commands, Issue(c) PROVE CommandInv'
  BY <1>1, IssueKeeps
<1>2. ASSUME NEW c \in Commands, Settle(c) PROVE CommandInv'
  BY <1>2, SettleKeeps
<1>3. ASSUME NEW c \in Commands, ConfirmTimeout(c) PROVE CommandInv'
  BY <1>3, ConfirmTimeoutKeeps
<1>4. CASE RunNext
  BY <1>4, RunNextKeeps
<1>5. CASE React
  BY <1>5, ReactKeeps
<1>6. CASE WaiterTimeout
  BY <1>6, WaiterTimeoutKeeps
<1>7. CASE TimePasses
  BY <1>7, TimePassesKeeps
<1>8. ASSUME NEW c \in Commands, ReceiveReply(c) PROVE CommandInv'
  BY <1>8, ReceiveReplyKeeps
<1>9. ASSUME NEW c \in Commands, RobotReplies(c) PROVE CommandInv'
  BY <1>9, RobotRepliesKeeps
<1>10. CASE ReceiveOther
  BY <1>10, ReceiveOtherKeeps
<1>11. CASE ReceiveStatus
  BY <1>11, ReceiveStatusKeeps
<1>12. CASE PeerCloses
  BY <1>12, PeerClosesKeeps
<1>13. CASE LinkDown
  BY <1>13, LinkDownKeeps
<1>14. CASE LinkUp
  BY <1>14, LinkUpKeeps
<1>15. CASE UNCHANGED vars
  BY <1>15, StutterKeeps
<1> QED
  BY <1>1, <1>2, <1>3, <1>4, <1>5, <1>6, <1>7, <1>8, <1>9, <1>10, <1>11, <1>12, <1>13, <1>14,
     <1>15 DEF Next

-----------------------------------------------------------------------------
(***************************************************************************)
(* The theorems.                                                           *)
(***************************************************************************)

\* _sendBinaryCommand and _enqueueBinaryResponse: every variable keeps its type,
\* and the response queue its limit, over any number of commands and links.
THEOREM ChannelTyped == Spec => []TypeOK
<1>1. CommandInv => TypeOK
  BY DEF CommandInv
<1> QED BY <1>1, CommandInit, CommandStep, PTL DEF Spec

\* _drainBinaryResponses: no command is ever settled with a response that had
\* come in before the command was sent.
THEOREM AnswerAlwaysFresh == Spec => []FreshAnswer
<1>1. CommandInv => FreshAnswer
  BY DEF CommandInv, AnswerInv
<1> QED BY <1>1, CommandInit, CommandStep, PTL DEF Spec

\* isReplyTo: over the cloud a command is only settled by the robot's reply to a
\* command of its own topic.
THEOREM AnswerOfOwnTopic == Spec => []OwnTopic
<1>1. CommandInv => OwnTopic
  BY DEF CommandInv, AnswerInv
<1> QED BY <1>1, CommandInit, CommandStep, PTL DEF Spec

\* _failAllPending and the chain: a command given on one link never reaches the
\* robot on a later one.
THEOREM NeverSentLate == Spec => []SentOnItsLink
<1>1. CommandInv => SentOnItsLink
  BY DEF CommandInv, HistoryInv
<1> QED BY <1>1, CommandInit, CommandStep, PTL DEF Spec

\* _waitForBinaryResponse: a command that waits has no response left unread, and
\* only the first of the chain waits.
THEOREM WaitersMeetResponses == Spec => []NoReplyOverlooked
<1>1. CommandInv => NoReplyOverlooked
  BY DEF CommandInv, RunInv
<1> QED BY <1>1, CommandInit, CommandStep, PTL DEF Spec
-----------------------------------------------------------------------------
(***************************************************************************)
(* What the host is told of a refusal.                                     *)
(***************************************************************************)

\* RefusalIsError with what its induction needs: a command in the chain has no
\* reply yet, and one the host was told is done before it had one was on show.
RefusalInv ==
  /\ \A i \in 1..Len(chain) : reply[chain[i]] = "pending"
  /\ active # NoCommand => answer[active] = NoReply
  /\ \A c \in Commands :
       answer[c] # NoReply /\ answer[c].code = "refused" => reply[c] = "refused"
  /\ \A c \in Commands : call[c] = "ok" /\ reply[c] \in {"pending", "refused"} => c \in shown

\* The end of a run, with the reply the command is settled with or without one.
LEMMA RefusalEnds ==
  ASSUME CommandInv, RefusalInv, chain # <<>>,
         NEW result \in {"ok", "refused", "timeout", "failed"}, EndRun(Head(chain), result),
         \A c \in Commands : c # Head(chain) => answer'[c] = answer[c],
         answer'[Head(chain)] # NoReply /\ answer'[Head(chain)].code = "refused"
           => result = "refused",
         UNCHANGED <<call, shown>>
  PROVE  RefusalInv'
<1> DEFINE head == Head(chain)
<1>1. /\ active' = NoCommand /\ head = chain[1] /\ 1 \in 1..Len(chain) /\ head \in Commands
      /\ \A i \in 1..Len(chain') : i + 1 \in 1..Len(chain) /\ chain'[i] = chain[i + 1]
  BY RunEnds
<1>2. reply[head] = "pending"
  BY <1>1 DEF RefusalInv
<1>3. reply'[head] = result /\ \A c \in Commands : c # head => reply'[c] = reply[c]
  BY <1>1 DEF EndRun, CommandInv, TypeOK
<1>4. ASSUME NEW i \in 1..Len(chain') PROVE reply'[chain'[i]] = "pending"
  <2>1. i + 1 \in 1..Len(chain) /\ chain'[i] = chain[i + 1] /\ i + 1 # 1
    BY <1>1
  <2>2. chain[i + 1] # head /\ chain[i + 1] \in Commands
    BY <1>1, <2>1 DEF CommandInv, ChainInv, TypeOK
  <2> QED BY <1>3, <2>1, <2>2 DEF RefusalInv
<1> HIDE DEF head
<1>5. ASSUME NEW c \in Commands, answer'[c] # NoReply, answer'[c].code = "refused"
      PROVE  reply'[c] = "refused"
  BY <1>3, <1>5 DEF RefusalInv, head
<1>6. ASSUME NEW c \in Commands, call'[c] = "ok", reply'[c] \in {"pending", "refused"}
      PROVE  c \in shown'
  BY <1>2, <1>3, <1>6 DEF RefusalInv
<1> QED BY <1>1, <1>4, <1>5, <1>6 DEF RefusalInv

\* Steps that only show more, or nothing.
LEMMA RefusalShown ==
  ASSUME RefusalInv, UNCHANGED <<chain, active, reply, answer, call>>, shown \subseteq shown'
  PROVE  RefusalInv'
BY DEF RefusalInv

LEMMA RefusalIssued ==
  ASSUME CommandInv, RefusalInv, NEW c \in Commands, Issue(c)
  PROVE  RefusalInv'
<1>1. /\ call[c] = "none" /\ active' = active /\ answer' = answer /\ shown \subseteq shown'
      /\ chain \in Seq(Commands) /\ chain' = Append(chain, c)
  BY DEF Issue, CommandInv, TypeOK
<1>2. /\ call'[c] = "waiting" /\ reply'[c] = "pending" /\ answer[c] = NoReply
      /\ \A d \in Commands : d # c => call'[d] = call[d] /\ reply'[d] = reply[d]
  BY <1>1 DEF Issue, CommandInv, TypeOK, HistoryInv
<1>3. /\ Len(chain') = Len(chain) + 1 /\ Len(chain) \in Nat /\ chain'[Len(chain) + 1] = c
      /\ \A i \in 1..Len(chain) : chain'[i] = chain[i] /\ chain[i] \in Commands
  BY <1>1, AppendKeeps
<1>4. ASSUME NEW i \in 1..Len(chain') PROVE reply'[chain'[i]] = "pending"
  <2>1. i \in 1..Len(chain) \/ i = Len(chain) + 1
    BY <1>3
  <2> QED BY <1>2, <1>3, <2>1 DEF RefusalInv
<1> QED BY <1>1, <1>2, <1>4 DEF RefusalInv

\* The host is told what the reply and the status say by then.
LEMMA RefusalSettled ==
  ASSUME CommandInv, RefusalInv, NEW c \in Commands, Settle(c)
  PROVE  RefusalInv'
<1>1. UNCHANGED <<chain, active, reply, answer, shown>> /\ call' = [call EXCEPT ![c] = Verdict(c)]
  BY DEF Settle, client, history
<1>2. reply[c] \in {"pending", "refused"} /\ c \notin shown => Verdict(c) # "ok"
  <2>1. CASE reply[c] = "refused" /\ c \notin shown
    <3>1. Verdict(c) = "error"
      BY <2>1, Zenon DEF Verdict
    <3> QED BY <3>1
  <2>2. CASE reply[c] = "pending" /\ c \notin shown
    <3>1. Verdict(c) = "waiting"
      BY <2>2, Zenon DEF Verdict
    <3> QED BY <3>1
  <2> QED BY <2>1, <2>2
<1>3. ASSUME NEW d \in Commands, call'[d] = "ok", reply'[d] \in {"pending", "refused"}
      PROVE  d \in shown'
  BY <1>1, <1>2, <1>3 DEF RefusalInv, CommandInv, TypeOK
<1> QED BY <1>1, <1>3 DEF RefusalInv

\* A command is sent, or fails without a link.
LEMMA RefusalRun ==
  ASSUME CommandInv, RefusalInv, RunNext
  PROVE  RefusalInv'
<1>1. /\ active = NoCommand /\ chain # <<>> /\ Head(chain) = chain[1] /\ 1 \in 1..Len(chain)
      /\ Head(chain) \in Commands
  BY TailShifts DEF RunNext, RunDue, CommandInv, TypeOK
<1>2. answer[Head(chain)] = NoReply
  BY <1>1 DEF CommandInv, ChainInv, HistoryInv
<1>3. UNCHANGED <<call, shown, answer>>
  BY DEF RunNext, confirm
<1>4. CASE ws # "open"
  BY <1>1, <1>2, <1>3, <1>4, RefusalEnds DEF RunNext
<1>5. CASE ws = "open"
  <2>1. active' = Head(chain) /\ UNCHANGED <<chain, reply>>
    BY <1>5 DEF RunNext
  <2> QED BY <1>2, <1>3, <2>1 DEF RefusalInv
<1> QED BY <1>4, <1>5

\* The active run goes on with a response.
LEMMA RefusalReact ==
  ASSUME CommandInv, RefusalInv, React
  PROVE  RefusalInv'
<1>1. /\ handed \in Replies /\ active # NoCommand /\ chain # <<>> /\ active = Head(chain)
      /\ answer[active] = NoReply /\ UNCHANGED <<call, shown>> /\ active \in Commands
  BY DEF React, confirm, CommandInv, RunInv, NoReplyOverlooked, TypeOK, RefusalInv
<1>2. CASE IsReplyTo(active, handed) /\ handed.code # "none"
  <2>1. EndRun(Head(chain), handed.code) /\ handed.code \in {"ok", "refused", "timeout", "failed"}
    BY <1>1, <1>2 DEF React, Replies
  <2>2. /\ answer'[Head(chain)] = handed
        /\ \A c \in Commands : c # Head(chain) => answer'[c] = answer[c]
    BY <1>1, <1>2 DEF React, CommandInv, TypeOK
  <2> QED BY <1>1, <2>1, <2>2, RefusalEnds
<1>3. CASE ~(IsReplyTo(active, handed) /\ handed.code # "none") /\ late
  <2>1. EndRun(Head(chain), "timeout") /\ answer' = answer
    BY <1>1, <1>3 DEF React
  <2> QED BY <1>1, <2>1, RefusalEnds
<1>4. CASE ~(IsReplyTo(active, handed) /\ handed.code # "none") /\ ~late
  BY <1>1, <1>4, RefusalShown DEF React
<1> QED BY <1>2, <1>3, <1>4

\* The waiter's timer, or the end of the link.
LEMMA RefusalGivesUp ==
  ASSUME CommandInv, RefusalInv, WaiterTimeout \/ LinkDown
  PROVE  RefusalInv'
<1>1. UNCHANGED <<call, shown, answer>>
  BY DEF WaiterTimeout, LinkDown, confirm, history
<1>2. CASE UNCHANGED <<chain, active, reply>>
  BY <1>1, <1>2, RefusalShown
<1>3. ASSUME waiter, NEW result \in {"timeout", "failed"}, EndRun(active, result)
      PROVE  RefusalInv'
  <2>1. active # NoCommand /\ chain # <<>> /\ active = Head(chain) /\ answer[active] = NoReply
    BY <1>3 DEF CommandInv, RunInv, NoReplyOverlooked, RefusalInv
  <2>2. EndRun(Head(chain), result) /\ answer'[Head(chain)] = NoReply
    BY <1>1, <1>3, <2>1
  <2> QED BY <1>1, <2>1, <2>2, RefusalEnds
<1> QED BY <1>2, <1>3 DEF WaiterTimeout, LinkDown, RejectWaiters

LEMMA RefusalStep == CommandInv /\ RefusalInv /\ [Next]_vars => RefusalInv'
<1> SUFFICES ASSUME CommandInv, RefusalInv, [Next]_vars PROVE RefusalInv'
  OBVIOUS
<1>1. ASSUME NEW c \in Commands, Issue(c) \/ Settle(c) PROVE RefusalInv'
  BY <1>1, RefusalIssued, RefusalSettled
<1>2. ASSUME NEW c \in Commands, ConfirmTimeout(c) \/ ReceiveReply(c) \/ RobotReplies(c)
      PROVE  RefusalInv'
  BY <1>2, RefusalShown
  DEF ConfirmTimeout, ReceiveReply, RobotReplies, client, confirm, history
<1>3. CASE RunNext \/ React
  BY <1>3, RefusalRun, RefusalReact
<1>4. CASE WaiterTimeout \/ LinkDown
  BY <1>4, RefusalGivesUp
<1>5. CASE ReceiveStatus
  BY <1>5, RefusalShown DEF ReceiveStatus, client, history
<1>6. CASE TimePasses \/ ReceiveOther \/ PeerCloses \/ LinkUp \/ UNCHANGED vars
  BY <1>6, RefusalShown
  DEF TimePasses, ReceiveOther, PeerCloses, LinkUp, vars, client, confirm, history
<1> QED
  BY <1>1, <1>2, <1>3, <1>4, <1>5, <1>6 DEF Next

\* _command: what the host is told of a command the robot refused is an error,
\* unless the robot's status shows the effect.
THEOREM RefusalReported == Spec => []RefusalIsError
<1>1. Init => RefusalInv
  BY DEF Init, RefusalInv
<1>2. RefusalInv => RefusalIsError
  BY DEF RefusalInv, RefusalIsError
<1> QED BY <1>1, <1>2, CommandInit, CommandStep, RefusalStep, PTL DEF Spec
=============================================================================
