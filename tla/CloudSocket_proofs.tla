------------------------- MODULE CloudSocket_proofs -------------------------
(***************************************************************************)
(* The account and a cloud socket, for any number of sessions, callers,    *)
(* refreshes and frames: what is stored is the session in use, refreshes   *)
(* are shared, an ended socket keeps no connection, and the broker gets    *)
(* the frames in order.                                                    *)
(***************************************************************************)
EXTENDS CloudSocket, TLAPS

Calls == [of : Sessions \cup {NoSession}, at : {"idle", "first", "refresh", "retry", "failed"}]

\* Requests are made with sessions that were signed in to.
CallInv ==
  /\ used \subseteq Sessions
  /\ current \in used \cup {NoSession}
  /\ calls \in [Callers -> Calls]
  /\ \A c \in Callers : calls[c].at # "idle" => calls[c].of \in used

\* StoredFollows and OneRefresh with what their induction needs: a session that
\* was never signed in to has its first tokens and is not refreshed.
TokenInv ==
  /\ tokens \in [Sessions -> Nat] /\ posts \in [Sessions -> Nat] /\ refreshing \subseteq Sessions
  /\ \A s \in Sessions \ used : tokens[s] = 0 /\ posts[s] = 0
  /\ StoredFollows
  /\ OneRefresh

\* NoClientLeft with what the account needs of the socket: only a socket that was
\* given an account asks for a broker, or has its tokens refreshed.
SocketInv ==
  /\ ready \in {"none", "CONNECTING", "OPEN", "CLOSED"}
  /\ mqtt \in {"none", "connecting", "connected", "ended"}
  /\ ready = "none" => calls[Socket].at = "idle" /\ mqtt = "none"
  /\ ready \in {"CONNECTING", "OPEN"} \/ mqtt \in {"connecting", "connected"} => holder \in used
  /\ NoClientLeft

CloudInv == CallInv /\ TokenInv /\ SocketInv

LEMMA CloudInit == Init => CloudInv
<1> SUFFICES ASSUME Init PROVE CloudInv
  OBVIOUS
<1>1. current \in Sessions \cup {NoSession} /\ used = {current} \ {NoSession}
  BY DEF Init, AccountInit, NoTokens, TokensOf
<1>2. CallInv
  BY <1>1 DEF Init, AccountInit, CallInv, Calls, Idle
<1>3. stored = IF current = NoSession THEN NoTokens ELSE TokensOf(current, 0)
  <2>1. CASE stored = NoTokens
    BY <2>1 DEF Init, AccountInit, NoTokens, TokensOf
  <2>2. CASE stored \in [of : Sessions, pair : {0}]
    BY <2>2, AccountConstants DEF Init, AccountInit, NoTokens, TokensOf
  <2> QED
    BY <2>1, <2>2 DEF Init, AccountInit
<1>4. TokenInv
  BY <1>1, <1>3 DEF Init, AccountInit, TokenInv, StoredFollows, OneRefresh
<1>5. SocketInv
  BY SocketConstants DEF Init, AccountInit, SocketInv, NoClientLeft, Idle
<1> QED
  BY <1>2, <1>4, <1>5 DEF CloudInv

-----------------------------------------------------------------------------
(***************************************************************************)
(* The account's steps.                                                    *)
(***************************************************************************)

\* refresh() of a session that was signed in to adds a request only when there
\* is none.
LEMMA RefreshKeeps ==
  ASSUME TokenInv, NEW s \in Sessions, s \in used, Refresh(s),
         UNCHANGED <<current, stored, used, tokens>>
  PROVE  TokenInv'
<1>1. CASE UNCHANGED <<posts, refreshing>>
  BY <1>1 DEF TokenInv, StoredFollows, OneRefresh
<1>2. CASE /\ s \notin refreshing
           /\ posts' = [posts EXCEPT ![s] = @ + 1]
           /\ refreshing' = refreshing \cup {s}
  BY <1>2 DEF TokenInv, StoredFollows, OneRefresh
<1> QED
  BY <1>1, <1>2 DEF Refresh

LEMMA ResumedTyped ==
  ASSUME CallInv, NEW s \in Sessions, NEW at \in {"retry", "failed"}, calls' = Resumed(s, at),
         UNCHANGED <<current, used>>
  PROVE  CallInv' /\ \A c \in Callers : calls[c].at = "idle" => calls'[c].at = "idle"
<1>1. \A c \in Callers : \/ calls'[c] = calls[c]
                         \/ /\ calls[c] = [of |-> s, at |-> "refresh"]
                            /\ calls'[c] = [of |-> s, at |-> at]
  BY DEF Resumed
<1>2. calls' \in [Callers -> Calls]
  BY <1>1 DEF Resumed, CallInv, Calls
<1>3. ASSUME NEW c \in Callers
      PROVE  /\ calls[c].at = "idle" => calls'[c].at = "idle"
             /\ calls'[c].at # "idle" => calls'[c].of \in used
  <2>1. CASE calls'[c] = calls[c]
    BY <2>1 DEF CallInv
  <2>2. CASE calls[c] = [of |-> s, at |-> "refresh"] /\ calls'[c] = [of |-> s, at |-> at]
    <3>1. calls[c].at = "refresh" /\ calls[c].of = s /\ calls'[c].of = s
      BY <2>2
    <3> QED
      BY <3>1 DEF CallInv
  <2> QED
    BY <1>1, <2>1, <2>2
<1> QED
  BY <1>2, <1>3 DEF CallInv

LEMMA AccountKeeps ==
  ASSUME CallInv, TokenInv, Account
  PROVE  /\ CallInv' /\ TokenInv' /\ used \subseteq used'
         /\ \A c \in Callers : calls[c].at = "idle" => calls'[c].at = "idle"
<1>1. CASE SignIn \/ SignInFails
  BY <1>1 DEF SignIn, SignInFails, CallInv, TokenInv, StoredFollows, OneRefresh
<1>2. CASE SignInSucceeds
  <2>1. PICK s \in Sessions \ used : used' = used \cup {s} /\ stored' = TokensOf(s, 0)
                                     /\ current' = s
    BY <1>2 DEF SignInSucceeds
  <2>2. UNCHANGED <<tokens, posts, refreshing, calls>>
    BY <1>2 DEF SignInSucceeds
  <2>3. CallInv'
    BY <2>1, <2>2 DEF CallInv
  <2>4. tokens[s] = 0 /\ s # NoSession
    BY <2>1, AccountConstants DEF TokenInv
  <2>5. TokenInv'
    BY <2>1, <2>2, <2>4 DEF TokenInv, StoredFollows, OneRefresh
  <2> QED
    BY <2>1, <2>2, <2>3, <2>5
<1>3. CASE SignOut
  BY <1>3 DEF SignOut, CallInv, TokenInv, StoredFollows, OneRefresh
<1>4. ASSUME NEW s \in Sessions, RefreshSucceeds(s)
      PROVE  /\ CallInv' /\ TokenInv' /\ used' = used
             /\ \A c \in Callers : calls[c].at = "idle" => calls'[c].at = "idle"
  <2>1. s \in used /\ posts[s] = 1 /\ s \in refreshing
    BY <1>4 DEF RefreshSucceeds, TokenInv, OneRefresh
  <2>2. posts' = [posts EXCEPT ![s] = 0] /\ tokens' = [tokens EXCEPT ![s] = tokens[s] + 1]
    BY <1>4, <2>1 DEF RefreshSucceeds, TokenInv
  <2>3. StoredFollows'
    <3>1. CASE current = s
      BY <1>4, <2>2, <3>1, AccountConstants
      DEF RefreshSucceeds, SavedTokens, StoredFollows, TokenInv
    <3>2. CASE current # s
      <4>1. current # NoSession => tokens'[current] = tokens[current]
        BY <2>2, <3>2 DEF CallInv, TokenInv
      <4> QED
        BY <1>4, <3>2, <4>1 DEF RefreshSucceeds, SavedTokens, StoredFollows, TokenInv
    <3> QED
      BY <3>1, <3>2
  <2>4. TokenInv'
    BY <1>4, <2>1, <2>2, <2>3 DEF RefreshSucceeds, TokenInv, OneRefresh
  <2> QED
    BY <1>4, <2>4, ResumedTyped DEF RefreshSucceeds
<1>5. ASSUME NEW s \in Sessions, RefreshFails(s)
      PROVE  /\ CallInv' /\ TokenInv' /\ used' = used
             /\ \A c \in Callers : calls[c].at = "idle" => calls'[c].at = "idle"
  <2>1. s \in used /\ posts[s] = 1 /\ s \in refreshing
    BY <1>5 DEF RefreshFails, TokenInv, OneRefresh
  <2>2. posts' = [posts EXCEPT ![s] = 0]
    BY <1>5, <2>1 DEF RefreshFails, TokenInv
  <2>3. TokenInv'
    BY <1>5, <2>1, <2>2 DEF RefreshFails, TokenInv, StoredFollows, OneRefresh
  <2> QED
    BY <1>5, <2>3, ResumedTyped DEF RefreshFails
<1>6. ASSUME NEW c \in Callers, Refused(c)
      PROVE  /\ CallInv' /\ TokenInv' /\ used' = used
             /\ \A d \in Callers : calls[d].at = "idle" => calls'[d].at = "idle"
  <2>1. calls[c].of \in used /\ calls[c].of \in Sessions
    BY <1>6 DEF Refused, CallInv
  <2>2. TokenInv'
    BY <1>6, <2>1, RefreshKeeps DEF Refused
  <2>3. calls' \in [Callers -> Calls]
    BY <1>6 DEF Refused, CallInv, Calls
  <2>4. calls' = [calls EXCEPT ![c].at = "refresh"] /\ calls[c].at = "first"
    BY <1>6 DEF Refused
  <2>5. \A d \in Callers : calls'[d].of = calls[d].of
                           /\ (calls[d].at = "idle" <=> calls'[d].at = "idle")
    BY <2>4 DEF CallInv, Calls
  <2> QED
    BY <1>6, <2>2, <2>3, <2>5 DEF Refused, CallInv
<1> QED
  BY <1>1, <1>2, <1>3, <1>4, <1>5, <1>6 DEF Account, SignIn, SignInFails, SignOut

\* Requests of others, and the end of one of the socket's.
LEMMA CallsKeep ==
  ASSUME CallInv, NEW c \in Callers, UNCHANGED <<current, used>>,
         \/ Answered(c) \/ Failed(c)
         \/ current # NoSession /\ Request(c, current)
  PROVE  CallInv' /\ \A d \in Callers \ {c} : calls'[d] = calls[d]
BY DEF CallInv, Calls, Answered, Failed, Request, Idle

-----------------------------------------------------------------------------
(***************************************************************************)
(* The socket's steps.                                                     *)
(***************************************************************************)

LEMMA CloudNext == CloudInv /\ [Next]_vars => CloudInv'
<1> SUFFICES ASSUME CloudInv, [Next]_vars PROVE CloudInv'
  OBVIOUS
<1> USE SocketConstants DEF CloudInv
<1>1. ASSUME UNCHANGED <<account, calls>> PROVE CallInv' /\ TokenInv'
  BY <1>1 DEF account, CallInv, TokenInv, StoredFollows, OneRefresh
<1>2. CASE Construct
  <2>1. current \in used /\ TokenInv'
    BY <1>2 DEF Construct, account, CallInv, TokenInv, StoredFollows, OneRefresh
  <2>2. CallInv'
    BY <1>1, <1>2, CallsKeep DEF Construct, account
  <2>3. SocketInv'
    BY <1>2, <2>1 DEF Construct, account, SocketInv, NoClientLeft
  <2> QED
    BY <2>1, <2>2, <2>3
<1>3. CASE BrokerFound
  <2>1. TokenInv'
    BY <1>3 DEF BrokerFound, TokenInv, StoredFollows, OneRefresh
  <2>2. CallInv'
    BY <1>3, CallsKeep DEF BrokerFound, CallInv
  <2>3. ready \in {"CONNECTING", "OPEN", "CLOSED"}
    BY <1>3 DEF BrokerFound, Answered, SocketInv
  <2>4. SocketInv'
    BY <1>3, <2>3 DEF BrokerFound, ConnectBroker, SocketInv, NoClientLeft, quiet
  <2> QED
    BY <2>1, <2>2, <2>4
<1>4. CASE BrokerFails
  <2>1. TokenInv'
    BY <1>4 DEF BrokerFails, account, TokenInv, StoredFollows, OneRefresh
  <2>2. CallInv'
    BY <1>4, CallsKeep DEF BrokerFails, account
  <2>3. SocketInv'
    BY <1>4 DEF BrokerFails, Fail, Ended, OnClose, SocketInv, NoClientLeft, account
  <2> QED
    BY <2>1, <2>2, <2>3
<1>5. CASE BroadcastsGranted
  BY <1>1, <1>5
  DEF BroadcastsGranted, OpenIfConnecting, SocketInv, NoClientLeft, account, quiet
<1>6. CASE BroadcastsRefused
  BY <1>1, <1>6
  DEF BroadcastsRefused, Fail, Ended, OnClose, SocketInv, NoClientLeft, account, quiet
<1>7. CASE PublishHead \/ ResponseTopic
  <2>1. UNCHANGED <<account, calls, ready, holder, mqtt>>
    BY <1>7 DEF PublishHead, ResponseTopic
  <2> QED
    BY <1>1, <2>1 DEF SocketInv, NoClientLeft, account
<1>8. CASE Others
  <2>1. CASE Account
    BY <1>8, <2>1, AccountKeeps DEF Others, SocketInv, NoClientLeft, socket
  <2>2. ASSUME NEW c \in Callers \ {Socket}, OtherRequest(c) PROVE CloudInv'
    <3>1. CallInv' /\ calls'[Socket] = calls[Socket]
      BY <2>2, CallsKeep DEF OtherRequest
    <3>2. TokenInv'
      BY <2>2 DEF OtherRequest, TokenInv, StoredFollows, OneRefresh
    <3> QED
      BY <1>8, <2>2, <3>1, <3>2 DEF Others, OtherRequest, SocketInv, NoClientLeft, socket
  <2> QED
    BY <1>8, <2>1, <2>2 DEF Others
<1>9. CASE AppRestarts
  <2>1. UNCHANGED <<stored, used>> /\ current' = stored.of
    BY <1>9 DEF AppRestarts, Restart
  <2>2. /\ stored.of = current
        /\ current # NoSession => stored.pair = tokens[current]
    BY DEF TokenInv, StoredFollows, NoTokens, TokensOf
  <2>3. tokens' = tokens
    <3>1. tokens' = [s \in Sessions |-> IF s = stored.of THEN stored.pair ELSE tokens[s]]
      BY <1>9 DEF AppRestarts, Restart
    <3>2. \A s \in Sessions : (IF s = stored.of THEN stored.pair ELSE tokens[s]) = tokens[s]
      BY <2>2, AccountConstants
    <3> QED
      BY <3>1, <3>2 DEF TokenInv
  <2>4. CallInv'
    BY <1>9, <2>1, <2>2 DEF AppRestarts, Restart, CallInv, Calls, Idle
  <2>5. TokenInv'
    BY <1>9, <2>1, <2>2, <2>3 DEF AppRestarts, Restart, TokenInv, StoredFollows, OneRefresh
  <2>6. SocketInv'
    BY <1>9 DEF AppRestarts, Ended, SocketInv, NoClientLeft
  <2> QED
    BY <2>4, <2>5, <2>6
<1>10. CASE MqttConnects \/ MqttCloses \/ Terminate
  <2>1. UNCHANGED <<account, calls, holder>>
    BY <1>10 DEF MqttConnects, MqttCloses, Terminate, quiet
  <2> QED
    BY <1>1, <1>10, <2>1
    DEF MqttConnects, MqttCloses, Terminate, Ended, OnClose, SocketInv, NoClientLeft, account
<1>11. CASE MqttError
  <2>1. holder \in used /\ holder \in Sessions
    BY <1>11 DEF MqttError, SocketInv, CallInv
  <2>2. TokenInv'
    BY <1>11, <2>1, RefreshKeeps DEF MqttError
  <2> QED
    BY <1>11, <2>2 DEF MqttError, CallInv, SocketInv, NoClientLeft, socket
<1>12. ASSUME NEW t, Send(t) PROVE CloudInv'
  <2>1. UNCHANGED <<account, calls, ready, holder, mqtt>>
    BY <1>12 DEF Send
  <2> QED
    BY <1>1, <2>1 DEF SocketInv, NoClientLeft, account
<1>13. CASE UNCHANGED vars
  BY <1>1, <1>13 DEF vars, socket, SocketInv, NoClientLeft, account
<1> QED
  BY <1>2, <1>3, <1>4, <1>5, <1>6, <1>7, <1>8, <1>9, <1>10, <1>11, <1>12, <1>13
  DEF Next, Broadcasts, Queue, Ping

\* What is stored is the session in use with its latest tokens, whatever sign-ins,
\* sign-outs, refreshes and restarts overlap (CloudAccountManager.js:51).
THEOREM StoredSessionFollows == Spec => []StoredFollows
<1>1. CloudInv => StoredFollows
  BY DEF CloudInv, TokenInv
<1> QED
  BY <1>1, CloudInit, CloudNext, PTL DEF Spec

\* Any number of callers and sockets that find the token refused share one refresh
\* (NarwalCloudAccount.js:183).
THEOREM RefreshIsShared == Spec => []OneRefresh
<1>1. CloudInv => OneRefresh
  BY DEF CloudInv, TokenInv
<1> QED
  BY <1>1, CloudInit, CloudNext, PTL DEF Spec

\* A closed socket keeps no connection to the broker (CloudSocket.js:75).
THEOREM ClosedIsLeft == Spec => []NoClientLeft
<1>1. CloudInv => NoClientLeft
  BY DEF CloudInv, SocketInv
<1> QED
  BY <1>1, CloudInit, CloudNext, PTL DEF Spec

-----------------------------------------------------------------------------
(***************************************************************************)
(* The order of the frames.                                                *)
(***************************************************************************)

\* InOrder with the queue behind it: what is published comes before what is
\* queued, and both before what is sent next.
OrderInv ==
  /\ sent \in Nat
  /\ published \in Seq(Nat)
  /\ queue \in Seq([frame : Nat, topic : Topics])
  /\ InOrder
  /\ \A i, j \in 1..Len(queue) : i < j => queue[i].frame < queue[j].frame
  /\ \A i \in 1..Len(published), j \in 1..Len(queue) : published[i] < queue[j].frame
  /\ \A i \in 1..Len(published) : published[i] <= sent
  /\ \A i \in 1..Len(queue) : queue[i].frame <= sent
  /\ waiting => queue # <<>>

\* A frame in the queue.
Frame == [frame : Nat, topic : Topics]

\* What is left of a queue without its head.
LEMMA TailIndices ==
  ASSUME NEW q \in Seq(Frame), q # <<>>
  PROVE  /\ Tail(q) \in Seq(Frame) /\ Len(Tail(q)) = Len(q) - 1 /\ Len(q) \in Nat \ {0}
         /\ Head(q) = q[1] /\ Head(q) \in Frame /\ Head(q).frame \in Nat
         /\ \A i \in 1..Len(Tail(q)) : Tail(q)[i] = q[i + 1] /\ i + 1 \in 2..Len(q)
         /\ \A i \in 1..Len(q) : q[i].frame \in Nat
<1>1. Len(q) \in Nat \ {0} /\ Tail(q) \in Seq(Frame) /\ Len(Tail(q)) = Len(q) - 1
  OBVIOUS
<1>2. Head(q) = q[1] /\ \A i \in 1..Len(q) : q[i] \in Frame
  BY <1>1
<1>3. \A i \in 1..Len(q) : q[i].frame \in Nat
  BY <1>2 DEF Frame
<1>4. \A i \in 1..Len(Tail(q)) : Tail(q)[i] = q[i + 1] /\ i + 1 \in 2..Len(q)
  BY <1>1
<1> QED
  BY <1>1, <1>2, <1>3, <1>4

\* A sequence with one more element.
LEMMA AppendIndices ==
  ASSUME NEW S, NEW q \in Seq(S), NEW e \in S
  PROVE  /\ Append(q, e) \in Seq(S) /\ Len(Append(q, e)) = Len(q) + 1 /\ Len(q) \in Nat
         /\ Append(q, e)[Len(q) + 1] = e
         /\ \A i \in 1..Len(q) : Append(q, e)[i] = q[i] /\ q[i] \in S
         /\ \A i \in 1..Len(q) + 1 : i \in 1..Len(q) \/ i = Len(q) + 1
  OBVIOUS

\* The head of the queue is published or dropped.
LEMMA PublishKeeps ==
  ASSUME OrderInv, queue # <<>>, Publish, sent' = sent
  PROVE  OrderInv'
<1>1. queue \in Seq(Frame) /\ published \in Seq(Nat) /\ sent \in Nat
  BY DEF OrderInv, Frame
<1>2. queue' = Tail(queue) /\ waiting' = FALSE
  BY DEF Publish
<1> DEFINE n == Head(queue).frame
<1>3. n = queue[1].frame /\ n \in Nat /\ n <= sent /\ 1 \in 1..Len(queue)
  BY <1>1, TailIndices DEF OrderInv
<1>4. queue' \in Seq(Frame)
  BY <1>1, <1>2, TailIndices
<1>5. \A i \in 1..Len(queue') : /\ queue'[i] = queue[i + 1] /\ i + 1 \in 1..Len(queue)
                                /\ 1 < i + 1
  BY <1>1, <1>2, TailIndices
<1>6. \A i \in 1..Len(queue') : queue'[i].frame <= sent /\ n < queue'[i].frame
  BY <1>3, <1>5 DEF OrderInv
<1>7. \A i, j \in 1..Len(queue') : i < j => queue'[i].frame < queue'[j].frame
  <2> SUFFICES ASSUME NEW i \in 1..Len(queue'), NEW j \in 1..Len(queue'), i < j
               PROVE  queue'[i].frame < queue'[j].frame
    OBVIOUS
  <2>1. i + 1 \in 1..Len(queue) /\ j + 1 \in 1..Len(queue) /\ i + 1 < j + 1
    BY <1>5
  <2>2. queue[i + 1].frame < queue[j + 1].frame
    BY <2>1 DEF OrderInv
  <2> QED
    BY <1>5, <2>2
<1>8. \A i \in 1..Len(published) : published[i] \in Nat /\ published[i] < n
  BY <1>1, <1>3 DEF OrderInv
<1>9. CASE published' = published
  <2>1. \A i \in 1..Len(published), j \in 1..Len(queue') : published[i] < queue'[j].frame
    BY <1>5 DEF OrderInv
  <2> QED
    BY <1>1, <1>2, <1>4, <1>6, <1>7, <1>9, <2>1 DEF OrderInv, InOrder, Frame
<1>10. CASE published' = Append(published, n)
  <2> DEFINE l == Len(published)
  <2>1. /\ published' \in Seq(Nat) /\ Len(published') = l + 1 /\ l \in Nat
        /\ published'[l + 1] = n
        /\ \A i \in 1..l : published'[i] = published[i]
        /\ \A i \in 1..l + 1 : i \in 1..l \/ i = l + 1
    BY <1>1, <1>3, <1>10, AppendIndices
  <2> HIDE DEF l, n
  <2>2. \A i \in 1..l : published'[i] < n /\ published'[i] \in Nat
    BY <1>8, <2>1 DEF l
  <2>3. \A i \in 1..Len(published') : published'[i] <= n
    BY <1>3, <2>1, <2>2
  <2>4. InOrder'
    <3> SUFFICES ASSUME NEW i \in 1..Len(published'), NEW j \in 1..Len(published'), i < j
                 PROVE  published'[i] < published'[j]
      BY DEF InOrder
    <3>1. i \in 1..l
      BY <2>1
    <3>2. CASE j \in 1..l
      BY <2>1, <3>1, <3>2 DEF OrderInv, InOrder, l
    <3>3. CASE j = l + 1
      BY <2>1, <2>2, <3>1, <3>3
    <3> QED
      BY <2>1, <3>2, <3>3
  <2>5. \A i \in 1..Len(published') : published'[i] <= sent /\ published'[i] \in Nat
    BY <1>1, <1>3, <2>1, <2>3
  <2>6. \A j \in 1..Len(queue') : queue'[j].frame \in Nat
    <3> SUFFICES ASSUME NEW j \in 1..Len(queue') PROVE queue'[j].frame \in Nat
      OBVIOUS
    <3>1. queue'[j] \in Frame
      BY <1>4
    <3> QED
      BY <3>1 DEF Frame
  <2>7. \A i \in 1..Len(published'), j \in 1..Len(queue') : published'[i] < queue'[j].frame
    BY <1>3, <1>6, <2>3, <2>5, <2>6
  <2> QED
    BY <1>1, <1>2, <1>4, <1>6, <1>7, <2>1, <2>4, <2>5, <2>7 DEF OrderInv, Frame
<1> QED
  BY <1>9, <1>10 DEF Publish

\* A frame that is sent is queued last.
LEMMA SendKeeps ==
  ASSUME OrderInv, NEW t \in Topics \cup {Foreign}, Send(t)
  PROVE  OrderInv'
<1>1. queue \in Seq(Frame) /\ published \in Seq(Nat) /\ sent \in Nat
  BY DEF OrderInv, Frame
<1>2. CASE Accepts(t)
  <2> DEFINE l == Len(queue)
  <2>1. t \in Topics /\ [frame |-> sent + 1, topic |-> t] \in Frame
    BY <1>1, <1>2 DEF Accepts, Frame
  <2>2. /\ queue' = Append(queue, [frame |-> sent + 1, topic |-> t]) /\ sent' = sent + 1
        /\ published' = published /\ waiting' = waiting
    BY <1>2 DEF Send, Enqueue
  <2>3. /\ queue' \in Seq(Frame) /\ Len(queue') = l + 1 /\ l \in Nat
        /\ queue'[l + 1] = [frame |-> sent + 1, topic |-> t]
        /\ \A i \in 1..l : queue'[i] = queue[i] /\ queue[i] \in Frame
        /\ \A i \in 1..l + 1 : i \in 1..l \/ i = l + 1
    BY <1>1, <2>1, <2>2, AppendIndices
  <2>4. \A i \in 1..l : queue[i].frame <= sent /\ queue[i].frame \in Nat
    BY <2>3 DEF OrderInv, Frame
  <2>5. queue'[l + 1].frame = sent + 1
    BY <2>3
  <2> HIDE DEF l
  <2>6. \A i, j \in 1..Len(queue') : i < j => queue'[i].frame < queue'[j].frame
    <3> SUFFICES ASSUME NEW i \in 1..Len(queue'), NEW j \in 1..Len(queue'), i < j
                 PROVE  queue'[i].frame < queue'[j].frame
      OBVIOUS
    <3>1. i \in 1..l
      BY <2>3
    <3>2. CASE j \in 1..l
      BY <2>3, <3>1, <3>2 DEF OrderInv, l
    <3>3. CASE j = l + 1
      BY <1>1, <2>3, <2>4, <2>5, <3>1, <3>3
    <3> QED
      BY <2>3, <3>2, <3>3
  <2>7. \A i \in 1..Len(published) : published[i] \in Nat /\ published[i] <= sent
    BY <1>1 DEF OrderInv
  <2>8. ASSUME NEW i \in 1..Len(published), NEW j \in 1..Len(queue')
        PROVE  published[i] < queue'[j].frame
    <3>1. CASE j \in 1..l
      BY <2>3, <3>1 DEF OrderInv, l
    <3>2. CASE j = l + 1
      BY <1>1, <2>5, <2>7, <3>2
    <3> QED
      BY <2>3, <3>1, <3>2
  <2>9. ASSUME NEW i \in 1..Len(queue') PROVE queue'[i].frame <= sent + 1
    <3>1. CASE i \in 1..l
      BY <1>1, <2>3, <2>4, <3>1
    <3>2. CASE i = l + 1
      BY <1>1, <2>5, <3>2
    <3> QED
      BY <2>3, <3>1, <3>2
  <2>10. \A i \in 1..Len(published) : published[i] <= sent + 1
    BY <1>1, <2>7
  <2>11. queue' # <<>>
    BY <2>3
  <2>12. InOrder'
    BY <2>2 DEF OrderInv, InOrder
  <2> QED
    BY <1>1, <2>2, <2>3, <2>6, <2>8, <2>9, <2>10, <2>11, <2>12 DEF OrderInv, Frame
<1>3. CASE UNCHANGED <<queue, published, sent>>
  BY <1>3 DEF Send, OrderInv, InOrder
<1> QED
  BY <1>2, <1>3 DEF Send

LEMMA OrderNext == OrderInv /\ [Next]_vars => OrderInv'
<1> SUFFICES ASSUME OrderInv, [Next]_vars PROVE OrderInv'
  OBVIOUS
<1>1. ASSUME UNCHANGED <<queue, published, sent, waiting>> PROVE OrderInv'
  BY <1>1 DEF OrderInv, InOrder
<1>2. CASE PublishHead
  <2>1. CASE waiting' = TRUE /\ UNCHANGED <<queue, published>>
    BY <1>2, <2>1 DEF PublishHead, OrderInv, InOrder
  <2>2. CASE Publish
    BY <1>2, <2>2, PublishKeeps DEF PublishHead
  <2> QED
    BY <1>2, <2>1, <2>2 DEF PublishHead
<1>3. CASE ResponseTopic
  BY <1>3, PublishKeeps DEF ResponseTopic, ResponseSubscribed, OrderInv
<1>4. ASSUME NEW t \in Topics \cup {Foreign}, Send(t) PROVE OrderInv'
  BY <1>4, SendKeeps
<1>5. CASE Ping
  BY <1>5, SendKeeps, SocketConstants DEF Ping
<1>6. CASE AppRestarts
  <2>1. queue' = <<>> /\ waiting' = FALSE /\ UNCHANGED <<published, sent>>
    BY <1>6 DEF AppRestarts
  <2> QED
    BY <2>1 DEF OrderInv, InOrder
<1>7. CASE Construct \/ BrokerFound \/ BrokerFails \/ Broadcasts
  BY <1>1, <1>7
  DEF Construct, BrokerFound, BrokerFails, Broadcasts, BroadcastsGranted, BroadcastsRefused, quiet
<1>8. CASE Others \/ MqttConnects \/ MqttCloses \/ MqttError \/ Terminate
  BY <1>1, <1>8 DEF Others, MqttConnects, MqttCloses, MqttError, Terminate, quiet, socket
<1>9. CASE UNCHANGED vars
  BY <1>1, <1>9 DEF vars, socket
<1> QED
  BY <1>2, <1>3, <1>4, <1>5, <1>6, <1>7, <1>8, <1>9 DEF Next, Queue

\* The broker gets the frames in the order in which they were sent, for any number
\* of frames and topics and whichever response topics are granted
\* (CloudSocket.js:161).
THEOREM FramesInOrder == Spec => []InOrder
<1>1. Init => OrderInv
  <2> SUFFICES ASSUME Init PROVE OrderInv
    OBVIOUS
  <2>1. sent = 0 /\ published = <<>> /\ queue = <<>> /\ waiting = FALSE
    BY DEF Init
  <2> QED
    BY <2>1 DEF OrderInv, InOrder
<1>2. OrderInv => InOrder
  BY DEF OrderInv
<1> QED
  BY <1>1, <1>2, OrderNext, PTL DEF Spec

-----------------------------------------------------------------------------
(***************************************************************************)
(* The cloud socket is the socket the client expects: CloudSocket          *)
(* implements SocketPromise, where a socket is live until it is CLOSED.    *)
(***************************************************************************)

\* What a live socket has told: nothing before it opened, and then only that.
ToldInv ==
  /\ ready \in {"none", "CONNECTING"} => told = <<>>
  /\ ready = "OPEN" => told = <<"open">>
  /\ ready \in {"none", "CONNECTING", "OPEN", "CLOSED"}

\* Closing, whoever notices it first, is told by a live socket only.
LEMMA OnCloseCloses ==
  ASSUME OnClose, ToldInv
  PROVE  ToldInv' /\ [Promise!Next]_<<told, ready # "CLOSED">>
<1>1. CASE ready = "CLOSED"
  BY <1>1 DEF OnClose, ToldInv
<1>2. CASE ready # "CLOSED"
  BY <1>2 DEF OnClose, ToldInv, Promise!Next, Promise!Close
<1> QED
  BY <1>1, <1>2

LEMMA SocketStep ==
  ASSUME ToldInv, [Next]_vars
  PROVE  ToldInv' /\ [Promise!Next]_<<told, ready # "CLOSED">>
<1>1. ASSUME UNCHANGED <<told, ready>>
      PROVE  ToldInv' /\ [Promise!Next]_<<told, ready # "CLOSED">>
  BY <1>1 DEF ToldInv
<1>2. CASE Construct
  BY <1>2 DEF Construct, ToldInv
<1>3. CASE BrokerFails \/ BroadcastsRefused \/ MqttCloses
  BY <1>3, OnCloseCloses DEF BrokerFails, BroadcastsRefused, MqttCloses, Fail
<1>4. CASE BroadcastsGranted
  <2>1. CASE ready = "CONNECTING"
    BY <1>4, <2>1 DEF BroadcastsGranted, OpenIfConnecting, ToldInv, Promise!Next, Promise!Open
  <2>2. CASE ready # "CONNECTING"
    BY <1>1, <1>4, <2>2 DEF BroadcastsGranted, OpenIfConnecting
  <2> QED
    BY <2>1, <2>2
<1>5. CASE Terminate \/ AppRestarts
  <2>1. ready' = "CLOSED" /\ told' = told
    BY <1>5 DEF Terminate, AppRestarts
  <2> QED
    BY <2>1 DEF ToldInv, Promise!Next, Promise!Terminate
<1>6. CASE BrokerFound \/ Queue \/ Others \/ MqttConnects \/ MqttError
  BY <1>1, <1>6
  DEF BrokerFound, Queue, PublishHead, ResponseTopic, Others, MqttConnects, MqttError, socket
<1>7. ASSUME NEW t, Send(t)
      PROVE  ToldInv' /\ [Promise!Next]_<<told, ready # "CLOSED">>
  BY <1>1, <1>7 DEF Send
<1>8. CASE UNCHANGED vars
  BY <1>1, <1>8 DEF vars, socket
<1> QED
  BY <1>2, <1>3, <1>4, <1>5, <1>6, <1>7, <1>8 DEF Next, Broadcasts, Ping

\* A cloud socket opens and closes at most once, in this order, and tells nothing
\* after terminate(), over any sequence of sign-ins, refusals and lost connections
\* (CloudSocket.js:219): what NarwalLink and MapSync take for granted of a socket.
THEOREM SocketKeepsContract == Spec => ContractKept
<1>1. Init => ToldInv /\ Promise!Init
  BY DEF Init, ToldInv, Promise!Init
<1>2. ToldInv /\ [Next]_vars => ToldInv' /\ [Promise!Next]_<<told, ready # "CLOSED">>
  BY SocketStep
<1> QED
  BY <1>1, <1>2, PTL DEF Spec, ContractKept, Promise!Spec

-----------------------------------------------------------------------------
(***************************************************************************)
(* Types. Of the account: a sign-in in flight was begun by a step of the   *)
(* user, and a broker address is known of a session that was signed in to, *)
(* also when the socket was terminated while it was looked up.             *)
(***************************************************************************)

BoundsInv ==
  /\ userSteps \in 0..MaxUserSteps /\ attempts \in 0..userSteps
  /\ \A s \in Sessions : tokens[s] <= MaxRefreshes
  /\ broker \subseteq Sessions

HolderInv ==
  /\ holder \in used \cup {NoSession}
  /\ calls[Socket].at # "idle" => holder \in used

Flags ==
  /\ ready \in {"none", "CONNECTING", "OPEN", "CLOSED"}
  /\ mqtt \in {"none", "connecting", "connected", "ended"}
  /\ opening \in BOOLEAN /\ waiting \in BOOLEAN
  /\ told \in Seq({"open", "close"})

FramesTyped ==
  /\ sent \in 0..MaxFrames
  /\ queue \in Seq([frame : 1..MaxFrames, topic : Topics])
  /\ published \in Seq(1..MaxFrames)
  /\ subscribed \subseteq Topics
  /\ waiting => queue # <<>>

\* A caller other than the socket leaves the socket's call alone, and nobody makes
\* the call of an idle socket but its constructor.
LEMMA HolderNext ==
  ASSUME CloudInv, HolderInv, [Next]_vars
  PROVE  HolderInv'
<1> USE SocketConstants DEF HolderInv
<1>1. ASSUME UNCHANGED holder, used \subseteq used',
             calls[Socket].at = "idle" => calls'[Socket].at = "idle"
      PROVE  HolderInv'
  BY <1>1
<1>2. ASSUME UNCHANGED <<holder, used>>, Answered(Socket) \/ Failed(Socket)
      PROVE  HolderInv'
  BY <1>2 DEF Answered, Failed, Idle
<1>3. CASE Construct
  BY <1>3 DEF Construct, account, CloudInv, CallInv
<1>4. CASE BrokerFound
  BY <1>1, <1>2, <1>4 DEF BrokerFound, quiet
<1>5. CASE BrokerFails
  BY <1>2, <1>5 DEF BrokerFails, account, quiet
<1>6. CASE Others
  <2>1. CASE Account
    BY <1>1, <1>6, <2>1, AccountKeeps DEF Others, socket, CloudInv
  <2>2. ASSUME NEW c \in Callers \ {Socket}, OtherRequest(c) PROVE HolderInv'
    <3>1. calls'[Socket] = calls[Socket] /\ used' = used
      BY <2>2, CallsKeep DEF OtherRequest, CloudInv
    <3> QED
      BY <1>1, <1>6, <3>1 DEF Others, socket
  <2> QED
    BY <1>6, <2>1, <2>2 DEF Others
<1>7. CASE AppRestarts
  <2>1. calls'[Socket].at = "idle" /\ UNCHANGED <<holder, used>>
    BY <1>7 DEF AppRestarts, Restart, Idle
  <2> QED
    BY <2>1
<1>8. CASE MqttConnects \/ MqttCloses \/ MqttError \/ Terminate \/ Broadcasts \/ Queue
  <2>1. UNCHANGED <<holder, used, calls>>
    BY <1>8 DEF MqttConnects, MqttCloses, MqttError, Terminate, Broadcasts, BroadcastsGranted,
                BroadcastsRefused, Queue, PublishHead, ResponseTopic, quiet, socket, account
  <2> QED
    BY <1>1, <2>1
<1>9. ASSUME NEW t, Send(t) PROVE HolderInv'
  BY <1>1, <1>9 DEF Send, account
<1>10. CASE UNCHANGED vars
  BY <1>1, <1>10 DEF vars, socket, account
<1> QED
  BY <1>3, <1>4, <1>5, <1>6, <1>7, <1>8, <1>9, <1>10 DEF Next, Ping

\* A refresh has a token pair left to get, and sign-ins are as many as the user began.
LEMMA BoundsNext ==
  ASSUME CloudInv, HolderInv, BoundsInv, [Next]_vars
  PROVE  BoundsInv'
<1> USE SocketConstants, AccountConstants DEF BoundsInv
<1>0. /\ userSteps \in Nat /\ attempts \in Nat /\ used \subseteq Sessions
      /\ tokens \in [Sessions -> Nat]
  BY DEF CloudInv, CallInv, TokenInv
<1>1. ASSUME UNCHANGED <<userSteps, attempts, tokens, broker>> PROVE BoundsInv'
  BY <1>1
<1>2. CASE Others
  <2>1. CASE SignIn
    BY <1>0, <2>1 DEF SignIn, UserStep
  <2>2. CASE SignInSucceeds \/ SignInFails
    BY <1>0, <2>2 DEF SignInSucceeds, SignInFails
  <2>3. CASE SignOut
    BY <1>0, <2>3 DEF SignOut, UserStep
  <2>4. ASSUME NEW s \in Sessions, RefreshSucceeds(s) PROVE BoundsInv'
    <3>1. /\ tokens' = [tokens EXCEPT ![s] = tokens[s] + 1] /\ tokens[s] < MaxRefreshes
          /\ UNCHANGED <<userSteps, attempts, broker>>
      BY <2>4 DEF RefreshSucceeds
    <3> QED
      BY <1>0, <3>1
  <2>5. ASSUME NEW s \in Sessions, RefreshFails(s) PROVE BoundsInv'
    BY <1>1, <2>5 DEF RefreshFails
  <2>6. ASSUME NEW c \in Callers, Refused(c) PROVE BoundsInv'
    BY <1>1, <2>6 DEF Refused
  <2>7. ASSUME NEW c \in Callers, OtherRequest(c) PROVE BoundsInv'
    <3>1. UNCHANGED <<userSteps, attempts, tokens>>
      BY <2>7 DEF OtherRequest
    <3>2. CASE UNCHANGED broker
      BY <1>1, <3>1, <3>2
    <3>3. CASE Answered(c) /\ broker' \in {broker, broker \cup {calls[c].of}}
      <4>1. calls[c].of \in used
        BY <3>3 DEF Answered, CloudInv, CallInv
      <4>2. broker' \subseteq Sessions
        BY <1>0, <3>3, <4>1
      <4> QED
        BY <3>1, <4>2
    <3> QED
      BY <2>7, <3>2, <3>3 DEF OtherRequest
  <2> QED
    BY <1>2, <2>1, <2>2, <2>3, <2>4, <2>5, <2>6, <2>7 DEF Others, Account
<1>3. CASE BrokerFound
  <2>1. UNCHANGED <<userSteps, attempts, tokens>>
    BY <1>3 DEF BrokerFound
  <2>2. CASE UNCHANGED broker
    BY <1>1, <2>1, <2>2
  <2>3. CASE Answered(Socket) /\ broker' = broker \cup {holder}
    <3>1. holder \in used
      BY <2>3 DEF Answered, HolderInv
    <3>2. broker' \subseteq Sessions
      BY <1>0, <2>3, <3>1
    <3> QED
      BY <2>1, <3>2
  <2> QED
    BY <1>3, <2>2, <2>3 DEF BrokerFound
<1>4. CASE AppRestarts
  <2>1. /\ userSteps < MaxUserSteps /\ userSteps' = userSteps + 1 /\ attempts' = 0 /\ broker' = {}
        /\ tokens' = [s \in Sessions |-> IF s = stored.of THEN stored.pair ELSE tokens[s]]
    BY <1>4 DEF AppRestarts, Restart, UserStep
  <2>2. \A s \in Sessions : s = stored.of => stored.pair = tokens[s]
    BY DEF CloudInv, TokenInv, StoredFollows, NoTokens, TokensOf
  <2>3. \A s \in Sessions : tokens'[s] <= MaxRefreshes
    BY <2>1, <2>2
  <2> QED
    BY <1>0, <2>1, <2>3
<1>5. CASE \/ Construct \/ BrokerFails \/ Broadcasts \/ Queue
           \/ MqttConnects \/ MqttCloses \/ MqttError \/ Terminate
  <2>1. UNCHANGED <<userSteps, attempts, tokens, broker>>
    BY <1>5 DEF Construct, BrokerFails, Broadcasts, BroadcastsGranted, BroadcastsRefused, Queue,
                PublishHead, ResponseTopic, MqttConnects, MqttCloses, MqttError, Terminate, account
  <2> QED
    BY <1>1, <2>1
<1>6. ASSUME NEW t, Send(t) PROVE BoundsInv'
  BY <1>1, <1>6 DEF Send, account
<1>7. CASE UNCHANGED vars
  BY <1>1, <1>7 DEF vars, account
<1> QED
  BY <1>2, <1>3, <1>4, <1>5, <1>6, <1>7 DEF Next, Ping

\* The first entry of a queue and the others.
LEMMA HeadAndTail ==
  ASSUME NEW S, NEW q \in Seq(S), q # <<>>
  PROVE  Head(q) \in S /\ Tail(q) \in Seq(S)
  OBVIOUS

\* Nobody takes a frame from an empty queue.
LEMMA FramesNext ==
  ASSUME FramesTyped, [Next]_vars
  PROVE  FramesTyped'
<1> DEFINE F == [frame : 1..MaxFrames, topic : Topics]
<1> USE SocketConstants
<1>1. ASSUME UNCHANGED <<sent, queue, published, subscribed, waiting>> PROVE FramesTyped'
  BY <1>1 DEF FramesTyped
<1>2. ASSUME queue # <<>>, Publish, sent' = sent, subscribed' \subseteq Topics PROVE FramesTyped'
  <2>1. queue \in Seq(F) /\ published \in Seq(1..MaxFrames)
    BY DEF FramesTyped
  <2>2. Head(queue) \in F /\ Tail(queue) \in Seq(F)
    BY <1>2, <2>1, HeadAndTail
  <2>3. Head(queue).frame \in 1..MaxFrames
    BY <2>2
  <2>4. published' \in Seq(1..MaxFrames)
    <3>1. Append(published, Head(queue).frame) \in Seq(1..MaxFrames)
      BY <2>1, <2>3, AppendIndices
    <3> QED
      BY <1>2, <2>1, <3>1 DEF Publish
  <2> QED
    BY <1>2, <2>2, <2>4 DEF Publish, FramesTyped
<1>3. CASE PublishHead
  <2>1. CASE waiting' = TRUE /\ UNCHANGED <<queue, published>>
    BY <1>3, <2>1 DEF PublishHead, FramesTyped
  <2>2. CASE Publish
    BY <1>2, <1>3, <2>2 DEF PublishHead, FramesTyped
  <2> QED
    BY <1>3, <2>1, <2>2 DEF PublishHead
<1>4. CASE ResponseTopic
  <2>1. /\ waiting /\ queue # <<>> /\ Publish /\ sent' = sent /\ subscribed \subseteq Topics
        /\ subscribed' \in {subscribed, subscribed \cup {Head(queue).topic}}
    BY <1>4 DEF ResponseTopic, ResponseSubscribed, FramesTyped
  <2>2. Head(queue) \in F
    <3>1. queue \in Seq(F)
      BY DEF FramesTyped
    <3> QED
      BY <2>1, <3>1, HeadAndTail
  <2>3. Head(queue).topic \in Topics
    BY <2>2
  <2> QED
    BY <1>2, <2>1, <2>3
<1>5. ASSUME NEW t \in Topics \cup {Foreign}, Send(t) PROVE FramesTyped'
  <2>1. CASE Accepts(t)
    <3>1. /\ sent' = sent + 1 /\ queue' = Append(queue, [frame |-> sent + 1, topic |-> t])
          /\ UNCHANGED <<published, subscribed, waiting>> /\ sent < MaxFrames
      BY <1>5, <2>1 DEF Send, Enqueue
    <3>2. sent + 1 \in 1..MaxFrames /\ t \in Topics
      BY <2>1, <3>1 DEF FramesTyped, Accepts
    <3>3. [frame |-> sent + 1, topic |-> t] \in F
      BY <3>2
    <3>4. queue \in Seq(F)
      BY DEF FramesTyped
    <3>5. queue' \in Seq(F) /\ queue' # <<>>
      BY <3>1, <3>3, <3>4, AppendIndices
    <3> QED
      BY <3>1, <3>2, <3>5 DEF FramesTyped
  <2>2. CASE ~Accepts(t)
    BY <1>1, <1>5, <2>2 DEF Send
  <2> QED
    BY <2>1, <2>2
<1>6. CASE AppRestarts
  <2>1. queue' = <<>> /\ waiting' = FALSE /\ UNCHANGED <<subscribed, published, sent>>
    BY <1>6 DEF AppRestarts
  <2> QED
    BY <2>1 DEF FramesTyped
<1>7. CASE Construct \/ BrokerFound \/ BrokerFails \/ Broadcasts
  BY <1>1, <1>7
  DEF Construct, BrokerFound, BrokerFails, Broadcasts, BroadcastsGranted, BroadcastsRefused, quiet
<1>8. CASE Others \/ MqttConnects \/ MqttCloses \/ MqttError \/ Terminate
  BY <1>1, <1>8 DEF Others, MqttConnects, MqttCloses, MqttError, Terminate, quiet, socket
<1>9. CASE UNCHANGED vars
  BY <1>1, <1>9 DEF vars, socket
<1> QED
  BY <1>3, <1>4, <1>5, <1>6, <1>7, <1>8, <1>9 DEF Next, Queue, Ping

LEMMA FlagsNext ==
  ASSUME Flags, [Next]_vars
  PROVE  Flags'
<1>1. ASSUME UNCHANGED <<ready, mqtt, opening, waiting, told>> PROVE Flags'
  BY <1>1 DEF Flags
<1>2. ASSUME OnClose \/ UNCHANGED <<ready, told>> \/ OpenIfConnecting
      PROVE  told' \in Seq({"open", "close"}) /\ ready' \in {"none", "CONNECTING", "OPEN", "CLOSED"}
  <2>1. told \in Seq({"open", "close"}) /\ ready \in {"none", "CONNECTING", "OPEN", "CLOSED"}
    BY DEF Flags
  <2> QED
    BY <1>2, <2>1 DEF OnClose, OpenIfConnecting
<1>3. CASE BrokerFails \/ MqttCloses \/ Broadcasts
  <2>1. /\ OnClose \/ OpenIfConnecting
        /\ mqtt' \in {mqtt, "none", "ended"} /\ opening' \in {opening, FALSE} /\ waiting' = waiting
    BY <1>3 DEF BrokerFails, MqttCloses, Broadcasts, BroadcastsGranted, BroadcastsRefused, Fail,
                Ended, quiet
  <2> QED
    BY <1>2, <2>1 DEF Flags
<1>4. CASE Construct \/ BrokerFound \/ Terminate \/ AppRestarts \/ MqttConnects
  <2>1. /\ told' = told /\ ready' \in {ready, "CONNECTING", "CLOSED"}
        /\ mqtt' \in {mqtt, "none", "ended", "connecting", "connected"}
        /\ opening' \in {opening, TRUE, FALSE} /\ waiting' \in {waiting, FALSE}
    BY <1>4 DEF Construct, BrokerFound, ConnectBroker, Terminate, AppRestarts, MqttConnects,
                Ended, quiet
  <2> QED
    BY <2>1 DEF Flags
<1>5. CASE Queue
  <2>1. UNCHANGED <<ready, mqtt, opening, told>> /\ waiting' \in BOOLEAN
    BY <1>5 DEF Queue, PublishHead, ResponseTopic, ResponseSubscribed, Publish
  <2> QED
    BY <2>1 DEF Flags
<1>6. CASE Others \/ MqttError
  BY <1>1, <1>6 DEF Others, MqttError, socket
<1>7. ASSUME NEW t, Send(t) PROVE Flags'
  BY <1>1, <1>7 DEF Send
<1>8. CASE UNCHANGED vars
  BY <1>1, <1>8 DEF vars, socket
<1> QED
  BY <1>3, <1>4, <1>5, <1>6, <1>7, <1>8 DEF Next, Ping

TypeInv == CloudInv /\ HolderInv /\ BoundsInv /\ FramesTyped /\ Flags

\* Every variable of the account and of the socket keeps its type: no frame is taken
\* from an empty queue and no broker address is kept for a session nobody signed in
\* to, also when the socket is terminated or the app restarts while it is awaited
\* (CloudSocket.js:72-83, 174-187).
THEOREM CloudTyped == Spec => []TypeOK
<1>1. Init => TypeInv
  <2> SUFFICES ASSUME Init PROVE TypeInv
    OBVIOUS
  <2>1. /\ queue = <<>> /\ published = <<>> /\ told = <<>> /\ sent = 0 /\ subscribed = {}
        /\ waiting = FALSE /\ opening = FALSE /\ ready = "none" /\ mqtt = "none"
        /\ holder = NoSession
    BY DEF Init
  <2>2. /\ userSteps = 0 /\ attempts = 0 /\ broker = {} /\ tokens = [s \in Sessions |-> 0]
        /\ calls = [c \in Callers |-> Idle]
    BY DEF Init, AccountInit
  <2>3. FramesTyped /\ Flags
    <3>1. \A S : <<>> \in Seq(S)
      OBVIOUS
    <3>2. 0 \in 0..MaxFrames
      BY SocketConstants
    <3>3. FramesTyped
      BY <2>1, <3>1, <3>2 DEF FramesTyped
    <3>4. Flags
      BY <2>1, <3>1 DEF Flags
    <3> QED
      BY <3>3, <3>4
  <2>4. HolderInv
    BY <2>1, <2>2, SocketConstants DEF HolderInv, Idle
  <2>5. BoundsInv
    BY <2>2, AccountConstants DEF BoundsInv
  <2> QED
    BY <2>3, <2>4, <2>5, CloudInit DEF TypeInv
<1>2. TypeInv /\ [Next]_vars => TypeInv'
  BY CloudNext, HolderNext, BoundsNext, FramesNext, FlagsNext DEF TypeInv
<1>3. TypeInv => TypeOK
  <2> SUFFICES ASSUME TypeInv PROVE TypeOK
    OBVIOUS
  <2>1. /\ tokens \in [Sessions -> 0..MaxRefreshes] /\ posts \in [Sessions -> 0..2]
        /\ refreshing \subseteq Sessions /\ used \subseteq Sessions /\ MaxRefreshes \in Nat
    BY AccountConstants DEF TypeInv, CloudInv, CallInv, TokenInv, BoundsInv, OneRefresh
  <2>2. stored \in [of : Sessions \cup {NoSession}, pair : 0..MaxRefreshes]
    <3>1. \/ current = NoSession
          \/ current \in Sessions /\ tokens[current] \in 0..MaxRefreshes
      BY <2>1 DEF TypeInv, CloudInv, CallInv
    <3> QED
      BY <2>1, <3>1 DEF TypeInv, CloudInv, TokenInv, StoredFollows, NoTokens, TokensOf
  <2>3. attempts \in 0..MaxUserSteps /\ userSteps \in 0..MaxUserSteps
    BY AccountConstants DEF TypeInv, BoundsInv
  <2>4. AccountTypeOK
    BY <2>1, <2>2, <2>3 DEF TypeInv, BoundsInv, CloudInv, CallInv, Calls, AccountTypeOK
  <2> QED
    BY <2>4 DEF TypeInv, HolderInv, FramesTyped, Flags, TypeOK
<1> QED
  BY <1>1, <1>2, <1>3, PTL DEF Spec
=============================================================================
