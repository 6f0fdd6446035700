----------------------------- MODULE CloudSocket -----------------------------
(***************************************************************************)
(* lib/cloud/CloudSocket.js: one socket over the Narwal cloud, from its    *)
(* construction to its end, together with the account it takes the broker  *)
(* address and the tokens from (CloudAccount). The client that drives it   *)
(* may send, ping and terminate at any time.                               *)
(*                                                                         *)
(* The mqtt client is the environment's: it connects, reports errors and   *)
(* closes when it likes, and answers a subscription or not. Frames are     *)
(* numbered in the order in which they are sent; what they carry is left   *)
(* out but for their topic.                                                *)
(***************************************************************************)
EXTENDS CloudAccount, Sequences

CONSTANTS
  Topics,     \* command topics of this robot
  Foreign,    \* a topic that is not this robot's
  PingTopic,  \* the topic a ping asks for the base status on
  Socket,     \* the caller that is this socket
  MaxFrames   \* how many frames are sent

ASSUME SocketConstants ==
  Foreign \notin Topics /\ PingTopic \in Topics /\ Socket \in Callers /\ MaxFrames \in Nat

VARIABLES
  ready,       \* readyState, "none" before the constructor
  holder,      \* the account object the socket was given
  mqtt,        \* _client: "none", "connecting", "connected" or "ended"
  opening,     \* the subscription of the broadcasts is awaited
  told,        \* the 'open' and 'close' events emitted so far
  subscribed,  \* _subscribed: command topics whose response topic is granted
  queue,       \* the frames _queue has not dealt with
  waiting,     \* its first frame awaits its response subscription
  published,   \* the frames handed to the broker
  sent         \* how many frames were accepted by send()

socket == <<ready, holder, mqtt, opening, told, subscribed, queue, waiting, published, sent>>
vars == <<account, calls, userSteps, socket>>

TypeOK ==
  /\ AccountTypeOK
  /\ ready \in {"none", "CONNECTING", "OPEN", "CLOSED"}
  /\ holder \in used \cup {NoSession}
  /\ mqtt \in {"none", "connecting", "connected", "ended"}
  /\ opening \in BOOLEAN /\ waiting \in BOOLEAN
  /\ told \in Seq({"open", "close"})
  /\ subscribed \in SUBSET Topics
  /\ queue \in Seq([frame : 1..MaxFrames, topic : Topics])
  /\ published \in Seq(1..MaxFrames)
  /\ sent \in 0..MaxFrames

Init ==
  /\ AccountInit
  /\ ready = "none" /\ holder = NoSession /\ mqtt = "none"
  /\ opening = FALSE /\ told = <<>>
  /\ subscribed = {} /\ queue = <<>> /\ waiting = FALSE /\ published = <<>> /\ sent = 0

quiet == <<holder, subscribed, queue, waiting, published, sent>>

-----------------------------------------------------------------------------
(* Ending.                                                                 *)

\* _onClose: a socket that is closed already says nothing.
OnClose ==
  IF ready = "CLOSED" THEN UNCHANGED <<ready, told>>
  ELSE ready' = "CLOSED" /\ told' = Append(told, "close")

\* _client.end(true), when there is a client
Ended == IF mqtt = "none" THEN "none" ELSE "ended"

\* _fail
Fail == mqtt' = Ended /\ OnClose

\* terminate, close
Terminate ==
  /\ ready # "none"
  /\ ready' = "CLOSED" /\ mqtt' = Ended
  /\ UNCHANGED <<account, calls, userSteps, opening, told, quiet>>

\* The mqtt client lost its connection; it does not reconnect by itself.
MqttCloses ==
  /\ mqtt \in {"connecting", "connected"}
  /\ mqtt' = "ended"
  /\ OnClose
  /\ UNCHANGED <<account, calls, userSteps, opening, quiet>>

\* _onError: refused credentials are refreshed for the next connection.
MqttError ==
  /\ mqtt \in {"connecting", "connected"}
  /\ Refresh(holder)
  /\ UNCHANGED <<current, stored, used, tokens, broker, attempts, calls, userSteps, socket>>

-----------------------------------------------------------------------------
(* Opening.                                                                *)

\* The constructor, and _start up to its await: a known broker is not asked
\* for again.
Construct ==
  /\ ready = "none" /\ current # NoSession
  /\ ready' = "CONNECTING" /\ holder' = current
  /\ IF current \in broker THEN UNCHANGED calls ELSE Request(Socket, current)
  /\ UNCHANGED <<account, userSteps, mqtt, opening, told, subscribed, queue, waiting,
                 published, sent>>

\* The bug of connecting a socket that was terminated meanwhile.
ConnectAnyway == mqtt' = "connecting"

\* _start with the broker's address.
ConnectBroker == mqtt' = IF ready = "CLOSED" THEN mqtt ELSE "connecting"

\* brokerUrl() was answered, or it was known at once.
BrokerFound ==
  /\ mqtt = "none"
  /\ \/ Answered(Socket) /\ broker' = broker \cup {holder}
     \/ ready = "CONNECTING" /\ calls[Socket] = Idle /\ UNCHANGED <<broker, calls>>
  /\ ConnectBroker
  /\ UNCHANGED <<current, stored, used, tokens, posts, refreshing, attempts, userSteps,
                 ready, opening, told, quiet>>

\* brokerUrl() throws, also for an answer that is no broker or no encrypted
\* one. Nobody listens to a socket that was terminated meanwhile.
BrokerFails ==
  /\ Failed(Socket)
  /\ Fail
  /\ UNCHANGED <<account, userSteps, opening, quiet>>

\* 'connect': the broadcasts are subscribed.
MqttConnects ==
  /\ mqtt = "connecting"
  /\ mqtt' = "connected" /\ opening' = TRUE
  /\ UNCHANGED <<account, calls, userSteps, ready, told, quiet>>

\* The bug of opening whatever happened since.
OpenAnyway == ready' = "OPEN" /\ told' = Append(told, "open")

\* _onConnect: the broadcasts are granted.
OpenIfConnecting ==
  IF ready = "CONNECTING" THEN ready' = "OPEN" /\ told' = Append(told, "open")
  ELSE UNCHANGED <<ready, told>>

BroadcastsGranted ==
  /\ opening /\ opening' = FALSE
  /\ OpenIfConnecting
  /\ UNCHANGED <<account, calls, userSteps, mqtt, quiet>>

\* Refused, failed, or not confirmed for 10 s.
BroadcastsRefused ==
  /\ opening /\ opening' = FALSE
  /\ Fail
  /\ UNCHANGED <<account, calls, userSteps, quiet>>

-----------------------------------------------------------------------------
(* Sending.                                                                *)

\* The bug of publishing at once on a topic that is subscribed already.
EnqueueOrPublish(topic) ==
  IF topic \in subscribed /\ ready = "OPEN"
    THEN published' = Append(published, sent + 1) /\ UNCHANGED queue
    ELSE queue' = Append(queue, [frame |-> sent + 1, topic |-> topic]) /\ UNCHANGED published

\* send: every frame waits for its turn.
Enqueue(topic) ==
  /\ queue' = Append(queue, [frame |-> sent + 1, topic |-> topic])
  /\ UNCHANGED published

\* isDeviceTopic: a probe for other models is not this robot's.
Accepts(topic) == topic # Foreign

\* send drops what the broker would not allow. The client only sends on an open
\* socket.
Send(topic) ==
  /\ sent < MaxFrames
  /\ ready = "OPEN"
  /\ IF Accepts(topic) THEN sent' = sent + 1 /\ Enqueue(topic)
                       ELSE UNCHANGED <<queue, published, sent>>
  /\ UNCHANGED <<account, calls, userSteps, ready, holder, mqtt, opening, told, subscribed,
                 waiting>>

\* ping asks the robot itself, for its base status.
Ping == Send(PingTopic)

\* The frame at the head is done with: handed to the broker, or dropped when the
\* socket is no longer open.
Publish ==
  /\ published' = IF ready = "OPEN" THEN Append(published, Head(queue).frame) ELSE published
  /\ queue' = Tail(queue)
  /\ waiting' = FALSE

\* _publish up to the subscription of the response topic.
PublishHead ==
  /\ queue # <<>> /\ ~waiting
  /\ IF ready = "OPEN" /\ Head(queue).topic \notin subscribed
       THEN waiting' = TRUE /\ UNCHANGED <<queue, published>>
       ELSE Publish
  /\ UNCHANGED <<account, calls, userSteps, ready, holder, mqtt, opening, told, subscribed, sent>>

\* The bug of waiting for a grant that may never come.
WaitForGrant ==
  /\ waiting /\ ready # "OPEN"
  /\ Publish
  /\ UNCHANGED subscribed

\* Granted; or refused, failed or unconfirmed for 10 s, and published anyway.
ResponseSubscribed ==
  /\ waiting
  /\ subscribed' \in {subscribed, subscribed \cup {Head(queue).topic}}
  /\ Publish

ResponseTopic ==
  /\ ResponseSubscribed
  /\ UNCHANGED <<account, calls, userSteps, ready, holder, mqtt, opening, told, sent>>

-----------------------------------------------------------------------------

\* The manager, the account, and the requests of others.
Others == (Account \/ \E c \in Callers \ {Socket} : OtherRequest(c)) /\ UNCHANGED socket

\* A restart of the app ends the socket with it.
AppRestarts ==
  /\ Restart
  /\ ready' = "CLOSED" /\ mqtt' = Ended /\ opening' = FALSE
  /\ queue' = <<>> /\ waiting' = FALSE
  /\ UNCHANGED <<holder, told, subscribed, published, sent>>

Broadcasts == BroadcastsGranted \/ BroadcastsRefused
Queue == PublishHead \/ ResponseTopic

Next ==
  \/ Construct \/ BrokerFound \/ BrokerFails \/ Broadcasts \/ Queue \/ Others \/ AppRestarts
  \/ MqttConnects \/ MqttCloses \/ MqttError \/ Terminate
  \/ Ping \/ \E t \in Topics \cup {Foreign} : Send(t)

Spec == Init /\ [][Next]_vars

\* Promise continuations run, and a subscription is answered or times out.
FairSpec == Spec /\ WF_vars(Queue) /\ WF_vars(Broadcasts)

-----------------------------------------------------------------------------
(* Properties.                                                             *)

\* A socket that closed or was terminated keeps no connection to the broker,
\* also when it was terminated while the broker's address was looked up
\* (CloudSocket.js:75).
NoClientLeft == ready = "CLOSED" => mqtt \in {"none", "ended"}

\* The broker gets the frames in the order in which they were sent, although
\* some wait for their response topic and others do not (CloudSocket.js:161).
InOrder ==
  \A i, j \in 1..Len(published) : i < j => published[i] < published[j]

\* A frame queued on an open socket is published or the socket closes; one whose
\* response topic is never granted does not hold the others up
\* (CloudSocket.js:175).
EveryFrameLeaves ==
  \A n \in 1..MaxFrames :
    (ready = "OPEN" /\ \E i \in 1..Len(queue) : queue[i].frame = n)
      ~> (ready = "CLOSED" \/ \E i \in 1..Len(published) : published[i] = n)

Promise == INSTANCE SocketPromise WITH live <- ready # "CLOSED"

\* The cloud socket is the socket the client expects: it reports opening and
\* closing once each, and nothing after terminate().
ContractKept == Promise!Spec
=============================================================================
