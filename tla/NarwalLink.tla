----------------------------- MODULE NarwalLink -----------------------------
(***************************************************************************)
(* The connection lifecycle of lib/NarwalClient.js: one client, from       *)
(* start() to stop(), with the sockets it opens, the timers it runs, what  *)
(* it reports to its host and the backoff between its attempts.            *)
(*                                                                         *)
(* A socket is the ws WebSocket (local) or the CloudSocket (cloud); its    *)
(* events are the environment's. Delays are abstracted to "may fire at any *)
(* time while pending"; only the silence that the heartbeat measures is    *)
(* kept as a quantity (idle). JSON/mock mode is left out.                  *)
(***************************************************************************)
EXTENDS Naturals

CONSTANTS
  Sockets,       \* identities of socket objects; recycled once torn down
  NoSocket,      \* the client's _ws when it has none
  BackoffSteps   \* the attempt at which the growing delay reaches its maximum

ASSUME NoSocketAssumption == NoSocket \notin Sockets
ASSUME BackoffAssumption == BackoffSteps \in Nat \ {0}

VARIABLES
  cloud,           \* constructed with a cloud connection (never changes)
  addressValid,    \* the WebSocket constructor accepts the URL (never changes)
  started,         \* start() was called
  closing,         \* _closing: stop() was called
  ws,              \* _ws
  sock,            \* readyState of each socket; "free": terminated, unheard
  linkOpen,        \* _linkOpen
  connected,       \* _connected
  outageReported,  \* _outageReported
  attempt,         \* _reconnectAttempt, saturating at BackoffSteps
  timers,          \* the pending timers of the connection, by name
  idle,            \* silence since _lastMessageAt: 1 past the heartbeat limit,
                   \* 2 past the longer limit of an unanswered cloud link
  publishing,      \* the robot broadcasts: its publish subscription is live
  reported,        \* history: the last of 'connected' / 'disconnected' emitted
  before           \* history: the one emitted before it

config == <<cloud, addressValid>>
host == <<outageReported, reported, before>>
link == <<ws, sock, linkOpen, connected>>
vars == <<config, started, closing, link, host, attempt, timers, idle, publishing>>

Timers == {"reconnect", "heartbeat", "subscription", "poll", "stable", "wake"}

TypeOK ==
  /\ cloud \in BOOLEAN /\ addressValid \in BOOLEAN
  /\ started \in BOOLEAN /\ closing \in BOOLEAN
  /\ ws \in Sockets \cup {NoSocket}
  /\ sock \in [Sockets -> {"free", "connecting", "open", "closing"}]
  /\ linkOpen \in BOOLEAN /\ connected \in BOOLEAN /\ outageReported \in BOOLEAN
  /\ attempt \in 0..BackoffSteps
  /\ timers \in SUBSET Timers
  /\ idle \in 0..2
  /\ publishing \in BOOLEAN
  /\ {reported, before} \subseteq {"none", "connected", "disconnected"}

-----------------------------------------------------------------------------

\* constructor(). A CloudSocket never throws; a WebSocket does on a bad URL.
Init ==
  /\ cloud \in BOOLEAN
  /\ addressValid \in BOOLEAN
  /\ cloud => addressValid
  /\ started = FALSE /\ closing = FALSE
  /\ ws = NoSocket
  /\ sock = [s \in Sockets |-> "free"]
  /\ linkOpen = FALSE /\ connected = FALSE /\ outageReported = FALSE
  /\ attempt = 0
  /\ timers = {}
  /\ idle = 0
  /\ publishing = FALSE
  /\ reported = "none" /\ before = "none"

\* this.emit('connected' | 'disconnected'), as the host hears it.
Emit(event) == reported' = event /\ before' = reported

\* this._ws && this._ws.readyState === WebSocket.OPEN
WsOpen == ws # NoSocket /\ sock[ws] = "open"

\* The bug of a backoff without its maximum.
UncappedNextAttempt == attempt + 1

\* _scheduleReconnect counts every attempt; the delay stops growing at
\* RECONNECT_MAX_MS, so larger counts are not told apart.
NextAttempt == IF attempt < BackoffSteps THEN attempt + 1 ELSE attempt

\* The bug of giving up once the backoff is at its maximum.
ScheduleReconnectOrGiveUp(pending) ==
  IF closing \/ "reconnect" \in pending \/ attempt = BackoffSteps
    THEN timers' = pending /\ UNCHANGED attempt
    ELSE timers' = pending \cup {"reconnect"} /\ attempt' = NextAttempt

\* _scheduleReconnect; pending: the timers its caller leaves running.
ScheduleReconnect(pending) ==
  IF closing \/ "reconnect" \in pending
    THEN timers' = pending /\ UNCHANGED attempt
    ELSE timers' = pending \cup {"reconnect"} /\ attempt' = NextAttempt

\* The bug of a socket dropped without terminating it.
AbandonSocket ==
  /\ ws' = NoSocket
  /\ UNCHANGED sock

\* _teardownSocket: the listeners are removed before the socket is terminated,
\* so nothing is heard of it again.
TeardownSocket ==
  /\ ws' = NoSocket
  /\ sock' = [s \in Sockets |-> IF s = ws THEN "free" ELSE sock[s]]

\* The bug of a redial that is refused while an outage is on record.
ConnectUnlessOut(pending) ==
  \/ /\ addressValid /\ ~outageReported
     /\ \E s \in Sockets :
          /\ sock[s] = "free"
          /\ ws' = s
          /\ sock' = [sock EXCEPT ![s] = "connecting"]
     /\ timers' = pending
     /\ UNCHANGED attempt
  \/ /\ outageReported
     /\ timers' = pending
     /\ UNCHANGED <<ws, sock, attempt>>

\* _connect. A throwing constructor leaves no socket and schedules the next
\* attempt; otherwise the new socket is listened to.
Connect(pending) ==
  IF closing \/ (ws # NoSocket /\ sock[ws] \in {"open", "connecting"})
    THEN timers' = pending /\ UNCHANGED <<ws, sock, attempt>>
    ELSE \/ /\ addressValid
            /\ \E s \in Sockets :
                 /\ sock[s] = "free"
                 /\ ws' = s
                 /\ sock' = [sock EXCEPT ![s] = "connecting"]
            /\ timers' = pending
            /\ UNCHANGED attempt
         \/ /\ ~addressValid
            /\ ScheduleReconnect(pending)
            /\ UNCHANGED <<ws, sock>>

\* The bug of an outage that is never cleared.
MarkConnectedKeepingOutage ==
  /\ connected' = TRUE
  /\ timers' = timers \cup {"stable"}
  /\ Emit("connected")
  /\ UNCHANGED outageReported

\* _markConnected: the stable timer is (re)started.
MarkConnected ==
  /\ connected' = TRUE
  /\ outageReported' = FALSE
  /\ timers' = timers \cup {"stable"}
  /\ Emit("connected")

\* The bug of a stable timer that survives the connection it measures.
LinkTimersKeepingStable == {"heartbeat", "subscription"}

\* The timers that _onClose clears.
LinkTimers == {"heartbeat", "subscription", "stable"}

\* The bug of an outage that every failed redial reports again.
ReportEveryOutage == outageReported' = TRUE /\ Emit("disconnected")

\* The report of _onClose, once in an outage.
ReportOutage ==
  /\ outageReported' = TRUE
  /\ IF outageReported THEN UNCHANGED <<reported, before>> ELSE Emit("disconnected")

\* _onClose, from a 'close' event, an error or the heartbeat.
OnClose ==
  /\ linkOpen' = FALSE
  /\ connected' = FALSE
  /\ TeardownSocket
  /\ ReportOutage
  /\ ScheduleReconnect(timers \ LinkTimers)
  /\ UNCHANGED <<config, started, closing, idle, publishing>>

-----------------------------------------------------------------------------
\* Calls of the host.

\* start(): dial, and poll from now on. The device starts each client once.
Start ==
  /\ ~started
  /\ started' = TRUE
  /\ Connect(timers \cup {"poll"})
  /\ UNCHANGED <<config, closing, linkOpen, connected, host, idle, publishing>>

\* stop(). The 500 ms wake timer of _onOpen is not among those it clears.
Stop ==
  /\ started /\ ~closing
  /\ closing' = TRUE
  /\ timers' = timers \cap {"wake"}
  /\ TeardownSocket
  /\ linkOpen' = FALSE
  /\ connected' = FALSE
  /\ UNCHANGED <<config, started, host, attempt, idle, publishing>>

-----------------------------------------------------------------------------
\* Events of a socket that still has listeners.

\* 'open': _onOpen in binary mode. The discovery frames change nothing here.
Open(s) ==
  /\ sock[s] = "connecting"
  /\ sock' = [sock EXCEPT ![s] = "open"]
  /\ linkOpen' = TRUE
  /\ idle' = 0
  /\ timers' = timers \cup {"heartbeat", "subscription", "wake"}
  /\ UNCHANGED <<config, started, closing, ws, connected, host, attempt, publishing>>

\* 'message': any frame at all. A CloudSocket emits what the broker delivers,
\* also before the broker has confirmed the subscription and it opens.
Answer(s) ==
  /\ sock[s] = "open" \/ (cloud /\ sock[s] = "connecting")
  /\ idle' = 0
  /\ IF connected
       THEN UNCHANGED <<connected, host, timers>>
       ELSE MarkConnected
  /\ UNCHANGED <<config, started, closing, ws, sock, linkOpen, attempt, publishing>>

\* 'pong': only the ws WebSocket emits it.
Pong(s) ==
  /\ ~cloud
  /\ sock[s] = "open"
  /\ idle' = 0
  /\ UNCHANGED <<config, started, closing, link, host, attempt, timers, publishing>>

\* The peer starts the closing handshake: CLOSING until 'close' is emitted.
PeerCloses(s) ==
  /\ ~cloud
  /\ sock[s] = "open"
  /\ sock' = [sock EXCEPT ![s] = "closing"]
  /\ UNCHANGED <<config, started, closing, ws, linkOpen, connected, host, attempt,
                 timers, idle, publishing>>

\* 'close', in any state of the socket.
Closed(s) ==
  /\ sock[s] # "free"
  /\ OnClose

\* 'error': the client tears down unless its socket is open, in which case
\* nothing changes and 'close' is expected to follow.
SocketError(s) ==
  /\ sock[s] # "free"
  /\ ws # NoSocket /\ ~WsOpen
  /\ OnClose

-----------------------------------------------------------------------------
\* Timers.

\* The silence allowed: an unanswered cloud link gets longer.
IdleLimit == IF cloud /\ ~connected THEN 2 ELSE 1

\* The bug of watching only links that have been answered.
HeartbeatDueIfConnected == WsOpen /\ connected /\ idle >= IdleLimit

\* The heartbeat's test; when it fails the heartbeat only pings.
HeartbeatDue == WsOpen /\ idle >= IdleLimit

Heartbeat ==
  /\ "heartbeat" \in timers
  /\ HeartbeatDue
  /\ OnClose

\* The bug of renewing only while the robot answers.
RenewIfConnected ==
  /\ "subscription" \in timers
  /\ publishing' = (publishing \/ (WsOpen /\ connected))
  /\ UNCHANGED <<config, started, closing, link, host, attempt, timers, idle>>

\* The subscription renewal: an interval, so it stays pending.
Renew ==
  /\ "subscription" \in timers
  /\ publishing' = (publishing \/ WsOpen)
  /\ UNCHANGED <<config, started, closing, link, host, attempt, timers, idle>>

\* The wake burst 500 ms after 'open', on whatever link is open by then.
Wake ==
  /\ "wake" \in timers
  /\ timers' = timers \ {"wake"}
  /\ publishing' = (publishing \/ (linkOpen /\ WsOpen))
  /\ UNCHANGED <<config, started, closing, link, host, attempt, idle>>

Stable ==
  /\ "stable" \in timers
  /\ timers' = timers \ {"stable"}
  /\ attempt' = 0
  /\ UNCHANGED <<config, started, closing, link, host, idle, publishing>>

Reconnect ==
  /\ "reconnect" \in timers
  /\ Connect(timers \ {"reconnect"})
  /\ UNCHANGED <<config, started, closing, linkOpen, connected, host, idle, publishing>>

-----------------------------------------------------------------------------
\* The environment.

\* Another heartbeat limit passes without a frame or a pong.
Silence ==
  /\ linkOpen /\ idle < 2
  /\ idle' = idle + 1
  /\ UNCHANGED <<config, started, closing, link, host, attempt, timers, publishing>>

\* The robot stops broadcasting once its subscription is old, or when it
\* never saw the frames or restarts.
Lapse ==
  /\ publishing
  /\ publishing' = FALSE
  /\ UNCHANGED <<config, started, closing, link, host, attempt, timers, idle>>

SocketEvent(s) ==
  \/ Open(s) \/ Answer(s) \/ Pong(s)
  \/ PeerCloses(s) \/ Closed(s) \/ SocketError(s)

Next ==
  \/ Start \/ Stop
  \/ \E s \in Sockets : SocketEvent(s)
  \/ Heartbeat \/ Renew \/ Wake \/ Stable \/ Reconnect
  \/ Silence \/ Lapse

\* Timers fire and time passes; a socket that is closing ends (ws destroys it
\* after its own close timeout). Nothing is assumed of the robot, the network
\* or the host: no answer, no open, no stop is ever due.
Fairness ==
  /\ WF_vars(Heartbeat) /\ WF_vars(Renew) /\ WF_vars(Reconnect)
  /\ WF_vars(Silence)
  /\ WF_vars(\E s \in Sockets : sock[s] = "closing" /\ Closed(s))

Spec == Init /\ [][Next]_vars

FairSpec == Spec /\ Fairness

-----------------------------------------------------------------------------
(***************************************************************************)
(* Properties.                                                             *)
(***************************************************************************)

Running == started /\ ~closing

\* Every socket that can still be heard, or still holds the robot's single
\* local connection, is the client's current one: _teardownSocket,
\* _scheduleReconnect and _connect together never leave an orphan whose late
\* 'close' would tear down its successor.
OneLink == \A s \in Sockets : sock[s] # "free" => ws = s

\* A started client is never stuck and never dials twice: it either has a
\* socket or has exactly one redial pending, whichever of close, error,
\* heartbeat timeout and a throwing constructor came last.
NeverGivesUp == Running => (ws = NoSocket <=> "reconnect" \in timers)

\* The timers that act on a link die with it (_onClose, stop): none of them
\* fires on the next link or resets the backoff of a lost one.
TimersFollowLink ==
  /\ "heartbeat" \in timers <=> linkOpen
  /\ "subscription" \in timers <=> linkOpen
  /\ "stable" \in timers => connected
  /\ linkOpen => ws # NoSocket /\ sock[ws] \in {"open", "closing"}

\* What the host was last told agrees with the connection, and the outage
\* flag with what it was told.
HostKnows ==
  /\ Running => (connected <=> reported = "connected")
  /\ outageReported <=> reported = "disconnected"

\* "A robot that accepts and drops the link at once must keep backing off":
\* the backoff is only ever reset while the robot is connected, never in the
\* outage that follows a short connection.
BackoffHolds == [][attempt' < attempt => connected]_vars

\* What holds between the two host calls and the connection: nothing runs
\* before start() or after stop(), and a current socket is one that is heard.
Lifecycle ==
  /\ ~started => ~closing /\ ws = NoSocket /\ timers = {} /\ reported = "none"
  /\ closing => started /\ ws = NoSocket /\ timers \subseteq {"wake"}
  /\ ws # NoSocket => sock[ws] # "free"
  /\ connected => ws # NoSocket

\* The inductive invariant behind the theorems of NarwalLink_proofs.
LinkInv ==
  TypeOK /\ OneLink /\ NeverGivesUp /\ TimersFollowLink /\ HostKnows /\ Lifecycle

Heard == \E s \in Sockets : Answer(s) \/ Pong(s)

\* A link that has gone silent is given up (_startHeartbeat): either frames or
\* pongs keep coming for ever, or the link is down again and again.
SilentLinkDropped == []<><<Heard>>_vars \/ []<>(~linkOpen)

\* "Renew it regardless of the robot's state": while a link stays open the
\* robot is always asked to publish again after it stopped.
KeepsPublishing == []<>publishing \/ []<>(~linkOpen)

\* A client without a socket dials again, unless it is stopped or its address
\* can never be dialled.
KeepsDialling ==
  (Running /\ ws = NoSocket /\ addressValid) ~> (ws # NoSocket \/ closing)

\* The refinement mapping: what the client is doing about its connection.
Phase ==
  CASE ~started                              -> "idle"
    [] closing                               -> "stopped"
    [] Running /\ ws = NoSocket              -> "waiting"
    [] Running /\ ws # NoSocket /\ connected  -> "up"
    [] Running /\ ws # NoSocket /\ ~connected -> "trying"

Promise == INSTANCE LinkPromise WITH phase <- Phase, view <- reported, earlier <- before

\* The client keeps its promise to the host: 'connected' and 'disconnected'
\* alternate, an outage is reported once however many redials fail in it
\* (NarwalClient.js:732), and nothing is reported after stop().
PromiseKept == Promise!Spec
=============================================================================
