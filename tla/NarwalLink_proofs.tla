-------------------------- MODULE NarwalLink_proofs --------------------------
(***************************************************************************)
(* Theorems about NarwalLink, for any set of sockets and any backoff.      *)
(***************************************************************************)
EXTENDS NarwalLink, TLAPS

USE NoSocketAssumption, BackoffAssumption

\* The effects the handlers share keep the parts of the invariant they touch.

\* A torn-down client has no socket, and no socket that could be heard.
LEMMA TeardownLeavesNone ==
  ASSUME TypeOK, OneLink, TeardownSocket
  PROVE  /\ ws' = NoSocket
         /\ sock' \in [Sockets -> {"free", "connecting", "open", "closing"}]
         /\ \A s \in Sockets : sock'[s] = "free"
BY DEF TypeOK, OneLink, TeardownSocket

\* Scheduling a reconnect on a running client leaves one pending, beside the
\* timers that were pending before.
LEMMA ScheduleLeavesOne ==
  ASSUME TypeOK, ~closing, NEW STATE pending, pending \subseteq Timers,
         ScheduleReconnect(pending)
  PROVE  /\ timers' \in SUBSET Timers
         /\ "reconnect" \in timers'
         /\ \A t \in Timers \ {"reconnect"} : t \in timers' <=> t \in pending
         /\ attempt' \in 0..BackoffSteps
<1>1. attempt' \in 0..BackoffSteps
  BY DEF TypeOK, ScheduleReconnect, NextAttempt
<1>2. timers' = pending \/ timers' = pending \cup {"reconnect"}
  BY DEF ScheduleReconnect
<1>3. "reconnect" \in timers'
  BY DEF ScheduleReconnect
<1>. QED  BY <1>1, <1>2, <1>3 DEF Timers

\* _onClose, on a running client: whatever the state, the client ends up
\* waiting, with nothing left of the link and the host told.
LEMMA OnCloseKeepsInv ==
  ASSUME LinkInv, Running, OnClose
  PROVE  LinkInv'
<1>. USE DEF LinkInv
<1>1. /\ ws' = NoSocket
      /\ sock' \in [Sockets -> {"free", "connecting", "open", "closing"}]
      /\ \A s \in Sockets : sock'[s] = "free"
  BY TeardownLeavesNone DEF OnClose
<1>2. /\ timers' \in SUBSET Timers
      /\ "reconnect" \in timers'
      /\ \A t \in Timers \ {"reconnect"} : t \in timers' <=> t \in timers \ LinkTimers
      /\ attempt' \in 0..BackoffSteps
  <2>1. timers \ LinkTimers \subseteq Timers
    BY DEF TypeOK
  <2>. QED  BY <2>1, ScheduleLeavesOne DEF OnClose, Running
<1>3. TypeOK'
  BY <1>1, <1>2 DEF TypeOK, OnClose, ReportOutage, Emit, config
<1>4. OneLink' /\ NeverGivesUp' /\ TimersFollowLink'
  BY <1>1, <1>2 DEF OneLink, NeverGivesUp, TimersFollowLink, OnClose, LinkTimers, Timers
<1>5. HostKnows' /\ Lifecycle'
  BY <1>1, <1>2 DEF HostKnows, Lifecycle, OnClose, ReportOutage, Emit, Running, config
<1>. QED  BY <1>3, <1>4, <1>5

\* A heard socket or a link timer means a running client: after stop() there
\* is none.
LEMMA HeardMeansRunning ==
  ASSUME LinkInv
  PROVE  /\ \A s \in Sockets : sock[s] # "free" => Running /\ ws = s
         /\ timers \cap {"heartbeat", "subscription", "stable", "reconnect"} # {} => Running
BY DEF LinkInv, TypeOK, OneLink, Lifecycle, Running, Timers

-----------------------------------------------------------------------------

LEMMA InitLinkInv == Init => LinkInv
<1>. SUFFICES ASSUME Init PROVE LinkInv
  OBVIOUS
<1>1. TypeOK
  <2>1. sock \in [Sockets -> {"free", "connecting", "open", "closing"}]
    BY DEF Init
  <2>2. 0 \in 0..BackoffSteps
    OBVIOUS
  <2>3. /\ attempt \in 0..BackoffSteps /\ timers \in SUBSET Timers
        /\ idle \in 0..2 /\ {reported, before} \subseteq {"none", "connected", "disconnected"}
    BY <2>2 DEF Init
  <2>. QED  BY <2>1, <2>3 DEF Init, TypeOK
<1>2. OneLink /\ NeverGivesUp /\ TimersFollowLink
  BY DEF Init, OneLink, NeverGivesUp, TimersFollowLink, Running
<1>3. HostKnows /\ Lifecycle
  BY DEF Init, HostKnows, Lifecycle, Running
<1>. QED  BY <1>1, <1>2, <1>3 DEF LinkInv

\* start() and the redial: the new socket is the only one, and only a client
\* without a socket gets here.
LEMMA ConnectKeepsInv ==
  ASSUME LinkInv, Start \/ Reconnect
  PROVE  LinkInv'
<1>. USE DEF LinkInv
<1>1. PICK pending \in SUBSET Timers :
        /\ Connect(pending)
        /\ "reconnect" \notin pending
        /\ \A t \in Timers \ {"reconnect", "poll"} : t \in pending <=> t \in timers
  <2>1. CASE Start
    <3>1. "reconnect" \notin timers \cup {"poll"}
      BY <2>1 DEF Start, Lifecycle
    <3>2. timers \cup {"poll"} \in SUBSET Timers
      BY DEF TypeOK, Timers
    <3>. QED  BY <2>1, <3>1, <3>2 DEF Start
  <2>2. CASE Reconnect
    <3>1. timers \ {"reconnect"} \in SUBSET Timers
      BY DEF TypeOK
    <3>. QED  BY <2>2, <3>1 DEF Reconnect
  <2>. QED  BY <2>1, <2>2
<1>2. /\ ~closing /\ started' /\ ws = NoSocket
      /\ \A s \in Sockets : sock[s] = "free"
      /\ UNCHANGED <<config, closing, linkOpen, connected, host, idle, publishing>>
  BY DEF Start, Reconnect, Lifecycle, NeverGivesUp, OneLink, Running, TypeOK, config
<1>3. CASE addressValid
  <2>1. PICK s \in Sockets :
          /\ ws' = s
          /\ sock' = [sock EXCEPT ![s] = "connecting"]
          /\ timers' = pending
          /\ UNCHANGED attempt
    BY <1>1, <1>2, <1>3 DEF Connect
  <2>2. TypeOK'
    BY <1>2, <2>1 DEF TypeOK, config, host
  <2>3. OneLink' /\ NeverGivesUp' /\ TimersFollowLink'
    BY <1>1, <1>2, <2>1 DEF OneLink, NeverGivesUp, TimersFollowLink, TypeOK, Timers
  <2>4. HostKnows' /\ Lifecycle'
    BY <1>1, <1>2, <2>1 DEF HostKnows, Lifecycle, TypeOK, host, Running, Start, Reconnect
  <2>. QED  BY <2>2, <2>3, <2>4
<1>4. CASE ~addressValid
  <2>1. /\ ScheduleReconnect(pending)
        /\ UNCHANGED <<ws, sock>>
    BY <1>1, <1>2, <1>4 DEF Connect
  <2>2. /\ timers' \in SUBSET Timers
        /\ "reconnect" \in timers'
        /\ \A t \in Timers \ {"reconnect"} : t \in timers' <=> t \in pending
        /\ attempt' \in 0..BackoffSteps
    BY <1>2, <2>1, ScheduleLeavesOne
  <2>3. TypeOK'
    BY <1>2, <2>1, <2>2 DEF TypeOK, config, host
  <2>4. OneLink' /\ NeverGivesUp' /\ TimersFollowLink'
    BY <1>1, <1>2, <2>1, <2>2 DEF OneLink, NeverGivesUp, TimersFollowLink, TypeOK, Timers
  <2>5. HostKnows' /\ Lifecycle'
    BY <1>1, <1>2, <2>1, <2>2 DEF HostKnows, Lifecycle, TypeOK, host, Running, Start, Reconnect
  <2>. QED  BY <2>3, <2>4, <2>5
<1>. QED  BY <1>3, <1>4

\* The events that leave the socket in place.
LEMMA LiveEventKeepsInv ==
  ASSUME LinkInv, NEW s \in Sockets,
         Open(s) \/ Answer(s) \/ Pong(s) \/ PeerCloses(s)
  PROVE  LinkInv'
<1>. USE DEF LinkInv
<1>1. Running /\ ws = s /\ sock[s] # "free"
  BY HeardMeansRunning DEF Open, Answer, Pong, PeerCloses
<1>2. CASE Open(s)
  <2>1. TypeOK' /\ OneLink'
    BY <1>1, <1>2 DEF Open, TypeOK, OneLink, Timers, config, host
  <2>2. NeverGivesUp' /\ TimersFollowLink'
    BY <1>1, <1>2 DEF Open, NeverGivesUp, TimersFollowLink, TypeOK, Running
  <2>3. HostKnows' /\ Lifecycle'
    BY <1>1, <1>2 DEF Open, HostKnows, Lifecycle, TypeOK, Running, host
  <2>. QED  BY <2>1, <2>2, <2>3
<1>3. CASE Answer(s)
  <2>. USE <1>3 DEF Answer, MarkConnected, Emit
  <2>1. TypeOK' /\ OneLink'
    <3>1. timers' \in SUBSET Timers
      BY DEF TypeOK, Timers
    <3>2. /\ connected' \in BOOLEAN /\ outageReported' \in BOOLEAN
          /\ {reported, before}' \subseteq {"none", "connected", "disconnected"}
      BY DEF TypeOK, host
    <3>. QED  BY <3>1, <3>2 DEF TypeOK, OneLink, config
  <2>2. NeverGivesUp' /\ TimersFollowLink'
    BY <1>1 DEF NeverGivesUp, TimersFollowLink, TypeOK, Running, host
  <2>3. HostKnows' /\ Lifecycle'
    BY <1>1 DEF HostKnows, Lifecycle, TypeOK, Running, host
  <2>. QED  BY <2>1, <2>2, <2>3
<1>4. CASE Pong(s)
  BY <1>1, <1>4 DEF Pong, TypeOK, OneLink, NeverGivesUp, TimersFollowLink, HostKnows,
                    Lifecycle, Running, config, host, link
<1>5. CASE PeerCloses(s)
  <2>1. TypeOK' /\ OneLink'
    BY <1>1, <1>5 DEF PeerCloses, TypeOK, OneLink, config, host
  <2>2. NeverGivesUp' /\ TimersFollowLink'
    BY <1>1, <1>5 DEF PeerCloses, NeverGivesUp, TimersFollowLink, TypeOK, Running
  <2>3. HostKnows' /\ Lifecycle'
    BY <1>1, <1>5 DEF PeerCloses, HostKnows, Lifecycle, TypeOK, Running, host
  <2>. QED  BY <2>1, <2>2, <2>3
<1>. QED  BY <1>2, <1>3, <1>4, <1>5

\* stop() and the timers that leave the socket in place.
LEMMA StopKeepsInv ==
  ASSUME LinkInv, Stop
  PROVE  LinkInv'
<1>. USE DEF LinkInv
<1>1. /\ ws' = NoSocket
      /\ sock' \in [Sockets -> {"free", "connecting", "open", "closing"}]
      /\ \A s \in Sockets : sock'[s] = "free"
  BY TeardownLeavesNone DEF Stop
<1>2. TypeOK'
  BY <1>1 DEF Stop, TypeOK, config, host
<1>3. OneLink' /\ NeverGivesUp' /\ TimersFollowLink'
  BY <1>1 DEF Stop, OneLink, NeverGivesUp, TimersFollowLink, Running
<1>4. HostKnows' /\ Lifecycle'
  BY <1>1 DEF Stop, HostKnows, Lifecycle, Running, host
<1>. QED  BY <1>2, <1>3, <1>4

LEMMA TimerKeepsInv ==
  ASSUME LinkInv, Renew \/ Wake \/ Stable \/ Silence \/ Lapse
  PROVE  LinkInv'
<1>. USE DEF LinkInv
<1>1. UNCHANGED <<started, closing, link, host>>
  BY DEF Renew, Wake, Stable, Silence, Lapse
<1>2. /\ timers' \in SUBSET timers
      /\ \A t \in {"heartbeat", "subscription", "poll", "reconnect"} :
           t \in timers' <=> t \in timers
  BY DEF Renew, Wake, Stable, Silence, Lapse
<1>3. TypeOK'
  <2>1. attempt' \in 0..BackoffSteps /\ idle' \in 0..2
    BY DEF Renew, Wake, Stable, Silence, Lapse, TypeOK
  <2>2. publishing' \in BOOLEAN
    BY DEF Renew, Wake, Stable, Silence, Lapse, TypeOK, WsOpen
  <2>3. UNCHANGED config
    BY DEF Renew, Wake, Stable, Silence, Lapse
  <2>. QED  BY <1>1, <1>2, <2>1, <2>2, <2>3 DEF TypeOK, config, link, host
<1>4. OneLink' /\ NeverGivesUp' /\ TimersFollowLink'
  BY <1>1, <1>2 DEF OneLink, NeverGivesUp, TimersFollowLink, Running, link
<1>5. HostKnows' /\ Lifecycle'
  BY <1>1, <1>2 DEF HostKnows, Lifecycle, Running, link, host
<1>. QED  BY <1>3, <1>4, <1>5

LEMMA StutterKeepsInv ==
  ASSUME LinkInv, UNCHANGED vars
  PROVE  LinkInv'
BY DEF LinkInv, TypeOK, OneLink, NeverGivesUp, TimersFollowLink, HostKnows, Lifecycle,
       Running, vars, config, host, link

\* Which steps end the link: they happen to running clients only.
LEMMA DropMeansRunning ==
  ASSUME LinkInv, Heartbeat \/ \E s \in Sockets : Closed(s) \/ SocketError(s)
  PROVE  Running /\ ws # NoSocket /\ OnClose
<1>1. CASE Heartbeat
  BY <1>1, HeardMeansRunning DEF Heartbeat, HeartbeatDue, WsOpen
<1>2. ASSUME NEW s \in Sockets, Closed(s) \/ SocketError(s)
      PROVE  Running /\ ws # NoSocket /\ OnClose
  <2>1. Running /\ ws = s
    BY <1>2, HeardMeansRunning DEF Closed, SocketError
  <2>. QED  BY <1>2, <2>1 DEF Closed, SocketError
<1>. QED  BY <1>1, <1>2

LEMMA NextLinkInv == LinkInv /\ [Next]_vars => LinkInv'
<1>. SUFFICES ASSUME LinkInv, [Next]_vars PROVE LinkInv'
  OBVIOUS
<1>1. CASE Start \/ Reconnect
  BY <1>1, ConnectKeepsInv
<1>2. CASE Stop
  BY <1>2, StopKeepsInv
<1>3. ASSUME NEW s \in Sockets, Open(s) \/ Answer(s) \/ Pong(s) \/ PeerCloses(s)
      PROVE  LinkInv'
  BY <1>3, LiveEventKeepsInv
<1>4. CASE Heartbeat \/ \E s \in Sockets : Closed(s) \/ SocketError(s)
  BY <1>4, DropMeansRunning, OnCloseKeepsInv
<1>5. CASE Renew \/ Wake \/ Stable \/ Silence \/ Lapse
  BY <1>5, TimerKeepsInv
<1>6. CASE UNCHANGED vars
  BY <1>6, StutterKeepsInv
<1>. QED  BY <1>1, <1>2, <1>3, <1>4, <1>5, <1>6 DEF Next, SocketEvent

-----------------------------------------------------------------------------
(***************************************************************************)
(* The theorems.                                                           *)
(***************************************************************************)

\* Every behaviour of the client satisfies the inductive invariant.
THEOREM LinkInvariant == Spec => []LinkInv
BY InitLinkInv, NextLinkInv, PTL DEF Spec

\* The variables of the connection lifecycle keep their types: in particular
\* the backoff stays within its maximum (_scheduleReconnect).
THEOREM LinkTypeCorrect == Spec => []TypeOK
<1>1. LinkInv => TypeOK
  BY DEF LinkInv
<1>. QED  BY <1>1, LinkInvariant, PTL

\* No socket but the current one is ever heard (_teardownSocket, _connect).
THEOREM NoOrphanSocket == Spec => []OneLink
<1>1. LinkInv => OneLink
  BY DEF LinkInv
<1>. QED  BY <1>1, LinkInvariant, PTL

\* A started client always has a socket or exactly one redial pending.
THEOREM ClientNeverGivesUp == Spec => []NeverGivesUp
<1>1. LinkInv => NeverGivesUp
  BY DEF LinkInv
<1>. QED  BY <1>1, LinkInvariant, PTL

\* What the host of a running client was told last is how the link stands
\* (_markConnected, _onClose).
THEOREM HostAlwaysKnows == Spec => []HostKnows
<1>1. LinkInv => HostKnows
  BY DEF LinkInv
<1>. QED  BY <1>1, LinkInvariant, PTL

\* The backoff only resets while the robot is connected (_stableTimer).
THEOREM BackoffOnlyResetsConnected == Spec => BackoffHolds
<1>1. LinkInv /\ [Next]_vars => [attempt' < attempt => connected]_vars
  <2>. SUFFICES ASSUME LinkInv, [Next]_vars, attempt' < attempt PROVE connected
    OBVIOUS
  <2>. USE DEF LinkInv
  <2>0. \A pending : ScheduleReconnect(pending) => attempt' \in {attempt, attempt + 1}
    BY DEF ScheduleReconnect, NextAttempt
  <2>1. CASE Stable
    BY <2>1 DEF Stable, TimersFollowLink
  <2>2. CASE Start \/ Reconnect
    <3>1. attempt' \in {attempt, attempt + 1}
      BY <2>0, <2>2 DEF Start, Reconnect, Connect
    <3>. QED  BY <3>1 DEF TypeOK
  <2>3. CASE OnClose
    <3>1. attempt' \in {attempt, attempt + 1}
      BY <2>0, <2>3 DEF OnClose
    <3>. QED  BY <3>1 DEF TypeOK
  <2>4. CASE UNCHANGED attempt
    BY <2>4 DEF TypeOK
  <2>5. CASE \E s \in Sockets : SocketEvent(s)
    BY <2>3, <2>4, <2>5 DEF SocketEvent, Open, Answer, Pong, PeerCloses, Closed, SocketError
  <2>. QED  BY <2>1, <2>2, <2>3, <2>4, <2>5
            DEF Next, vars, Stop, Heartbeat, Renew, Wake, Silence, Lapse
<1>. QED  BY <1>1, LinkInvariant, PTL DEF Spec, BackoffHolds

-----------------------------------------------------------------------------
(***************************************************************************)
(* The client implements LinkPromise.                                      *)
(***************************************************************************)

\* The mapping, case by case, on the states the invariant allows.
LEMMA PhaseCases ==
  ASSUME LinkInv
  PROVE  /\ ~started => Phase = "idle"
         /\ closing => Phase = "stopped"
         /\ Running /\ ws = NoSocket => Phase = "waiting"
         /\ Running /\ ws # NoSocket /\ connected => Phase = "up"
         /\ Running /\ ws # NoSocket /\ ~connected => Phase = "trying"
<1>1. ~started => ~closing
  BY DEF LinkInv, Lifecycle
<1>2. ~started => Phase = "idle"
  BY <1>1 DEF Phase, Running
<1>3. closing => Phase = "stopped"
  BY <1>1 DEF Phase, Running
<1>4. Running /\ ws = NoSocket => Phase = "waiting"
  BY DEF Phase, Running
<1>5. Running /\ ws # NoSocket /\ connected => Phase = "up"
  BY DEF Phase, Running
<1>6. Running /\ ws # NoSocket /\ ~connected => Phase = "trying"
  BY DEF Phase, Running
<1>. QED  BY <1>2, <1>3, <1>4, <1>5, <1>6

\* A step that changes neither the life of the client, nor whether it has a
\* socket, nor the connection, nor the reports maps to a stutter.
LEMMA SamePhase ==
  ASSUME LinkInv, LinkInv', UNCHANGED <<started, closing, connected, reported, before>>,
         ws' = NoSocket <=> ws = NoSocket
  PROVE  UNCHANGED Promise!vars
<1>1. Phase' = Phase
  BY DEF Phase, Running
<1>. QED  BY <1>1 DEF Promise!vars

LEMMA StepImplements ==
  ASSUME LinkInv, LinkInv', [Next]_vars
  PROVE  [Promise!Next]_(Promise!vars)
<1>. USE DEF LinkInv
<1>1. CASE Start \/ Reconnect
  <2>0. ws = NoSocket /\ ~closing /\ started'
    BY <1>1 DEF Start, Reconnect, NeverGivesUp, Lifecycle, Running, TypeOK
  <2>1. /\ Phase \in {"idle", "waiting"}
        /\ UNCHANGED <<closing, connected, reported, before>> /\ started' /\ ~closing
        /\ ~connected
    BY <1>1, <2>0, PhaseCases DEF Start, Reconnect, Lifecycle, Running, host
  <2>2. Running' /\ ~connected'
    BY <2>1 DEF Running
  <2>3. Phase' \in {"trying", "waiting"}
    BY <2>2 DEF Phase, Running
  <2>. QED  BY <2>1, <2>3 DEF Promise!Next, Promise!Dial
<1>2. CASE Stop
  <2>1. Phase \in {"trying", "up", "waiting"}
    BY <1>2, PhaseCases DEF Stop, Running
  <2>2. Phase' = "stopped"
    BY <1>2 DEF Stop, Phase, Running
  <2>. QED  BY <1>2, <2>1, <2>2 DEF Stop, host, Promise!Next, Promise!Stop
<1>3. ASSUME NEW s \in Sockets, Answer(s), ~connected
      PROVE  Promise!Answer
  <2>1. Running /\ ws = s
    BY <1>3, HeardMeansRunning DEF Answer
  <2>2. Phase = "trying"
    BY <1>3, <2>1, PhaseCases DEF TypeOK
  <2>3. /\ UNCHANGED <<started, closing, ws>>
        /\ connected' /\ reported' = "connected" /\ before' = reported
    BY <1>3 DEF Answer, MarkConnected, Emit
  <2>4. Phase' = "up"
    BY <2>1, <2>3 DEF Phase, Running
  <2>5. reported # "connected"
    BY <1>3, <2>1 DEF HostKnows
  <2>. QED  BY <2>2, <2>3, <2>4, <2>5 DEF Promise!Answer, Promise!Report
<1>4. CASE Heartbeat \/ \E s \in Sockets : Closed(s) \/ SocketError(s)
  <2>1. Running /\ ws # NoSocket /\ OnClose
    BY <1>4, DropMeansRunning
  <2>2. Phase \in {"trying", "up"}
    BY <2>1, PhaseCases DEF TypeOK
  <2>3. Phase' = "waiting"
    BY <2>1 DEF OnClose, TeardownSocket, Phase, Running
  <2>4. IF reported = "disconnected" THEN UNCHANGED <<reported, before>>
        ELSE reported' = "disconnected" /\ before' = reported
    BY <2>1 DEF OnClose, ReportOutage, Emit, HostKnows
  <2>. QED  BY <2>2, <2>3, <2>4 DEF Promise!Next, Promise!Lose, Promise!Report
<1>5. ASSUME NEW s \in Sockets, Open(s) \/ (Answer(s) /\ connected) \/ Pong(s) \/ PeerCloses(s)
      PROVE  UNCHANGED Promise!vars
  <2>1. UNCHANGED <<started, closing, connected, reported, before, ws>>
    BY <1>5 DEF Open, Answer, Pong, PeerCloses, host, link
  <2>. QED  BY <2>1, SamePhase
<1>6. CASE Renew \/ Wake \/ Stable \/ Silence \/ Lapse \/ UNCHANGED vars
  <2>1. UNCHANGED <<started, closing, connected, reported, before, ws>>
    BY <1>6 DEF Renew, Wake, Stable, Silence, Lapse, vars, host, link
  <2>. QED  BY <2>1, SamePhase
<1>. QED  BY <1>1, <1>2, <1>3, <1>4, <1>5, <1>6 DEF Next, SocketEvent, Promise!Next

\* The client keeps its promise to the host, over any behaviour: no report is
\* the one before it, so 'connected' and 'disconnected' alternate and an outage
\* is reported once (_markConnected, _onClose); nothing follows stop().
THEOREM LinkImplementsPromise == Spec => PromiseKept
<1>1. Init => Promise!Init
  <2>1. Init => ~started /\ reported = "none" /\ before = "none"
    BY DEF Init
  <2>. QED  BY <2>1, InitLinkInv, PhaseCases DEF Promise!Init
<1>2. LinkInv /\ LinkInv' /\ [Next]_vars => [Promise!Next]_(Promise!vars)
  BY StepImplements
<1>. QED  BY <1>1, <1>2, LinkInvariant, PTL DEF Spec, PromiseKept, Promise!Spec
=============================================================================
