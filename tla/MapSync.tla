------------------------------ MODULE MapSync ------------------------------
(***************************************************************************)
(* How lib/NarwalClient.js keeps its map of the home: the background fetch *)
(* with its guard window and its retries, the live display_map updates     *)
(* applied to the fetched (or saved) grid by sequence number, and the      *)
(* delayed re-emission of a grid they changed.                             *)
(*                                                                         *)
(* Time is counted in ticks, since what matters is which of the guard, the *)
(* retry, the request and the emit timer runs out first: a timer holds the *)
(* ticks it has left, 0 when it is not pending, and no tick passes it when *)
(* it is due. A grid is abstracted to which of the robot's changes each    *)
(* cell shows.                                                             *)
(***************************************************************************)
EXTENDS Integers, Sequences, FiniteSetsExt

CONSTANTS
  Cells,         \* the cells of the grid
  NoMap,         \* lastStaticMap, lastMap when there is none
  MaxSeq,        \* bound: how many changes the robot makes to its map
  MaxRequests,   \* bound: how many map requests are outstanding
  GuardTicks,    \* MAP_REFETCH_GUARD_MS
  RetryTicks,    \* MAP_RETRY_DELAYS_MS
  RequestTicks,  \* the time a map request waits for its reply
  EmitTicks      \* MAP_UPDATE_EMIT_MS

\* As in constants.js: a request outlives its guard window.
ASSUME TicksAssumption ==
  /\ GuardTicks \in Nat \ {0} /\ RequestTicks \in Nat /\ EmitTicks \in Nat \ {0}
  /\ RetryTicks \in Seq(Nat \ {0}) /\ RetryTicks # <<>>
  /\ GuardTicks <= RequestTicks

ASSUME MapAssumption ==
  /\ MaxSeq \in Nat /\ MaxRequests \in Nat
  /\ NoMap \notin [seq: Nat, grid: [Cells -> Nat]] \cup [Cells -> Nat]

VARIABLES
  link,        \* "down", "up", or connected although the socket is not open:
               \* "early" (not yet), "closing" (not any more)
  closing,     \* _closing: stop() was called
  guard,       \* _mapGuardTimer, with _mapFetchGuard
  retry,       \* _mapRetryTimer
  retryIndex,  \* _mapRetryIndex, up to the last delay
  emitting,    \* _mapEmitTimer
  asked,       \* the outstanding map requests, in order; the first was sent
  age,         \* the ticks since the first was sent
  static,      \* lastStaticMap: its seqId and grid
  shown,       \* the grid of lastMap, as last emitted
  fresh,       \* _freshMap
  drawn,       \* the robot's changes so far: the cell each of them drew
  fetched,     \* history: a map reply came in during this session
  disturbed    \* history: a request failed before its guard window was over

timing == <<guard, retry, retryIndex, asked, age, disturbed>>
map == <<static, shown, fresh, emitting, fetched>>
vars == <<link, closing, timing, map, drawn>>

\* The robot's grid after its first n changes: the last change of each cell.
GridAt(n) == [c \in Cells |-> Max({0} \cup {i \in 1..n : drawn[i] = c})]

TypeOK ==
  /\ link \in {"down", "early", "up", "closing"} /\ closing \in BOOLEAN
  /\ guard \in 0..GuardTicks
  /\ retry \in {0} \cup UNION {0..RetryTicks[i] : i \in DOMAIN RetryTicks}
  /\ retryIndex \in 0..Len(RetryTicks)
  /\ emitting \in 0..EmitTicks
  /\ asked \in Seq({"auto", "host"}) /\ Len(asked) <= MaxRequests
  /\ age \in 0..RequestTicks
  /\ static \in [seq: 0..MaxSeq, grid: [Cells -> 0..MaxSeq]] \cup {NoMap}
  /\ shown \in [Cells -> 0..MaxSeq] \cup {NoMap}
  /\ fresh \in BOOLEAN /\ fetched \in BOOLEAN /\ disturbed \in BOOLEAN
  /\ drawn \in Seq(Cells) /\ Len(drawn) <= MaxSeq

\* constructor(): with the map saved in an earlier session, or none.
Init ==
  /\ link = "down" /\ closing = FALSE
  /\ guard = 0 /\ retry = 0 /\ retryIndex = 0 /\ emitting = 0
  /\ asked = <<>> /\ age = 0
  /\ drawn = <<>>
  /\ \/ static = NoMap /\ shown = NoMap
     \/ static = [seq |-> 0, grid |-> GridAt(0)] /\ shown = GridAt(0)
  /\ fresh = FALSE /\ fetched = FALSE /\ disturbed = FALSE

-----------------------------------------------------------------------------
\* Asking for the map.

\* The bug of giving up after the last delay.
ScheduleMapRetryOnce(pending) ==
  IF fresh \/ closing' \/ pending > 0 \/ retryIndex = Len(RetryTicks)
    THEN retry' = pending /\ UNCHANGED retryIndex
    ELSE /\ retryIndex' = retryIndex + 1
         /\ retry' = RetryTicks[retryIndex']

\* The bug of a retry scheduled although the client was stopped.
ScheduleMapRetryAnyway(pending) ==
  IF fresh \/ pending > 0
    THEN retry' = pending /\ UNCHANGED retryIndex
    ELSE /\ retryIndex' = Min({retryIndex + 1, Len(RetryTicks)})
         /\ retry' = RetryTicks[retryIndex']

\* _scheduleMapRetry; pending: the retry timer its caller leaves.
ScheduleMapRetry(pending) ==
  IF fresh \/ closing' \/ pending > 0
    THEN retry' = pending /\ UNCHANGED retryIndex
    ELSE /\ retryIndex' = Min({retryIndex + 1, Len(RetryTicks)})
         /\ retry' = RetryTicks[retryIndex']

\* _requestMap on link l: one request per guard window. It waits behind the
\* outstanding ones; with none and a socket that is not open it fails at once.
RequestMap(l, pending) ==
  IF guard > 0
    THEN retry' = pending /\ UNCHANGED <<guard, retryIndex, asked, age, disturbed>>
    ELSE /\ guard' = GuardTicks
         /\ IF l # "up" /\ asked = <<>>
              THEN /\ ScheduleMapRetry(pending)
                   /\ disturbed' = TRUE
                   /\ UNCHANGED <<asked, age>>
              ELSE /\ Len(asked) < MaxRequests
                   /\ asked' = Append(asked, "auto")
                   /\ retry' = pending
                   /\ UNCHANGED <<retryIndex, age, disturbed>>

\* The first n requests fail: each of _requestMap's own schedules a retry.
Fail(n, guardLeft, retryLeft) ==
  /\ asked' = SubSeq(asked, n + 1, Len(asked))
  /\ age' = 0
  /\ IF \E i \in 1..n : asked[i] = "auto"
       THEN /\ ScheduleMapRetry(retryLeft)
            /\ disturbed' = (disturbed \/ guardLeft > 0)
       ELSE retry' = retryLeft /\ UNCHANGED <<retryIndex, disturbed>>

-----------------------------------------------------------------------------
\* The link.

\* _markConnected. Over the cloud a frame can come before the socket is open.
Connect ==
  /\ ~closing /\ link = "down"
  /\ UNCHANGED <<closing, map, drawn>>
  /\ link' \in {"up", "early"}
  /\ RequestMap(link', retry)

\* The broker confirms the subscription after the first frame.
Opens ==
  /\ link = "early"
  /\ link' = "up"
  /\ UNCHANGED <<closing, timing, map, drawn>>

\* The peer starts the closing handshake.
PeerCloses ==
  /\ link = "up"
  /\ link' = "closing"
  /\ UNCHANGED <<closing, timing, map, drawn>>

\* _onClose: _failAllPending fails the first request and so the others.
Drop ==
  /\ link # "down"
  /\ link' = "down"
  /\ UNCHANGED <<closing, guard, map, drawn>>
  /\ Fail(Len(asked), guard, retry)

\* stop(): the timers first, then the requests fail.
Stop ==
  /\ ~closing
  /\ closing' = TRUE
  /\ link' = "down"
  /\ guard' = 0 /\ emitting' = 0
  /\ Fail(Len(asked), 0, 0)
  /\ UNCHANGED <<static, shown, fresh, fetched, drawn>>

-----------------------------------------------------------------------------
\* What the robot sends.

\* Frames come in.
Hears == link \in {"early", "up"}

\* _noteStateChange.
StateChange ==
  /\ Hears
  /\ UNCHANGED <<link, closing, map, drawn>>
  /\ RequestMap(link, retry)

\* The bug of a gap test that lets one missing update pass.
LooseVerdict(start, current) ==
  IF static = NoMap \/ static.seq + 2 < start THEN "gap"
  ELSE IF static.seq >= current THEN "stale" ELSE "applied"

\* applyIncrementalUpdate: what it answers to an update with these numbers. A map
\* without a grid is answered like none; the robot's replies here have one.
UpdateVerdict(start, current) ==
  IF static = NoMap \/ static.seq + 1 < start THEN "gap"
  ELSE IF static.seq >= current THEN "stale" ELSE "applied"

\* applyIncrementalUpdate: the update names the cells that changed from start
\* to current, with their values at current.
Applied(start, current) ==
  [seq  |-> current,
   grid |-> [c \in Cells |->
     IF \E i \in start..current : drawn[i] = c THEN GridAt(current)[c] ELSE static.grid[c]]]

\* _scheduleMapEmit.
ScheduleMapEmit == emitting' = IF emitting = 0 THEN EmitTicks ELSE emitting

\* _onDisplayMap, for any update the robot can have sent so far: late, repeated,
\* out of order, or the first to come after others were lost.
DisplayMap(start, current) ==
  /\ Hears
  /\ start <= current /\ current <= Len(drawn)
  /\ UNCHANGED <<link, closing, shown, fresh, fetched, drawn>>
  /\ \/ /\ UpdateVerdict(start, current) = "gap"
        /\ RequestMap(link, retry)
        /\ UNCHANGED <<static, emitting>>
     \/ /\ UpdateVerdict(start, current) = "applied"
        /\ static' = Applied(start, current)
        /\ ScheduleMapEmit
        /\ UNCHANGED timing
     \/ /\ UpdateVerdict(start, current) = "stale"
        /\ UNCHANGED <<static, emitting, timing>>

\* _ingestStaticMap.
IngestStaticMap(m) ==
  /\ static' = m
  /\ fresh' = TRUE
  /\ emitting' = 0
  /\ shown' = m.grid

\* A map reply with the robot's map of any time so far: it may be the late reply
\* to an earlier request. refreshMap ingests it and _requestMap's own request
\* ends the retries.
MapReply(n) ==
  /\ link = "up" /\ asked # <<>> /\ n <= Len(drawn)
  /\ IngestStaticMap([seq |-> n, grid |-> GridAt(n)])
  /\ fetched' = TRUE
  /\ asked' = Tail(asked) /\ age' = 0
  /\ IF Head(asked) = "auto"
       THEN retry' = 0 /\ retryIndex' = 0
       ELSE UNCHANGED <<retry, retryIndex>>
  /\ UNCHANGED <<link, closing, guard, disturbed, drawn>>

\* refreshMap() of the host, by force or for cleaning without a map: not guarded
\* and not retried. Without an open socket it fails without effect.
HostRefresh ==
  /\ link = "up" /\ Len(asked) < MaxRequests
  /\ asked' = Append(asked, "host")
  /\ UNCHANGED <<link, closing, guard, retry, retryIndex, age, disturbed, map, drawn>>

\* The robot changes a cell of its map.
Draw(c) ==
  /\ Len(drawn) < MaxSeq
  /\ drawn' = Append(drawn, c)
  /\ UNCHANGED <<link, closing, timing, map>>

-----------------------------------------------------------------------------
\* Timers.

GuardEnds ==
  /\ guard = 1
  /\ guard' = 0
  /\ UNCHANGED <<link, closing, retry, retryIndex, asked, age, disturbed, map, drawn>>

RetryFires ==
  /\ retry = 1
  /\ UNCHANGED <<link, closing, map, drawn>>
  /\ IF link # "down" /\ ~fresh
       THEN RequestMap(link, 0)
       ELSE retry' = 0 /\ UNCHANGED <<guard, retryIndex, asked, age, disturbed>>

\* The bug of a re-emission that is skipped while the robot is away.
EmitFiresIfConnected ==
  /\ emitting = 1
  /\ emitting' = 0
  /\ IF link = "down" THEN UNCHANGED <<static, shown, fresh>> ELSE IngestStaticMap(static)
  /\ UNCHANGED <<link, closing, timing, fetched, drawn>>

EmitFires ==
  /\ emitting = 1
  /\ IngestStaticMap(static)
  /\ UNCHANGED <<link, closing, timing, fetched, drawn>>

RequestDue == asked # <<>> /\ age = RequestTicks

\* The first request times out; the next is sent, or they all fail.
RequestTimeout ==
  /\ RequestDue
  /\ UNCHANGED <<link, closing, guard, map, drawn>>
  /\ Fail(IF link = "up" THEN 1 ELSE Len(asked), guard, retry)

\* A tick less for a pending timer. The broker confirms a subscription sooner.
Less(timer) == IF timer > 0 THEN timer - 1 ELSE 0

Tick ==
  /\ guard # 1 /\ retry # 1 /\ emitting # 1 /\ ~RequestDue
  /\ link # "early"
  /\ guard' = Less(guard) /\ retry' = Less(retry) /\ emitting' = Less(emitting)
  /\ age' = IF asked # <<>> THEN age + 1 ELSE 0
  /\ UNCHANGED <<link, closing, retryIndex, asked, disturbed, static, shown, fresh, fetched,
                 drawn>>

Next ==
  \/ Connect \/ Opens \/ PeerCloses \/ Drop \/ Stop
  \/ StateChange \/ HostRefresh
  \/ \E i, j \in 1..MaxSeq : DisplayMap(i, j)
  \/ \E n \in 0..MaxSeq : MapReply(n)
  \/ \E c \in Cells : Draw(c)
  \/ GuardEnds \/ RetryFires \/ EmitFires \/ RequestTimeout \/ Tick

Spec == Init /\ [][Next]_vars

-----------------------------------------------------------------------------
(***************************************************************************)
(* Properties.                                                             *)
(***************************************************************************)

\* applyIncrementalUpdate, "by the official app's rule": whatever updates are
\* lost, repeated or late, before or after a fetch, the grid is exactly the
\* robot's grid at the sequence number the client has it down for.
GridFaithful == static # NoMap => static.grid = GridAt(static.seq)

\* A grid that updates changed is never left unrendered: either lastMap shows it
\* or its re-emission is pending, also across a lost link and a fetch.
ShownOrScheduled ==
  static # NoMap /\ ~closing => shown = static.grid \/ emitting > 0

\* After stop() nothing of the map runs on: the requests that stop() itself makes
\* fail do not bring the retry timer back.
StopIsQuiet ==
  closing => guard = 0 /\ retry = 0 /\ emitting = 0 /\ asked = <<>>

Asking == retry > 0 \/ \E i \in DOMAIN asked : asked[i] = "auto"

\* What the retries do keep: as long as no request fails before its guard window
\* is over, a connected client without a fresh map is asking for one, or will.
AsksUndisturbed == link # "down" /\ ~fresh /\ ~disturbed => Asking

\* NarwalClient.js on _scheduleMapRetry: "Until a fresh map arrives this session
\* (a saved one may be outdated), keep asking, backing off." Not so when a request
\* fails inside its guard window and the retry fires in the same window.
KeepsAsking == link # "down" /\ ~fresh => Asking

\* The same comment: the asking only ends with a map that arrived this session.
\* Not so when a live update changes the saved map: its re-emission counts.
FreshMeansFetched == fresh => fetched
=============================================================================
