--------------------------- MODULE MapSync_proofs ---------------------------
(***************************************************************************)
(* Theorems about MapSync, for any grid, any delays and any number of      *)
(* changes and requests: the grid is the robot's, every change of it is    *)
(* shown, a stopped client is quiet, and an undisturbed one goes on asking. *)
(***************************************************************************)
EXTENDS MapSync, SequenceTheorems, WellFoundedInduction, TLAPS

-----------------------------------------------------------------------------
(***************************************************************************)
(* The grid.                                                               *)
(***************************************************************************)

\* GridFaithful with what its induction needs: the client is never ahead of the
\* robot, so that a change the robot makes does not alter the past.
GridInv ==
  /\ drawn \in Seq(Cells)
  /\ static # NoMap => static.seq \in 0..Len(drawn) /\ static.grid = GridAt(static.seq)

\* A cell that no change in a range drew shows the same at both of its ends.
LEMMA GridAtUntouched ==
  ASSUME NEW c \in Cells, NEW m \in Nat, NEW n \in Nat, m <= n,
         \A i \in m + 1..n : drawn[i] # c
  PROVE  GridAt(m)[c] = GridAt(n)[c]
<1>1. {i \in 1..m : drawn[i] = c} = {i \in 1..n : drawn[i] = c}
  OBVIOUS
<1> QED BY <1>1 DEF GridAt

\* An update that neither leaves a gap nor is stale takes the client to the
\* robot's grid at its current number.
LEMMA AppliedIsFaithful ==
  ASSUME GridInv, NEW start \in Nat \ {0}, NEW current \in Nat, current <= Len(drawn),
         UpdateVerdict(start, current) = "applied"
  PROVE  /\ Applied(start, current).seq = current
         /\ Applied(start, current).grid = GridAt(current)
<1>1. /\ static # NoMap /\ static.seq \in Nat /\ static.grid = GridAt(static.seq)
      /\ start <= static.seq + 1 /\ static.seq < current
  BY DEF GridInv, UpdateVerdict
<1>2. ASSUME NEW c \in Cells, ~ \E i \in start..current : drawn[i] = c
      PROVE  static.grid[c] = GridAt(current)[c]
  <2>1. \A i \in static.seq + 1..current : drawn[i] # c
    BY <1>1, <1>2
  <2> QED BY <1>1, <2>1, GridAtUntouched
<1>3. GridAt(current) = [c \in Cells |-> GridAt(current)[c]]
  BY DEF GridAt
<1> QED BY <1>2, <1>3 DEF Applied

LEMMA GridInit == Init => GridInv
<1> SUFFICES ASSUME Init PROVE GridInv
  OBVIOUS
<1>1. drawn \in Seq(Cells) /\ Len(drawn) = 0
  BY DEF Init
<1> QED BY <1>1 DEF Init, GridInv

LEMMA GridNext == GridInv /\ [Next]_vars => GridInv'
<1> SUFFICES ASSUME GridInv, [Next]_vars PROVE GridInv'
  OBVIOUS
<1>1. ASSUME UNCHANGED <<drawn, static>> PROVE GridInv'
  BY <1>1 DEF GridInv, GridAt
<1>2. ASSUME NEW c \in Cells, Draw(c) PROVE GridInv'
  <2>1. drawn' = Append(drawn, c) /\ static' = static
    BY <1>2 DEF Draw, map
  <2>2. drawn' \in Seq(Cells) /\ Len(drawn') = Len(drawn) + 1
    BY <2>1 DEF GridInv
  <2>3. ASSUME static # NoMap PROVE GridAt(static.seq)' = GridAt(static.seq)
    <3>1. static.seq \in 0..Len(drawn) /\ drawn \in Seq(Cells)
      BY <2>3 DEF GridInv
    <3>2. GridAt(static.seq)' = [x \in Cells |->
             Max({0} \cup {i \in 1..static.seq : drawn'[i] = x})]
      BY <2>1 DEF GridAt
    <3>3. \A i \in 1..static.seq : drawn'[i] = drawn[i]
      BY <2>1, <3>1, AppendProperties
    <3>4. \A x \in Cells : {i \in 1..static.seq : drawn'[i] = x}
                           = {i \in 1..static.seq : drawn[i] = x}
      BY <3>3
    <3> QED BY <3>2, <3>4 DEF GridAt
  <2> QED BY <2>1, <2>2, <2>3 DEF GridInv
<1>3. ASSUME NEW i \in 1..MaxSeq, NEW j \in 1..MaxSeq, DisplayMap(i, j) PROVE GridInv'
  <2>1. drawn' = drawn /\ j <= Len(drawn)
    BY <1>3 DEF DisplayMap
  <2>2. CASE UpdateVerdict(i, j) = "applied"
    <3>1. static' = Applied(i, j)
      BY <1>3, <2>2 DEF DisplayMap
    <3>2. static'.seq = j /\ static'.grid = GridAt(j)
      BY <2>1, <2>2, <3>1, AppliedIsFaithful
    <3> QED BY <2>1, <3>2 DEF GridInv, GridAt
  <2>3. CASE UpdateVerdict(i, j) # "applied"
    <3>1. static' = static
      BY <1>3, <2>3 DEF DisplayMap, UpdateVerdict
    <3> QED BY <2>1, <3>1, <1>1
  <2> QED BY <2>2, <2>3
<1>4. ASSUME NEW n \in 0..MaxSeq, MapReply(n) PROVE GridInv'
  <2>1. /\ drawn' = drawn /\ n <= Len(drawn)
        /\ static' = [seq |-> n, grid |-> GridAt(n)]
    BY <1>4 DEF MapReply, IngestStaticMap
  <2> QED BY <2>1 DEF GridInv, GridAt
<1>5. CASE EmitFires
  BY <1>1, <1>5 DEF EmitFires, IngestStaticMap
<1>6. CASE Connect \/ Opens \/ PeerCloses \/ Drop \/ Stop
  BY <1>1, <1>6 DEF Connect, Opens, PeerCloses, Drop, Stop, map
<1>7. CASE StateChange \/ HostRefresh
  BY <1>1, <1>7 DEF StateChange, HostRefresh, map
<1>8. CASE GuardEnds \/ RetryFires \/ RequestTimeout \/ Tick
  BY <1>1, <1>8 DEF GuardEnds, RetryFires, RequestTimeout, Tick, map
<1>9. CASE UNCHANGED vars
  BY <1>1, <1>9 DEF vars, map
<1> QED BY <1>2, <1>3, <1>4, <1>5, <1>6, <1>7, <1>8, <1>9 DEF Next

\* Whatever updates are lost, repeated or late, before or after a fetch, the grid
\* is the robot's grid at the sequence number the client has it down for
\* (applyIncrementalUpdate, _onDisplayMap, _ingestStaticMap).
THEOREM GridAlwaysFaithful == Spec => []GridFaithful
<1>1. GridInv => GridFaithful
  BY DEF GridInv, GridFaithful
<1> QED BY <1>1, GridInit, GridNext, PTL DEF Spec

-----------------------------------------------------------------------------
(***************************************************************************)
(* After stop().                                                           *)
(***************************************************************************)

\* StopIsQuiet with what its induction needs: a stopped client has no link, so
\* nothing of the robot or the host reaches it.
StopInv ==
  /\ asked \in Seq({"auto", "host"})
  /\ closing \in BOOLEAN
  /\ closing => link = "down"
  /\ StopIsQuiet

\* The requests that remain after the first n are requests.
LEMMA Remaining ==
  ASSUME asked \in Seq({"auto", "host"}), NEW n \in 0..Len(asked)
  PROVE  /\ SubSeq(asked, n + 1, Len(asked)) \in Seq({"auto", "host"})
         /\ n = Len(asked) => SubSeq(asked, n + 1, Len(asked)) = <<>>
<1>1. SubSeq(asked, n + 1, Len(asked)) \in Seq({"auto", "host"})
  BY SubSeqProperties
<1>2. ASSUME n = Len(asked) PROVE SubSeq(asked, n + 1, Len(asked)) = <<>>
  <2>1. Len(SubSeq(asked, n + 1, Len(asked))) = 0
    BY <1>2, SubSeqProperties
  <2> QED BY <1>1, <2>1, EmptySeq
<1> QED BY <1>1, <1>2

LEMMA StopInit == Init => StopInv
<1> SUFFICES ASSUME Init PROVE StopInv
  OBVIOUS
<1>1. asked \in Seq({"auto", "host"}) /\ closing = FALSE
  BY DEF Init
<1> QED BY <1>1 DEF StopInv, StopIsQuiet

LEMMA StopNext == StopInv /\ [Next]_vars => StopInv'
<1> SUFFICES ASSUME StopInv, [Next]_vars PROVE StopInv'
  OBVIOUS
<1> USE DEF StopInv, StopIsQuiet
<1>1. ASSUME NEW l, NEW p, RequestMap(l, p) PROVE asked' \in Seq({"auto", "host"})
  BY <1>1 DEF RequestMap
<1>2. CASE Connect
  BY <1>1, <1>2 DEF Connect
<1>3. CASE Opens \/ PeerCloses
  BY <1>3 DEF Opens, PeerCloses, timing, map
<1>4. CASE Drop
  <2>1. asked' \in Seq({"auto", "host"})
    BY <1>4, Remaining DEF Drop, Fail
  <2> QED BY <1>4, <2>1 DEF Drop
<1>5. CASE Stop
  <2>1. asked' = <<>>
    BY <1>5, Remaining DEF Stop, Fail
  <2>2. retry' = 0
    BY <1>5 DEF Stop, Fail, ScheduleMapRetry
  <2> QED BY <1>5, <2>1, <2>2 DEF Stop
<1>6. CASE StateChange
  BY <1>1, <1>6 DEF StateChange, Hears
<1>7. CASE HostRefresh
  BY <1>7 DEF HostRefresh
<1>8. ASSUME NEW i \in 1..MaxSeq, NEW j \in 1..MaxSeq, DisplayMap(i, j) PROVE StopInv'
  <2>1. ~closing /\ closing' = closing
    BY <1>8 DEF DisplayMap, Hears
  <2>2. asked' \in Seq({"auto", "host"})
    BY <1>1, <1>8 DEF DisplayMap, UpdateVerdict, timing
  <2> QED BY <2>1, <2>2
<1>9. ASSUME NEW n \in 0..MaxSeq, MapReply(n) PROVE StopInv'
  BY <1>9, HeadTailProperties DEF MapReply
<1>10. ASSUME NEW c \in Cells, Draw(c) PROVE StopInv'
  BY <1>10 DEF Draw, timing, map
<1>11. CASE GuardEnds \/ Tick
  BY <1>11 DEF GuardEnds, Tick, Less, map
<1>12. CASE RetryFires
  BY <1>1, <1>12 DEF RetryFires
<1>13. CASE EmitFires
  BY <1>13 DEF EmitFires, IngestStaticMap, timing
<1>14. CASE RequestTimeout
  <2>1. asked # <<>> /\ ~closing /\ closing' = closing
    BY <1>14 DEF RequestTimeout, RequestDue
  <2>2. asked' \in Seq({"auto", "host"})
    BY <1>14, <2>1, Remaining, EmptySeq DEF RequestTimeout, Fail
  <2> QED BY <2>1, <2>2
<1>15. CASE UNCHANGED vars
  BY <1>15 DEF vars, timing, map
<1> QED BY <1>2, <1>3, <1>4, <1>5, <1>6, <1>7, <1>8, <1>9, <1>10, <1>11, <1>12, <1>13,
           <1>14, <1>15 DEF Next

\* A stopped client is quiet for ever: stop() clears the map timers first and then
\* makes the outstanding requests fail, and none of their handlers sets a timer.
THEOREM StoppedIsQuiet == Spec => []StopIsQuiet
<1>1. StopInv => StopIsQuiet
  BY DEF StopInv
<1> QED BY <1>1, StopInit, StopNext, PTL DEF Spec

-----------------------------------------------------------------------------
(***************************************************************************)
(* Every change is shown.                                                  *)
(***************************************************************************)

\* ShownOrScheduled with the types its induction needs.
ShownInv == emitting \in Nat /\ closing \in BOOLEAN /\ ShownOrScheduled

LEMMA ShownInit == Init => ShownInv
<1> SUFFICES ASSUME Init PROVE ShownInv
  OBVIOUS
<1>1. static # NoMap => shown = static.grid
  <2>1. ASSUME static = [seq |-> 0, grid |-> GridAt(0)], shown = GridAt(0)
        PROVE  shown = static.grid
    BY <2>1
  <2> QED BY <2>1 DEF Init
<1>2. emitting = 0 /\ closing = FALSE
  BY DEF Init
<1> QED BY <1>1, <1>2 DEF ShownInv, ShownOrScheduled

LEMMA ShownNext == ShownInv /\ [Next]_vars => ShownInv'
<1> SUFFICES ASSUME ShownInv, [Next]_vars PROVE ShownInv'
  OBVIOUS
<1> USE TicksAssumption DEF ShownInv, ShownOrScheduled
<1>1. CASE UNCHANGED <<closing, static, shown, emitting>>
  BY <1>1
<1>2. ASSUME NEW m, IngestStaticMap(m), UNCHANGED closing PROVE ShownInv'
  BY <1>2 DEF IngestStaticMap
<1>3. CASE Stop
  BY <1>3 DEF Stop
<1>4. ASSUME NEW i \in 1..MaxSeq, NEW j \in 1..MaxSeq, DisplayMap(i, j) PROVE ShownInv'
  <2>1. CASE ScheduleMapEmit
    <3>1. emitting' \in Nat /\ emitting' > 0
      BY <2>1 DEF ScheduleMapEmit
    <3> QED BY <1>4, <3>1 DEF DisplayMap
  <2>2. CASE UNCHANGED <<static, emitting>>
    BY <1>1, <1>4, <2>2 DEF DisplayMap
  <2> QED BY <1>4, <2>1, <2>2 DEF DisplayMap
<1>5. ASSUME NEW n \in 0..MaxSeq, MapReply(n) PROVE ShownInv'
  BY <1>2, <1>5 DEF MapReply
<1>6. CASE EmitFires
  BY <1>2, <1>6 DEF EmitFires
<1>7. CASE Tick
  <2>1. emitting' \in Nat /\ (emitting > 0 => emitting' > 0)
    BY <1>7 DEF Tick, Less
  <2> QED BY <1>7, <2>1 DEF Tick
<1>8. CASE Connect \/ Opens \/ PeerCloses \/ Drop \/ StateChange \/ HostRefresh
  BY <1>1, <1>8 DEF Connect, Opens, PeerCloses, Drop, StateChange, HostRefresh, map
<1>9. ASSUME NEW c \in Cells, Draw(c) PROVE ShownInv'
  BY <1>1, <1>9 DEF Draw, map
<1>10. CASE GuardEnds \/ RetryFires \/ RequestTimeout
  BY <1>1, <1>10 DEF GuardEnds, RetryFires, RequestTimeout, map
<1>11. CASE UNCHANGED vars
  BY <1>1, <1>11 DEF vars, map
<1> QED BY <1>3, <1>4, <1>5, <1>6, <1>7, <1>8, <1>9, <1>10, <1>11 DEF Next

\* A grid that an update changed is shown, or its re-emission is pending, for any
\* grid and any delays, across losses, drops and fetches.
THEOREM ChangesAreShown == Spec => []ShownOrScheduled
<1>1. ShownInv => ShownOrScheduled
  BY DEF ShownInv
<1> QED BY <1>1, ShownInit, ShownNext, PTL DEF Spec

-----------------------------------------------------------------------------
(***************************************************************************)
(* The asking goes on.                                                     *)
(***************************************************************************)

\* A request of _requestMap's own is outstanding.
AutoAsked == \E i \in DOMAIN asked : asked[i] = "auto"

\* While the guard window lasts, the request that opened it is still outstanding.
GuardAsks == guard > 0 /\ ~fresh /\ ~disturbed => AutoAsked

\* AsksUndisturbed with what its induction needs: the guard that makes RetryFires
\* ask nothing stands for a request, and a scheduled retry has a delay.
AskInv ==
  /\ guard \in Nat /\ retry \in Nat /\ retryIndex \in 0..Len(RetryTicks)
  /\ StopInv
  /\ GuardAsks
  /\ AsksUndisturbed

LEMMA MinOfTwo ==
  ASSUME NEW a \in Nat, NEW b \in Nat
  PROVE  Min({a, b}) \in {a, b} /\ Min({a, b}) <= a /\ Min({a, b}) <= b
<1>1. \E x \in {a, b} : \A y \in {a, b} : x <= y
  BY a <= b \/ b <= a
<1> QED BY <1>1 DEF Min

\* _scheduleMapRetry leaves a timer, unless the map is fresh or the client stopped.
LEMMA RetryScheduled ==
  ASSUME retryIndex \in 0..Len(RetryTicks), NEW pending \in Nat, ScheduleMapRetry(pending)
  PROVE  /\ retry' \in Nat /\ retryIndex' \in 0..Len(RetryTicks)
         /\ fresh \/ closing' \/ retry' > 0
<1>1. Len(RetryTicks) \in Nat \ {0}
  BY TicksAssumption, EmptySeq
<1>2. /\ Min({retryIndex + 1, Len(RetryTicks)}) \in 1..Len(RetryTicks)
  BY <1>1, MinOfTwo
<1>3. \A i \in 1..Len(RetryTicks) : RetryTicks[i] \in Nat \ {0}
  BY TicksAssumption
<1> QED BY <1>2, <1>3 DEF ScheduleMapRetry

\* What _requestMap keeps: it finds a request outstanding, makes one, or is
\* disturbed.
LEMMA RequestAsks ==
  ASSUME AskInv, NEW l, NEW pending \in Nat, RequestMap(l, pending),
         UNCHANGED <<fresh, closing>>
  PROVE  /\ guard' \in Nat /\ retry' \in Nat /\ retryIndex' \in 0..Len(RetryTicks)
         /\ GuardAsks'
         /\ fresh \/ disturbed' \/ AutoAsked'
<1> USE DEF AskInv
<1>1. CASE guard > 0
  BY <1>1 DEF RequestMap, GuardAsks, AutoAsked
<1>2. CASE guard' = GuardTicks /\ ScheduleMapRetry(pending) /\ disturbed' = TRUE
  BY <1>2, RetryScheduled, TicksAssumption DEF GuardAsks
<1>3. CASE /\ guard' = GuardTicks
           /\ asked' = Append(asked, "auto")
           /\ retry' = pending
           /\ UNCHANGED <<retryIndex, age, disturbed>>
  <2>1. AutoAsked'
    <3>1. asked'[Len(asked) + 1] = "auto" /\ Len(asked) + 1 \in DOMAIN asked'
      BY <1>3 DEF StopInv
    <3> QED BY <3>1 DEF AutoAsked
  <2> QED BY <1>3, <2>1, TicksAssumption DEF GuardAsks
<1> QED BY <1>1, <1>2, <1>3 DEF RequestMap

\* What a failure keeps: a request of _requestMap's own that fails outside its
\* guard window schedules a retry; the others stay.
LEMMA FailAsks ==
  ASSUME AskInv, NEW n \in 0..Len(asked), NEW g \in Nat, NEW left \in Nat,
         Fail(n, g, left), fresh' = fresh,
         guard' = g, g = 0 \/ g = guard, left = retry \/ closing'
  PROVE  /\ retry' \in Nat /\ retryIndex' \in 0..Len(RetryTicks)
         /\ GuardAsks'
         /\ ~closing' /\ ~fresh /\ ~disturbed' /\ (retry > 0 \/ AutoAsked)
             => retry' > 0 \/ AutoAsked'
<1> USE DEF AskInv
<1>1. asked \in Seq({"auto", "host"}) /\ asked' = SubSeq(asked, n + 1, Len(asked))
  BY DEF StopInv, Fail
<1>2. CASE \E i \in 1..n : asked[i] = "auto"
  <2>1. ScheduleMapRetry(left) /\ disturbed' = (disturbed \/ g > 0)
    BY <1>2 DEF Fail
  <2> QED BY <2>1, RetryScheduled DEF GuardAsks
<1>3. CASE ~ \E i \in 1..n : asked[i] = "auto"
  <2>1. retry' = left /\ UNCHANGED <<retryIndex, disturbed>>
    BY <1>3 DEF Fail
  <2>2. AutoAsked => AutoAsked'
    <3> SUFFICES ASSUME NEW i \in 1..Len(asked), asked[i] = "auto" PROVE AutoAsked'
      BY <1>1 DEF AutoAsked
    <3>1. i > n
      BY <1>3
    <3>2. i - n \in 1..Len(asked') /\ asked'[i - n] = asked[i]
      BY <1>1, <3>1
    <3>3. DOMAIN asked' = 1..Len(asked')
      BY <1>1, Remaining
    <3>4. asked'[i - n] = "auto"
      BY <3>2
    <3> QED BY <3>2, <3>3, <3>4 DEF AutoAsked
  <2> QED BY <2>1, <2>2 DEF GuardAsks
<1> QED BY <1>2, <1>3

LEMMA AskInit == Init => AskInv
<1> SUFFICES ASSUME Init PROVE AskInv
  OBVIOUS
<1>1. StopInv
  BY StopInit
<1>2. guard = 0 /\ retry = 0 /\ retryIndex = 0 /\ link = "down"
  BY DEF Init
<1>3. Len(RetryTicks) \in Nat
  BY TicksAssumption
<1> QED BY <1>1, <1>2, <1>3 DEF AskInv, GuardAsks, AsksUndisturbed

LEMMA AskNext == AskInv /\ [Next]_vars => AskInv'
<1> SUFFICES ASSUME AskInv, [Next]_vars PROVE AskInv'
  OBVIOUS
<1>1. StopInv'
  BY StopNext DEF AskInv
<1> USE DEF AskInv
<1>2. (closing => link = "down") /\ (closing' => link' = "down")
  BY <1>1 DEF StopInv
<1>3. CASE /\ UNCHANGED <<guard, retry, retryIndex, asked, fresh, disturbed>>
           /\ link = "down" => link' = "down"
  BY <1>1, <1>3 DEF GuardAsks, AsksUndisturbed, Asking, AutoAsked
<1>4. ASSUME NEW l, RequestMap(l, retry), UNCHANGED <<fresh, closing>> PROVE AskInv'
  BY <1>1, <1>4, RequestAsks DEF AsksUndisturbed, Asking, AutoAsked
<1>5. CASE Connect
  BY <1>4, <1>5 DEF Connect, map
<1>6. CASE Opens \/ PeerCloses
  BY <1>3, <1>6 DEF Opens, PeerCloses, timing, map
<1>7. CASE Drop
  <2>1. Len(asked) \in 0..Len(asked)
    BY DEF StopInv
  <2>2. /\ retry' \in Nat /\ retryIndex' \in 0..Len(RetryTicks) /\ GuardAsks'
    BY <1>7, <2>1, FailAsks DEF Drop, map
  <2> QED BY <1>1, <1>7, <2>2 DEF Drop, AsksUndisturbed
<1>8. CASE Stop
  <2>1. Len(asked) \in 0..Len(asked)
    BY DEF StopInv
  <2>2. /\ retry' \in Nat /\ retryIndex' \in 0..Len(RetryTicks) /\ GuardAsks'
    BY <1>8, <2>1, FailAsks DEF Stop
  <2> QED BY <1>1, <1>8, <2>2 DEF Stop, AsksUndisturbed
<1>9. CASE StateChange
  BY <1>4, <1>9 DEF StateChange, map
<1>10. CASE HostRefresh
  <2>1. AutoAsked => AutoAsked'
    <3> SUFFICES ASSUME NEW i \in DOMAIN asked, asked[i] = "auto" PROVE AutoAsked'
      BY DEF AutoAsked
    <3>1. asked'[i] = "auto" /\ i \in DOMAIN asked'
      BY <1>10 DEF HostRefresh, StopInv
    <3> QED BY <3>1 DEF AutoAsked
  <2> QED BY <1>1, <1>10, <2>1 DEF HostRefresh, map, GuardAsks, AsksUndisturbed, Asking, AutoAsked
<1>11. ASSUME NEW i \in 1..MaxSeq, NEW j \in 1..MaxSeq, DisplayMap(i, j) PROVE AskInv'
  <2>1. CASE RequestMap(link, retry)
    BY <1>4, <1>11, <2>1 DEF DisplayMap
  <2>2. CASE UNCHANGED timing
    BY <1>3, <1>11, <2>2 DEF DisplayMap, timing
  <2> QED BY <1>11, <2>1, <2>2 DEF DisplayMap
<1>12. ASSUME NEW n \in 0..MaxSeq, MapReply(n) PROVE AskInv'
  <2>1. fresh' = TRUE /\ retry' \in Nat /\ retryIndex' \in 0..Len(RetryTicks) /\ guard' = guard
    BY <1>12 DEF MapReply, IngestStaticMap
  <2> QED BY <1>1, <2>1 DEF GuardAsks, AsksUndisturbed
<1>13. ASSUME NEW c \in Cells, Draw(c) PROVE AskInv'
  BY <1>3, <1>13 DEF Draw, timing, map
<1>14. CASE GuardEnds
  BY <1>1, <1>14 DEF GuardEnds, map, GuardAsks, AsksUndisturbed, Asking
<1>15. CASE RetryFires
  <2>1. CASE RequestMap(link, 0)
    <3>1. UNCHANGED <<fresh, closing, link>>
      BY <1>15 DEF RetryFires, map
    <3> QED BY <1>1, <2>1, <3>1, RequestAsks DEF AsksUndisturbed, Asking, AutoAsked
  <2>2. CASE /\ link = "down" \/ fresh
             /\ retry' = 0 /\ UNCHANGED <<guard, retryIndex, asked, age, disturbed>>
    BY <1>1, <1>15, <2>2 DEF RetryFires, map, GuardAsks, AutoAsked, AsksUndisturbed
  <2> QED BY <1>15, <2>1, <2>2 DEF RetryFires
<1>16. CASE EmitFires
  <2>1. fresh' = TRUE /\ UNCHANGED <<guard, retry, retryIndex>>
    BY <1>16 DEF EmitFires, IngestStaticMap, timing
  <2> QED BY <1>1, <2>1 DEF GuardAsks, AsksUndisturbed
<1>17. CASE RequestTimeout
  <2>1. asked # <<>> /\ Len(asked) \in Nat
    BY <1>17 DEF RequestTimeout, RequestDue, StopInv
  <2>2. (IF link = "up" THEN 1 ELSE Len(asked)) \in 0..Len(asked)
    BY <2>1, EmptySeq DEF StopInv
  <2>3. /\ retry' \in Nat /\ retryIndex' \in 0..Len(RetryTicks) /\ GuardAsks'
        /\ ~closing' /\ ~fresh /\ ~disturbed' /\ (retry > 0 \/ AutoAsked)
             => retry' > 0 \/ AutoAsked'
    BY <1>17, <2>2, FailAsks DEF RequestTimeout, map
  <2>4. disturbed => disturbed'
    BY <1>17 DEF RequestTimeout, Fail, StopInv
  <2> QED BY <1>1, <1>2, <1>17, <2>3, <2>4
          DEF RequestTimeout, map, AsksUndisturbed, Asking, AutoAsked
<1>18. CASE Tick
  <2>1. guard' \in Nat /\ retry' \in Nat /\ (retry > 0 => retry' > 0) /\ (guard' > 0 => guard > 0)
    BY <1>18 DEF Tick, Less
  <2> QED BY <1>1, <1>18, <2>1 DEF Tick, GuardAsks, AsksUndisturbed, Asking, AutoAsked
<1>19. CASE UNCHANGED vars
  BY <1>3, <1>19 DEF vars, timing, map
<1> QED BY <1>5, <1>6, <1>7, <1>8, <1>9, <1>10, <1>11, <1>12, <1>13, <1>14, <1>15, <1>16,
           <1>17, <1>18, <1>19 DEF Next

\* As long as no request fails before its guard window is over, a connected client
\* without a fresh map is asking for one or will, for any guard, any timeouts, any
\* retry delays and any number of requests.
THEOREM AskingGoesOn == Spec => []AsksUndisturbed
<1>1. AskInv => AsksUndisturbed
  BY DEF AskInv
<1> QED BY <1>1, AskInit, AskNext, PTL DEF Spec
-----------------------------------------------------------------------------
(***************************************************************************)
(* Types.                                                                  *)
(***************************************************************************)

Delays == {0} \cup UNION {0..RetryTicks[i] : i \in DOMAIN RetryTicks}

\* The parts of TypeOK that change together.
TimersTyped ==
  /\ guard \in 0..GuardTicks /\ retry \in Delays /\ retryIndex \in 0..Len(RetryTicks)
  /\ disturbed \in BOOLEAN

AskedTyped ==
  asked \in Seq({"auto", "host"}) /\ Len(asked) <= MaxRequests /\ age \in 0..RequestTicks

DrawnTyped == drawn \in Seq(Cells) /\ Len(drawn) <= MaxSeq

\* TypeOK with what its induction needs: a re-emission only waits when there is a map
\* to emit.
MapTypeInv ==
  /\ link \in {"down", "early", "up", "closing"} /\ closing \in BOOLEAN
  /\ TimersTyped /\ AskedTyped /\ DrawnTyped
  /\ emitting \in 0..EmitTicks
  /\ static \in [seq: 0..MaxSeq, grid: [Cells -> 0..MaxSeq]] \cup {NoMap}
  /\ shown \in [Cells -> 0..MaxSeq] \cup {NoMap}
  /\ fresh \in BOOLEAN /\ fetched \in BOOLEAN
  /\ emitting > 0 => static # NoMap

\* A bounded set of numbers has a largest one.
LEMMA MaxIs ==
  ASSUME NEW n \in Nat, NEW S, S \subseteq 0..n, S # {}
  PROVE  Max(S) \in S
<1> DEFINE D == {n - s : s \in S}
<1>1. D \subseteq Nat /\ D # {}
  <2>1. \A s \in S : n - s \in Nat
    OBVIOUS
  <2> QED BY <2>1
<1>2. PICK m \in S : \A s \in S : ~(<<n - s, n - m>> \in OpToRel(<, Nat))
  <2>1. PICK d \in D : \A e \in D : ~(<<e, d>> \in OpToRel(<, Nat))
    BY <1>1, NatLessThanWellFounded, WFMin
  <2> QED BY <2>1
<1>3. \A s \in S : s \in Int /\ n - s \in Nat
  OBVIOUS
<1>4. ASSUME NEW s \in S PROVE m >= s
  <2>1. m \in Int /\ n - m \in Nat /\ s \in Int /\ n - s \in Nat
    BY <1>3
  <2>2. <<n - s, n - m>> \notin OpToRel(<, Nat)
    BY <1>2
  <2>3. ~(n - s < n - m)
    BY <2>1, <2>2 DEF OpToRel
  <2> QED BY <2>1, <2>3
<1>5. m \in S /\ \A s \in S : m >= s
  BY <1>4
<1> QED BY <1>5 DEF Max

\* The robot's grid at any time shows changes it has made.
LEMMA GridTyped ==
  ASSUME DrawnTyped, NEW n \in 0..Len(drawn)
  PROVE  GridAt(n) \in [Cells -> 0..MaxSeq]
<1>1. ASSUME NEW c \in Cells PROVE Max({0} \cup {i \in 1..n : drawn[i] = c}) \in 0..MaxSeq
  <2> DEFINE S == {0} \cup {i \in 1..n : drawn[i] = c}
  <2>1. S \subseteq 0..MaxSeq /\ S # {} /\ MaxSeq \in Nat
    BY MapAssumption DEF DrawnTyped
  <2> HIDE DEF S
  <2>2. Max(S) \in S
    BY <2>1, MaxIs
  <2> QED BY <2>1, <2>2 DEF S
<1> QED BY <1>1 DEF GridAt

\* _scheduleMapRetry sets a delay of the list.
LEMMA RetryTyped ==
  ASSUME retryIndex \in 0..Len(RetryTicks), NEW pending \in Delays, ScheduleMapRetry(pending)
  PROVE  retry' \in Delays /\ retryIndex' \in 0..Len(RetryTicks)
<1>1. Len(RetryTicks) \in Nat \ {0}
  BY TicksAssumption, EmptySeq
<1>2. Min({retryIndex + 1, Len(RetryTicks)}) \in 1..Len(RetryTicks)
  BY <1>1, MinOfTwo
<1>3. \A i \in 1..Len(RetryTicks) : RetryTicks[i] \in Delays
  <2>1. \A i \in 1..Len(RetryTicks) :
          i \in DOMAIN RetryTicks /\ RetryTicks[i] \in 0..RetryTicks[i]
    BY TicksAssumption
  <2> QED BY <2>1 DEF Delays
<1> HIDE DEF Delays
<1> QED BY <1>2, <1>3 DEF ScheduleMapRetry

LEMMA RequestTyped ==
  ASSUME TimersTyped, AskedTyped, NEW l, NEW pending \in Delays, RequestMap(l, pending)
  PROVE  TimersTyped' /\ AskedTyped'
<1>1. GuardTicks \in 0..GuardTicks /\ MaxRequests \in Nat
  BY TicksAssumption, MapAssumption
<1>2. CASE guard > 0
  BY <1>2 DEF RequestMap, TimersTyped, AskedTyped
<1>3. CASE /\ guard' = GuardTicks /\ ScheduleMapRetry(pending) /\ disturbed' = TRUE
           /\ UNCHANGED <<asked, age>>
  BY <1>1, <1>3, RetryTyped DEF TimersTyped, AskedTyped
<1>4. CASE /\ guard' = GuardTicks /\ Len(asked) < MaxRequests
           /\ asked' = Append(asked, "auto") /\ retry' = pending
           /\ UNCHANGED <<retryIndex, age, disturbed>>
  <2>1. asked' \in Seq({"auto", "host"}) /\ Len(asked') <= MaxRequests
    BY <1>1, <1>4 DEF AskedTyped
  <2> QED BY <1>1, <1>4, <2>1 DEF TimersTyped, AskedTyped
<1> QED BY <1>2, <1>3, <1>4 DEF RequestMap

LEMMA FailTyped ==
  ASSUME TimersTyped, AskedTyped, NEW n \in 0..Len(asked), NEW g, NEW left \in Delays,
         Fail(n, g, left), guard' \in 0..GuardTicks
  PROVE  TimersTyped' /\ AskedTyped'
<1>1. AskedTyped'
  <2>1. asked \in Seq({"auto", "host"}) /\ Len(asked) \in Nat /\ Len(asked) <= MaxRequests
    BY DEF AskedTyped
  <2>2. asked' = SubSeq(asked, n + 1, Len(asked)) /\ age' = 0
    BY DEF Fail
  <2>3. asked' \in Seq({"auto", "host"})
    BY <2>1, <2>2, Remaining
  <2>4. Len(asked') = Len(asked) - n
    BY <2>1, <2>2
  <2> QED BY <2>1, <2>2, <2>3, <2>4, TicksAssumption, MapAssumption DEF AskedTyped
<1>2. CASE \E i \in 1..n : asked[i] = "auto"
  <2>1. ScheduleMapRetry(left) /\ disturbed' = (disturbed \/ g > 0)
    BY <1>2 DEF Fail
  <2>2. disturbed' \in BOOLEAN
    BY <2>1
  <2> QED BY <1>1, <2>1, <2>2, RetryTyped DEF TimersTyped
<1>3. CASE ~ \E i \in 1..n : asked[i] = "auto"
  <2>1. retry' = left /\ UNCHANGED <<retryIndex, disturbed>>
    BY <1>3 DEF Fail
  <2> QED BY <1>1, <2>1 DEF TimersTyped
<1> QED BY <1>2, <1>3

LEMMA MapTypeInit == Init => MapTypeInv
<1> SUFFICES ASSUME Init PROVE MapTypeInv
  OBVIOUS
<1>1. /\ drawn = <<>> /\ asked = <<>> /\ Len(<<>>) = 0 /\ <<>> \in Seq(Cells)
      /\ <<>> \in Seq({"auto", "host"})
  BY DEF Init
<1>2. TimersTyped
  <2>1. RetryTicks \in Seq(Nat) /\ Len(RetryTicks) \in Nat /\ GuardTicks \in Nat
    BY TicksAssumption
  <2>2. 0 \in Delays
    BY DEF Delays
  <2>3. 0 \in 0..GuardTicks /\ 0 \in 0..Len(RetryTicks)
    BY <2>1
  <2>4. guard = 0 /\ retry = 0 /\ retryIndex = 0 /\ disturbed = FALSE
    BY DEF Init
  <2>5. disturbed \in BOOLEAN
    BY <2>4
  <2> QED BY <2>2, <2>3, <2>4, <2>5 DEF TimersTyped
<1>3. AskedTyped
  <2>1. 0 <= MaxRequests /\ age = 0 /\ 0 \in 0..RequestTicks
    BY TicksAssumption, MapAssumption DEF Init
  <2> QED BY <1>1, <2>1 DEF AskedTyped
<1>4. DrawnTyped
  <2>1. 0 <= MaxSeq
    BY MapAssumption
  <2> QED BY <1>1, <2>1 DEF DrawnTyped
<1>5. 0 \in 0..Len(drawn) /\ 0 \in 0..MaxSeq
  BY <1>1, MapAssumption
<1>6. GridAt(0) \in [Cells -> 0..MaxSeq]
  BY <1>4, <1>5, GridTyped
<1>7. link = "down" /\ closing = FALSE /\ emitting = 0 /\ fresh = FALSE /\ fetched = FALSE
  BY DEF Init
<1>8. /\ static \in [seq: 0..MaxSeq, grid: [Cells -> 0..MaxSeq]] \cup {NoMap}
      /\ shown \in [Cells -> 0..MaxSeq] \cup {NoMap}
  BY <1>5, <1>6 DEF Init
<1>9. closing \in BOOLEAN /\ fresh \in BOOLEAN /\ fetched \in BOOLEAN
  BY <1>7
<1>10. emitting \in 0..EmitTicks /\ ~(emitting > 0)
  BY <1>7, TicksAssumption
<1> QED BY <1>2, <1>3, <1>4, <1>7, <1>8, <1>9, <1>10 DEF MapTypeInv


LEMMA MapTypeNext == MapTypeInv /\ [Next]_vars => MapTypeInv'
<1> SUFFICES ASSUME MapTypeInv, [Next]_vars PROVE MapTypeInv'
  OBVIOUS
<1>0. TimersTyped /\ AskedTyped /\ DrawnTyped /\ retry \in Delays /\ 0 \in Delays
  BY DEF MapTypeInv, TimersTyped, Delays
<1>00. /\ GuardTicks \in Nat /\ RequestTicks \in Nat /\ EmitTicks \in Nat \ {0}
       /\ MaxRequests \in Nat /\ MaxSeq \in Nat /\ Len(asked) \in Nat /\ Len(drawn) \in Nat
  BY <1>0, TicksAssumption, MapAssumption DEF AskedTyped, DrawnTyped
\* What is left when the timers and requests are typed.
<1>1. ASSUME UNCHANGED <<map, drawn>>, TimersTyped', AskedTyped',
             link' \in {"down", "early", "up", "closing"}, closing' \in BOOLEAN
      PROVE  MapTypeInv'
  BY <1>1 DEF MapTypeInv, DrawnTyped, map
<1>2. ASSUME UNCHANGED timing PROVE TimersTyped' /\ AskedTyped'
  BY <1>0, <1>2 DEF TimersTyped, AskedTyped, timing
<1>3. CASE Connect \/ StateChange
  <2>1. /\ RequestMap(link', retry) \/ RequestMap(link, retry)
        /\ UNCHANGED <<closing, map, drawn>> /\ link' \in {link, "up", "early"}
    BY <1>3 DEF Connect, StateChange
  <2>2. TimersTyped' /\ AskedTyped'
    BY <1>0, <2>1, RequestTyped
  <2> QED BY <1>1, <2>1, <2>2 DEF MapTypeInv
<1>4. CASE Opens \/ PeerCloses
  <2>1. /\ UNCHANGED <<closing, timing, map, drawn>> /\ link' \in {"up", "closing"}
    BY <1>4 DEF Opens, PeerCloses
  <2> QED BY <1>1, <1>2, <2>1 DEF MapTypeInv
<1>5. CASE Drop
  <2>1. /\ Fail(Len(asked), guard, retry) /\ link' = "down"
        /\ UNCHANGED <<closing, guard, map, drawn>>
    BY <1>5 DEF Drop
  <2>2. guard' \in 0..GuardTicks /\ Len(asked) \in 0..Len(asked)
    BY <1>0, <1>00, <2>1 DEF TimersTyped
  <2>3. TimersTyped' /\ AskedTyped'
    BY <1>0, <2>1, <2>2, FailTyped
  <2> QED BY <1>1, <2>1, <2>3 DEF MapTypeInv
<1>6. CASE Stop
  <2>1. /\ Fail(Len(asked), 0, 0) /\ link' = "down" /\ closing' = TRUE /\ guard' = 0
        /\ emitting' = 0 /\ UNCHANGED <<static, shown, fresh, fetched, drawn>>
    BY <1>6 DEF Stop
  <2>2. guard' \in 0..GuardTicks /\ Len(asked) \in 0..Len(asked)
    BY <1>00, <2>1
  <2>3. TimersTyped' /\ AskedTyped'
    BY <1>0, <2>1, <2>2, FailTyped
  <2> QED BY <1>00, <2>1, <2>3 DEF MapTypeInv, DrawnTyped
<1>7. ASSUME NEW i \in 1..MaxSeq, NEW j \in 1..MaxSeq, DisplayMap(i, j) PROVE MapTypeInv'
  <2>1. j \in 0..Len(drawn) /\ UNCHANGED <<link, closing, shown, fresh, fetched, drawn>>
    BY <1>7, <1>00 DEF DisplayMap
  <2>2. CASE UpdateVerdict(i, j) = "gap"
    <3>1. RequestMap(link, retry) /\ UNCHANGED <<static, emitting>>
      BY <1>7, <2>2 DEF DisplayMap
    <3>2. TimersTyped' /\ AskedTyped'
      BY <1>0, <3>1, RequestTyped
    <3> QED BY <2>1, <3>1, <3>2 DEF MapTypeInv, DrawnTyped
  <2>3. CASE UpdateVerdict(i, j) = "applied"
    <3>1. static' = Applied(i, j) /\ ScheduleMapEmit /\ UNCHANGED timing
      BY <1>7, <2>3 DEF DisplayMap
    <3>2. static # NoMap
      BY <2>3 DEF UpdateVerdict
    <3>3. GridAt(j) \in [Cells -> 0..MaxSeq]
      BY <1>0, <2>1, GridTyped
    <3>4. static.grid \in [Cells -> 0..MaxSeq]
      BY <3>2 DEF MapTypeInv
    <3>5. Applied(i, j) \in [seq: 0..MaxSeq, grid: [Cells -> 0..MaxSeq]]
      BY <3>3, <3>4 DEF Applied
    <3>6. static' # NoMap
      <4>1. Applied(i, j) \in [seq: Nat, grid: [Cells -> Nat]]
        <5>1. 0..MaxSeq \subseteq Nat
          BY <1>00
        <5>2. Applied(i, j) = [seq |-> Applied(i, j).seq, grid |-> Applied(i, j).grid]
          BY <3>5
        <5>3. Applied(i, j).seq \in Nat /\ Applied(i, j).grid \in [Cells -> Nat]
          BY <3>5, <5>1
        <5> QED BY <5>2, <5>3
      <4> QED BY <3>1, <4>1, MapAssumption
    <3>7. emitting' \in 0..EmitTicks
      BY <1>00, <3>1 DEF ScheduleMapEmit, MapTypeInv
    <3>8. TimersTyped' /\ AskedTyped'
      BY <1>2, <3>1
    <3> QED BY <2>1, <3>1, <3>5, <3>6, <3>7, <3>8 DEF MapTypeInv, DrawnTyped
  <2>4. CASE UpdateVerdict(i, j) = "stale"
    <3>1. UNCHANGED <<static, emitting, timing>>
      BY <1>7, <2>4 DEF DisplayMap
    <3>2. TimersTyped' /\ AskedTyped'
      BY <1>2, <3>1
    <3> QED BY <2>1, <3>1, <3>2 DEF MapTypeInv, DrawnTyped
  <2> QED BY <2>2, <2>3, <2>4 DEF UpdateVerdict
<1>8. ASSUME NEW n \in 0..MaxSeq, MapReply(n) PROVE MapTypeInv'
  <2>1. /\ asked # <<>> /\ n <= Len(drawn) /\ asked' = Tail(asked) /\ age' = 0
        /\ static' = [seq |-> n, grid |-> GridAt(n)] /\ shown' = GridAt(n)
        /\ emitting' = 0 /\ fresh' = TRUE /\ fetched' = TRUE
        /\ UNCHANGED <<link, closing, guard, disturbed, drawn>>
        /\ \/ retry' = 0 /\ retryIndex' = 0
           \/ UNCHANGED <<retry, retryIndex>>
    BY <1>8 DEF MapReply, IngestStaticMap
  <2>2. GridAt(n) \in [Cells -> 0..MaxSeq]
    BY <1>0, <1>00, <2>1, GridTyped
  <2>3. AskedTyped'
    <3>1. asked \in Seq({"auto", "host"}) /\ Len(asked) <= MaxRequests
      BY <1>0 DEF AskedTyped
    <3>2. asked' \in Seq({"auto", "host"}) /\ Len(asked') = Len(asked) - 1
      BY <2>1, <3>1, HeadTailProperties
    <3> QED BY <1>00, <2>1, <3>1, <3>2 DEF AskedTyped
  <2>4. TimersTyped'
    BY <1>0, <1>00, <2>1 DEF TimersTyped
  <2> QED BY <1>00, <2>1, <2>2, <2>3, <2>4 DEF MapTypeInv, DrawnTyped
<1>9. CASE HostRefresh
  <2>1. /\ Len(asked) < MaxRequests /\ asked' = Append(asked, "host")
        /\ UNCHANGED <<link, closing, guard, retry, retryIndex, age, disturbed, map, drawn>>
    BY <1>9 DEF HostRefresh
  <2>2. asked' \in Seq({"auto", "host"}) /\ Len(asked') <= MaxRequests
    BY <1>0, <1>00, <2>1 DEF AskedTyped
  <2>3. TimersTyped' /\ AskedTyped'
    BY <1>0, <2>1, <2>2 DEF TimersTyped, AskedTyped
  <2> QED BY <1>1, <2>1, <2>3 DEF MapTypeInv
<1>10. ASSUME NEW c \in Cells, Draw(c) PROVE MapTypeInv'
  <2>1. /\ Len(drawn) < MaxSeq /\ drawn' = Append(drawn, c)
        /\ UNCHANGED <<link, closing, timing, map>>
    BY <1>10 DEF Draw
  <2>2. DrawnTyped'
    BY <1>0, <1>00, <2>1 DEF DrawnTyped
  <2>3. TimersTyped' /\ AskedTyped'
    BY <1>2, <2>1
  <2> QED BY <2>1, <2>2, <2>3 DEF MapTypeInv, map
<1>11. CASE GuardEnds
  <2>1. /\ guard' = 0
        /\ UNCHANGED <<link, closing, retry, retryIndex, asked, age, disturbed, map, drawn>>
    BY <1>11 DEF GuardEnds
  <2>2. TimersTyped' /\ AskedTyped'
    BY <1>0, <1>00, <2>1 DEF TimersTyped, AskedTyped
  <2> QED BY <1>1, <2>1, <2>2 DEF MapTypeInv
<1>12. CASE RetryFires
  <2>1. UNCHANGED <<link, closing, map, drawn>>
    BY <1>12 DEF RetryFires
  <2>2. TimersTyped' /\ AskedTyped'
    <3>1. CASE RequestMap(link, 0)
      BY <1>0, <3>1, RequestTyped
    <3>2. CASE retry' = 0 /\ UNCHANGED <<guard, retryIndex, asked, age, disturbed>>
      BY <1>0, <3>2 DEF TimersTyped, AskedTyped
    <3> QED BY <1>12, <3>1, <3>2 DEF RetryFires
  <2> QED BY <1>1, <2>1, <2>2 DEF MapTypeInv
<1>13. CASE EmitFires
  <2>1. /\ emitting = 1 /\ static' = static /\ fresh' = TRUE /\ emitting' = 0
        /\ shown' = static.grid
        /\ UNCHANGED <<link, closing, timing, fetched, drawn>>
    BY <1>13 DEF EmitFires, IngestStaticMap
  <2>2. static.grid \in [Cells -> 0..MaxSeq]
    BY <2>1 DEF MapTypeInv
  <2>3. TimersTyped' /\ AskedTyped'
    BY <1>2, <2>1
  <2> QED BY <1>00, <2>1, <2>2, <2>3 DEF MapTypeInv, DrawnTyped
<1>14. CASE RequestTimeout
  <2>1. /\ asked # <<>> /\ UNCHANGED <<link, closing, guard, map, drawn>>
        /\ Fail(IF link = "up" THEN 1 ELSE Len(asked), guard, retry)
    BY <1>14 DEF RequestTimeout, RequestDue
  <2>2. (IF link = "up" THEN 1 ELSE Len(asked)) \in 0..Len(asked)
    <3>1. Len(asked) # 0
      BY <1>0, <2>1, EmptySeq DEF AskedTyped
    <3> QED BY <1>00, <3>1
  <2>3. guard' \in 0..GuardTicks
    BY <1>0, <2>1 DEF TimersTyped
  <2>4. TimersTyped' /\ AskedTyped'
    BY <1>0, <2>1, <2>2, <2>3, FailTyped
  <2> QED BY <1>1, <2>1, <2>4 DEF MapTypeInv
<1>15. CASE Tick
  <2>1. /\ ~RequestDue /\ guard' = Less(guard) /\ retry' = Less(retry)
        /\ emitting' = Less(emitting) /\ age' = IF asked # <<>> THEN age + 1 ELSE 0
        /\ UNCHANGED <<link, closing, retryIndex, asked, disturbed, static, shown, fresh,
                       fetched, drawn>>
    BY <1>15 DEF Tick
  <2>2. \A n \in Nat : \A t \in 0..n : Less(t) \in 0..n /\ Less(t) <= t
    BY DEF Less
  <2>3. Less(retry) \in Delays
    <3>1. CASE retry = 0
      BY <3>1, <1>0 DEF Less
    <3>2. CASE retry # 0
      <4>1. PICK i \in DOMAIN RetryTicks : retry \in 0..RetryTicks[i]
        BY <1>0, <3>2 DEF Delays
      <4>2. RetryTicks[i] \in Nat
        BY TicksAssumption
      <4>3. Less(retry) \in 0..RetryTicks[i]
        BY <2>2, <4>1, <4>2
      <4> QED BY <4>3 DEF Delays
    <3> QED BY <3>1, <3>2
  <2>4. TimersTyped'
    BY <1>0, <1>00, <2>1, <2>2, <2>3 DEF TimersTyped
  <2>5. AskedTyped'
    BY <1>0, <1>00, <2>1 DEF AskedTyped, RequestDue
  <2>6. emitting \in 0..EmitTicks /\ emitting' \in 0..EmitTicks /\ emitting' <= emitting
    BY <1>00, <2>1, <2>2 DEF MapTypeInv
  <2>7. emitting' > 0 => static' # NoMap
    BY <1>00, <2>1, <2>6 DEF MapTypeInv
  <2> QED BY <2>1, <2>4, <2>5, <2>6, <2>7 DEF MapTypeInv, DrawnTyped
<1>16. CASE UNCHANGED vars
  <2>1. UNCHANGED <<link, closing, timing, map, drawn>>
    BY <1>16 DEF vars
  <2> QED BY <1>1, <1>2, <2>1 DEF MapTypeInv
<1> QED
  BY <1>3, <1>4, <1>5, <1>6, <1>7, <1>8, <1>9, <1>10, <1>11, <1>12, <1>13, <1>14, <1>15,
     <1>16 DEF Next

\* Every variable keeps its type, and the timer of _scheduleMapEmit never fires
\* without a map to emit (NarwalClient.js:318-323), for any grid, delays and bounds.
THEOREM MapTyped == Spec => [](TypeOK /\ (emitting > 0 => static # NoMap))
<1>1. MapTypeInv => TypeOK /\ (emitting > 0 => static # NoMap)
  BY DEF MapTypeInv, TypeOK, TimersTyped, AskedTyped, DrawnTyped, Delays
<1> QED BY <1>1, MapTypeInit, MapTypeNext, PTL DEF Spec
=============================================================================
