------------------------- MODULE DeviceReport_proofs -------------------------
(***************************************************************************)
(* What the client makes of the robot's statuses, for any readings, rooms  *)
(* and suctions and any number of messages, choices and new clients: the   *)
(* merged status does not contradict itself, and a chosen suction is kept. *)
(* And what the device makes of them, of however many reports at once.     *)
(***************************************************************************)
EXTENDS DeviceReport, FiniteSetTheorems, TLAPS

USE NullAssumption

States == {"idle", "docked", "cleaning", "paused", "returning", "error", "unknown"}
Tiles == {"cleaning", "docked", "stopped"}

\* The types of the merged fields that agree with one another.
Typed(s) == s.state \in States /\ s.homey \in Tiles /\ s.docked \in {TRUE, FALSE, Null}

\* DockAgrees and ChosenKept with the types their induction needs.
MergeInv ==
  /\ last # Null => Typed(last)
  /\ DockAgrees
  /\ ChosenKept

-----------------------------------------------------------------------------
(***************************************************************************)
(* The reports.                                                            *)
(***************************************************************************)

\* Of a report that is merged: it knows about charging exactly when it knows
\* about the dock, it keeps a docked robot out of rooms, and its tile goes with
\* its state unless both are the previous ones.
Sound(p) ==
  /\ Typed(p)
  /\ p.charging = TRUE => p.docked = TRUE
  /\ p.charging = Null <=> p.docked = Null
  /\ p.docked = TRUE => p.room = Null
  /\ p.docked = Null /\ Previous.docked = TRUE => p.room \in {Null, "kept"}
  /\ \/ p.state = "unknown" /\ last # Null
     \/ p.state = "cleaning" <=> p.homey = "cleaning"
  /\ p.state = "returning" =>
       p.docked # TRUE /\ (Previous.docked = TRUE /\ p.docked = Null => last.state = "returning")

\* The codes, flags and dock evidence of a base status.
LEMMA BaseFacts ==
  ASSUME NEW m \in BaseMessages
  PROVE  /\ BaseState(m) \in States
         /\ Docked(m) \in {TRUE, FALSE, Null}
         /\ BaseState(m) = "cleaning" => Docked(m) # TRUE
         /\ BaseState(m) = "returning" => Docked(m) # TRUE
         /\ m.dock \in {"on", "off", "silent"}
<1>1. /\ m.dock \in {"on", "off", "silent"} /\ m.flag \in {"none", "paused", "returning"}
      /\ m.flag = "returning" => m.dock = "off"
  BY DEF BaseMessages
<1>2. MapRobotState(m) \in States
  BY <1>1, Zenon DEF MapRobotState, States
<1>3. MapRobotState(m) = "returning" => m.flag = "returning" \/ m.code = "completed"
  BY <1>1 DEF MapRobotState
<1>4. BaseState(m) \in States
  BY <1>2 DEF BaseState, States
<1>5. Docked(m) \in {TRUE, FALSE, Null}
  BY DEF Docked
<1>6. BaseState(m) = "returning" => Docked(m) # TRUE
  BY <1>1, <1>3 DEF BaseState, Docked
<1>7. BaseState(m) = "cleaning" => Docked(m) # TRUE
  BY DEF Docked
<1> QED
  BY <1>1, <1>4, <1>5, <1>6, <1>7

LEMMA BaseSound ==
  ASSUME MergeInv, NEW p \in BaseReports
  PROVE  Sound(StillDocked(p))
<1>1. PICK m \in BaseMessages : p = FromBase(m)
  BY DEF BaseReports
<1>2. /\ p.state = BaseState(m) /\ p.docked = Docked(m) /\ p.charging = Charging(m)
      /\ p.homey = IF BaseState(m) = "cleaning" THEN "cleaning"
                   ELSE IF Docked(m) = TRUE THEN "docked" ELSE "stopped"
      /\ p.room = IF Docked(m) = TRUE THEN Null ELSE "kept"
  BY <1>1 DEF FromBase
<1>3. /\ p.state \in States /\ p.docked \in {TRUE, FALSE, Null} /\ p.homey \in Tiles
      /\ p.state \in {"cleaning", "returning"} => p.docked # TRUE
      /\ p.state = "cleaning" <=> p.homey = "cleaning"
      /\ p.docked = TRUE => p.room = Null
      /\ p.docked = Null => p.room = "kept"
  BY <1>2, BaseFacts DEF Tiles
<1>4. /\ p.charging = TRUE => p.docked = TRUE
      /\ p.charging = Null <=> p.docked = Null
  <2>1. CASE Docked(m) = TRUE
    <3>1. Charging(m) \in BOOLEAN
      BY <2>1 DEF Charging
    <3> QED
      BY <1>2, <2>1, <3>1
  <2>2. CASE Docked(m) # TRUE
    <3>1. Charging(m) = Docked(m)
      BY <2>2 DEF Charging
    <3> QED
      BY <1>2, <2>2, <3>1
  <2> QED
    BY <2>1, <2>2
<1>5. CASE Previous.docked = TRUE /\ p.docked = Null /\ p.state = "returning"
  <2>1. last # Null /\ Previous = last
    BY <1>5 DEF Previous
  <2> DEFINE q == StillDocked(p)
  <2>2. /\ q.state = last.state /\ q.homey = last.homey /\ q.docked = Null
        /\ q.charging = Null /\ q.room = "kept"
    BY <1>1, <1>3, <1>4, <1>5, <2>1 DEF StillDocked, FromBase
  <2>3. Typed(last) /\ (last.state = "cleaning" <=> last.homey = "cleaning")
    BY <2>1 DEF MergeInv, DockAgrees
  <2> HIDE DEF q
  <2>4. Sound(q)
    BY <1>5, <2>1, <2>2, <2>3 DEF Sound, Typed
  <2> QED
    BY <2>4 DEF q
<1>6. CASE ~(Previous.docked = TRUE /\ p.docked = Null /\ p.state = "returning")
  <2>1. StillDocked(p) = p
    BY <1>6 DEF StillDocked
  <2>2. Sound(p)
    BY <1>3, <1>4, <1>6 DEF Sound, Typed
  <2> QED
    BY <2>1, <2>2
<1> QED
  BY <1>5, <1>6

LEMMA WorkingSound ==
  ASSUME MergeInv, NEW p \in WorkingReports
  PROVE  Sound(OnlyMetrics(p))
<1>1. PICK m \in WorkingMessages : p = FromWorking(m)
  BY DEF WorkingReports
<1>2. /\ p.docked = Null /\ p.charging = Null /\ p.state \in {"cleaning", "unknown"}
      /\ p.homey \in {"cleaning", "stopped"}
      /\ p.state = "cleaning" <=> p.homey = "cleaning"
  <2> DEFINE busy == Active(m)
  <2>1. /\ p.docked = Null /\ p.charging = Null
        /\ p.state = IF busy THEN "cleaning" ELSE "unknown"
        /\ p.homey = IF busy THEN "cleaning" ELSE "stopped"
    BY <1>1 DEF FromWorking
  <2> HIDE DEF busy
  <2> QED
    BY <2>1
<1>3. CASE Previous.docked = TRUE
  <2>1. last # Null
    BY <1>3 DEF Previous
  <2> DEFINE q == OnlyMetrics(p)
  <2>2. /\ q.state = "unknown" /\ q.homey = p.homey /\ q.docked = Null
        /\ q.charging = Null /\ q.room = Null
    BY <1>1, <1>2, <1>3 DEF OnlyMetrics, FromWorking
  <2> HIDE DEF q
  <2>3. Sound(q)
    BY <1>2, <2>1, <2>2 DEF Sound, Typed, States, Tiles
  <2> QED
    BY <2>3 DEF q
<1>4. CASE Previous.docked # TRUE
  <2>1. OnlyMetrics(p) = p
    BY <1>4 DEF OnlyMetrics
  <2>2. Sound(p)
    BY <1>2, <1>4 DEF Sound, Typed, States, Tiles
  <2> QED
    BY <2>1, <2>2
<1> QED
  BY <1>3, <1>4

LEMMA UpgradeSound == Sound(FromUpgrade)
BY DEF Sound, FromUpgrade, Typed, States, Tiles

-----------------------------------------------------------------------------
(***************************************************************************)
(* The steps.                                                              *)
(***************************************************************************)

\* A sound report leaves a status that agrees with itself, and does not send a
\* docked robot back to returning.
LEMMA IngestKeeps ==
  ASSUME MergeInv, NEW p, Sound(p), Ingest(p)
  PROVE  /\ MergeInv' /\ Typed(last')
         /\ last # Null /\ last.docked = TRUE /\ last'.docked = TRUE
              => (last'.state = "returning" => last.state = "returning")
<1> DEFINE s == Merged(p)
<1>1. /\ last'.state = s.state /\ last'.homey = s.homey /\ last'.docked = s.docked
      /\ last'.charging = s.charging /\ last'.room = s.room
  BY DEF Ingest, Emitted, Merged
<1>2. ChosenKept'
  BY DEF MergeInv, ChosenKept, Ingest, StillPending, Learned
<1>3. /\ s.state = IF p.state = "unknown" THEN Or(Previous.state, "unknown") ELSE p.state
      /\ s.homey = IF p.state = "unknown" THEN Or(Previous.homey, p.homey) ELSE p.homey
      /\ s.docked = Or(p.docked, Previous.docked)
      /\ s.charging = Or(p.charging, Previous.charging)
      /\ s.room = IF p.room = "kept" THEN Previous.room ELSE p.room
  BY DEF Merged
<1> HIDE DEF s
<1>4. CASE last = Null
  <2>1. /\ Previous.state = Null /\ Previous.homey = Null /\ Previous.docked = Null
        /\ Previous.charging = Null /\ Previous.room = Null
    BY <1>4 DEF Previous
  <2>2. /\ s.state = p.state /\ s.homey = p.homey /\ s.docked = p.docked
        /\ s.charging = p.charging /\ (p.docked = TRUE => s.room = Null)
    BY <1>3, <2>1 DEF Sound, Or
  <2>3. Typed(last') /\ DockAgrees'
    BY <1>1, <1>4, <2>2 DEF Sound, Typed, DockAgrees
  <2> QED
    BY <1>2, <1>4, <2>3 DEF MergeInv
<1>5. CASE last # Null
  <2>1. /\ Previous = last /\ Typed(last)
        /\ last.charging = TRUE => last.docked = TRUE
        /\ last.docked = TRUE => last.room = Null
        /\ last.state = "cleaning" <=> last.homey = "cleaning"
    BY <1>5 DEF MergeInv, DockAgrees, Previous
  <2>2. /\ last.state # Null /\ last.homey # Null
    BY <2>1 DEF Typed, States, Tiles
  <2>3. /\ s.state = IF p.state = "unknown" THEN last.state ELSE p.state
        /\ s.homey = IF p.state = "unknown" THEN last.homey ELSE p.homey
    BY <1>3, <2>1, <2>2 DEF Or
  <2>4. /\ s.docked = IF p.docked = Null THEN last.docked ELSE p.docked
        /\ s.charging = IF p.docked = Null THEN last.charging ELSE p.charging
    BY <1>3, <2>1 DEF Or, Sound
  <2>5. Typed(last')
    BY <1>1, <2>1, <2>3, <2>4 DEF Sound, Typed
  <2>6. last'.charging = TRUE => last'.docked = TRUE
    BY <1>1, <2>1, <2>4 DEF Sound
  <2>7. last'.docked = TRUE => last'.room = Null
    BY <1>1, <1>3, <2>1, <2>4 DEF Sound
  <2>8. last'.state = "cleaning" <=> last'.homey = "cleaning"
    BY <1>1, <2>1, <2>3 DEF Sound
  <2>9. last.docked = TRUE /\ last'.docked = TRUE
          => (last'.state = "returning" => last.state = "returning")
    BY <1>1, <2>1, <2>3, <2>4 DEF Sound, Typed
  <2> QED
    BY <1>2, <2>5, <2>6, <2>7, <2>8, <2>9 DEF MergeInv, DockAgrees
<1> QED
  BY <1>4, <1>5

\* The step of NotUndone.
StaysHome ==
  last # Null /\ last' # Null /\ last.docked = TRUE /\ last'.docked = TRUE
    => (last'.state = "returning" => last.state = "returning")

LEMMA MergeNext == MergeInv /\ [Next]_vars => MergeInv' /\ StaysHome
<1> SUFFICES ASSUME MergeInv, [Next]_vars PROVE MergeInv' /\ StaysHome
  OBVIOUS
<1>1. ASSUME UNCHANGED client PROVE MergeInv' /\ StaysHome
  BY <1>1 DEF client, MergeInv, DockAgrees, ChosenKept, StaysHome
<1>2. CASE BaseStatus
  <2>1. PICK p \in BaseReports : Ingest(StillDocked(p))
    BY <1>2 DEF BaseStatus, Message
  <2> QED
    BY <2>1, BaseSound, IngestKeeps DEF StaysHome
<1>3. CASE WorkingStatus
  <2>1. PICK p \in WorkingReports : Ingest(OnlyMetrics(p))
    BY <1>3 DEF WorkingStatus, Message
  <2> QED
    BY <2>1, WorkingSound, IngestKeeps DEF StaysHome
<1>4. CASE UpgradeStatus
  <2>1. Ingest(FromUpgrade)
    BY <1>4 DEF UpgradeStatus, Message
  <2> QED
    BY <2>1, UpgradeSound, IngestKeeps DEF StaysHome
<1>5. CASE SetFanSpeed
  <2>1. PICK speed \in Suctions : ChooseSuction(speed)
    BY <1>5 DEF SetFanSpeed
  <2>2. last' = last /\ (pending' = Null \/ pending' = fanSpeed')
    BY <2>1 DEF ChooseSuction
  <2> QED
    BY <2>2 DEF MergeInv, DockAgrees, ChosenKept, StaysHome
<1>6. CASE Restart
  BY <1>6 DEF Restart, NewClient, MergeInv, DockAgrees, ChosenKept, StaysHome
<1>7. CASE Apply \/ Fire \/ Handled \/ UNCHANGED vars
  BY <1>1, <1>7 DEF Apply, Fire, Handled, vars
<1>8. CASE (\E text \in LinkTexts : OnLink(text)) \/ LinkShown \/ TextShown
  BY <1>1, <1>8 DEF OnLink, LinkShown, TextShown
<1> QED
  BY <1>2, <1>3, <1>4, <1>5, <1>6, <1>7, <1>8 DEF Next

LEMMA MergeStarts == Init => MergeInv
BY DEF Init, MergeInit, MergeInv, DockAgrees, ChosenKept

-----------------------------------------------------------------------------
(***************************************************************************)
(* The device: handlers that overlap, of statuses and of the link. It      *)
(* remembers the status it handles last, although older ones are still     *)
(* being handled; and a report on its own is either being written by the   *)
(* only handler that writes, or shown.                                     *)
(***************************************************************************)

\* The call of a handler; those of the link fire no triggers of statuses.
IsCall(c) ==
  /\ c = [at |-> c.at, report |-> c.report, todo |-> c.todo]
  /\ c.at \in {"linking", "wording"} => c.todo = {}

Calls == DOMAIN handler = Handlers /\ \A h \in Handlers : IsCall(handler[h])

\* A handler's call becomes c.
GoesOn(h, c) == handler' = [handler EXCEPT ![h] = c]

\* The handlers that still fire a trigger.
Owing(k) == {h \in Handlers : k \in handler[h].todo}

Owes == \A k \in DOMAIN owed : owed[k] = Cardinality(Owing(k))

\* What of the shown values a status decides.
Shows(s) == \A f \in Shown \ {"fan"} : (f # "room" => s[f] # Null) => caps[f] = s[f]

\* A status on its own: being written, or shown while at most the end of an
\* outage is written, which has nothing to take away.
StatusStands ==
  alone.kind = "status" =>
    /\ alone.report.state \in States
    /\ \/ \E h \in Handlers :
            Writing = {h} /\ handler[h].at = "storing" /\ handler[h].report = alone.report
       \/ /\ Shows(alone.report)
          /\ \A h \in Writing : handler[h].at = "linking" /\ handler[h].report = "Connected"

\* What the tile tells of the link.
LinkTold(text) ==
  caps.connected = Up(text) /\ (text = "Disconnected" <=> caps.state = "Disconnected")

\* An outage or its end on its own: being written, or told.
LinkStands ==
  \A text \in LinkTexts : alone.kind = text =>
    \/ \E h \in Handlers :
         /\ Writing = {h} /\ handler[h].report = text
         /\ \/ handler[h].at = "linking"
            \/ handler[h].at = "wording" /\ caps.connected = Up(text)
    \/ Writing = {} /\ LinkTold(text)

ReportInv ==
  /\ Calls
  /\ DOMAIN caps = Shown \cup {"connected"}
  /\ last # Null => \A f \in DOMAIN NoStatus : prev[f] = last[f]
  /\ Owes
  /\ StatusStands /\ LinkStands

\* What becomes of the handlers when one call goes on.
LEMMA CallGoesOn ==
  ASSUME Calls, NEW h \in Handlers, NEW c, IsCall(c), GoesOn(h, c)
  PROVE  /\ Calls'
         /\ handler'[h] = c
         /\ \A g \in Handlers \ {h} : handler'[g] = handler[g]
         /\ Writing' = IF c.at \in {"storing", "linking", "wording"}
                         THEN Writing \cup {h} ELSE Writing \ {h}
         /\ \A k : Owing(k)' = IF k \in c.todo THEN Owing(k) \cup {h} ELSE Owing(k) \ {h}
<1>1. /\ DOMAIN handler' = Handlers /\ \A g \in Handlers \ {h} : handler'[g] = handler[g]
      /\ handler'[h] = c
  BY DEF Calls, GoesOn
<1>2. Calls'
  BY <1>1 DEF Calls
<1>3. Writing' = IF c.at \in {"storing", "linking", "wording"}
                   THEN Writing \cup {h} ELSE Writing \ {h}
  BY <1>1 DEF Writing
<1>4. \A k : Owing(k)' = IF k \in c.todo THEN Owing(k) \cup {h} ELSE Owing(k) \ {h}
  BY <1>1 DEF Owing
<1> QED
  BY <1>1, <1>2, <1>3, <1>4

LEMMA OwingFinite == \A k : IsFiniteSet(Owing(k)) /\ Cardinality(Owing(k)) \in Nat
<1> SUFFICES ASSUME NEW k PROVE IsFiniteSet(Owing(k)) /\ Cardinality(Owing(k)) \in Nat
  OBVIOUS
<1>1. Owing(k) \in SUBSET Handlers
  BY DEF Owing
<1>2. IsFiniteSet(Owing(k))
  BY <1>1, ReportConstants, FS_Subset
<1> QED
  BY <1>2, FS_CardinalityType

\* Triggers depend on what the device remembers of a status.
LEMMA SameTriggers ==
  ASSUME NEW from, NEW known, NEW s, \A f \in DOMAIN NoStatus : from[f] = known[f]
  PROVE  Triggers(from, s) = Triggers(known, s)
<1>1. /\ from.state = known.state /\ from.docked = known.docked
      /\ from.charging = known.charging /\ from.battery = known.battery
  BY DEF NoStatus
<1>2. LifecycleTriggers(from, s) = LifecycleTriggers(known, s)
  BY <1>1 DEF LifecycleTriggers
<1>3. ChangeTriggers(from, s) = ChangeTriggers(known, s)
  BY <1>1 DEF ChangeTriggers
<1> QED
  BY <1>2, <1>3 DEF Triggers

\* A status starts a handler, which owes what the change calls for.
LEMMA OnStatusReports ==
  ASSUME ReportInv, NEW s, Typed(s), OnStatus(s), last' = s
  PROVE  ReportInv'
<1> DEFINE due == Triggers(prev, s)
<1>1. PICK h \in Handlers :
        handler[h] = Unused /\ GoesOn(h, [at |-> "storing", report |-> s, todo |-> due])
  BY DEF OnStatus, Handle, GoesOn
<1> DEFINE call == [at |-> "storing", report |-> s, todo |-> due]
<1> HIDE DEF due
<1>2. /\ Calls'
      /\ handler'[h].at = "storing" /\ handler'[h].report = s
      /\ Writing' = Writing \cup {h}
      /\ \A k : Owing(k)' = IF k \in due THEN Owing(k) \cup {h} ELSE Owing(k) \ {h}
  <2>1. IsCall(call) /\ call.todo = due /\ call.at = "storing" /\ call.report = s
    BY DEF IsCall
  <2>2. GoesOn(h, call)
    BY <1>1
  <2> HIDE DEF call
  <2> QED
    BY <2>1, <2>2, CallGoesOn DEF ReportInv
<1>3. \A f \in DOMAIN NoStatus : prev'[f] = last'[f]
  BY DEF OnStatus, Remembered
<1>4. ASSUME NEW k \in DOMAIN owed' PROVE owed'[k] = Cardinality(Owing(k)')
  <2>1. k \in DOMAIN owed /\ owed[k] = Cardinality(Owing(k))
    BY <1>4 DEF OnStatus, ReportInv, Owes
  <2>2. Triggers(IF last = Null THEN prev ELSE last, s) = due
    BY SameTriggers DEF ReportInv, due
  <2>3. owed'[k] = owed[k] + IF k \in due THEN 1 ELSE 0
    BY <2>1, <2>2 DEF OnStatus
  <2>4. h \notin Owing(k)
    BY <1>1 DEF Owing, Unused
  <2>5. Owing(k)' = IF k \in due THEN Owing(k) \cup {h} ELSE Owing(k)
    BY <1>2, <2>4
  <2>6. Cardinality(Owing(k) \cup {h}) = Cardinality(Owing(k)) + 1
    BY <2>4, OwingFinite, FS_AddElement
  <2>7. Cardinality(Owing(k)) \in Nat
    BY OwingFinite
  <2> QED
    BY <2>1, <2>3, <2>5, <2>6, <2>7
<1>5. caps' = caps /\ alone' = Alone("status", s)
  BY DEF OnStatus
<1>6. alone'.kind # "none" => Writing = {} /\ alone' = [kind |-> "status", report |-> s]
  BY <1>5 DEF Alone, Overlapped
<1>7. StatusStands'
  <2>1. s.state \in States
    BY DEF Typed
  <2> QED
    BY <1>2, <1>6, <2>1 DEF StatusStands
<1>8. LinkStands'
  BY <1>6 DEF LinkStands, LinkTexts
<1> QED
  BY <1>2, <1>3, <1>4, <1>5, <1>7, <1>8 DEF ReportInv, Owes

\* A status that is written on its own is shown.
LEMMA ApplyReports == ReportInv /\ Apply => ReportInv'
<1> SUFFICES ASSUME ReportInv, Apply PROVE ReportInv'
  OBVIOUS
<1>1. PICK h \in Handlers :
        /\ handler[h].at = "storing"
        /\ caps' = CapsOf(handler[h].report)
        /\ handler' = [handler EXCEPT ![h].at = "firing"]
        /\ UNCHANGED <<last, prev, owed, alone>>
  BY DEF Apply, client, history
<1> DEFINE due == handler[h].todo
           told == handler[h].report
           call == [at |-> "firing", report |-> told, todo |-> due]
<1>2. GoesOn(h, call)
  <2>1. handler[h] = [at |-> handler[h].at, report |-> told, todo |-> due]
    BY DEF ReportInv, Calls, IsCall
  <2>2. [handler[h] EXCEPT !.at = "firing"] = [at |-> "firing", report |-> told, todo |-> due]
    BY <2>1
  <2> QED
    BY <1>1, <2>2 DEF GoesOn
<1> HIDE DEF due, told
<1>3. /\ Calls' /\ Writing' = Writing \ {h}
      /\ \A g \in Handlers \ {h} : handler'[g] = handler[g]
      /\ \A k : Owing(k)' = IF k \in due THEN Owing(k) \cup {h} ELSE Owing(k) \ {h}
  <2>1. IsCall(call) /\ call.todo = due /\ call.at = "firing"
    BY DEF IsCall
  <2> HIDE DEF call
  <2> QED
    BY <1>2, <2>1, CallGoesOn DEF ReportInv
<1>4. \A k : Owing(k)' = Owing(k)
  BY <1>3 DEF Owing, due
<1>5. DOMAIN caps' = Shown \cup {"connected"}
  BY <1>1 DEF CapsOf, ReportInv
<1>6. h \in Writing
  BY <1>1 DEF Writing
<1>7. StatusStands'
  <2> SUFFICES ASSUME alone'.kind = "status" PROVE StatusStands'
    BY DEF StatusStands
  <2>1. /\ alone.report.state \in States
        /\ Writing = {h} /\ told = alone.report
    BY <1>1, <1>6 DEF ReportInv, StatusStands, told
  <2>2. caps' = CapsOf(alone.report)
    BY <1>1, <2>1 DEF told
  <2>3. \A f \in Shown \ {"fan"} : f \in DOMAIN caps /\ f # "connected"
    BY DEF ReportInv, Shown
  <2>4. \A f \in Shown \ {"fan"} :
          (f # "room" => alone.report[f] # Null) => caps'[f] = alone.report[f]
    BY <2>2, <2>3 DEF CapsOf
  <2> QED
    BY <1>1, <1>3, <2>1, <2>4 DEF StatusStands, Shows
<1>8. LinkStands'
  BY <1>1, <1>6 DEF ReportInv, LinkStands
<1> QED
  BY <1>1, <1>3, <1>4, <1>5, <1>7, <1>8 DEF ReportInv, Owes

\* A trigger is fired by the handler that owed it.
LEMMA FireReports == ReportInv /\ Fire => ReportInv'
<1> SUFFICES ASSUME ReportInv, Fire PROVE ReportInv'
  OBVIOUS
<1>0. PICK h \in Handlers : \E t :
        /\ handler[h].at = "firing" /\ t \in handler[h].todo
        /\ owed' = [owed EXCEPT ![t] = @ - 1]
        /\ handler' = [handler EXCEPT ![h].todo = @ \ {t}]
        /\ UNCHANGED <<last, prev, caps, alone>>
  BY DEF Fire, client
<1>1. PICK t :
        /\ handler[h].at = "firing" /\ t \in handler[h].todo
        /\ owed' = [owed EXCEPT ![t] = @ - 1]
        /\ handler' = [handler EXCEPT ![h].todo = @ \ {t}]
        /\ UNCHANGED <<last, prev, caps, alone>>
  BY <1>0
<1> DEFINE due == handler[h].todo \ {t}
           told == handler[h].report
           call == [at |-> "firing", report |-> told, todo |-> due]
<1>2. GoesOn(h, call)
  <2>1. handler[h] = [at |-> "firing", report |-> told, todo |-> handler[h].todo]
    BY <1>1 DEF ReportInv, Calls, IsCall
  <2>2. [handler[h] EXCEPT !.todo = due] = [at |-> "firing", report |-> told, todo |-> due]
    BY <2>1
  <2> QED
    BY <1>1, <2>2 DEF GoesOn
<1>3. \A k : k \in due <=> k \in handler[h].todo /\ k # t
  OBVIOUS
<1> HIDE DEF due, told
<1>4. /\ Calls' /\ Writing' = Writing \ {h}
      /\ \A g \in Handlers \ {h} : handler'[g] = handler[g]
      /\ \A k : Owing(k)' = IF k \in due THEN Owing(k) \cup {h} ELSE Owing(k) \ {h}
  <2>1. IsCall(call) /\ call.todo = due /\ call.at = "firing"
    BY DEF IsCall
  <2> HIDE DEF call
  <2> QED
    BY <1>2, <2>1, CallGoesOn DEF ReportInv
<1>5. Writing' = Writing /\ h \notin Writing
  BY <1>1, <1>4 DEF Writing
<1>6. ASSUME NEW k \in DOMAIN owed' PROVE owed'[k] = Cardinality(Owing(k)')
  <2>1. k \in DOMAIN owed /\ owed[k] = Cardinality(Owing(k))
    BY <1>1, <1>6 DEF ReportInv, Owes
  <2>2. CASE k = t
    <3>1. h \in Owing(k) /\ Owing(k)' = Owing(k) \ {h}
      BY <1>1, <1>3, <1>4, <2>2 DEF Owing
    <3> QED
      BY <1>1, <2>1, <2>2, <3>1, OwingFinite, FS_RemoveElement
  <2>3. CASE k # t
    <3>1. Owing(k)' = Owing(k)
      BY <1>3, <1>4, <2>3 DEF Owing
    <3> QED
      BY <1>1, <2>1, <2>3, <3>1
  <2> QED
    BY <2>2, <2>3
<1>7. \A g \in Writing : g \in Handlers /\ handler'[g] = handler[g]
  BY <1>4, <1>5 DEF Writing
<1>8. StatusStands' /\ LinkStands'
  BY <1>1, <1>5, <1>7 DEF ReportInv, StatusStands, LinkStands, Shows, LinkTold
<1> QED
  BY <1>1, <1>4, <1>6, <1>8 DEF ReportInv, Owes

\* A handler that returns owes nothing.
LEMMA HandledReports == ReportInv /\ Handled => ReportInv'
<1> SUFFICES ASSUME ReportInv, Handled PROVE ReportInv'
  OBVIOUS
<1>1. PICK h \in Handlers :
        /\ handler[h].at = "firing" /\ handler[h].todo = {}
        /\ handler' = [handler EXCEPT ![h] = Unused]
        /\ UNCHANGED <<last, prev, caps, owed, alone>>
  BY DEF Handled, client, history
<1>2. /\ Calls' /\ Writing' = Writing \ {h}
      /\ \A g \in Handlers \ {h} : handler'[g] = handler[g]
      /\ \A k : Owing(k)' = Owing(k) \ {h}
  <2>1. IsCall(Unused) /\ Unused.todo = {} /\ Unused.at = "idle"
    BY DEF IsCall, Unused
  <2>2. GoesOn(h, Unused)
    BY <1>1 DEF GoesOn
  <2> QED
    BY <2>1, <2>2, CallGoesOn DEF ReportInv
<1>3. \A k : Owing(k)' = Owing(k)
  BY <1>1, <1>2 DEF Owing
<1>4. Writing' = Writing /\ \A g \in Writing : g \in Handlers /\ handler'[g] = handler[g]
  BY <1>1, <1>2 DEF Writing
<1>5. StatusStands' /\ LinkStands'
  BY <1>1, <1>4 DEF ReportInv, StatusStands, LinkStands, Shows, LinkTold
<1> QED
  BY <1>1, <1>2, <1>3, <1>5 DEF ReportInv, Owes

\* The text of a report of the link is on show, or is to be written.
LEMMA WordingTells ==
  ASSUME NEW text \in LinkTexts
  PROVE  \/ /\ Wording(text) = Unused
            /\ text = "Disconnected" <=> caps.state = "Disconnected"
         \/ Wording(text) = [at |-> "wording", report |-> text, todo |-> {}]
BY DEF LinkTexts, Wording, Worded

\* The end of an outage does not touch a status.
LEMMA WordingSpares ==
  ASSUME ReportInv, alone.kind = "status", Shows(alone.report)
  PROVE  ~Worded("Connected") /\ Wording("Connected") = Unused
<1>1. alone.report.state \in States
  BY DEF ReportInv, StatusStands
<1>2. caps.state = alone.report.state
  BY <1>1 DEF Shows, Shown, States
<1> QED
  BY <1>1, <1>2 DEF Wording, Worded, States

\* A report of the link starts a handler, unless there is nothing to write.
LEMMA OnLinkReports ==
  ASSUME ReportInv, NEW text \in LinkTexts, OnLink(text)
  PROVE  ReportInv'
<1> DEFINE call == IF caps.connected = Up(text) THEN Wording(text)
                   ELSE [at |-> "linking", report |-> text, todo |-> {}]
<1>1. PICK h \in Handlers : handler[h] = Unused /\ GoesOn(h, call)
  BY DEF OnLink, Handle, GoesOn
<1>2. UNCHANGED <<last, prev, caps, owed>>
  BY DEF OnLink, client
<1>3. /\ IsCall(call) /\ call.todo = {}
      /\ \/ /\ call.at = "idle" /\ caps.connected = Up(text)
            /\ text = "Disconnected" <=> caps.state = "Disconnected"
         \/ call.at = "wording" /\ call.report = text /\ caps.connected = Up(text)
         \/ call.at = "linking" /\ call.report = text
  BY WordingTells DEF Unused, IsCall
<1>4. alone.kind = "status" /\ Shows(alone.report) /\ text = "Connected"
        => call.at = "idle" \/ (call.at = "linking" /\ call.report = "Connected")
  BY WordingSpares DEF Unused
<1> HIDE DEF call
<1>5. /\ Calls'
      /\ handler'[h] = call
      /\ Writing' = IF call.at \in {"storing", "linking", "wording"}
                      THEN Writing \cup {h} ELSE Writing \ {h}
      /\ \A k : Owing(k)' = Owing(k) \ {h}
  BY <1>1, <1>3, CallGoesOn DEF ReportInv
<1>6. \A k : Owing(k)' = Owing(k)
  BY <1>1, <1>5 DEF Owing, Unused
<1>7. CASE text = "Connected" /\ alone.kind = "status" /\ Writing = {}
  <2>1. alone' = alone /\ Shows(alone.report)
    BY <1>7 DEF OnLink, ReportInv, StatusStands
  <2>2. \A g \in Writing' : g = h /\ call.at = "linking"
    BY <1>3, <1>4, <1>5, <1>7, <2>1
  <2>3. StatusStands'
    BY <1>2, <1>4, <1>5, <1>7, <2>1, <2>2 DEF ReportInv, StatusStands, Shows
  <2>4. LinkStands'
    BY <1>7, <2>1 DEF LinkStands, LinkTexts
  <2> QED
    BY <1>2, <1>5, <1>6, <2>3, <2>4 DEF ReportInv, Owes
<1>8. CASE ~(text = "Connected" /\ alone.kind = "status" /\ Writing = {})
  <2>1. alone' = Alone(text, Null)
    BY <1>8 DEF OnLink
  <2>2. alone'.kind \in {"none", text} /\ (alone'.kind # "none" => Writing = {})
    BY <2>1 DEF Alone, Overlapped
  <2>3. StatusStands'
    BY <2>2 DEF StatusStands, LinkTexts
  <2>4. alone'.kind = text =>
          \/ Writing' = {h}
          \/ Writing' = {} /\ call.at = "idle"
    BY <1>3, <1>5, <2>2 DEF LinkTexts
  <2>5. LinkStands'
    <3> SUFFICES ASSUME alone'.kind = text, Writing = {}
                 PROVE  \/ \E g \in Handlers :
                             /\ Writing' = {g} /\ handler'[g].report = text
                             /\ \/ handler'[g].at = "linking"
                                \/ handler'[g].at = "wording" /\ caps'.connected = Up(text)
                        \/ Writing' = {} /\ LinkTold(text)'
      BY <2>2 DEF LinkStands, LinkTexts
    <3>1. CASE call.at = "idle"
      BY <1>2, <1>3, <1>5, <3>1 DEF LinkTold
    <3>2. CASE call.at # "idle"
      BY <1>2, <1>3, <1>5, <3>2
    <3> QED
      BY <3>1, <3>2
  <2> QED
    BY <1>2, <1>5, <1>6, <2>3, <2>5 DEF ReportInv, Owes
<1> QED
  BY <1>7, <1>8

\* narwal_connected is written: a link report on its own is told, or its text is
\* to be written; a status on its own stays.
LEMMA LinkShownReports == ReportInv /\ LinkShown => ReportInv'
<1> SUFFICES ASSUME ReportInv, LinkShown PROVE ReportInv'
  OBVIOUS
<1>1. PICK h \in Handlers :
        /\ handler[h].at = "linking"
        /\ caps' = [caps EXCEPT !.connected = Up(handler[h].report)]
        /\ handler' = [handler EXCEPT ![h] = Wording(handler[h].report)]
        /\ UNCHANGED <<last, prev, owed, alone>>
  BY DEF LinkShown, client, history
<1> DEFINE text == handler[h].report
           call == Wording(text)
<1>2. /\ IsCall(call) /\ call.todo = {}
      /\ \/ call.at = "idle"
         \/ call.at = "wording" /\ call.report = text
  BY DEF Wording, Unused, IsCall
<1>3. text \in LinkTexts =>
        (call.at = "idle" => (text = "Disconnected" <=> caps.state = "Disconnected"))
  BY WordingTells
<1>4. h \in Writing
  BY <1>1 DEF Writing
<1>5. GoesOn(h, call)
  BY <1>1 DEF GoesOn
<1> HIDE DEF call
<1>6. /\ Calls'
      /\ handler'[h] = call
      /\ \A g \in Handlers \ {h} : handler'[g] = handler[g]
      /\ Writing' = IF call.at \in {"storing", "linking", "wording"}
                      THEN Writing \cup {h} ELSE Writing \ {h}
      /\ \A k : Owing(k)' = Owing(k) \ {h}
  BY <1>2, <1>5, CallGoesOn DEF ReportInv
<1>7. caps'.connected = Up(text) /\ DOMAIN caps' = DOMAIN caps
      /\ \A f \in Shown : caps'[f] = caps[f]
  BY <1>1 DEF ReportInv, Shown
<1>8. Owes'
  <2>1. \A k : k \notin handler[h].todo
    BY <1>1 DEF ReportInv, Calls, IsCall
  <2>2. \A k : Owing(k)' = Owing(k)
    BY <1>6, <2>1 DEF Owing
  <2> QED
    BY <1>1, <2>2 DEF ReportInv, Owes
<1>9. StatusStands'
  <2> SUFFICES ASSUME alone'.kind = "status" PROVE StatusStands'
    BY DEF StatusStands
  <2>1. /\ alone.report.state \in States /\ Shows(alone.report)
        /\ \A g \in Writing : handler[g].at = "linking" /\ handler[g].report = "Connected"
    BY <1>1, <1>4 DEF ReportInv, StatusStands
  <2>2. call.at = "idle"
    BY <1>1, <1>4, <2>1, WordingSpares DEF call, Unused
  <2>3. Writing' = Writing \ {h} /\ \A g \in Writing' : handler'[g] = handler[g] /\ g \in Writing
    BY <1>6, <2>2 DEF Writing
  <2>4. Shows(alone.report)'
    BY <1>1, <1>7, <2>1 DEF Shows
  <2> QED
    BY <1>1, <2>1, <2>3, <2>4 DEF StatusStands
<1>10. LinkStands'
  <2> SUFFICES ASSUME NEW t \in LinkTexts, alone'.kind = t
               PROVE  \/ \E g \in Handlers :
                           /\ Writing' = {g} /\ handler'[g].report = t
                           /\ \/ handler'[g].at = "linking"
                              \/ handler'[g].at = "wording" /\ caps'.connected = Up(t)
                      \/ Writing' = {} /\ LinkTold(t)'
    BY DEF LinkStands
  <2>1. Writing = {h} /\ text = t
    BY <1>1, <1>4 DEF ReportInv, LinkStands
  <2>2. CASE call.at = "idle"
    <3>1. Writing' = {}
      BY <1>6, <2>1, <2>2
    <3>2. "state" \in Shown
      BY DEF Shown
    <3> QED
      BY <1>3, <1>7, <2>1, <2>2, <3>1, <3>2 DEF LinkTold
  <2>3. CASE call.at = "wording"
    BY <1>2, <1>6, <1>7, <2>1, <2>3
  <2> QED
    BY <1>2, <2>2, <2>3
<1> QED
  BY <1>1, <1>6, <1>7, <1>8, <1>9, <1>10 DEF ReportInv

\* The text is written.
LEMMA TextShownReports == ReportInv /\ TextShown => ReportInv'
<1> SUFFICES ASSUME ReportInv, TextShown PROVE ReportInv'
  OBVIOUS
<1>1. PICK h \in Handlers :
        /\ handler[h].at = "wording"
        /\ caps' = [caps EXCEPT !.state = handler[h].report]
        /\ handler' = [handler EXCEPT ![h] = Unused]
        /\ UNCHANGED <<last, prev, owed, alone>>
  BY DEF TextShown, client, history
<1>2. /\ Calls' /\ Writing' = Writing \ {h}
      /\ \A k : Owing(k)' = Owing(k) \ {h}
  <2>1. IsCall(Unused) /\ Unused.todo = {} /\ Unused.at = "idle"
    BY DEF IsCall, Unused
  <2>2. GoesOn(h, Unused)
    BY <1>1 DEF GoesOn
  <2> QED
    BY <2>1, <2>2, CallGoesOn DEF ReportInv
<1>3. Owes'
  <2>1. \A k : k \notin handler[h].todo
    BY <1>1 DEF ReportInv, Calls, IsCall
  <2>2. \A k : Owing(k)' = Owing(k)
    BY <1>2, <2>1 DEF Owing
  <2> QED
    BY <1>1, <2>2 DEF ReportInv, Owes
<1>4. h \in Writing
  BY <1>1 DEF Writing
<1>5. StatusStands'
  BY <1>1, <1>4 DEF ReportInv, StatusStands
<1>6. LinkStands'
  <2> SUFFICES ASSUME NEW t \in LinkTexts, alone'.kind = t
               PROVE  Writing' = {} /\ LinkTold(t)'
    BY DEF LinkStands
  <2>1. Writing = {h} /\ handler[h].report = t /\ caps.connected = Up(t)
    BY <1>1, <1>4 DEF ReportInv, LinkStands
  <2>2. caps'.state = t /\ caps'.connected = caps.connected
    BY <1>1, <2>1 DEF ReportInv, Shown
  <2> QED
    BY <1>2, <2>1, <2>2 DEF LinkTold, Up
<1>7. DOMAIN caps' = Shown \cup {"connected"}
  BY <1>1 DEF ReportInv
<1> QED
  BY <1>1, <1>2, <1>3, <1>5, <1>6, <1>7 DEF ReportInv

\* A chosen suction does not touch what statuses are shown and compared with.
LEMMA SetFanSpeedReports == ReportInv /\ SetFanSpeed => ReportInv'
<1> SUFFICES ASSUME ReportInv, SetFanSpeed PROVE ReportInv'
  OBVIOUS
<1>1. UNCHANGED <<last, prev, handler, owed, alone>>
  BY DEF SetFanSpeed, ChooseSuction, history
<1>2. /\ DOMAIN caps' = DOMAIN caps /\ caps'.connected = caps.connected
      /\ caps'.state = caps.state /\ \A f \in Shown \ {"fan"} : caps'[f] = caps[f]
  BY DEF SetFanSpeed, ReportInv, Shown
<1>3. Writing' = Writing /\ \A k : Owing(k)' = Owing(k)
  BY <1>1 DEF Owing, Writing
<1>4. StatusStands' /\ LinkStands'
  BY <1>1, <1>2, <1>3 DEF ReportInv, StatusStands, LinkStands, Shows, LinkTold
<1> QED
  BY <1>1, <1>2, <1>3, <1>4 DEF ReportInv, Calls, Owes

\* What the device makes of reports does not depend on the rest.
LEMMA ReportStays ==
  ASSUME ReportInv, UNCHANGED <<prev, handler, caps, owed, alone>>, last' = last \/ last' = Null
  PROVE  ReportInv'
<1>1. Writing' = Writing /\ \A k : Owing(k)' = Owing(k)
  BY DEF Owing, Writing
<1>2. StatusStands' /\ LinkStands'
  BY <1>1 DEF ReportInv, StatusStands, LinkStands, Shows, LinkTold
<1> QED
  BY <1>1, <1>2 DEF ReportInv, Calls, Owes

LEMMA ReportNext == MergeInv /\ ReportInv /\ [Next]_vars => ReportInv'
<1> SUFFICES ASSUME MergeInv, ReportInv, [Next]_vars PROVE ReportInv'
  OBVIOUS
<1>1. ASSUME NEW p, Sound(p), Message(p) PROVE ReportInv'
  <2>1. Typed(last')
    BY <1>1, IngestKeeps DEF Message
  <2> QED
    BY <1>1, <2>1, OnStatusReports DEF Message
<1>2. CASE BaseStatus \/ WorkingStatus \/ UpgradeStatus
  BY <1>1, <1>2, BaseSound, WorkingSound, UpgradeSound
  DEF BaseStatus, WorkingStatus, UpgradeStatus
<1>3. CASE Apply
  BY <1>3, ApplyReports
<1>4. CASE Fire
  BY <1>4, FireReports
<1>5. CASE Handled
  BY <1>5, HandledReports
<1>6. CASE \E text \in LinkTexts : OnLink(text)
  BY <1>6, OnLinkReports
<1>7. CASE LinkShown
  BY <1>7, LinkShownReports
<1>8. CASE TextShown
  BY <1>8, TextShownReports
<1>9. CASE SetFanSpeed
  BY <1>9, SetFanSpeedReports
<1>10. CASE Restart
  BY <1>10, ReportStays DEF Restart, NewClient, history
<1>11. CASE UNCHANGED vars
  BY <1>11, ReportStays DEF vars, client, history
<1> QED
  BY <1>2, <1>3, <1>4, <1>5, <1>6, <1>7, <1>8, <1>9, <1>10, <1>11 DEF Next

LEMMA ReportStarts == Init => ReportInv
<1> SUFFICES ASSUME Init PROVE ReportInv
  OBVIOUS
<1>1. last = Null /\ handler = [h \in Handlers |-> Unused] /\ alone = Overlapped
  BY DEF Init, MergeInit
<1>2. Calls /\ DOMAIN caps = Shown \cup {"connected"}
  BY <1>1 DEF Init, Calls, IsCall, Unused
<1>3. \A k : Owing(k) = {}
  BY <1>1 DEF Owing, Unused
<1>4. Owes
  BY <1>3, FS_EmptySet DEF Init, Owes
<1>5. StatusStands /\ LinkStands
  BY <1>1 DEF StatusStands, LinkStands, LinkTexts, Overlapped
<1> QED
  BY <1>1, <1>2, <1>4, <1>5 DEF ReportInv

-----------------------------------------------------------------------------
(***************************************************************************)
(* The theorems.                                                           *)
(***************************************************************************)

\* _ingestBinaryStatus: dock, charging, room, tile and state agree, whatever
\* statuses are merged in whatever order (NarwalClient.js:487).
THEOREM StatusAgrees == Spec => []DockAgrees
<1>1. MergeInv => DockAgrees
  BY DEF MergeInv
<1> QED
  BY <1>1, MergeStarts, MergeNext, PTL DEF Spec

\* setFanSpeed: the suction that waits is the one the next clean is started with
\* (NarwalClient.js:510).
THEOREM SuctionIsKept == Spec => []ChosenKept
<1>1. MergeInv => ChosenKept
  BY DEF MergeInv
<1> QED
  BY <1>1, MergeStarts, MergeNext, PTL DEF Spec

\* _ingestBinaryStatus: a robot that stays docked does not start returning
\* (NarwalClient.js:483).
THEOREM DockedStaysDocked == Spec => NotUndone
<1>1. MergeInv /\ [Next]_vars
        => [(last # Null /\ last' # Null /\ last.docked = TRUE /\ last'.docked = TRUE)
              => (last'.state = "returning" => last.state = "returning")]_client
  BY MergeNext DEF StaysHome
<1> QED
  BY <1>1, MergeStarts, MergeNext, PTL DEF Spec, NotUndone

\* Every change between consecutive statuses fires its trigger once, although
\* statuses come in while older ones are still being handled
\* (NarwalHomeyDevice.js:366), for any number of handlers at once.
THEOREM TriggersOnce == Spec => []OncePerChange
<1>1. ReportInv => OncePerChange
  BY DEF ReportInv, Owes, OncePerChange, Owing
<1> QED
  BY <1>1, MergeStarts, MergeNext, ReportStarts, ReportNext, PTL DEF Spec

\* A report that is written on its own is what the tile shows until the next one,
\* statuses, outages and the ends of outages alike (NarwalHomeyDevice.js:552,
\* 562), whatever overlapped before it and however many handlers there are.
THEOREM LatestIsShown == Spec => []ShowsLatest
<1>1. ReportInv => ShowsLatest
  BY DEF ReportInv, StatusStands, LinkStands, Shows, LinkTold, LinkTexts, Up, ShowsLatest
<1> QED
  BY <1>1, MergeStarts, MergeNext, ReportStarts, ReportNext, PTL DEF Spec
=============================================================================
