----------------------------- MODULE DeviceReport -----------------------------
(***************************************************************************)
(* What lib/NarwalHomeyDevice.js makes of the client's statuses            *)
(* (StatusMerge) and of its 'connected' and 'disconnected': capability     *)
(* values and Flow triggers. Every report is handled by an async function  *)
(* of its own and these overlap. _onStatus waits for a store write, then   *)
(* for its capability writes, then fires its triggers one by one;          *)
(* _onConnected and _onDisconnected write narwal_connected and then the    *)
(* text of narwal_status, which statuses write as well.                    *)
(*                                                                         *)
(* How long Homey takes for a write or a trigger is anybody's guess, and   *)
(* those of different handlers end in any order. Writes do not fail.       *)
(***************************************************************************)
EXTENDS StatusMerge, Sequences, FiniteSets, Functions

CONSTANTS
  MaxMessages,  \* how many messages, choices and new clients there are
  Handlers      \* identities of handler calls; recycled once they return

ASSUME ReportConstants == MaxMessages \in Nat /\ IsFiniteSet(Handlers)

VARIABLES
  prev,      \* _prev
  handler,   \* each call: how far, with which report, what it still fires
  caps,      \* the capability values; "state" is the text of narwal_status
  owed,      \* history: triggers called for by consecutive statuses, not fired
  alone,     \* history: the latest report, of a kind if it was written on its own
  steps

history == <<owed, alone>>
vars == <<client, prev, handler, caps, history, steps>>

TriggerOrder ==
  <<"started_cleaning", "resumed", "paused", "stopped", "returned_to_dock", "docked",
    "undocked", "cleaning_completed", "battery_level_changed", "charging_state_changed">>

Unused == [at |-> "idle", report |-> Null, todo |-> {}]

\* _prev of a device that has seen no status
NoStatus == [state |-> Null, docked |-> Null, charging |-> Null, battery |-> Null]

\* The capabilities a status is written to.
Shown == {"state", "homey", "docked", "charging", "battery", "fan", "room"}

Overlapped == [kind |-> "none", report |-> Null]

\* What _onConnected and _onDisconnected write of the link.
LinkTexts == {"Connected", "Disconnected"}

Init ==
  /\ MergeInit
  /\ prev = NoStatus /\ steps = 0
  /\ handler = [h \in Handlers |-> Unused]
  /\ caps = [f \in Shown \cup {"connected"} |-> Null]
  /\ owed = [k \in Range(TriggerOrder) |-> 0] /\ alone = Overlapped

-----------------------------------------------------------------------------
(* Which triggers a change of status calls for.                            *)

\* Cleaning, pausing, stopping and coming home.
LifecycleTriggers(from, s) ==
  {k \in {"started_cleaning", "resumed", "paused", "stopped", "returned_to_dock"} :
     CASE k = "started_cleaning" -> s.state = "cleaning" /\ from.state \notin {"cleaning", "paused"}
       [] k = "resumed" -> s.state = "cleaning" /\ from.state = "paused"
       [] k = "paused" -> s.state = "paused" /\ from.state # "paused"
       [] k = "stopped" -> s.state = "idle" /\ from.state \in {"cleaning", "paused"}
       [] k = "returned_to_dock" -> s.state = "docked" /\ from.state = "returning"}

\* Those that need something to compare with.
ChangeTriggers(from, s) ==
  {k \in {"docked", "undocked", "cleaning_completed", "battery_level_changed",
          "charging_state_changed"} :
     /\ from.state # Null
     /\ CASE k = "docked" -> s.docked = TRUE /\ from.docked = FALSE
          [] k = "undocked" -> s.docked = FALSE /\ from.docked = TRUE
          [] k = "cleaning_completed" ->
               s.state = "docked" /\ from.state \in {"cleaning", "paused", "returning"}
                 /\ s.worked = TRUE
          [] k = "battery_level_changed" -> s.battery \notin {Null, from.battery}
          [] k = "charging_state_changed" -> s.charging \notin {Null, from.charging}}

\* _fireStatusTriggers: what a status fires, in TriggerOrder.
Triggers(from, s) == LifecycleTriggers(from, s) \cup ChangeTriggers(from, s)

-----------------------------------------------------------------------------
(* Handling a status.                                                      *)

\* The bug of comparing statuses that overlap with the same earlier one.
RememberedIfIdle(s) == IF \A h \in Handlers : handler[h] = Unused THEN s ELSE prev

\* _onStatus records the status it compares the next one with.
Remembered(s) == [f \in DOMAIN NoStatus |-> s[f]]

\* The handlers that have capabilities to write.
Writing == {h \in Handlers : handler[h].at \in {"storing", "linking", "wording"}}

\* A report that comes now is on its own if no other one is being written.
Alone(kind, report) ==
  IF Writing = {} THEN [kind |-> kind, report |-> report] ELSE Overlapped

\* A report gets a handler of its own.
Handle(call) ==
  \E h \in Handlers : handler[h] = Unused /\ handler' = [handler EXCEPT ![h] = call]

\* _onStatus up to its first await.
OnStatus(s) ==
  /\ Handle([at |-> "storing", report |-> s, todo |-> Triggers(prev, s)])
  /\ prev' = Remembered(s)
  /\ owed' = [k \in DOMAIN owed |-> owed[k] +
                IF k \in Triggers(IF last = Null THEN prev ELSE last, s) THEN 1 ELSE 0]
  /\ alone' = Alone("status", s)
  /\ UNCHANGED caps

Message(p) == steps < MaxMessages /\ steps' = steps + 1 /\ Ingest(p) /\ OnStatus(last')

BaseStatus == \E p \in BaseReports : Message(StillDocked(p))
WorkingStatus == \E p \in WorkingReports : Message(OnlyMetrics(p))
UpgradeStatus == Message(FromUpgrade)

\* The bug of skipping every value that is not truthy.
CapsIfTruthy(s) ==
  [f \in DOMAIN caps |->
     IF \/ f = "connected"
        \/ f # "room" /\ (s[f] = Null \/ (f \in {"docked", "charging"} /\ s[f] # TRUE))
     THEN caps[f] ELSE s[f]]

\* _applyStatusToCapabilities leaves alone what is not known; the room is
\* cleared when there is none.
CapsOf(s) ==
  [f \in DOMAIN caps |->
     IF f = "connected" \/ (f # "room" /\ s[f] = Null) THEN caps[f] ELSE s[f]]

\* The store write of a status ends, and then its capability writes.
Apply ==
  \E h \in Handlers :
    /\ handler[h].at = "storing"
    /\ caps' = CapsOf(handler[h].report)
    /\ handler' = [handler EXCEPT ![h].at = "firing"]
    /\ UNCHANGED <<client, prev, history, steps>>

\* A handler fires its next trigger; the handlers do not wait for one another.
Fire ==
  \E h \in Handlers, i \in 1..Len(TriggerOrder) :
    /\ handler[h].at = "firing" /\ TriggerOrder[i] \in handler[h].todo
    /\ \A j \in 1..(i - 1) : TriggerOrder[j] \notin handler[h].todo
    /\ owed' = [owed EXCEPT ![TriggerOrder[i]] = @ - 1]
    /\ handler' = [handler EXCEPT ![h].todo = @ \ {TriggerOrder[i]}]
    /\ UNCHANGED <<client, prev, caps, alone, steps>>

\* _onStatus returns.
Handled ==
  \E h \in Handlers :
    /\ handler[h].at = "firing" /\ handler[h].todo = {}
    /\ handler' = [handler EXCEPT ![h] = Unused]
    /\ UNCHANGED <<client, prev, caps, history, steps>>

-----------------------------------------------------------------------------
(* Handling the link.                                                      *)

\* The bug of an answer that always puts its text over the status.
AlwaysWorded(text) == caps.state # text

\* Whether the text is to be written: that of an outage unless it is on show, that
\* of its end only where the outage is on show.
Worded(text) ==
  IF text = "Connected" THEN caps.state = "Disconnected" ELSE caps.state # text

\* The second half of both handlers. What they do next is left out.
Wording(text) ==
  IF Worded(text) THEN [at |-> "wording", report |-> text, todo |-> {}] ELSE Unused

Up(text) == text = "Connected"

\* _onConnected or _onDisconnected, which write this text. One client's reports
\* alternate (LinkPromise), the next client starts over: a 'connected' need not
\* follow an outage, and then it changes nothing of the status on show.
OnLink(text) ==
  /\ steps < MaxMessages /\ steps' = steps + 1
  /\ Handle(IF caps.connected = Up(text) THEN Wording(text)
            ELSE [at |-> "linking", report |-> text, todo |-> {}])
  /\ alone' = IF text = "Connected" /\ alone.kind = "status" /\ Writing = {}
                THEN alone ELSE Alone(text, Null)
  /\ UNCHANGED <<client, prev, caps, owed>>

\* narwal_connected is written, and the text is looked at.
LinkShown ==
  \E h \in Handlers :
    /\ handler[h].at = "linking"
    /\ caps' = [caps EXCEPT !.connected = Up(handler[h].report)]
    /\ handler' = [handler EXCEPT ![h] = Wording(handler[h].report)]
    /\ UNCHANGED <<client, prev, history, steps>>

\* The text is written.
TextShown ==
  \E h \in Handlers :
    /\ handler[h].at = "wording"
    /\ caps' = [caps EXCEPT !.state = handler[h].report]
    /\ handler' = [handler EXCEPT ![h] = Unused]
    /\ UNCHANGED <<client, prev, history, steps>>

-----------------------------------------------------------------------------

\* The device's setFanSpeed shows what the client made of the choice, unless the
\* robot was asked to take it now and refused.
SetFanSpeed ==
  /\ steps < MaxMessages /\ steps' = steps + 1
  /\ \E speed \in Suctions :
       /\ ChooseSuction(speed)
       /\ \/ caps' = [caps EXCEPT !.fan = fanSpeed']
          \/ TakesSuction /\ UNCHANGED caps
  /\ UNCHANGED <<prev, handler, history>>

\* The client is replaced; the handlers of the old one's statuses run on.
Restart ==
  /\ steps < MaxMessages /\ steps' = steps + 1
  /\ NewClient(caps.fan)
  /\ UNCHANGED <<prev, handler, caps, history>>

Next ==
  \/ BaseStatus \/ WorkingStatus \/ UpgradeStatus
  \/ Apply \/ Fire \/ Handled
  \/ \E text \in LinkTexts : OnLink(text)
  \/ LinkShown \/ TextShown
  \/ SetFanSpeed \/ Restart

Spec == Init /\ [][Next]_vars

-----------------------------------------------------------------------------
(* Properties.                                                             *)

\* Every change between consecutive statuses fires its trigger once, although
\* statuses come in while older ones are still being handled
\* (NarwalHomeyDevice.js:366).
OncePerChange ==
  \A k \in DOMAIN owed :
    owed[k] = Cardinality({h \in Handlers : k \in handler[h].todo})

\* The tile after the last of a number of reports, whatever overlapped before it:
\* a status that was written on its own is shown, with nothing left of an outage,
\* until the next one or an outage; an outage is shown until a status comes, and
\* its end takes the outage away but no status (NarwalHomeyDevice.js:552 "the next
\* status from the robot refines it"), also that of a client started anew.
ShowsLatest ==
  Writing = {} =>
    /\ alone.kind = "status" =>
         \A f \in Shown \ {"fan"} :
           (f # "room" => alone.report[f] # Null) => caps[f] = alone.report[f]
    /\ alone.kind = "Disconnected" => caps.connected = FALSE /\ caps.state = "Disconnected"
    /\ alone.kind = "Connected" => caps.connected = TRUE /\ caps.state # "Disconnected"
=============================================================================
