----------------------------- MODULE StatusMerge -----------------------------
(***************************************************************************)
(* What the client makes of the robot's status messages: base status,      *)
(* working status and firmware status are normalised one by one            *)
(* (lib/NarwalBinaryProtocol.js) and merged into one status                *)
(* (_ingestBinaryStatus of lib/NarwalClient.js), which also decides how    *)
(* long a suction chosen before a clean is kept.                           *)
(*                                                                         *)
(* A message is what the code reads out of it: the status code, the        *)
(* paused and returning flags, the evidence for or against the dock, and   *)
(* the values that are shown. Null marks a field the message leaves out.   *)
(***************************************************************************)
EXTENDS Naturals

CONSTANTS
  Null,
  Readings,  \* battery and fan readings a base status may carry
  Rooms,     \* room ids a working status may carry
  Suctions,  \* what setFanSpeed accepts
  HasUltra   \* this model knows the strongest suction, "ultra"

ASSUME NullAssumption ==
  /\ Null \notin Rooms /\ Null \notin Suctions /\ Null \notin BOOLEAN
  /\ Null \notin {"idle", "docked", "cleaning", "paused", "returning", "error", "unknown"}
  /\ Null \notin {"stopped", "kept"}

\* Working codes by what mapRobotState makes of them; docked2 is the code that
\* newer firmware also sends while cleaning away from the dock.
Codes == {"standby", "docked", "docked2", "cleaning", "completed", "error", "other", Null}

BaseMessages ==
  {m \in [code : Codes, flag : {"none", "paused", "returning"}, dock : {"on", "off", "silent"},
          read : Readings] : m.flag = "returning" => m.dock = "off"}

\* area: whether the area cleaned is more than none; timed: so is the time.
WorkingMessages ==
  [area : BOOLEAN \cup {Null}, timed : BOOLEAN, room : Rooms \cup {Null}]

VARIABLES
  last,      \* lastStatus, Null before the first
  pending,   \* _pendingFanSpeed
  fanSpeed   \* the suction the next clean is started with

client == <<last, pending, fanSpeed>>

\* normalizeFanSpeed
NormalizeFanSpeed(speed) == IF speed = "ultra" /\ ~HasUltra THEN "max" ELSE speed

MergeInit == last = Null /\ pending = Null /\ fanSpeed = Null

Or(value, else) == IF value = Null THEN else ELSE value

-----------------------------------------------------------------------------
(* Normalising.                                                            *)

\* mapRobotState: the flags win over the code.
MapRobotState(m) ==
  CASE m.flag = "paused" -> "paused"
    [] m.flag = "returning" \/ (m.flag = "none" /\ m.code = "completed") -> "returning"
    [] m.flag = "none" /\ m.code = "standby" -> "idle"
    [] m.flag = "none" /\ m.code \in {"docked", "docked2"} -> "docked"
    [] m.flag = "none" /\ m.code = "cleaning" -> "cleaning"
    [] m.flag = "none" /\ m.code = "error" -> "error"
    [] OTHER -> "unknown"

\* The corrections of normalizeBaseStatus: no docked state off the dock, and
\* "task completed" or no code at all on the dock is docked.
BaseState(m) ==
  CASE m.dock = "off" /\ MapRobotState(m) = "docked" ->
         IF m.code = "docked2" THEN "cleaning" ELSE "idle"
    [] m.dock = "on" /\ (m.code = Null \/ m.code = "completed") -> "docked"
    [] OTHER -> MapRobotState(m)

Docked(m) ==
  IF m.dock = "off" THEN FALSE
  ELSE IF BaseState(m) = "docked" \/ (BaseState(m) # "cleaning" /\ m.dock = "on") THEN TRUE
  ELSE IF m.code = Null \/ m.code = "completed" THEN Null ELSE FALSE

Charging(m) == IF Docked(m) = TRUE THEN m.read.battery # "full" ELSE Docked(m)

\* normalizeBaseStatus. "kept": the room is left to the previous status.
FromBase(m) ==
  [state |-> BaseState(m),
   homey |-> IF BaseState(m) = "cleaning" THEN "cleaning"
             ELSE IF Docked(m) = TRUE THEN "docked" ELSE "stopped",
   docked |-> Docked(m), charging |-> Charging(m),
   battery |-> m.read.battery, fan |-> m.read.fan, worked |-> Null,
   room |-> IF Docked(m) = TRUE THEN Null ELSE "kept"]

\* Area or time show a clean in progress.
Active(m) == m.area = TRUE \/ m.timed

\* normalizeWorkingStatus. worked: the area cleaned is more than none.
FromWorking(m) ==
  [state |-> IF Active(m) THEN "cleaning" ELSE "unknown",
   homey |-> IF Active(m) THEN "cleaning" ELSE "stopped",
   docked |-> Null, charging |-> Null, battery |-> Null, fan |-> Null,
   worked |-> m.area, room |-> m.room]

\* normalizeUpgradeStatus, the firmware left out.
FromUpgrade ==
  [state |-> "unknown", homey |-> "stopped", docked |-> Null, charging |-> Null,
   battery |-> Null, fan |-> Null, worked |-> Null, room |-> "kept"]

\* normalizeStatus: what a message of each topic is turned into.
BaseReports == {FromBase(m) : m \in BaseMessages}
WorkingReports == {FromWorking(m) : m \in WorkingMessages}

-----------------------------------------------------------------------------
(* Merging.                                                                *)

\* lastStatus || {}
Previous ==
  IF last # Null THEN last
  ELSE [state |-> Null, homey |-> Null, docked |-> Null, charging |-> Null,
        battery |-> Null, fan |-> Null, worked |-> Null, room |-> Null]

\* The bug of taking every base status at its word.
AsReported(p) == p

\* "Task finished" without dock fields leaves a docked robot docked.
StillDocked(p) ==
  IF Previous.docked = TRUE /\ p.docked = Null /\ p.state = "returning"
    THEN [p EXCEPT !.state = Previous.state, !.homey = Previous.homey] ELSE p

\* The bug of taking the room of a finished clean for where the robot is.
StateIgnored(p) == IF Previous.docked = TRUE THEN [p EXCEPT !.state = "unknown"] ELSE p

\* Progress of the finished clean while docked: the metrics only.
OnlyMetrics(p) ==
  IF Previous.docked = TRUE THEN [p EXCEPT !.state = "unknown", !.room = Null] ELSE p

Merged(p) ==
  [state |-> IF p.state = "unknown" THEN Or(Previous.state, "unknown") ELSE p.state,
   homey |-> IF p.state = "unknown" THEN Or(Previous.homey, p.homey) ELSE p.homey,
   docked |-> Or(p.docked, Previous.docked), charging |-> Or(p.charging, Previous.charging),
   battery |-> Or(p.battery, Previous.battery), fan |-> Or(p.fan, Previous.fan),
   worked |-> Or(p.worked, Previous.worked),
   room |-> IF p.room = "kept" THEN Previous.room ELSE p.room]

\* A clean that started ends the waiting suction.
StillPending(p) == IF Merged(p).state = "cleaning" THEN Null ELSE pending

\* The bug of taking over the robot's suction while the user's is waiting.
LearnedAlways(p) == Or(p.fan, fanSpeed)

\* The robot's suction is taken over unless the user's is waiting.
Learned(p) == IF StillPending(p) = Null THEN Or(p.fan, fanSpeed) ELSE fanSpeed

\* The rest of _ingestBinaryStatus: what is kept and emitted.
Emitted(p) == [Merged(p) EXCEPT !.fan = Or(StillPending(p), @)]

Ingest(p) ==
  /\ last' = Emitted(p)
  /\ pending' = StillPending(p)
  /\ fanSpeed' = Learned(p)

\* The robot takes a new suction now; otherwise it waits for the next clean.
TakesSuction == Previous.state \in {"cleaning", "paused"}

\* setFanSpeed
ChooseSuction(speed) ==
  /\ fanSpeed' = NormalizeFanSpeed(speed)
  /\ pending' = IF TakesSuction THEN Null ELSE NormalizeFanSpeed(speed)
  /\ UNCHANGED last

\* constructor(): a new client starts with the suction the device shows.
NewClient(shown) ==
  /\ last' = Null /\ pending' = Null
  /\ fanSpeed' = NormalizeFanSpeed(shown)

-----------------------------------------------------------------------------
(* Properties.                                                             *)

\* Dock, charging, room and vacuum tile never contradict one another, whatever
\* mix of partial base statuses, stale progress and firmware variants is merged:
\* only a docked robot charges, a docked robot is in no room, and the tile cleans
\* exactly when the state does (NarwalBinaryProtocol.js:541, NarwalClient.js:487).
DockAgrees ==
  last # Null =>
    /\ last.charging = TRUE => last.docked = TRUE
    /\ last.docked = TRUE => last.room = Null
    /\ last.state = "cleaning" <=> last.homey = "cleaning"

\* A suction that waits for the next clean is the one that clean is started
\* with, although the robot goes on reporting its own (NarwalClient.js:510).
ChosenKept == pending # Null => fanSpeed = pending

\* "A repeated 'task finished' without dock fields must not undo a docked robot
\* back to returning" (NarwalClient.js:483): a robot that stays docked does not
\* start returning.
NotUndone ==
  [][(last # Null /\ last' # Null /\ last.docked = TRUE /\ last'.docked = TRUE)
       => (last'.state = "returning" => last.state = "returning")]_client
=============================================================================
