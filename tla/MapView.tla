------------------------------- MODULE MapView -------------------------------
(***************************************************************************)
(* The live path on its way to the map widget: the robot's broadcasts, the *)
(* device's trail (lib/LiveTrail.js), the pushes it sends through Homey    *)
(* (lib/NarwalHomeyDevice.js _onLive, _pushLive, getLiveData) and the path *)
(* the widget holds (widgets/vacuum-map/public/index.html), over the map   *)
(* of MapRender.                                                           *)
(*                                                                         *)
(* A broadcast carries the last points of the path, a push the points      *)
(* since the last one with the number of points before them. Pushes arrive *)
(* in order or not at all; requests of the widget take their time, fail or *)
(* are answered out of order. The robot is where its map is true: no two   *)
(* points of one clean have the same coordinates.                          *)
(***************************************************************************)
EXTENDS MapRender

CONSTANTS
  SavedMaps,    \* the maps an earlier session may have stored, Null for none
  LiveMaps,     \* those the rest of the model goes on with
  Window,       \* how many points a broadcast carries (some 30)
  TrailMax,     \* how many points a trail holds (max, 5000)
  MaxPoints, MaxCleans, MaxTrouble, MaxFetches

ASSUME ViewConstants ==
  /\ Window \in Nat \ {0} /\ TrailMax \in Nat \ {0}
  /\ {MaxPoints, MaxCleans, MaxFetches} \subseteq Nat /\ MaxTrouble \in 0..4

\* What a robot sends: cells of 24 bits, and rooms with an id each.
IsRobotMap(m) ==
  /\ DOMAIN m = {"width", "height", "border", "station", "rooms", "grid"}
  /\ m.width \in Nat /\ m.height \in Nat
  /\ m.grid = Null \/ m.grid \in Seq(CellValues)
  /\ m.border = Null \/ {m.border.left, m.border.bottom} \subseteq Int
  /\ m.station = Null \/ m.station \in Int \X Int
  /\ m.rooms \in Seq(ToSet(m.rooms))
  /\ \A r \in ToSet(m.rooms) : {r.id, r.type, r.number} \subseteq Nat
  /\ \A i, j \in DOMAIN m.rooms : m.rooms[i].id = m.rooms[j].id => i = j

ASSUME MapsAssumption == \A m \in (SavedMaps \cup LiveMaps) \ {Null} : IsRobotMap(m)

VARIABLES
  map,     \* the client's lastStaticMap, Null for none
  robot,   \* history: the map the robot sent
  render,  \* a map waits to be rendered; the map _mapRenderData is made of, and its meta
  device,  \* [trail, dropped, pushed, recent, timer, session]
  clean,   \* the robot's clean: [number, first, points, told]
  pushes,  \* 'narwal:live' events under way
  widget,  \* [points, total, session], and astray for the properties only
  active,  \* activeState: the widget last saw the robot connected and at work
  asked,   \* how many requests for the live data have not been read
  replies, \* answers to them under way
  trouble  \* how many new maps, restarts and losses there were

mapVars == <<map, robot, render>>
vars == <<map, robot, render, device, clean, pushes, widget, active, asked, replies, trouble>>

\* What the next session finds of a map.
Stored(m) == IF m = Null THEN Null ELSE unpackStaticMap(packStaticMap(m))

\* Nothing was rendered, or the map had nothing to show.
NoPicture == [due |-> FALSE, of |-> Null, meta |-> Null]

Init ==
  /\ \E m \in SavedMaps :
       /\ robot = m
       /\ map = IF m = Null THEN Null ELSE Stored(decodeGetMapResponse(Reply(m)))
  /\ render = NoPicture
  /\ device = [trail |-> <<>>, dropped |-> 0, pushed |-> Null, recent |-> FALSE,
               timer |-> FALSE, session |-> 1]
  /\ clean = [number |-> 1, first |-> 1, points |-> 0, told |-> 1]
  /\ widget = [points |-> <<>>, total |-> 0, session |-> 1, astray |-> FALSE]
  /\ pushes = <<>> /\ active = FALSE /\ asked = 1 /\ replies = {}
  /\ trouble = 0

Ongoing == robot \in LiveMaps \cup {Null}

-----------------------------------------------------------------------------
(* The trail.                                                              *)

\* reset, or a trail that is new: another session of the widget's path.
Cleared(d) == [d EXCEPT !.trail = <<>>, !.dropped = 0, !.session = @ + 1]

\* since() forgetting what the cap cut off.
SinceUncut(d, seq) ==
  IF seq = Null \/ seq > Len(d.trail) THEN [from |-> 0, points |-> d.trail]
  ELSE [from |-> seq, points |-> SubSeq(d.trail, seq + 1, Len(d.trail))]

TrailLength(d) == d.dropped + Len(d.trail)

\* since: the points after number seq, or all of them when they are not known.
Since(d, seq) ==
  IF seq = Null \/ seq < d.dropped \/ seq > TrailLength(d)
  THEN [from |-> 0, points |-> d.trail]
  ELSE [from |-> seq, points |-> SubSeq(d.trail, seq - d.dropped + 1, Len(d.trail))]

\* add: the window from the last known point on, all of it when it is not in
\* there; the oldest points make room.
Add(d, window) ==
  LET known == IF d.trail = <<>> THEN 0
               ELSE SelectLastInSeq(window, LAMBDA p : p = Last(d.trail))
      longer == d.trail \o SubSeq(window, known + 1, Len(window))
      over == Largest(0, Len(longer) - TrailMax)
  IN  [d EXCEPT !.trail = SubSeq(longer, over + 1, Len(longer)), !.dropped = @ + over]

-----------------------------------------------------------------------------
(* The device.                                                             *)

\* A map that live coordinates can be placed on.
HasBorder == map # Null /\ map.border # Null

\* _displayPoints: nothing before there is a picture to place them on. Each point
\* keeps its raw coordinates, for the properties only.
DisplayPoints(points) ==
  IF ~HasBorder \/ render.of = Null THEN <<>>
  ELSE [i \in DOMAIN points |->
          [raw |-> points[i], at |-> liveToDisplay(points[i], map.border, render.meta)]]

\* _pushLive. Its points count as sent without a picture to place them on, too
\* (unplaced, for the properties only).
Pushed(d) ==
  LET delta == Since(d, d.pushed)
  IN  /\ device' = [d EXCEPT !.pushed = TrailLength(d), !.recent = TRUE, !.timer = FALSE]
      /\ pushes' = Append(pushes,
           [from |-> delta.from, points |-> DisplayPoints(delta.points),
            total |-> TrailLength(d), session |-> d.session,
            unplaced |-> Len(DisplayPoints(delta.points)) # Len(delta.points)])

\* _onLive: a broadcast is pushed at once, or with those of the next two seconds.
OnLive(window) ==
  IF ~HasBorder THEN UNCHANGED <<device, pushes>>
  ELSE LET d == Add(device, window)
       IN  IF d.recent THEN device' = [d EXCEPT !.timer = TRUE] /\ UNCHANGED pushes
           ELSE Pushed(d)

\* The robot goes on by k points and broadcasts, or the broadcast is lost.
Moves(k) ==
  /\ Ongoing /\ clean.points + k <= MaxPoints
  /\ clean' = [clean EXCEPT !.points = @ + k]
  /\ LET first == Largest(clean.first, clean'.points - Window + 1)
         window == [i \in 1..clean'.points - first + 1 |-> <<first + i - 1, clean.number>>]
     IN  \/ OnLive(window) /\ UNCHANGED trouble
         \/ /\ trouble < MaxTrouble
            /\ trouble' = trouble + 1
            /\ UNCHANGED <<device, pushes>>
  /\ UNCHANGED <<mapVars, widget, active, asked, replies>>

\* The robot starts another clean, after one with a path; the device hears of it
\* from a status.
NextClean ==
  /\ Ongoing /\ clean.number < MaxCleans /\ clean.first <= clean.points
  /\ clean' = [clean EXCEPT !.number = @ + 1, !.first = clean.points + 1]
  /\ UNCHANGED <<mapVars, device, pushes, widget, active, asked, replies, trouble>>

\* The reset of _onStatus.
NewPath ==
  /\ clean.told # clean.number
  /\ clean' = [clean EXCEPT !.told = clean.number]
  /\ device' = [Cleared(device) EXCEPT !.pushed = 0]
  /\ UNCHANGED <<mapVars, pushes, widget, active, asked, replies, trouble>>

\* LIVE_PUSH_MS after a push; the timer was armed for this moment.
IntervalOver ==
  /\ device.recent
  /\ IF device.timer THEN Pushed(device)
     ELSE device' = [device EXCEPT !.recent = FALSE, !.timer = FALSE] /\ UNCHANGED pushes
  /\ UNCHANGED <<mapVars, clean, widget, active, asked, replies, trouble>>

\* A get_map reply.
MapFetched ==
  /\ Ongoing /\ trouble < MaxTrouble
  /\ trouble' = trouble + 1
  /\ \E m \in LiveMaps \ {robot, Null} :
       LET received == decodeGetMapResponse(Reply(m))
       IN  received # Null /\ map' = received /\ robot' = m
  /\ render' = [render EXCEPT !.due = TRUE]
  /\ UNCHANGED <<device, clean, pushes, widget, active, asked, replies>>

\* A live update was applied and the map is emitted again; a map stored by an
\* earlier session has no picture until then.
MapUpdated ==
  /\ map # Null /\ map.grid # Null /\ ~render.due /\ render.of # fromStaticMap(map)
  /\ render' = [render EXCEPT !.due = TRUE]
  /\ UNCHANGED <<map, robot, device, clean, pushes, widget, active, asked, replies, trouble>>

\* _renderMap, some writes after the map came; _onMap handles maps in order.
RenderMap ==
  /\ render.due
  /\ \/ Drawn(map) = {} /\ render' = NoPicture
     \/ /\ Drawn(map) # {}
        /\ \E of \in {fromStaticMap(map)} : \E meta \in {RenderMeta(of, Crop(of))} :
             render' = [due |-> FALSE, of |-> of, meta |-> meta]
  /\ UNCHANGED <<map, robot, device, clean, pushes, widget, active, asked, replies, trouble>>

\* The client is replaced (_stopClient); what it held and the trail stay.
ClientRestarts ==
  /\ Ongoing /\ trouble < MaxTrouble
  /\ trouble' = trouble + 1
  /\ device' = [device EXCEPT !.timer = FALSE]
  /\ UNCHANGED <<mapVars, clean, pushes, widget, active, asked, replies>>

\* The app starts anew, with the stored map and no trail.
AppRestarts ==
  /\ Ongoing /\ trouble < MaxTrouble
  /\ trouble' = trouble + 1
  /\ device' = [Cleared(device) EXCEPT !.pushed = Null, !.recent = FALSE, !.timer = FALSE]
  /\ map' = Stored(map) /\ robot' = IF map' = Null THEN Null ELSE robot
  /\ render' = NoPicture /\ asked' = 0 /\ replies' = {}
  /\ UNCHANGED <<clean, pushes, widget, active>>

-----------------------------------------------------------------------------
(* The widget.                                                             *)

\* loadLive; a request over the bound counts as one that failed.
LoadLive == asked' = Smallest(MaxFetches, asked + 1)

\* applyLive with a path that replaces the one it has.
Replaced(data) ==
  [widget EXCEPT !.points = data.points, !.session = data.session, !.astray = FALSE,
                 !.total = IF data.total = 0 THEN Len(data.points) ELSE data.total]

\* A push may only seem to go on where the path ends: it is another clean's, or
\* it counts points that it could not show.
Extended(data) ==
  [widget EXCEPT !.points = @ \o data.points, !.total = data.total,
                 !.astray = @ \/ data.session # widget.session \/ data.unplaced]

\* applyLive of a push: the whole path, what comes after the path it has, or
\* something that does not line up and is fetched.
ApplyPush(data) ==
  \/ /\ data.from = 0
     /\ widget' = Replaced(data) /\ UNCHANGED asked
  \/ /\ data.from # 0 /\ data.from = widget.total
     /\ widget' = Extended(data) /\ UNCHANGED asked
  \/ /\ data.from # 0 /\ data.from # widget.total
     /\ LoadLive /\ UNCHANGED widget

PushArrives ==
  /\ pushes # <<>> /\ pushes' = Tail(pushes)
  /\ ApplyPush(Head(pushes))
  /\ UNCHANGED <<mapVars, device, clean, active, replies, trouble>>

PushLost ==
  /\ pushes # <<>> /\ pushes' = Tail(pushes)
  /\ trouble < MaxTrouble /\ trouble' = trouble + 1
  /\ UNCHANGED <<mapVars, device, clean, widget, active, asked, replies>>

\* getLiveData
Answer ==
  /\ asked > 0 /\ asked' = asked - 1
  /\ replies' = replies \cup
       {[points |-> DisplayPoints(device.trail), total |-> TrailLength(device),
         session |-> device.session]}
  /\ UNCHANGED <<mapVars, device, clean, pushes, widget, active, trouble>>

\* Keeping a path that has as many points as the answer.
KeepEqualPath(r) == IF r.total = widget.total THEN widget ELSE Replaced(r)

\* applyLive of an answer
TakeAnswer(r) == Replaced(r)

ReplyArrives ==
  /\ \E r \in replies : replies' = replies \ {r} /\ widget' = TakeAnswer(r)
  /\ UNCHANGED <<mapVars, device, clean, pushes, active, asked, trouble>>

ReplyLost ==
  /\ trouble < MaxTrouble /\ trouble' = trouble + 1
  /\ \E r \in replies : replies' = replies \ {r}
  /\ UNCHANGED <<mapVars, device, clean, pushes, widget, active, asked>>

\* load, every half minute: the widget sees whether the robot is connected and
\* cleaning, paused or on its way home.
Load ==
  /\ Ongoing /\ active' = ~active
  /\ UNCHANGED <<mapVars, device, clean, pushes, widget, asked, replies, trouble>>

\* The widget's fallback, while it has seen the robot at work and ten seconds have
\* passed without a push. The device has not pushed for two then: five pushes in a
\* row would have to be lost, and MaxTrouble is less.
Poll ==
  /\ Ongoing /\ active /\ pushes = <<>> /\ ~device.recent /\ asked = 0 /\ replies = {}
  /\ LoadLive
  /\ UNCHANGED <<mapVars, device, clean, pushes, widget, active, replies, trouble>>

-----------------------------------------------------------------------------
\* What the device's timers and writes do, and what the widget waits for.
DeviceWork == NewPath \/ IntervalOver \/ RenderMap
WidgetWork == PushArrives \/ Answer \/ ReplyArrives \/ Poll

Next ==
  \/ \E k \in 1..Window : Moves(k)
  \/ NextClean \/ MapFetched \/ MapUpdated \/ ClientRestarts \/ AppRestarts
  \/ Load \/ PushLost \/ ReplyLost
  \/ DeviceWork \/ WidgetWork

\* Neither can keep itself busy so that a part of it never comes: of the device's
\* steps there are finitely many, and the widget polls only when nothing else is
\* under way.
Fairness == WF_vars(DeviceWork) /\ WF_vars(WidgetWork)

Spec == Init /\ [][Next]_vars /\ Fairness

-----------------------------------------------------------------------------
\* The user and the robot tell all rooms apart: names of their own, none of which
\* reads like one that the app makes up; types the app knows, and within a type a
\* number each or none at all. (A number of the robot's and a position can be the
\* same, and a user's "Kitchen" is the name of an unnamed kitchen as well.)
ToldApart(rooms) ==
  /\ \A i \in DOMAIN rooms :
       rooms[i].type \in 0..15 /\ (rooms[i].custom # Null => rooms[i].custom \notin MadeUp)
  /\ \A i, j \in DOMAIN rooms : i # j =>
       /\ rooms[i].id # rooms[j].id
       /\ rooms[i].custom # Null => rooms[i].custom # rooms[j].custom
       /\ rooms[i].type = rooms[j].type =>
            /\ rooms[i].number = 0 <=> rooms[j].number = 0
            /\ rooms[i].number = rooms[j].number => rooms[i].number = 0

\* The cells of a picture, the top row first, are those of the robot's map:
\* each where it belongs, rooms told apart and with the user's names.
CellsShown(pic, cells) ==
  LET X(p) == p[1] - pic.meta.x
      Y(p) == p[2] - pic.meta.y
      Shown(p) == cells[Y(p) * pic.width + X(p) + 1]
      IsRoom(p) == Kind(CellAt(robot, p[1], p[2])) = "room"
      Room(p) == (CellAt(robot, p[1], p[2]) \div 256) % 256
  IN  /\ Len(cells) = pic.width * pic.height
      /\ \A p \in Drawn(robot) :
           /\ X(p) \in 0..pic.width - 1 /\ Y(p) \in 0..pic.height - 1
           /\ IsRoom(p) <=> Shown(p) >= ROOM_CODE_BASE
           /\ \A q \in Drawn(robot) :
                IsRoom(p) /\ IsRoom(q) => (Room(p) = Room(q) <=> Shown(p) = Shown(q))
           /\ \A r \in ToSet(robot.rooms) :
                IsRoom(p) /\ r.id = Room(p) /\ r.custom # Null
                  => pic.name[Shown(p)] = r.custom

\* Names tell rooms apart, labels are in their rooms, the dock is on its cell.
RoomsShown(pic, cells) ==
  /\ ToldApart(robot.rooms) =>
       \A c, d \in DOMAIN pic.name : pic.name[c] = pic.name[d] => c = d
  /\ \A c \in DOMAIN pic.label : cells[pic.label[c]] = c
  /\ robot.station # Null /\ robot.border # Null =>
       pic.dock = <<robot.station[1] - robot.border.left - pic.meta.x,
                    robot.height - 1 - (robot.station[2] - robot.border.bottom) - pic.meta.y>>

IsPicture(pic, cells) == CellsShown(pic, cells) /\ RoomsShown(pic, cells)

\* The picture is the robot's map, whatever it was decoded, stored, packed and
\* cropped through: every cell with something in it is shown with its own code;
\* rooms are told apart and named apart, by the user's name if there is one; the
\* label of a room is in the room and the dock on its cell (MapParser.js
\* toRenderData, NarwalMapCodec.js decodeStaticMap, packStaticMap). The widget
\* unpacks the cells from runs. The path has no part in it, so it is enough to
\* look before there is one.
RenderFaithful ==
  render.of # Null /\ ~render.due /\ clean.points = 0 =>
    LET pic == toRenderData(render.of) IN IsPicture(pic, Unrolled(pic.cells))

\* Rooms of a picture have colours, and those with at most one cell between them
\* different ones.
ColoursShown(pic, cells) ==
  LET X(i) == (i - 1) % pic.width
      Y(i) == (i - 1) \div pic.width
      Close(i, j) == \/ Y(i) = Y(j) /\ X(j) - X(i) \in 1..2
                     \/ X(i) = X(j) /\ Y(j) - Y(i) \in 1..2
  IN  \A i, j \in DOMAIN cells :
        /\ Close(i, j) /\ cells[i] # cells[j]
        /\ cells[i] >= ROOM_CODE_BASE /\ cells[j] >= ROOM_CODE_BASE
        => /\ {cells[i], cells[j]} \subseteq DOMAIN pic.color
           /\ pic.color[cells[i]] # pic.color[cells[j]]

\* Rooms with at most one cell between them have different colours in the
\* picture, if it has at most six rooms (MapParser.js:410 "neighbours always
\* differ").
ColoursDiffer ==
  render.of # Null /\ clean.points = 0 =>
    LET pic == toRenderData(render.of)
    IN  Cardinality(DOMAIN pic.color) <= ROOM_COLOR_SETS
          => ColoursShown(pic, Unrolled(pic.cells))

\* The widget shows a piece of one path, in order, nothing repeated and nothing
\* left out that the device has: a push is appended only where the path ends,
\* although pushes are lost, the trail is cut at its front and answers come
\* late. (Not while astray: numbers that line up by chance with the path of
\* another clean, or that count points which were never sent because a map without
\* a picture came between two with one.)
OnePath ==
  ~widget.astray =>
    \A i \in 1..Len(widget.points) - 1 :
      LET p == widget.points[i].raw
          q == widget.points[i + 1].raw
      IN  /\ p[1] < q[1]
          /\ widget.session = device.session =>
               \A t \in ToSet(device.trail) : ~(p[1] < t[1] /\ t[1] < q[1])

\* While the robot is at work and nothing new comes, the widget ends up with the
\* device's path on the device's picture: lost pushes, late answers, restarts and
\* a new picture are made up for by the poll (widget index.html:603-607). Without
\* it, once the robot is docked or offline, an older path may stay.
CatchesUp == <>[]active => <>[](Ongoing => widget.points = DisplayPoints(device.trail))
=============================================================================
