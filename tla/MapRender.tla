------------------------------ MODULE MapRender ------------------------------
(***************************************************************************)
(* The way of a map from the robot's bytes to the widget's picture, as     *)
(* pure operators: the cells of a get_map reply decoded                    *)
(* (lib/NarwalMapCodec.js), the static map packed for the device store and *)
(* unpacked in the next session, and the widget's render data              *)
(* (lib/MapParser.js toRenderData): cropped and turned, rooms numbered,    *)
(* coloured and labelled, the cells packed in runs.                        *)
(*                                                                         *)
(* The robot's map is [width, height, border, station, rooms, grid]: the   *)
(* cells row by row from the bottom, what it says of its rooms, and the    *)
(* raw coordinates of its corner and of the station. The decoded map has   *)
(* the same fields with a name for each room and the station in cells.     *)
(* Null stands for what is left out. Textures and poses are not modelled.  *)
(***************************************************************************)
EXTENDS Integers, Sequences, SequencesExt, FiniteSets, FiniteSetsExt

CONSTANTS
  Null,
  CropPadding  \* options.cropPadding, 2 in the app

ASSUME PaddingAssumption == CropPadding \in Nat

\* Null is none of the values it stands in for.
ASSUME NullAssumption == Null \notin Nat /\ Null \notin Seq(Nat) /\ Null \notin Int \X Int

ROOM_CODE_BASE == 10
ROOM_COLOR_SETS == 6

\* The elements with a rank from 1 on, in the order of their ranks.
ByRank(rank) ==
  [k \in 1..Cardinality(DOMAIN rank) |-> CHOOSE e \in DOMAIN rank : rank[e] = k]

\* A set of numbers from the smallest on.
Ascending(S) == ByRank([i \in S |-> Cardinality({j \in S : j <= i})])

\* The entries of a sequence at some of its positions, in order.
Pick(s, positions) == LET at == Ascending(positions) IN [k \in DOMAIN at |-> s[at[k]]]

\* A sequence without what it repeats, each entry where it first was.
Distinct(s) == Pick(s, {i \in DOMAIN s : \A j \in 1..i - 1 : s[j] # s[i]})

\* The sum of a sequence of numbers.
Total(s) ==
  LET sum[k \in 0..Len(s)] == IF k = 0 THEN 0 ELSE sum[k - 1] + s[k]
  IN  sum[Len(s)]

-----------------------------------------------------------------------------
(* The bytes of the cells.                                                 *)

\* What a cell may be: flags, the room's id, and the levels of clean and of dirt.
MaxCell == 16777215
CellValues == 0..MaxCell

\* A varint, seven bits a byte, the lowest first.
Varint[v \in CellValues] ==
  IF v < 128 THEN <<v>> ELSE <<128 + (v % 128)>> \o Varint[v \div 128]

\* The robot's MapData: the cells as packed varints.
Wire(grid) == FlattenSeq([i \in DOMAIN grid |-> Varint[grid[i]]])

\* readVarint: bytes from pos on up to the first without the high bit.
VarintEnd(bytes, pos) == Min({i \in pos..Len(bytes) : bytes[i] < 128})

VarintValue(bytes, pos) ==
  LET end == VarintEnd(bytes, pos)
      from[i \in pos..end] == (bytes[i] % 128) + (IF i = end THEN 0 ELSE 128 * from[i + 1])
  IN  from[pos]

VarintStarts(bytes) == {i \in DOMAIN bytes : i = 1 \/ bytes[i - 1] < 128}

\* packedVarints: the values one after another.
Unpacked(bytes) ==
  LET starts == Ascending(VarintStarts(bytes))
  IN  [k \in DOMAIN starts |-> VarintValue(bytes, starts[k])]

-----------------------------------------------------------------------------
(* A get_map reply.                                                        *)

\* The robot's reply: no cells, or all of them, inflated or not.
Reply(map) ==
  [map EXCEPT !.grid = IF map.grid = Null THEN <<>> ELSE Wire(map.grid)]

\* decodeGrid: no cells at all are no grid, a wrong number of them is an error.
DecodedGrid(reply) == IF reply.grid = <<>> THEN Null ELSE Unpacked(reply.grid)

\* The texts the app makes up for rooms: the name of a type, then a space or none,
\* and a number or none (0). "Room" is type 0, and no type's name has a digit. The
\* user's name is any text, also one of these.
MadeUp == (0..15) \X (0..1) \X Nat
Spelled(type, spaces, number) == <<type, spaces, number>>

\* decodeRoom: the types the app has a name for are 0 to 15.
RoomType(room) == IF room.type \in 0..15 THEN room.type ELSE 0

\* roomDisplayNames: the user's name wins; a type that occurs once is the name,
\* otherwise it is numbered, without a space, by the robot or, failing that, in
\* order.
RoomName(rooms, i) ==
  LET r == rooms[i]
      Group == {j \in DOMAIN rooms : rooms[j].custom = Null /\ rooms[j].type = r.type}
      position == Cardinality({j \in Group : j <= i})
  IN  CASE r.custom # Null -> r.custom
        [] r.custom = Null /\ Group = {i} -> Spelled(RoomType(r), 0, 0)
        [] OTHER -> Spelled(RoomType(r), 0, IF r.number # 0 THEN r.number ELSE position)

\* toCell: a raw point in cells from the border's corner.
ToCell(p, border) ==
  IF p = Null \/ border = Null THEN p ELSE <<p[1] - border.left, p[2] - border.bottom>>

\* decodeStaticMap
decodeStaticMap(reply) ==
  [reply EXCEPT
     !.grid = DecodedGrid(reply),
     !.station = ToCell(reply.station, reply.border),
     !.rooms = [i \in DOMAIN reply.rooms |->
                  [id |-> reply.rooms[i].id, name |-> RoomName(reply.rooms, i)]]]

IsWhole(map) ==
  /\ map.width > 0 /\ map.height > 0
  /\ map.grid # Null => Len(map.grid) = map.width * map.height

\* decodeGetMapResponse: an empty map, or one whose grid is not full, is none.
decodeGetMapResponse(reply) ==
  LET map == decodeStaticMap(reply) IN IF IsWhole(map) THEN map ELSE Null

\* fromStaticMap: the app's map of a decoded one.
fromStaticMap(map) ==
  [width |-> map.width, height |-> map.height, grid |-> map.grid, rooms |-> map.rooms,
   dock |-> map.station]

-----------------------------------------------------------------------------
(* Runs, for the store and for the widget.                                 *)

RunStarts(s) == Ascending({i \in DOMAIN s : i = 1 \/ s[i] # s[i - 1]})

\* The runs of s that begin at starts.
RunsFrom(s, starts) ==
  LET Next(k) == IF k = Len(starts) THEN Len(s) + 1 ELSE starts[k + 1]
  IN  [k \in DOMAIN starts |-> <<s[starts[k]], Next(k) - starts[k]>>]

Runs(s) == RunsFrom(s, RunStarts(s))

Unrolled(runs) == FlattenSeq([k \in DOMAIN runs |-> [n \in 1..runs[k][2] |-> runs[k][1]]])

\* A map without a grid is not stored.
packStaticMap(map) == IF map.grid = Null THEN Null ELSE [map EXCEPT !.grid = Runs(map.grid)]
unpackStaticMap(packed) ==
  IF packed = Null THEN Null ELSE [packed EXCEPT !.grid = Unrolled(packed.grid)]

-----------------------------------------------------------------------------
(* Cells and the crop.                                                     *)

roomIdOf(v) == (v \div 256) % 256

\* classifyCell
Kind(v) ==
  CASE v = 0 -> "outside"
    [] v # 0 /\ (v \div 32) % 2 = 1 -> "wall"
    [] v # 0 /\ (v \div 32) % 2 = 0 /\ roomIdOf(v) # 0 -> "room"
    [] v # 0 /\ (v \div 32) % 2 = 0 /\ roomIdOf(v) = 0 /\ v % 2 = 1 -> "floor"
    [] OTHER -> "outside"

\* The cell in column x of the row y from the top.
CellAt(map, x, y) == map.grid[(map.height - 1 - y) * map.width + x + 1]

Places(map) == (0..map.width - 1) \X (0..map.height - 1)

\* decodeNarwalPixelMap: without a grid nothing is drawn.
Drawn(map) == {p \in Places(map) : map.grid # Null /\ CellAt(map, p[1], p[2]) # 0}

Largest(a, b) == IF a < b THEN b ELSE a
Smallest(a, b) == IF a < b THEN a ELSE b

\* The bug of a crop that forgets how far it was moved.
CropAtOrigin(map) ==
  LET xs == {p[1] : p \in Drawn(map)}
      ys == {p[2] : p \in Drawn(map)}
  IN  [x |-> 0, y |-> 0, w |-> Max(xs) - Min(xs) + 1, h |-> Max(ys) - Min(ys) + 1]

\* The drawn part of the map and CropPadding cells around it.
Crop(map) ==
  LET xs == {p[1] : p \in Drawn(map)}
      ys == {p[2] : p \in Drawn(map)}
      x == Largest(0, Min(xs) - CropPadding)
      y == Largest(0, Min(ys) - CropPadding)
  IN  [x |-> x, y |-> y,
       w |-> Smallest(map.width - 1, Max(xs) + CropPadding) - x + 1,
       h |-> Smallest(map.height - 1, Max(ys) + CropPadding) - y + 1]

\* The cells in the crop c, the top row first.
Cropped(map, c) ==
  [i \in 1..c.w * c.h |-> CellAt(map, c.x + ((i - 1) % c.w), c.y + ((i - 1) \div c.w))]

\* roomFor: the rooms of the map in its order, then those only the cells name.
RoomIds(map, cells) ==
  LET inRoom == Pick(cells, {i \in DOMAIN cells : Kind(cells[i]) = "room"})
      listed == [i \in DOMAIN map.rooms |-> map.rooms[i].id]
  IN  Distinct(listed \o [i \in DOMAIN inRoom |-> roomIdOf(inRoom[i])])

RoomCode(ids, id) == ROOM_CODE_BASE + SelectInSeq(ids, LAMBDA e : e = id) - 1

\* The name the map gives a room, or "Room <id>".
NameOf(map, id) ==
  LET known == SelectInSeq(map.rooms, LAMBDA r : r.id = id)
  IN  IF known = 0 THEN Spelled(0, 1, id) ELSE map.rooms[known].name

CellCode(v, kind, ids) ==
  CASE kind = "outside" -> 0
    [] kind = "wall" -> 1
    [] kind = "floor" -> 2
    [] kind = "room" -> RoomCode(ids, roomIdOf(v))

Codes(cells, ids) == [i \in DOMAIN cells |-> CellCode(cells[i], Kind(cells[i]), ids)]

-----------------------------------------------------------------------------
(* Rooms: size, neighbours, colour and label.                              *)

CellsOf(codes, c) == {i \in DOMAIN codes : codes[i] = c}

\* The codes of the rooms that have a cell.
Present(codes) == {c \in ToSet(codes) : c >= ROOM_CODE_BASE}

\* The bug of looking at the next cell only, where a wall may stand between.
ReachNextCell == <<<<1, 0>>, <<0, 1>>>>

\* Where toRenderData looks for a neighbour: up to two cells to the right and
\* below.
Reach == <<<<1, 0>>, <<2, 0>>, <<0, 1>>, <<0, 2>>>>

\* What room a meets where the cells x and y are near each other.
Meets(x, y, a) ==
  IF x = y \/ x < ROOM_CODE_BASE \/ y < ROOM_CODE_BASE THEN <<>>
  ELSE IF x = a THEN <<y>> ELSE IF y = a THEN <<x>> ELSE <<>>

\* The neighbours of room a in the order the scan meets them.
NeighboursOf(codes, w, a) ==
  LET At(i, d) ==
        IF ((i - 1) % w) + d[1] < w /\ i + d[1] + d[2] * w <= Len(codes)
        THEN codes[i + d[1] + d[2] * w] ELSE 0
  IN  Distinct(FlattenSeq([i \in DOMAIN codes |->
        FlattenSeq([k \in DOMAIN Reach |-> Meets(codes[i], At(i, Reach[k]), a)])]))

\* The rooms by size, the largest first; equal ones keep their order.
BySize(codes) ==
  LET Size(a) == Cardinality(CellsOf(codes, a))
      NotAfter(a, b) == Size(a) > Size(b) \/ (Size(a) = Size(b) /\ a <= b)
  IN  ByRank([b \in Present(codes) |-> Cardinality({a \in Present(codes) : NotAfter(a, b)})])

\* The first colour no neighbour has.
FreeColor(used) == Min((0..Cardinality(used)) \ used) % ROOM_COLOR_SETS

\* The queue after its entry i, and the colours with that of its room.
Visited(queue, color, room, near) ==
  [queue |-> queue \o Pick(near[room],
                           {i \in DOMAIN near[room] : ~Contains(queue, near[room][i])}),
   color |-> [c \in DOMAIN color \cup {room} |->
                IF c # room THEN color[c]
                ELSE FreeColor({color[n] : n \in ToSet(near[room]) \cap DOMAIN color})]]

\* The queue at its entry i: at its end the largest room it does not have.
Refilled(queue, i, order) ==
  IF i <= Len(queue) THEN queue
  ELSE Append(queue, order[Min({k \in DOMAIN order : ~Contains(queue, order[k])})])

\* Breadth first from the dock's room, through the rooms in order.
Coloring(order, near, start) ==
  LET walk[i \in 0..Len(order)] ==
        IF i = 0 THEN [queue |-> start, color |-> [c \in {} |-> 0]]
        ELSE LET queue == Refilled(walk[i - 1].queue, i, order)
             IN  Visited(queue, walk[i - 1].color, queue[i], near)
  IN  walk[Len(order)].color

\* labelPoint: the middle of the room's cells, or the first of those nearest to
\* it when the middle lies outside the room.
Label(cells, w, n, sumX, sumY) ==
  LET middle == <<(2 * sumX + n) \div (2 * n), (2 * sumY + n) \div (2 * n)>>
      Square(a) == a * a
      Off(i) == Square(n * ((i - 1) % w) - sumX) + Square(n * ((i - 1) \div w) - sumY)
      inside == {i \in cells : <<(i - 1) % w, (i - 1) \div w>> = middle}
      nearest == {i \in cells : \A j \in cells : Off(i) <= Off(j)}
  IN  IF inside # {} THEN Min(inside) ELSE Min(nearest)

LabelCell(cells, w) ==
  LET points == Ascending(cells)
  IN  Label(cells, w, Len(points),
            Total([k \in DOMAIN points |-> (points[k] - 1) % w]),
            Total([k \in DOMAIN points |-> (points[k] - 1) \div w]))

-----------------------------------------------------------------------------
\* A point in map cells, columns from the left and rows from the bottom, in the
\* cells of the picture.
ToDisplay(map, crop, p) ==
  IF p = Null THEN Null ELSE <<p[1] - crop.x, map.height - 1 - p[2] - crop.y>>

\* The part of toRenderData's meta that live points are converted with.
RenderMeta(map, crop) == [x |-> crop.x, y |-> crop.y, sourceHeight |-> map.height]

\* Where the colouring starts: the dock's room, or the largest.
Start(order, codes, crop, dock) ==
  LET inPicture == /\ dock # Null
                   /\ dock[1] \in 0..crop.w - 1 /\ dock[2] \in 0..crop.h - 1
      home == IF inPicture THEN codes[dock[2] * crop.w + dock[1] + 1] ELSE 0
  IN  IF Contains(order, home) THEN <<home>>
      ELSE IF order = <<>> THEN <<>> ELSE <<Head(order)>>

\* The picture of a crop whose cells have these codes; room c is ids[c - 9].
Rendered(map, crop, ids, codes) ==
  LET rooms == Present(codes)
      order == BySize(codes)
      near == [c \in rooms |-> NeighboursOf(codes, crop.w, c)]
      dock == ToDisplay(map, crop, map.dock)
  IN  [width |-> crop.w, height |-> crop.h, cells |-> Runs(codes),
       color |-> Coloring(order, near, Start(order, codes, crop, dock)),
       name |-> [c \in rooms |-> NameOf(map, ids[c - ROOM_CODE_BASE + 1])],
       label |-> [c \in rooms |-> LabelCell(CellsOf(codes, c), crop.w)],
       dock |-> dock, meta |-> RenderMeta(map, crop)]

\* toRenderData, for a map with a drawn cell.
toRenderData(map) ==
  LET crop == Crop(map)
      cells == Cropped(map, crop)
      ids == RoomIds(map, cells)
  IN  Rendered(map, crop, ids, Codes(cells, ids))

\* liveToDisplay: a live point, in raw coordinates, in the cells of the picture.
liveToDisplay(p, border, meta) ==
  <<p[1] - border.left - meta.x, meta.sourceHeight - 1 - (p[2] - border.bottom) - meta.y>>
=============================================================================
