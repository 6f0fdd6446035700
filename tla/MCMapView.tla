------------------------------ MODULE MCMapView ------------------------------
(***************************************************************************)
(* MapView for TLC. Saved maps: every grid of three by two cells, and      *)
(* every pair of rooms as the robot may describe it; these are only looked *)
(* at. The model goes on with a small map, a wide one, one without cells   *)
(* and one without a border.                                               *)
(***************************************************************************)
EXTENDS MapView

CONSTANTS null, den

MCRoom(id, type, number, custom) ==
  [id |-> id, type |-> type, number |-> number, custom |-> custom]

MCMap(w, h, left, grid, station) ==
  [width |-> w, height |-> h, border |-> [left |-> left, bottom |-> 1], grid |-> grid,
   rooms |-> <<MCRoom(2, 3, 0, null), MCRoom(3, 3, 0, null)>>, station |-> station]

\* Outside, a wall, and cells of a room the map does not name and of one it does.
MCGrids == [1..6 -> {0, 32, 256, 516}]

\* Two rooms of a known or an unknown type, numbered or not, with a name or not;
\* the name may read like that of a type.
MCDescribed(id) ==
  {MCRoom(id, t, n, c) : t \in {0, 1, 20}, n \in 0..2, c \in {null, den, <<1, 0, 0>>}}

MCSmallMap == MCMap(5, 1, 0, <<0, 0, 256, 1, 0>>, null)
\* One of its cells has levels of clean and dirt.
MCWideMap == MCMap(6, 1, -1, <<0, 4, 256, 256 + 33 * 65536, 32, 512>>, <<1, 1>>)
MCNoCells == MCMap(4, 1, 0, null, null)
MCNoBorder == [MCMap(3, 1, 0, <<256, 0, 32>>, <<0, 0>>) EXCEPT !.border = null]
MCLiveMaps == {MCSmallMap, MCWideMap, MCNoCells, MCNoBorder}

MCSavedMaps ==
  {MCMap(3, 2, 2, g, <<3, 1>>) : g \in MCGrids}
    \cup {[MCMap(2, 1, 0, <<516, 768>>, null) EXCEPT !.rooms = <<r, s>>] :
            r \in MCDescribed(2), s \in MCDescribed(3)}
    \cup {MCSmallMap}
=============================================================================
