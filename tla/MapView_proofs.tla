--------------------------- MODULE MapView_proofs ---------------------------
(***************************************************************************)
(* The live path of MapView, for any maps, windows, trail lengths and      *)
(* numbers of cleans, losses and restarts: the widget shows a piece of one *)
(* path. Trail, pushes, answers and widget hold pieces of the same path,   *)
(* of which the device itself keeps the end only; so the proof carries the *)
(* whole path of every session along, under an existential quantifier.     *)
(*                                                                         *)
(* And the picture, for any maps of any size: what the device has stored   *)
(* is a map the robot made, so that what MapRender_proofs says of the      *)
(* picture of one map holds of every picture the widget is given.          *)
(***************************************************************************)
EXTENDS MapView, MapRender_proofs, TLAPS

Point == Nat \X Nat

Increasing(path) == \A i, j \in 1..Len(path) : i < j => path[i][1] < path[j][1]

IsSeq(s) == \E S : s \in Seq(S)

\* Points that end the first total points of a path.
Piece(shown, total, path) ==
  /\ IsSeq(shown)
  /\ total \in Nat /\ Len(shown) <= total /\ total <= Len(path)
  /\ \A i \in 1..Len(shown) : shown[i].raw = path[total - Len(shown) + i]

LEMMA Joined ==
  ASSUME NEW s, NEW t, IsSeq(s), IsSeq(t)
  PROVE  /\ IsSeq(s \o t) /\ Len(s \o t) = Len(s) + Len(t)
         /\ Len(s) \in Nat /\ Len(t) \in Nat
         /\ \A i \in 1..Len(s) : (s \o t)[i] = s[i]
         /\ \A i \in 1..Len(t) : (s \o t)[Len(s) + i] = t[i]
<1>1. PICK S, T : s \in Seq(S) /\ t \in Seq(T)
  BY DEF IsSeq
<1>2. s \in Seq(S \cup T) /\ t \in Seq(S \cup T)
  BY <1>1
<1>3. s \o t \in Seq(S \cup T)
  BY <1>2, ConcatProperties
<1> QED
  BY <1>2, <1>3, ConcatProperties, LenProperties DEF IsSeq

\* A sequence with another one after it.
LEMMA Appended ==
  ASSUME NEW S, NEW s \in Seq(S), NEW t \in Seq(S)
  PROVE  /\ s \o t \in Seq(S) /\ Len(s \o t) = Len(s) + Len(t)
         /\ Len(s) \in Nat /\ Len(t) \in Nat
         /\ \A i \in 1..Len(s) : (s \o t)[i] = s[i]
         /\ \A i \in 1..Len(t) : (s \o t)[Len(s) + i] = t[i]
BY ConcatProperties, LenProperties

\* What is left of a sequence without its first k elements.
LEMMA Rest ==
  ASSUME NEW S, NEW s \in Seq(S), NEW k \in 0..Len(s)
  PROVE  /\ SubSeq(s, k + 1, Len(s)) \in Seq(S)
         /\ Len(SubSeq(s, k + 1, Len(s))) = Len(s) - k
         /\ \A i \in 1..Len(s) - k : SubSeq(s, k + 1, Len(s))[i] = s[k + i]
<1>1. Len(s) \in Nat
  BY LenProperties
<1>2. \A i \in (k + 1)..Len(s) : s[i] \in S
  BY <1>1, ElementOfSeq
<1>3. /\ SubSeq(s, k + 1, Len(s)) \in Seq(S)
      /\ Len(SubSeq(s, k + 1, Len(s))) =
           IF k + 1 <= Len(s) THEN Len(s) - (k + 1) + 1 ELSE 0
      /\ \A i \in 1..Len(s) - (k + 1) + 1 :
           SubSeq(s, k + 1, Len(s))[i] = s[(k + 1) + i - 1]
  BY <1>1, <1>2, SubSeqProperties
<1>4. \A i \in 1..Len(s) - k : (k + 1) + i - 1 = k + i /\ i \in 1..Len(s) - (k + 1) + 1
  BY <1>1
<1> QED
  BY <1>1, <1>3, <1>4

\* A piece of a path is one of what the path becomes.
LEMMA PieceGrows ==
  ASSUME NEW shown, NEW total, NEW path, NEW longer, Piece(shown, total, path),
         Len(path) \in Nat, Len(longer) \in Nat,
         Len(path) <= Len(longer), \A i \in 1..Len(path) : longer[i] = path[i]
  PROVE  Piece(shown, total, longer)
<1>1. Len(shown) \in Nat
  BY DEF Piece, IsSeq
<1> QED
  BY <1>1 DEF Piece

\* Pieces that line up make a longer one.
LEMMA PiecesJoin ==
  ASSUME NEW shown, NEW from, NEW more, NEW total, NEW path,
         Piece(shown, from, path), Piece(more, total, path), Len(more) = total - from
  PROVE  Piece(shown \o more, total, path)
<1>0. IsSeq(shown) /\ IsSeq(more)
  BY DEF Piece
<1>1. /\ IsSeq(shown \o more) /\ Len(shown \o more) = Len(shown) + Len(more)
      /\ Len(shown) \in Nat /\ Len(more) \in Nat
      /\ \A i \in 1..Len(shown) : (shown \o more)[i] = shown[i]
      /\ \A i \in 1..Len(more) : (shown \o more)[Len(shown) + i] = more[i]
  BY <1>0, Joined
<1>2. from \in Nat /\ total \in Nat /\ Len(shown) <= from /\ total <= Len(path)
  BY DEF Piece
<1>3. ASSUME NEW i \in 1..Len(shown \o more)
      PROVE  (shown \o more)[i].raw = path[total - Len(shown \o more) + i]
  <2>1. CASE i <= Len(shown)
    BY <1>1, <1>2, <2>1 DEF Piece
  <2>2. CASE i > Len(shown)
    <3> DEFINE j == i - Len(shown)
    <3>1. j \in 1..Len(more) /\ i = Len(shown) + j
      BY <1>1, <2>2
    <3>2. (shown \o more)[i] = more[j]
      BY <1>1, <3>1
    <3>3. more[j].raw = path[total - Len(more) + j]
      BY <3>1 DEF Piece
    <3>4. total - Len(more) + j = total - Len(shown \o more) + i
      BY <1>1, <1>2, <3>1
    <3> QED
      BY <3>2, <3>3, <3>4
  <2> QED
    BY <1>1, <2>1, <2>2
<1> QED
  BY <1>1, <1>2, <1>3 DEF Piece

\* What a map and a picture can place is all of it or nothing.
LEMMA Displayed ==
  ASSUME NEW points, points \in Seq(Point)
  PROVE  /\ IsSeq(DisplayPoints(points))
         /\ DisplayPoints(points) = <<>> \/ Len(DisplayPoints(points)) = Len(points)
         /\ \A i \in 1..Len(DisplayPoints(points)) :
              DisplayPoints(points)[i].raw = points[i]
<1>1. CASE ~HasBorder \/ render.of = Null
  <2>1. DisplayPoints(points) = <<>>
    BY <1>1 DEF DisplayPoints
  <2> QED
    BY <2>1, EmptySeq DEF IsSeq
<1>2. CASE HasBorder /\ render.of # Null
  <2> DEFINE At(i) == liveToDisplay(points[i], map.border, render.meta)
             S == {[raw |-> points[i], at |-> At(i)] : i \in DOMAIN points}
  <2>1. DisplayPoints(points) = [i \in DOMAIN points |-> [raw |-> points[i], at |-> At(i)]]
    BY <1>2 DEF DisplayPoints
  <2> HIDE DEF At
  <2>2. DOMAIN points = 1..Len(points) /\ Len(points) \in Nat
    BY LenProperties
  <2>3. DisplayPoints(points) \in [1..Len(points) -> S]
    BY <2>1, <2>2
  <2>4. DisplayPoints(points) \in Seq(S) /\ Len(DisplayPoints(points)) = Len(points)
    BY <2>2, <2>3
  <2>5. \A i \in 1..Len(points) : DisplayPoints(points)[i].raw = points[i]
    BY <2>1, <2>2
  <2> QED
    BY <2>4, <2>5 DEF IsSeq
<1> QED
  BY <1>1, <1>2

-----------------------------------------------------------------------------
(***************************************************************************)
(* The invariant.                                                          *)
(***************************************************************************)

Device == [trail : Seq(Point), dropped : Nat, pushed : Nat \cup {Null}, recent : BOOLEAN,
           timer : BOOLEAN, session : Nat \ {0}]

Clean == [number : Nat, first : Nat \ {0}, points : Nat, told : Nat]

\* The trail is the end of its session's path.
TrailOf(d, paths) ==
  /\ paths \in [1..d.session -> Seq(Point)]
  /\ \A s \in 1..d.session : Increasing(paths[s])
  /\ Len(paths[d.session]) = d.dropped + Len(d.trail)
  /\ \A i \in 1..Len(d.trail) : d.trail[i] = paths[d.session][d.dropped + i]
  /\ d.trail = <<>> => d.dropped = 0

\* The robot has been where the trail is, in its clean or in one before.
Reached(d, c) ==
  \A i \in 1..Len(d.trail) :
    /\ d.trail[i][1] <= c.points
    /\ d.trail[i][1] >= c.first => d.trail[i][2] = c.number

\* Of a push, an answer and the widget: it has a piece of its session's path.
Held(data, paths) ==
  data.session \in DOMAIN paths /\ Piece(data.points, data.total, paths[data.session])

Sent(push, paths) ==
  /\ Held(push, paths)
  /\ push.from # 0 /\ ~push.unplaced => Len(push.points) = push.total - push.from

Travelling(paths) ==
  /\ IsSeq(pushes)
  /\ \A i \in 1..Len(pushes) : Sent(pushes[i], paths)

Known(paths) ==
  /\ \A r \in replies : Held(r, paths)
  /\ widget = [points |-> widget.points, total |-> widget.total,
               session |-> widget.session, astray |-> widget.astray]
  /\ ~widget.astray => Held(widget, paths)

Typed == device \in Device /\ clean \in Clean /\ clean.first <= clean.points + 1

Ghost(paths) ==
  /\ Typed
  /\ TrailOf(device, paths) /\ Reached(device, clean)
  /\ Travelling(paths) /\ Known(paths)

PathInv == \E paths : Ghost(paths)

-----------------------------------------------------------------------------
(***************************************************************************)
(* The trail and its pushes.                                               *)
(***************************************************************************)

\* since: the end of the path, from the number it names on unless that is 0.
LEMMA SinceEnds ==
  ASSUME NEW d \in Device, NEW paths, TrailOf(d, paths)
  PROVE  LET delta == Since(d, d.pushed)
             path == paths[d.session]
         IN  /\ delta.points \in Seq(Point) /\ delta.from \in Nat
             /\ TrailLength(d) = Len(path) /\ Len(delta.points) <= Len(path)
             /\ delta.from # 0 => Len(delta.points) = Len(path) - delta.from
             /\ \A i \in 1..Len(delta.points) :
                  delta.points[i] = path[Len(path) - Len(delta.points) + i]
<1> DEFINE delta == Since(d, d.pushed)
           path == paths[d.session]
           all == d.pushed = Null \/ d.pushed < d.dropped \/ d.pushed > TrailLength(d)
<1>1. /\ d.trail \in Seq(Point) /\ Len(d.trail) \in Nat /\ d.dropped \in Nat
      /\ d.pushed \in Nat \cup {Null}
  BY DEF Device
<1>2. /\ TrailLength(d) = Len(path) /\ Len(path) = d.dropped + Len(d.trail)
      /\ \A i \in 1..Len(d.trail) : d.trail[i] = path[d.dropped + i]
  BY DEF TrailOf, TrailLength
<1>3. CASE all
  <2>1. delta.points = d.trail /\ delta.from = 0
    BY <1>3 DEF Since
  <2> HIDE DEF delta, path
  <2>2. Len(path) - Len(d.trail) = d.dropped
    BY <1>1, <1>2
  <2>3. Len(d.trail) <= Len(path)
    BY <1>1, <1>2
  <2>4. \A i \in 1..Len(delta.points) : delta.points[i] = path[Len(path) - Len(delta.points) + i]
    BY <1>2, <2>1, <2>2
  <2>5. delta.points \in Seq(Point) /\ delta.from \in Nat /\ delta.from = 0
    BY <1>1, <2>1
  <2> QED
    BY <1>2, <2>1, <2>3, <2>4, <2>5 DEF delta, path
<1>4. CASE ~all
  <2> DEFINE n == d.pushed
             k == n - d.dropped
  <2>1. /\ n \in Nat /\ k \in Nat /\ k <= Len(d.trail)
    BY <1>1, <1>2, <1>4
  <2>2. delta.points = SubSeq(d.trail, k + 1, Len(d.trail)) /\ delta.from = n
    BY <1>4 DEF Since
  <2> HIDE DEF delta, path
  <2>3. /\ delta.points \in Seq(Point) /\ Len(delta.points) = Len(d.trail) - k
        /\ \A i \in 1..Len(delta.points) : delta.points[i] = d.trail[k + i]
    <3>1. k \in 0..Len(d.trail)
      BY <1>1, <2>1
    <3> HIDE DEF k
    <3> QED
      BY <1>1, <2>2, <3>1, Rest
  <2>4. /\ Len(delta.points) = Len(path) - n /\ Len(delta.points) <= Len(path)
    BY <1>1, <1>2, <2>1, <2>3
  <2>5. ASSUME NEW i \in 1..Len(delta.points)
        PROVE  delta.points[i] = path[Len(path) - Len(delta.points) + i]
    <3>1. k + i \in 1..Len(d.trail) /\ d.dropped + (k + i) = Len(path) - Len(delta.points) + i
      BY <1>1, <1>2, <2>1, <2>3
    <3> QED
      BY <1>2, <2>3, <3>1
  <2> QED
    BY <1>2, <2>1, <2>2, <2>3, <2>4, <2>5 DEF delta, path
<1> QED
  BY <1>3, <1>4

\* _pushLive sends a piece of the path.
LEMMA PushedSends ==
  ASSUME NEW d \in Device, NEW paths, TrailOf(d, paths), Travelling(paths), Pushed(d)
  PROVE  /\ device' \in Device /\ TrailOf(device', paths)
         /\ device'.trail = d.trail /\ Travelling(paths)'
<1> DEFINE delta == Since(d, d.pushed)
           path == paths[d.session]
           push == [from |-> delta.from, points |-> DisplayPoints(delta.points),
                    total |-> TrailLength(d), session |-> d.session,
                    unplaced |-> Len(DisplayPoints(delta.points)) # Len(delta.points)]
<1>1. /\ delta.points \in Seq(Point) /\ delta.from \in Nat
      /\ TrailLength(d) = Len(path) /\ Len(delta.points) <= Len(path)
      /\ delta.from # 0 => Len(delta.points) = Len(path) - delta.from
      /\ \A i \in 1..Len(delta.points) :
           delta.points[i] = path[Len(path) - Len(delta.points) + i]
  BY SinceEnds
<1>2. device' = [d EXCEPT !.pushed = TrailLength(d), !.recent = TRUE, !.timer = FALSE]
      /\ pushes' = Append(pushes, push)
  BY DEF Pushed
<1>3. path \in Seq(Point) /\ Len(path) \in Nat /\ d.session \in DOMAIN paths
  BY DEF TrailOf, Device
<1>4. device' \in Device /\ device'.trail = d.trail /\ device'.session = d.session
      /\ device'.dropped = d.dropped
  BY <1>1, <1>2, <1>3 DEF Device
<1>5. TrailOf(device', paths)
  BY <1>4 DEF TrailOf
<1> HIDE DEF delta, path
<1>6. Piece(DisplayPoints(delta.points), Len(path), path)
  <2> DEFINE shown == DisplayPoints(delta.points)
  <2>1. /\ IsSeq(shown)
        /\ shown = <<>> \/ Len(shown) = Len(delta.points)
        /\ \A i \in 1..Len(shown) : shown[i].raw = delta.points[i]
    BY <1>1, Displayed
  <2> HIDE DEF shown
  <2>2. ASSUME shown = <<>> PROVE Piece(shown, Len(path), path)
    <3>1. Len(shown) = 0 /\ 1..Len(shown) = {}
      BY <2>2
    <3> QED
      BY <1>3, <2>1, <3>1 DEF Piece
  <2>3. ASSUME Len(shown) = Len(delta.points) PROVE Piece(shown, Len(path), path)
    <3>1. Len(shown) <= Len(path)
      BY <1>1, <2>3
    <3>2. \A i \in 1..Len(shown) : shown[i].raw = path[Len(path) - Len(shown) + i]
      BY <1>1, <2>1, <2>3
    <3> QED
      BY <1>3, <2>1, <3>1, <3>2 DEF Piece
  <2> QED
    BY <2>1, <2>2, <2>3 DEF shown
<1>7. Sent(push, paths)
  BY <1>1, <1>3, <1>6 DEF Sent, Held, path
<1> HIDE DEF push
<1>8. Travelling(paths)'
  <2>1. PICK S : pushes \in Seq(S)
    BY DEF Travelling, IsSeq
  <2>2. pushes \in Seq(S \cup {push})
    BY <2>1
  <2>3. /\ pushes' \in Seq(S \cup {push}) /\ Len(pushes') = Len(pushes) + 1
        /\ pushes'[Len(pushes) + 1] = push /\ Len(pushes) \in Nat
        /\ \A i \in 1..Len(pushes) : pushes'[i] = pushes[i]
    BY <1>2, <2>2, AppendProperties, LenProperties
  <2>4. \A i \in 1..Len(pushes') : i \in 1..Len(pushes) \/ i = Len(pushes) + 1
    BY <2>3
  <2> QED
    BY <1>7, <2>3, <2>4 DEF Travelling, IsSeq
<1> QED
  BY <1>4, <1>5, <1>8

-----------------------------------------------------------------------------
(***************************************************************************)
(* The trail takes a broadcast.                                            *)
(***************************************************************************)

\* A broadcast: the robot's points from first to n, all of its clean.
Broadcast(first, n) == [i \in 1..n - first + 1 |-> <<first + i - 1, clean.number>>]

\* The paths go on.
Extends(paths, longer) ==
  /\ DOMAIN paths \subseteq DOMAIN longer
  /\ \A s \in DOMAIN paths :
       /\ Len(paths[s]) \in Nat /\ Len(longer[s]) \in Nat /\ Len(paths[s]) <= Len(longer[s])
       /\ \A i \in 1..Len(paths[s]) : longer[s][i] = paths[s][i]

LEMMA BroadcastSeq ==
  ASSUME clean \in Clean, NEW first \in Nat, NEW n \in Nat, first <= n
  PROVE  /\ Broadcast(first, n) \in Seq(Point) /\ Len(Broadcast(first, n)) = n - first + 1
         /\ \A i \in 1..n - first + 1 :
              Broadcast(first, n)[i] = <<first + i - 1, clean.number>>
<1>1. n - first + 1 \in Nat /\ \A i \in 1..n - first + 1 : first + i - 1 \in Nat
  OBVIOUS
<1>2. clean.number \in Nat
  BY DEF Clean
<1>3. Broadcast(first, n) \in [1..n - first + 1 -> Point]
  BY <1>1, <1>2 DEF Broadcast, Point
<1> QED
  BY <1>1, <1>3 DEF Broadcast

\* Where the window goes on: past the last point of the trail, wherever that is.
GoesOn(d, window) ==
  IF d.trail = <<>> THEN 0 ELSE SelectLastInSeq(window, LAMBDA p : p = Last(d.trail))

LEMMA GoesOnPast ==
  ASSUME NEW d \in Device, clean \in Clean, Reached(d, clean),
         NEW first \in Nat, NEW n \in Nat, first <= n, clean.first <= first, clean.points <= n
  PROVE  LET known == GoesOn(d, Broadcast(first, n))
         IN  /\ known \in 0..n - first + 1
             /\ d.trail # <<>> => Last(d.trail)[1] < first + known
<1> DEFINE window == Broadcast(first, n)
           size == n - first + 1
<1>0. /\ Len(window) = size /\ size \in Nat
      /\ \A i \in 1..size : window[i] = <<first + i - 1, clean.number>>
  <2>1. size \in Nat
    OBVIOUS
  <2> HIDE DEF window
  <2>2. /\ Len(window) = n - first + 1
        /\ \A i \in 1..n - first + 1 : window[i] = <<first + i - 1, clean.number>>
    BY BroadcastSeq DEF window
  <2> QED
    BY <2>1, <2>2
<1>1. CASE d.trail = <<>>
  BY <1>0, <1>1 DEF GoesOn
<1>2. CASE d.trail # <<>>
  <2> DEFINE last == Last(d.trail)
             known == GoesOn(d, window)
             I == {i \in 1..Len(window) : window[i] = last}
  <2>1. /\ last \in Point /\ last[1] <= clean.points
        /\ last[1] >= clean.first => last[2] = clean.number
    <3>1. d.trail \in Seq(Point) /\ Len(d.trail) \in Nat \ {0}
      BY <1>2 DEF Device
    <3>2. last = d.trail[Len(d.trail)]
      BY DEF Last
    <3> QED
      BY <3>1, <3>2 DEF Reached
  <2>2. known = IF I # {} THEN Max(I) ELSE 0
    BY <1>2 DEF GoesOn, SelectLastInSeq
  <2> HIDE DEF window, last, known
  <2>3. last[1] \in Nat /\ last = <<last[1], last[2]>>
    BY <2>1 DEF Point
  <2>4. clean.first \in Nat /\ clean.points \in Nat
    BY DEF Clean
  <2>5. CASE I = {}
    <3>1. known = 0
      BY <2>2, <2>5
    <3>2. ASSUME last[1] >= first PROVE FALSE
      <4> DEFINE i == last[1] - first + 1
      <4>1. i \in 1..size /\ first + i - 1 = last[1]
        BY <2>1, <2>3, <2>4, <3>2
      <4>2. last[2] = clean.number
        BY <2>1, <2>3, <2>4, <3>2
      <4>3. window[i] = last
        BY <1>0, <2>3, <4>1, <4>2
      <4> QED
        BY <1>0, <2>5, <4>1, <4>3
    <3>3. last[1] < first
      BY <2>3, <3>2
    <3> QED
      BY <1>0, <3>1, <3>3 DEF known, last, window
  <2>6. ASSUME NEW i \in I PROVE known \in 0..size /\ last[1] < first + known
    <3>1. i \in 1..size /\ last = <<first + i - 1, clean.number>>
      BY <1>0
    <3>2. \A j \in I : j = i
      <4> TAKE j \in I
      <4>1. j \in 1..size /\ last = <<first + j - 1, clean.number>>
        BY <1>0
      <4>2. first + j - 1 = first + i - 1
        BY <3>1, <4>1
      <4> QED
        BY <3>1, <4>1, <4>2
    <3>3. I = {i}
      BY <3>2
    <3>4. Max({i}) = i
      BY <3>1 DEF Max
    <3>5. known = i
      BY <2>2, <3>3, <3>4
    <3>6. last[1] = first + i - 1
      BY <3>1
    <3> QED
      BY <3>1, <3>5, <3>6
  <2> QED
    BY <2>5, <2>6 DEF known, last, window
<1> QED
  BY <1>1, <1>2

\* add: the path goes on with what is new of the broadcast, the trail with its end.
LEMMA AddExtends ==
  ASSUME NEW d \in Device, NEW paths, TrailOf(d, paths), Reached(d, clean), clean \in Clean,
         NEW first \in Nat, NEW n \in Nat, first <= n, clean.first <= first, clean.points <= n
  PROVE  LET taken == Add(d, Broadcast(first, n))
         IN  /\ taken \in Device /\ taken.session = d.session
             /\ Reached(taken, [clean EXCEPT !.points = n])
             /\ \E longer : TrailOf(taken, longer) /\ Extends(paths, longer)
<1> DEFINE window == Broadcast(first, n)
           taken == Add(d, window)
           known == GoesOn(d, window)
           new == SubSeq(window, known + 1, Len(window))
           path == paths[d.session]
           trail == d.trail \o new
           over == Largest(0, Len(trail) - TrailMax)
           more == path \o new
           longer == [paths EXCEPT ![d.session] = more]
<1>1. /\ d.trail \in Seq(Point) /\ Len(d.trail) \in Nat /\ d.dropped \in Nat
      /\ d.session \in Nat \ {0} /\ path \in Seq(Point) /\ Len(path) \in Nat
  BY DEF Device, TrailOf
<1>2. /\ Len(path) = d.dropped + Len(d.trail)
      /\ \A i \in 1..Len(d.trail) : d.trail[i] = path[d.dropped + i]
      /\ d.trail = <<>> => d.dropped = 0
      /\ Increasing(path)
  BY <1>1 DEF TrailOf
<1>3. known \in 0..n - first + 1 /\ (d.trail # <<>> => Last(d.trail)[1] < first + known)
  BY GoesOnPast
<1>4. /\ new \in Seq(Point) /\ Len(new) = n - first + 1 - known
      /\ \A i \in 1..Len(new) : new[i] = <<first + known + i - 1, clean.number>>
  <2>1. /\ window \in Seq(Point) /\ Len(window) = n - first + 1
        /\ \A i \in 1..n - first + 1 : window[i] = <<first + i - 1, clean.number>>
    BY BroadcastSeq
  <2>2. known \in 0..Len(window)
    BY <1>3, <2>1
  <2> HIDE DEF window, known
  <2>3. /\ new \in Seq(Point) /\ Len(new) = Len(window) - known
        /\ \A i \in 1..Len(window) - known : new[i] = window[known + i]
    BY <2>1, <2>2, Rest
  <2> HIDE DEF new
  <2>4. Len(new) = n - first + 1 - known
    BY <2>1, <2>2, <2>3
  <2>5. ASSUME NEW i \in 1..Len(new) PROVE new[i] = <<first + known + i - 1, clean.number>>
    <3>1. /\ i \in 1..Len(window) - known /\ known + i \in 1..n - first + 1
          /\ first + (known + i) - 1 = first + known + i - 1
      BY <2>1, <2>2, <2>4
    <3>2. new[i] = window[known + i]
      BY <2>3, <3>1
    <3>3. window[known + i] = <<first + (known + i) - 1, clean.number>>
      BY <2>1, <3>1
    <3> QED
      BY <3>1, <3>2, <3>3
  <2> QED
    BY <2>3, <2>4, <2>5
<1>5. taken = [d EXCEPT !.trail = SubSeq(trail, over + 1, Len(trail)), !.dropped = @ + over]
  BY DEF Add, GoesOn
<1> HIDE DEF window, taken, known, new, path
<1>6. /\ trail \in Seq(Point) /\ Len(trail) = Len(d.trail) + Len(new) /\ Len(new) \in Nat
      /\ \A i \in 1..Len(d.trail) : trail[i] = d.trail[i]
      /\ \A i \in 1..Len(new) : trail[Len(d.trail) + i] = new[i]
  <2>1. d.trail \in Seq(Point) /\ new \in Seq(Point)
    BY <1>1, <1>4
  <2> QED
    BY <2>1, Appended
<1>7. /\ more \in Seq(Point) /\ Len(more) = Len(path) + Len(new)
      /\ \A i \in 1..Len(path) : more[i] = path[i]
      /\ \A i \in 1..Len(new) : more[Len(path) + i] = new[i]
  <2>1. path \in Seq(Point) /\ new \in Seq(Point)
    BY <1>1, <1>4
  <2> QED
    BY <2>1, Appended
<1> HIDE DEF trail, more
<1>8. over \in 0..Len(trail) /\ (over # 0 => Len(trail) - over = TrailMax) /\ TrailMax \in Nat \ {0}
  BY <1>1, <1>6, ViewConstants DEF Largest
<1> HIDE DEF over
\* The lengths.
<1>0. /\ Len(d.trail) \in Nat /\ Len(new) \in Nat /\ d.dropped \in Nat /\ over \in Nat
      /\ Len(path) = d.dropped + Len(d.trail) /\ Len(trail) = Len(d.trail) + Len(new)
      /\ Len(more) = Len(path) + Len(new) /\ over <= Len(trail)
  BY <1>1, <1>2, <1>6, <1>7, <1>8
<1>9. /\ taken \in Device /\ taken.session = d.session /\ taken.dropped = d.dropped + over
      /\ Len(taken.trail) = Len(trail) - over
      /\ \A i \in 1..Len(taken.trail) : taken.trail[i] = trail[over + i]
  <2>1. /\ SubSeq(trail, over + 1, Len(trail)) \in Seq(Point)
        /\ Len(SubSeq(trail, over + 1, Len(trail))) = Len(trail) - over
        /\ \A i \in 1..Len(trail) - over :
             SubSeq(trail, over + 1, Len(trail))[i] = trail[over + i]
    BY <1>6, <1>8, Rest
  <2> DEFINE cut == SubSeq(trail, over + 1, Len(trail))
  <2> HIDE DEF cut
  <2>2. cut \in Seq(Point) /\ Len(cut) = Len(trail) - over
        /\ \A i \in 1..Len(trail) - over : cut[i] = trail[over + i]
    BY <2>1 DEF cut
  <2>3. taken = [d EXCEPT !.trail = cut, !.dropped = @ + over]
    BY <1>5 DEF cut
  <2>4. d.dropped + over \in Nat
    BY <1>0
  <2>5. taken \in Device /\ taken.session = d.session /\ taken.dropped = d.dropped + over
        /\ taken.trail = cut
    BY <2>2, <2>3, <2>4 DEF Device
  <2> QED
    BY <2>2, <2>5
\* The trail before it is cut is the end of the longer path.
<1>10. ASSUME NEW i \in 1..Len(trail) PROVE trail[i] = more[d.dropped + i]
  <2>1. CASE i <= Len(d.trail)
    <3>1. i \in 1..Len(d.trail) /\ d.dropped + i \in 1..Len(path)
      BY <1>1, <1>2, <2>1
    <3> QED
      BY <1>2, <1>6, <1>7, <3>1
  <2>2. CASE i > Len(d.trail)
    <3> DEFINE j == i - Len(d.trail)
    <3>1. /\ j \in 1..Len(new) /\ i = Len(d.trail) + j
          /\ d.dropped + i = Len(path) + j
      BY <1>1, <1>2, <1>6, <2>2
    <3> QED
      BY <1>6, <1>7, <3>1
  <2> QED
    BY <1>1, <1>6, <2>1, <2>2
<1>11. Increasing(more)
  <2>1. ASSUME NEW i \in 1..Len(path) PROVE path[i][1] < first + known /\ path[i][1] \in Nat
    <3>0. d.trail # <<>>
      <4>1. Len(<<>>) = 0
        BY EmptySeq
      <4>2. Len(path) # 0
        BY <1>0
      <4> QED
        BY <1>0, <1>2, <4>1, <4>2
    <3>1. Last(d.trail) = path[Len(path)] /\ Len(path) \in 1..Len(path)
      <4>1. Len(d.trail) \in 1..Len(d.trail)
        BY <1>1, <3>0, EmptySeq
      <4>2. d.trail[Len(d.trail)] = path[d.dropped + Len(d.trail)]
        BY <1>2, <4>1
      <4> QED
        BY <1>0, <4>1, <4>2 DEF Last
    <3>2. path[i] \in Point /\ path[Len(path)] \in Point
      BY <1>1
    <3>3. path[i][1] \in Nat /\ path[Len(path)][1] \in Nat
      BY <3>2 DEF Point
    <3>4. path[i][1] <= path[Len(path)][1]
      BY <1>1, <1>2, <3>3 DEF Increasing
    <3> QED
      BY <1>3, <3>0, <3>1, <3>3, <3>4
  <2>2. \A i \in 1..Len(new) : new[i][1] = first + known + i - 1
    BY <1>4
  <2>3. SUFFICES ASSUME NEW i \in 1..Len(more), NEW j \in 1..Len(more), i < j
                 PROVE  more[i][1] < more[j][1]
    BY DEF Increasing
  <2>4. CASE j <= Len(path)
    <3>1. i \in 1..Len(path) /\ j \in 1..Len(path)
      BY <1>1, <2>4, <2>3
    <3> QED
      BY <1>2, <1>7, <2>3, <3>1 DEF Increasing
  <2>5. CASE j > Len(path)
    <3> DEFINE l == j - Len(path)
    <3>1. l \in 1..Len(new) /\ j = Len(path) + l
      BY <1>1, <1>6, <1>7, <2>5
    <3>2. more[j][1] = first + known + l - 1
      BY <1>7, <2>2, <3>1
    <3>3. CASE i <= Len(path)
      <4>1. i \in 1..Len(path)
        BY <1>1, <3>3
      <4> QED
        BY <1>3, <1>7, <2>1, <3>1, <3>2, <4>1
    <3>4. CASE i > Len(path)
      <4> DEFINE k == i - Len(path)
      <4>1. k \in 1..Len(new) /\ i = Len(path) + k
        BY <1>1, <1>6, <1>7, <3>4
      <4>2. more[i][1] = first + known + k - 1
        BY <1>7, <2>2, <4>1
      <4>3. k < l
        BY <1>1, <2>3, <3>1, <4>1
      <4> QED
        BY <1>3, <3>1, <3>2, <4>1, <4>2, <4>3
    <3> QED
      BY <1>1, <3>3, <3>4
  <2> QED
    BY <1>1, <1>7, <2>4, <2>5
<1>12. Reached(taken, [clean EXCEPT !.points = n])
  <2>1. clean.first \in Nat /\ clean.points \in Nat /\ clean.number \in Nat
    BY DEF Clean
  <2> DEFINE c == [clean EXCEPT !.points = n]
  <2>2. c.points = n /\ c.first = clean.first /\ c.number = clean.number
    BY DEF Clean
  <2> HIDE DEF c
  <2>3. ASSUME NEW i \in 1..Len(trail)
        PROVE  trail[i][1] <= n /\ (trail[i][1] >= clean.first => trail[i][2] = clean.number)
    <3>1. CASE i <= Len(d.trail)
      <4>1. i \in 1..Len(d.trail) /\ d.trail[i] \in Point
        BY <1>1, <3>1
      <4>2. d.trail[i][1] \in Nat
        BY <4>1 DEF Point
      <4> QED
        BY <1>6, <2>1, <4>1, <4>2 DEF Reached
    <3>2. CASE i > Len(d.trail)
      <4> DEFINE j == i - Len(d.trail)
      <4>1. j \in 1..Len(new) /\ i = Len(d.trail) + j
        BY <1>1, <1>6, <3>2
      <4>2. trail[i] = <<first + known + j - 1, clean.number>>
        BY <1>4, <1>6, <4>1
      <4>3. first + known + j - 1 <= n
        <5>1. j \in 1..n - first + 1 - known /\ known \in Nat
          BY <1>3, <1>4, <4>1
        <5> HIDE DEF j
        <5> QED
          BY <5>1
      <4> QED
        BY <4>2, <4>3
    <3> QED
      BY <1>1, <1>6, <3>1, <3>2
  <2>4. \A i \in 1..Len(taken.trail) : over + i \in 1..Len(trail)
    BY <1>1, <1>6, <1>8, <1>9
  <2>5. Reached(taken, c)
    BY <1>9, <2>2, <2>3, <2>4 DEF Reached
  <2> QED
    BY <2>5 DEF c
<1>13. TrailOf(taken, longer)
  <2>1. d.session \in 1..d.session /\ DOMAIN paths = 1..d.session
    BY <1>1 DEF TrailOf
  <2>2. /\ longer \in [1..d.session -> Seq(Point)] /\ longer[d.session] = more
        /\ \A s \in 1..d.session : s # d.session => longer[s] = paths[s]
    BY <1>7, <2>1 DEF TrailOf
  <2> HIDE DEF longer
  <2>3. \A s \in 1..d.session : Increasing(longer[s])
    BY <1>11, <2>2 DEF TrailOf
  <2>4. Len(more) = d.dropped + over + (Len(trail) - over)
    BY <1>0
  <2>5. \A i \in 1..Len(taken.trail) : taken.trail[i] = more[d.dropped + over + i]
    <3> TAKE i \in 1..Len(taken.trail)
    <3>1. over + i \in 1..Len(trail) /\ d.dropped + (over + i) = d.dropped + over + i
      BY <1>1, <1>6, <1>8, <1>9
    <3> QED
      BY <1>9, <1>10, <3>1
  <2>6. ASSUME taken.trail = <<>> PROVE d.dropped + over = 0
    <3>1. Len(trail) - over = 0
      BY <1>9, <2>6
    <3>2. over = 0 /\ Len(trail) = 0
      BY <1>6, <1>8, <3>1
    <3>3. Len(d.trail) = 0
      <4>1. Len(d.trail) + Len(new) = 0 /\ Len(d.trail) \in Nat /\ Len(new) \in Nat
        BY <1>0, <3>2
      <4>2. \A a, b \in Nat : a + b = 0 => a = 0
        OBVIOUS
      <4> QED
        BY <4>1, <4>2
    <3>4. d.trail = <<>>
      BY <1>1, <3>3, EmptySeq
    <3> QED
      BY <1>1, <1>2, <3>2, <3>4
  <2> QED
    BY <1>9, <2>2, <2>3, <2>4, <2>5, <2>6 DEF TrailOf
<1>14. Extends(paths, longer)
  <2>1. DOMAIN paths = 1..d.session /\ d.session \in 1..d.session
    BY <1>1 DEF TrailOf
  <2>2. \A s \in 1..d.session : paths[s] \in Seq(Point) /\ Len(paths[s]) \in Nat
    BY DEF TrailOf
  <2>3. \A s \in 1..d.session : longer[s] = IF s = d.session THEN more ELSE paths[s]
    BY <2>1
  <2>4. DOMAIN longer = 1..d.session
    BY <2>1
  <2> HIDE DEF longer
  <2>5. Len(more) \in Nat /\ Len(path) <= Len(more)
    BY <1>1, <1>6, <1>7
  <2>6. ASSUME NEW s \in DOMAIN paths
        PROVE  /\ Len(paths[s]) \in Nat /\ Len(longer[s]) \in Nat
               /\ Len(paths[s]) <= Len(longer[s])
               /\ \A i \in 1..Len(paths[s]) : longer[s][i] = paths[s][i]
    <3>1. CASE s = d.session
      <4>1. longer[s] = more /\ paths[s] = path
        BY <2>1, <2>3, <3>1 DEF path
      <4> QED
        BY <1>1, <1>7, <2>5, <4>1
    <3>2. CASE s # d.session
      <4>1. longer[s] = paths[s] /\ Len(paths[s]) \in Nat
        BY <2>1, <2>2, <2>3, <3>2
      <4> QED
        BY <4>1
    <3> QED
      BY <3>1, <3>2
  <2> QED
    BY <2>1, <2>4, <2>6 DEF Extends
<1> QED
  BY <1>9, <1>12, <1>13, <1>14 DEF taken, window

-----------------------------------------------------------------------------
(***************************************************************************)
(* The steps.                                                              *)
(***************************************************************************)

\* What is held of the paths is held of what they become.
LEMMA ExtendsHeld ==
  ASSUME NEW paths, NEW longer, Extends(paths, longer), NEW data, Held(data, paths)
  PROVE  Held(data, longer)
BY PieceGrows DEF Held, Extends

LEMMA ExtendsKeeps ==
  ASSUME NEW paths, NEW longer, Extends(paths, longer)
  PROVE  /\ Travelling(paths) => Travelling(longer)
         /\ Known(paths) => Known(longer)
<1>1. Travelling(paths) => Travelling(longer)
  BY ExtendsHeld DEF Travelling, Sent
<1>2. Known(paths) => Known(longer)
  BY ExtendsHeld DEF Known
<1> QED
  BY <1>1, <1>2

\* Another session's path is empty, and what is under way and shown stays true.
LEMMA NextSession ==
  ASSUME NEW paths, Ghost(paths), NEW next \in Device, next.trail = <<>>, next.dropped = 0,
         next.session = device.session + 1
  PROVE  \E longer : TrailOf(next, longer) /\ Extends(paths, longer)
<1> DEFINE n == device.session
           longer == [s \in 1..n + 1 |-> IF s = n + 1 THEN <<>> ELSE paths[s]]
<1>1. /\ n \in Nat /\ paths \in [1..n -> Seq(Point)] /\ \A s \in 1..n : Increasing(paths[s])
  BY DEF Ghost, Typed, Device, TrailOf
<1>2. /\ longer \in [1..n + 1 -> Seq(Point)] /\ longer[n + 1] = <<>>
      /\ \A s \in 1..n : longer[s] = paths[s]
  <2>1. <<>> \in Seq(Point)
    OBVIOUS
  <2>2. \A s \in 1..n + 1 : s # n + 1 => s \in 1..n /\ paths[s] \in Seq(Point)
    BY <1>1
  <2>3. longer \in [1..n + 1 -> Seq(Point)]
    BY <2>1, <2>2
  <2>4. n + 1 \in 1..n + 1 /\ \A s \in 1..n : s \in 1..n + 1 /\ s # n + 1
    BY <1>1
  <2> QED
    BY <2>3, <2>4
<1> HIDE DEF longer
<1>3. Len(<<>>) = 0
  BY EmptySeq
<1>4. \A s \in 1..n + 1 : Increasing(longer[s])
  <2> TAKE s \in 1..n + 1
  <2>1. CASE s = n + 1
    BY <1>2, <1>3, <2>1 DEF Increasing
  <2>2. CASE s # n + 1
    <3>1. s \in 1..n
      BY <1>1, <2>2
    <3> QED
      BY <1>1, <1>2, <3>1
  <2> QED
    BY <2>1, <2>2
<1>5. TrailOf(next, longer)
  BY <1>2, <1>3, <1>4 DEF TrailOf
<1>6. Extends(paths, longer)
  <2>1. DOMAIN paths = 1..n /\ DOMAIN longer = 1..n + 1 /\ 1..n \subseteq 1..n + 1
    BY <1>1, <1>2
  <2>2. \A s \in 1..n : Len(paths[s]) \in Nat
    BY <1>1
  <2> QED
    BY <1>2, <2>1, <2>2 DEF Extends
<1> QED
  BY <1>5, <1>6

LEMMA NewSessionKeeps ==
  ASSUME NEW paths, Ghost(paths), clean' \in Clean, clean'.first <= clean'.points + 1,
         device' \in Device, device'.trail = <<>>, device'.dropped = 0,
         device'.session = device.session + 1,
         replies' = replies \/ replies' = {}, UNCHANGED <<pushes, widget>>
  PROVE  PathInv'
<1>1. PICK longer : TrailOf(device', longer) /\ Extends(paths, longer)
  BY NextSession
<1>2. Travelling(longer) /\ Known(longer)
  BY <1>1, ExtendsKeeps DEF Ghost
<1>3. Travelling(longer)' /\ Known(longer)'
  BY <1>2 DEF Travelling, Known
<1>4. Reached(device', clean')
  <2>1. Len(<<>>) = 0
    BY EmptySeq
  <2> QED
    BY <2>1 DEF Reached
<1>5. Ghost(longer)'
  BY <1>1, <1>3, <1>4 DEF Ghost, Typed
<1> QED
  BY <1>5 DEF PathInv

\* What leaves the path alone.
LEMMA SameGhost ==
  ASSUME NEW paths, Ghost(paths), UNCHANGED <<device, clean, pushes, widget, replies>>
  PROVE  PathInv'
<1>1. Ghost(paths)'
  BY DEF Ghost, Typed, Travelling, Known
<1> QED
  BY <1>1 DEF PathInv

\* The device's flags do not matter to the path.
LEMMA FlagsKeep ==
  ASSUME NEW paths, Ghost(paths), NEW timer \in BOOLEAN, NEW recent \in BOOLEAN,
         device' = [device EXCEPT !.timer = timer, !.recent = recent],
         UNCHANGED <<clean, pushes, widget, replies>>
  PROVE  PathInv'
<1>1. /\ device' \in Device /\ device'.trail = device.trail
      /\ device'.dropped = device.dropped /\ device'.session = device.session
  BY DEF Ghost, Typed, Device
<1>2. TrailOf(device', paths) /\ Reached(device', clean)
  BY <1>1 DEF Ghost, TrailOf, Reached
<1>3. Ghost(paths)'
  BY <1>1, <1>2 DEF Ghost, Typed, Travelling, Known
<1> QED
  BY <1>3 DEF PathInv

LEMMA MovesKeeps ==
  ASSUME NEW paths, Ghost(paths), NEW k \in 1..Window, Moves(k)
  PROVE  PathInv'
<1> DEFINE n == clean.points + k
           first == Largest(clean.first, n - Window + 1)
           taken == Add(device, Broadcast(first, n))
<1>1. clean \in Clean /\ clean.first \in Nat \ {0} /\ clean.points \in Nat
  BY DEF Ghost, Typed, Clean
<1>2. /\ clean' = [clean EXCEPT !.points = n] /\ clean'.points = n
      /\ clean'.first = clean.first /\ clean'.number = clean.number
  BY <1>1 DEF Moves, Clean
<1>3. n \in Nat /\ clean.points <= n /\ clean.first <= n /\ Window \in Nat \ {0}
  BY <1>1, ViewConstants DEF Ghost, Typed
<1>4. first \in Nat /\ clean.first <= first /\ first <= n
  BY <1>1, <1>3 DEF Largest
<1>5. clean' \in Clean /\ clean'.first <= clean'.points + 1
  BY <1>1, <1>2, <1>3 DEF Clean
<1>6. UNCHANGED <<widget, replies>>
  BY DEF Moves
<1>7. ASSUME UNCHANGED <<device, pushes>> PROVE PathInv'
  <2>1. Reached(device, clean')
    <3>1. \A i \in 1..Len(device.trail) : device.trail[i][1] \in Nat
      BY DEF Ghost, Typed, Device, Point
    <3> QED
      BY <1>1, <1>2, <1>3, <3>1 DEF Ghost, Reached
  <2>2. Ghost(paths)'
    BY <1>5, <1>6, <1>7, <2>1 DEF Ghost, Typed, Travelling, Known
  <2> QED
    BY <2>2 DEF PathInv
<1>8. CASE OnLive(Broadcast(first, n)) /\ HasBorder
  <2>1. PICK longer : /\ taken \in Device /\ taken.session = device.session
                      /\ Reached(taken, clean')
                      /\ TrailOf(taken, longer) /\ Extends(paths, longer)
    BY <1>1, <1>2, <1>3, <1>4, AddExtends DEF Ghost, Typed
  <2> HIDE DEF taken
  <2>2. Travelling(longer) /\ Known(longer)
    BY <2>1, ExtendsKeeps DEF Ghost
  <2>3. Known(longer)'
    BY <1>6, <2>2 DEF Known
  <2>4. CASE device' = [taken EXCEPT !.timer = TRUE] /\ UNCHANGED pushes
    <3>1. /\ device' \in Device /\ device'.trail = taken.trail
          /\ device'.dropped = taken.dropped /\ device'.session = taken.session
      BY <2>1, <2>4 DEF Device
    <3>2. TrailOf(device', longer) /\ Reached(device', clean')
      BY <2>1, <3>1 DEF TrailOf, Reached
    <3>3. Travelling(longer)'
      BY <2>2, <2>4 DEF Travelling
    <3>4. Ghost(longer)'
      BY <1>5, <2>3, <3>1, <3>2, <3>3 DEF Ghost, Typed
    <3> QED
      BY <3>4 DEF PathInv
  <2>5. CASE Pushed(taken)
    <3>1. /\ device' \in Device /\ TrailOf(device', longer)
          /\ device'.trail = taken.trail /\ Travelling(longer)'
      BY <2>1, <2>2, <2>5, PushedSends
    <3>2. Reached(device', clean')
      BY <2>1, <3>1 DEF Reached
    <3>3. Ghost(longer)'
      BY <1>5, <2>3, <3>1, <3>2 DEF Ghost, Typed
    <3> QED
      BY <3>3 DEF PathInv
  <2> QED
    BY <1>8, <2>4, <2>5 DEF OnLive, taken
<1> QED
  <2>1. OnLive(Broadcast(first, n)) \/ UNCHANGED <<device, pushes>>
    BY <1>2 DEF Moves, Broadcast
  <2>2. OnLive(Broadcast(first, n)) /\ ~HasBorder => UNCHANGED <<device, pushes>>
    BY DEF OnLive
  <2> QED
    BY <1>7, <1>8, <2>1, <2>2

LEMMA NextCleanKeeps ==
  ASSUME NEW paths, Ghost(paths), NextClean
  PROVE  PathInv'
<1>1. /\ clean.number \in Nat /\ clean.first \in Nat \ {0} /\ clean.points \in Nat
      /\ clean.told \in Nat
  BY DEF Ghost, Typed, Clean
<1>2. /\ clean' = [clean EXCEPT !.number = @ + 1, !.first = clean.points + 1]
      /\ UNCHANGED <<device, pushes, widget, replies>>
  BY DEF NextClean
<1>3. /\ clean' \in Clean /\ clean'.first = clean.points + 1 /\ clean'.points = clean.points
  <2>1. clean \in Clean
    BY DEF Ghost, Typed
  <2>2. clean.number + 1 \in Nat /\ clean.points + 1 \in Nat \ {0}
    BY <1>1
  <2> QED
    BY <1>2, <2>1, <2>2 DEF Clean
<1>4. Reached(device, clean')
  <2>1. \A i \in 1..Len(device.trail) : device.trail[i][1] \in Nat
    BY DEF Ghost, Typed, Device, Point
  <2> QED
    BY <1>1, <1>3, <2>1 DEF Ghost, Reached
<1>5. Ghost(paths)'
  BY <1>1, <1>2, <1>3, <1>4 DEF Ghost, Typed, Travelling, Known
<1> QED
  BY <1>5 DEF PathInv

\* A trail that is reset.
LEMMA ClearedIs ==
  ASSUME NEW d \in Device
  PROVE  /\ Cleared(d) \in Device /\ Cleared(d).trail = <<>> /\ Cleared(d).dropped = 0
         /\ Cleared(d).session = d.session + 1
<1>1. d.session + 1 \in Nat \ {0} /\ <<>> \in Seq(Point)
  BY DEF Device
<1> QED
  BY <1>1 DEF Device, Cleared

LEMMA NewPathKeeps ==
  ASSUME NEW paths, Ghost(paths), NewPath
  PROVE  PathInv'
<1>1. /\ clean' = [clean EXCEPT !.told = clean.number]
      /\ device' = [Cleared(device) EXCEPT !.pushed = 0]
      /\ UNCHANGED <<pushes, widget, replies>>
  BY DEF NewPath
<1>2. /\ clean' \in Clean /\ clean'.first <= clean'.points + 1
  BY <1>1 DEF Ghost, Typed, Clean
<1>3. /\ device' \in Device /\ device'.trail = <<>> /\ device'.dropped = 0
      /\ device'.session = device.session + 1
  <2>1. device \in Device
    BY DEF Ghost, Typed
  <2> QED
    BY <1>1, <2>1, ClearedIs DEF Device
<1> QED
  BY <1>1, <1>2, <1>3, NewSessionKeeps

LEMMA AppRestartsKeeps ==
  ASSUME NEW paths, Ghost(paths), AppRestarts
  PROVE  PathInv'
<1>1. /\ device' = [Cleared(device) EXCEPT !.pushed = Null, !.recent = FALSE, !.timer = FALSE]
      /\ replies' = {} /\ UNCHANGED <<clean, pushes, widget>>
  BY DEF AppRestarts
<1>2. /\ clean' \in Clean /\ clean'.first <= clean'.points + 1
  BY <1>1 DEF Ghost, Typed
<1>3. /\ device' \in Device /\ device'.trail = <<>> /\ device'.dropped = 0
      /\ device'.session = device.session + 1
  <2>1. device \in Device
    BY DEF Ghost, Typed
  <2> QED
    BY <1>1, <2>1, ClearedIs DEF Device
<1> QED
  BY <1>1, <1>2, <1>3, NewSessionKeeps

LEMMA IntervalOverKeeps ==
  ASSUME NEW paths, Ghost(paths), IntervalOver
  PROVE  PathInv'
<1>1. CASE Pushed(device)
  <2>1. UNCHANGED <<clean, widget, replies>>
    BY DEF IntervalOver
  <2>2. /\ device' \in Device /\ TrailOf(device', paths)
        /\ device'.trail = device.trail /\ Travelling(paths)'
    BY <1>1, PushedSends DEF Ghost, Typed
  <2>3. Ghost(paths)'
    BY <2>1, <2>2 DEF Ghost, Typed, Reached, Known
  <2> QED
    BY <2>3 DEF PathInv
<1>2. CASE device' = [device EXCEPT !.recent = FALSE, !.timer = FALSE] /\ UNCHANGED pushes
  <2>1. device' = [device EXCEPT !.timer = FALSE, !.recent = FALSE]
    BY <1>2 DEF Ghost, Typed, Device
  <2> QED
    BY <1>2, <2>1, FlagsKeep DEF IntervalOver
<1> QED
  BY <1>1, <1>2 DEF IntervalOver

LEMMA ClientRestartsKeeps ==
  ASSUME NEW paths, Ghost(paths), ClientRestarts
  PROVE  PathInv'
<1>1. device.recent \in BOOLEAN
  BY DEF Ghost, Typed, Device
<1>2. device' = [device EXCEPT !.timer = FALSE, !.recent = device.recent]
  BY DEF ClientRestarts, Ghost, Typed, Device
<1> QED
  BY <1>1, <1>2, FlagsKeep DEF ClientRestarts

-----------------------------------------------------------------------------
(***************************************************************************)
(* The widget.                                                             *)
(***************************************************************************)

\* The first push leaves.
LEMMA PushTaken ==
  ASSUME NEW paths, Travelling(paths), pushes # <<>>, pushes' = Tail(pushes)
  PROVE  Travelling(paths)' /\ Sent(Head(pushes), paths)
<1>1. PICK S : pushes \in Seq(S)
  BY DEF Travelling, IsSeq
<1>2. /\ Tail(pushes) \in Seq(S) /\ Head(pushes) = pushes[1] /\ Len(pushes) \in Nat \ {0}
      /\ Len(Tail(pushes)) = Len(pushes) - 1
      /\ \A i \in 1..Len(Tail(pushes)) : Tail(pushes)[i] = pushes[i + 1]
  BY <1>1, HeadTailProperties, EmptySeq, LenProperties
<1>3. \A i \in 1..Len(Tail(pushes)) : i + 1 \in 1..Len(pushes)
  BY <1>2
<1> QED
  BY <1>2, <1>3 DEF Travelling, IsSeq

\* A path that replaces the widget's is a piece of one.
LEMMA ReplacedHeld ==
  ASSUME NEW paths, Known(paths), NEW data, Held(data, paths), widget' = Replaced(data),
         replies' \subseteq replies
  PROVE  Known(paths)'
<1>1. /\ widget' = [points |-> data.points,
                    total |-> IF data.total = 0 THEN Len(data.points) ELSE data.total,
                    session |-> data.session, astray |-> FALSE]
  BY DEF Known, Replaced
<1>2. data.total = 0 => Len(data.points) = 0
  BY DEF Held, Piece, IsSeq
<1>3. widget'.points = data.points /\ widget'.total = data.total
      /\ widget'.session = data.session
  BY <1>1, <1>2
<1>4. Held(widget', paths)
  BY <1>3 DEF Held
<1> QED
  BY <1>1, <1>4 DEF Known

\* A push that lines up and is not astray goes on with the piece.
LEMMA ExtendedHeld ==
  ASSUME NEW paths, Known(paths), NEW data, Sent(data, paths), data.from # 0,
         data.from = widget.total, widget' = Extended(data), replies' = replies
  PROVE  Known(paths)'
<1>1. widget' = [points |-> widget.points \o data.points, total |-> data.total,
                 session |-> widget.session,
                 astray |-> widget.astray \/ data.session # widget.session \/ data.unplaced]
  BY DEF Known, Extended
<1>2. ASSUME ~widget'.astray PROVE Held(widget', paths)
  <2>0. widget'.astray =
          (widget.astray \/ data.session # widget.session \/ data.unplaced)
    BY <1>1
  <2>1. ~widget.astray /\ data.session = widget.session /\ ~data.unplaced
    BY <1>2, <2>0, Zenon
  <2>2. Held(widget, paths) /\ Held(data, paths)
        /\ Len(data.points) = data.total - widget.total
    BY <2>1 DEF Known, Sent
  <2>3. Piece(widget.points \o data.points, data.total, paths[widget.session])
    BY <2>1, <2>2, PiecesJoin DEF Held
  <2> QED
    BY <1>1, <2>2, <2>3 DEF Held
<1> QED
  BY <1>1, <1>2 DEF Known

LEMMA PushArrivesKeeps ==
  ASSUME NEW paths, Ghost(paths), PushArrives
  PROVE  PathInv'
<1> DEFINE data == Head(pushes)
<1>1. UNCHANGED <<device, clean, replies>>
  BY DEF PushArrives
<1>2. Travelling(paths)' /\ Sent(data, paths)
  BY PushTaken DEF PushArrives, Ghost
<1>3. Known(paths) /\ ApplyPush(data)
  BY DEF Ghost, PushArrives
<1> HIDE DEF data
<1>4. Known(paths)'
  <2>1. CASE widget' = Replaced(data)
    BY <1>1, <1>2, <1>3, <2>1, ReplacedHeld DEF Sent
  <2>2. CASE data.from # 0 /\ data.from = widget.total /\ widget' = Extended(data)
    BY <1>1, <1>2, <1>3, <2>2, ExtendedHeld
  <2>3. CASE UNCHANGED widget
    BY <1>1, <1>3, <2>3 DEF Known
  <2> QED
    BY <1>3, <2>1, <2>2, <2>3 DEF ApplyPush
<1>5. Ghost(paths)'
  BY <1>1, <1>2, <1>4 DEF Ghost, Typed, Reached
<1> QED
  BY <1>5 DEF PathInv

LEMMA PushLostKeeps ==
  ASSUME NEW paths, Ghost(paths), PushLost
  PROVE  PathInv'
<1>1. UNCHANGED <<device, clean, widget, replies>>
  BY DEF PushLost
<1>2. Travelling(paths)'
  BY PushTaken DEF PushLost, Ghost
<1>3. Ghost(paths)'
  BY <1>1, <1>2 DEF Ghost, Typed, Known
<1> QED
  BY <1>3 DEF PathInv

\* getLiveData answers with a piece of the path.
LEMMA AnswerKeeps ==
  ASSUME NEW paths, Ghost(paths), Answer
  PROVE  PathInv'
<1> DEFINE answer == [points |-> DisplayPoints(device.trail), total |-> TrailLength(device),
                      session |-> device.session]
           path == paths[device.session]
           shown == DisplayPoints(device.trail)
<1>1. UNCHANGED <<device, clean, pushes, widget>> /\ replies' = replies \cup {answer}
  BY DEF Answer
<1>2. /\ device.trail \in Seq(Point) /\ Len(device.trail) \in Nat /\ device.dropped \in Nat
      /\ device.session \in DOMAIN paths
  BY DEF Ghost, Typed, Device, TrailOf
<1>3. /\ TrailLength(device) = Len(path) /\ Len(path) = device.dropped + Len(device.trail)
      /\ \A i \in 1..Len(device.trail) : device.trail[i] = path[device.dropped + i]
  BY DEF Ghost, TrailOf, TrailLength
<1> HIDE DEF path
<1>4. /\ IsSeq(shown)
      /\ shown = <<>> \/ Len(shown) = Len(device.trail)
      /\ \A i \in 1..Len(shown) : shown[i].raw = device.trail[i]
  BY <1>2, Displayed
<1> HIDE DEF shown
<1>5. Piece(shown, Len(path), path)
  <2>1. CASE shown = <<>>
    <3>1. Len(shown) = 0
      BY <2>1, EmptySeq
    <3> QED
      BY <1>2, <1>3, <1>4, <3>1 DEF Piece
  <2>2. CASE Len(shown) = Len(device.trail)
    <3>1. Len(path) - Len(shown) = device.dropped
      BY <1>2, <1>3, <2>2
    <3>2. \A i \in 1..Len(shown) : shown[i].raw = path[Len(path) - Len(shown) + i]
      BY <1>3, <1>4, <2>2, <3>1
    <3>3. Len(shown) <= Len(path) /\ Len(path) \in Nat
      BY <1>2, <1>3, <2>2
    <3> QED
      BY <1>4, <3>2, <3>3 DEF Piece
  <2> QED
    BY <1>4, <2>1, <2>2
<1>6. Held(answer, paths)
  BY <1>2, <1>3, <1>5 DEF Held, path, shown
<1> HIDE DEF answer
<1>7. Ghost(paths)'
  BY <1>1, <1>6 DEF Ghost, Typed, Travelling, Known
<1> QED
  BY <1>7 DEF PathInv

LEMMA RepliesKeep ==
  ASSUME NEW paths, Ghost(paths), ReplyArrives \/ ReplyLost
  PROVE  PathInv'
<1>1. UNCHANGED <<device, clean, pushes>> /\ replies' \subseteq replies
  BY DEF ReplyArrives, ReplyLost
<1>2. CASE ReplyArrives
  <2>1. PICK r \in replies : widget' = Replaced(r)
    BY <1>2 DEF ReplyArrives, TakeAnswer
  <2>2. Known(paths)'
    BY <1>1, <2>1, ReplacedHeld DEF Ghost, Known
  <2> QED
    BY <1>1, <2>2 DEF PathInv, Ghost, Typed, Travelling
<1>3. CASE ReplyLost
  <2>1. UNCHANGED widget
    BY <1>3 DEF ReplyLost
  <2>2. Known(paths)'
    BY <1>1, <2>1 DEF Ghost, Known
  <2> QED
    BY <1>1, <2>2 DEF PathInv, Ghost, Typed, Travelling
<1> QED
  BY <1>2, <1>3

-----------------------------------------------------------------------------
(***************************************************************************)
(* The theorem.                                                            *)
(***************************************************************************)

LEMMA PathInit == Init => PathInv
<1> SUFFICES ASSUME Init PROVE PathInv
  OBVIOUS
<1> DEFINE paths == [s \in 1..1 |-> <<>>]
<1>1. /\ device = [trail |-> <<>>, dropped |-> 0, pushed |-> Null, recent |-> FALSE,
                   timer |-> FALSE, session |-> 1]
      /\ clean = [number |-> 1, first |-> 1, points |-> 0, told |-> 1]
      /\ widget = [points |-> <<>>, total |-> 0, session |-> 1, astray |-> FALSE]
      /\ pushes = <<>> /\ replies = {}
  BY DEF Init
<1>2. Len(<<>>) = 0 /\ \A S : <<>> \in Seq(S)
  BY EmptySeq
<1>3. paths \in [1..1 -> Seq(Point)] /\ paths[1] = <<>> /\ DOMAIN paths = 1..1
  BY <1>2
<1> HIDE DEF paths
<1>4. Typed
  BY <1>1, <1>2 DEF Typed, Device, Clean
<1>5. TrailOf(device, paths)
  BY <1>1, <1>2, <1>3 DEF TrailOf, Increasing
<1>6. Reached(device, clean) /\ Travelling(paths)
  BY <1>1, <1>2 DEF Reached, Travelling, IsSeq
<1>7. Known(paths)
  BY <1>1, <1>2, <1>3 DEF Known, Held, Piece, IsSeq
<1> QED
  BY <1>4, <1>5, <1>6, <1>7 DEF PathInv, Ghost

LEMMA PathNext == PathInv /\ [Next]_vars => PathInv'
<1> SUFFICES ASSUME NEW paths, Ghost(paths), [Next]_vars PROVE PathInv'
  BY DEF PathInv
<1>1. ASSUME NEW k \in 1..Window, Moves(k) PROVE PathInv'
  BY <1>1, MovesKeeps
<1>2. CASE NextClean
  BY <1>2, NextCleanKeeps
<1>3. CASE MapFetched \/ MapUpdated \/ RenderMap \/ Load \/ Poll \/ UNCHANGED vars
  <2>1. UNCHANGED <<device, clean, pushes, widget, replies>>
    BY <1>3 DEF MapFetched, MapUpdated, RenderMap, Load, Poll, vars
  <2> QED
    BY <2>1, SameGhost
<1>4. CASE ClientRestarts
  BY <1>4, ClientRestartsKeeps
<1>5. CASE AppRestarts
  BY <1>5, AppRestartsKeeps
<1>6. CASE PushLost
  BY <1>6, PushLostKeeps
<1>7. CASE NewPath
  BY <1>7, NewPathKeeps
<1>8. CASE IntervalOver
  BY <1>8, IntervalOverKeeps
<1>9. CASE PushArrives
  BY <1>9, PushArrivesKeeps
<1>10. CASE Answer
  BY <1>10, AnswerKeeps
<1>11. CASE ReplyArrives \/ ReplyLost
  BY <1>11, RepliesKeep
<1> QED
  BY <1>1, <1>2, <1>3, <1>4, <1>5, <1>6, <1>7, <1>8, <1>9, <1>10, <1>11
     DEF Next, DeviceWork, WidgetWork

\* Consecutive points of a piece are consecutive in the path, which has no other
\* point between them, and the trail's are among the path's.
LEMMA PieceIsOnePath == PathInv => OnePath
<1> SUFFICES ASSUME NEW paths, Ghost(paths), ~widget.astray,
                    NEW i \in 1..Len(widget.points) - 1
             PROVE  LET p == widget.points[i].raw
                        q == widget.points[i + 1].raw
                    IN  /\ p[1] < q[1]
                        /\ widget.session = device.session =>
                             \A t \in ToSet(device.trail) : ~(p[1] < t[1] /\ t[1] < q[1])
  BY DEF PathInv, OnePath
<1> DEFINE path == paths[widget.session]
           n == widget.total - Len(widget.points) + i
<1>1. /\ paths \in [1..device.session -> Seq(Point)]
      /\ \A s \in 1..device.session : Increasing(paths[s])
  BY DEF Ghost, TrailOf
<1>2. widget.session \in 1..device.session /\ Piece(widget.points, widget.total, path)
  BY <1>1 DEF Ghost, Known, Held
<1>3. /\ path \in Seq(Point) /\ Len(path) \in Nat /\ Increasing(path)
  BY <1>1, <1>2
<1> HIDE DEF path
<1>4. Len(widget.points) \in Nat /\ widget.total \in Nat
      /\ Len(widget.points) <= widget.total /\ widget.total <= Len(path)
  BY <1>2 DEF Piece, IsSeq
<1>5. n \in 1..Len(path) /\ n + 1 \in 1..Len(path)
      /\ widget.total - Len(widget.points) + (i + 1) = n + 1
      /\ i \in 1..Len(widget.points) /\ i + 1 \in 1..Len(widget.points)
  BY <1>3, <1>4
<1>6. widget.points[i].raw = path[n] /\ widget.points[i + 1].raw = path[n + 1]
  BY <1>2, <1>5 DEF Piece
<1> HIDE DEF n
<1>7. \A m \in 1..Len(path) : path[m][1] \in Nat
  BY <1>3 DEF Point
<1>8. path[n][1] < path[n + 1][1]
  BY <1>3, <1>5 DEF Increasing
<1>9. ASSUME widget.session = device.session, NEW t \in ToSet(device.trail)
      PROVE  ~(path[n][1] < t[1] /\ t[1] < path[n + 1][1])
  <2>1. device.trail \in Seq(Point) /\ device.dropped \in Nat
    BY DEF Ghost, Typed, Device
  <2>2. PICK j \in 1..Len(device.trail) : t = device.trail[j]
    BY <2>1 DEF ToSet
  <2>3. t = path[device.dropped + j] /\ Len(path) = device.dropped + Len(device.trail)
    BY <1>9, <2>2 DEF Ghost, TrailOf, path
  <2> DEFINE m == device.dropped + j
  <2>4. m \in 1..Len(path) /\ t = path[m]
    BY <2>1, <2>2, <2>3
  <2> HIDE DEF m
  <2>5. m < n \/ m = n \/ m = n + 1 \/ n + 1 < m
    BY <1>5, <2>4
  <2>6. path[m][1] <= path[n][1] \/ path[n + 1][1] <= path[m][1]
    BY <1>3, <1>5, <1>7, <2>4, <2>5 DEF Increasing
  <2> QED
    BY <1>5, <1>7, <2>4, <2>6
<1> QED
  BY <1>6, <1>8, <1>9

\* The widget never shows a path with a gap in it or with points of two cleans,
\* unless the numbers lined up by chance: whatever the trail's cap cuts off,
\* however pushes and answers are lost and mixed, and through every restart (widget
\* index.html:252-257 "anything that does not line up … is fetched whole";
\* LiveTrail.js:38 since).
THEOREM WidgetShowsOnePath == Spec => []OnePath
<1>1. Spec => []PathInv
  BY PathInit, PathNext, PTL DEF Spec
<1> QED
  BY <1>1, PieceIsOnePath, PTL

-----------------------------------------------------------------------------
(***************************************************************************)
(* The picture: what MapRender_proofs has shown of it, over the steps that *)
(* change the map. What the client holds is the robot's map decoded, and   *)
(* what was rendered is that, unless another one waits to be.              *)
(***************************************************************************)

\* The texts that the app makes up, and when they are the same.
LEMMA SpelledIs ==
  /\ \A type \in 0..15, number \in Nat :
       Spelled(type, 0, number) \in MadeUp /\ Spelled(type, 1, number) \in MadeUp
  /\ \A type, spaces, number, type2, spaces2, number2 :
       Spelled(type, spaces, number) = Spelled(type2, spaces2, number2)
         => type = type2 /\ spaces = spaces2 /\ number = number2
BY DEF Spelled, MadeUp

\* roomDisplayNames: rooms that user and robot tell apart have different texts for
\* names, however many rooms of a type have a name, a number or neither
\* (NarwalMapCodec.js:210); a name of the user's is any text that the app does not
\* make up.
THEOREM NamesTellApart ==
  ASSUME NEW R, NEW rooms \in Seq(R), ToldApart(rooms), \A r \in R : r.number \in Nat,
         NEW i \in 1..Len(rooms), NEW j \in 1..Len(rooms), i # j
  PROVE  RoomName(rooms, i) # RoomName(rooms, j)
<1> DEFINE Group(t) == {k \in DOMAIN rooms : rooms[k].custom = Null /\ rooms[k].type = t}
           Before(k) == {l \in Group(rooms[k].type) : l <= k}
           Number(k) == IF Group(rooms[k].type) = {k} THEN 0
                        ELSE IF rooms[k].number # 0 THEN rooms[k].number
                        ELSE Cardinality(Before(k))
<1>1. DOMAIN rooms = 1..Len(rooms) /\ Len(rooms) \in Nat
  BY LenProperties
<1>2. \A k \in 1..Len(rooms) : rooms[k].custom # Null =>
        RoomName(rooms, k) = rooms[k].custom /\ rooms[k].custom \notin MadeUp
  BY <1>1 DEF RoomName, ToldApart
<1>3. \A k \in 1..Len(rooms) : rooms[k].custom = Null =>
        /\ RoomName(rooms, k) = Spelled(rooms[k].type, 0, Number(k))
        /\ RoomName(rooms, k) \in MadeUp
  <2> TAKE k \in 1..Len(rooms)
  <2>1. rooms[k].type \in 0..15 /\ RoomType(rooms[k]) = rooms[k].type
    BY <1>1 DEF ToldApart, RoomType
  <2>2. rooms[k].custom = Null =>
          RoomName(rooms, k) = Spelled(rooms[k].type, 0, Number(k))
    BY <2>1 DEF RoomName
  <2>3. Number(k) \in Nat
    <3>1. IsFiniteSet(1..Len(rooms))
      BY <1>1, FS_Interval
    <3>2. Before(k) \in SUBSET (1..Len(rooms))
      BY <1>1
    <3>3. Cardinality(Before(k)) \in Nat
      BY <3>1, <3>2, FS_Subset, FS_CardinalityType
    <3>4. rooms[k].number \in Nat
      BY ElementOfSeq
    <3> HIDE DEF Before, Group
    <3> QED
      BY <3>3, <3>4
  <2> HIDE DEF Number
  <2>4. Spelled(rooms[k].type, 0, Number(k)) \in MadeUp
    <3> DEFINE number == Number(k)
               type == rooms[k].type
    <3>1. type \in 0..15 /\ number \in Nat
      BY <2>1, <2>3
    <3> HIDE DEF number, type
    <3>2. Spelled(type, 0, number) \in MadeUp
      BY <3>1, SpelledIs
    <3> QED
      BY <3>2 DEF number, type
  <2> QED
    BY <2>2, <2>4
<1> HIDE DEF Number
<1>4. CASE rooms[i].custom # Null \/ rooms[j].custom # Null
  <2>1. rooms[i].custom # rooms[j].custom
    BY <1>1, <1>4 DEF ToldApart
  <2> QED
    BY <1>2, <1>3, <1>4, <2>1
<1>5. CASE rooms[i].custom = Null /\ rooms[j].custom = Null
  <2>0. RoomName(rooms, i) = RoomName(rooms, j)
          => rooms[i].type = rooms[j].type /\ Number(i) = Number(j)
    <3>1. /\ RoomName(rooms, i) = Spelled(rooms[i].type, 0, Number(i))
          /\ RoomName(rooms, j) = Spelled(rooms[j].type, 0, Number(j))
      BY <1>3, <1>5
    <3> QED
      BY <3>1, SpelledIs
  <2>1. CASE rooms[i].type # rooms[j].type
    BY <2>0, <2>1
  <2>2. CASE rooms[i].type = rooms[j].type
    <3> DEFINE t == rooms[i].type
    <3>1. i \in Group(t) /\ j \in Group(t)
      BY <1>1, <1>5, <2>2
    <3>2. Group(t) # {i} /\ Group(t) # {j}
      BY <3>1
    <3>3. IsFiniteSet(Group(t))
      <4>1. IsFiniteSet(1..Len(rooms))
        BY <1>1, FS_Interval
      <4>2. Group(t) \in SUBSET (1..Len(rooms))
        BY <1>1
      <4> QED
        BY <4>1, <4>2, FS_Subset
    <3>4. /\ rooms[i].number = 0 <=> rooms[j].number = 0
          /\ rooms[i].number = rooms[j].number => rooms[i].number = 0
      BY <1>1, <2>2 DEF ToldApart
    <3>5. Number(i) # Number(j)
      <4>1. CASE rooms[i].number # 0
        BY <2>2, <3>2, <3>4, <4>1 DEF Number
      <4>2. CASE rooms[i].number = 0
        <5>1. Number(i) = Cardinality(Before(i)) /\ Number(j) = Cardinality(Before(j))
          BY <2>2, <3>2, <3>4, <4>2 DEF Number
        <5>2. ASSUME NEW k \in Group(t), NEW l \in Group(t), k < l, rooms[k].type = t,
                     rooms[l].type = t
              PROVE  Cardinality(Before(k)) # Cardinality(Before(l))
          <6>1. Before(l) \subseteq Group(t) /\ Before(k) \subseteq Before(l)
            BY <1>1, <5>2
          <6>2. l \in Before(l) /\ l \notin Before(k)
            BY <1>1, <5>2
          <6>3. IsFiniteSet(Before(l))
            BY <3>3, <6>1, FS_Subset
          <6> QED
            BY <6>1, <6>2, <6>3, FS_Subset
        <5>3. i < j \/ j < i
          BY <1>1
        <5> QED
          BY <2>2, <3>1, <5>1, <5>2, <5>3
      <4> QED
        BY <4>1, <4>2
    <3> QED
      BY <2>0, <3>5
  <2> QED
    BY <2>1, <2>2
<1> QED
  BY <1>4, <1>5

\* What comes of a robot's map that has something to draw.
LEMMA ReceivedIs ==
  ASSUME NEW m, IsRobotMap(m), NEW d, d = decodeGetMapResponse(Reply(m)), d # Null,
         Drawn(d) # {}
  PROVE  LET of == fromStaticMap(d)
         IN  /\ of.width = m.width /\ of.height = m.height /\ of.grid = m.grid
             /\ of.dock = ToCell(m.station, m.border)
             /\ of.rooms = [i \in DOMAIN m.rooms |->
                              [id |-> m.rooms[i].id, name |-> RoomName(m.rooms, i)]]
             /\ WithCells(of) /\ Drawn(of) # {}
<1> DEFINE of == fromStaticMap(d)
           reply == Reply(m)
           sent == IF m.grid = Null THEN <<>> ELSE Wire(m.grid)
<1>1. /\ reply.width = m.width /\ reply.height = m.height /\ reply.border = m.border
      /\ reply.station = m.station /\ reply.rooms = m.rooms /\ reply.grid = sent
      /\ DOMAIN reply = {"width", "height", "border", "station", "rooms", "grid"}
  BY DEF Reply, IsRobotMap
<1>2. d = decodeStaticMap(reply) /\ IsWhole(d)
  BY DEF decodeGetMapResponse
<1> HIDE DEF reply, sent
<1>3. /\ d.width = m.width /\ d.height = m.height /\ d.grid = DecodedGrid(reply)
      /\ d.station = ToCell(m.station, m.border)
      /\ d.rooms = [i \in DOMAIN m.rooms |->
                      [id |-> m.rooms[i].id, name |-> RoomName(m.rooms, i)]]
  BY <1>1, <1>2 DEF decodeStaticMap
<1>4. d.grid # Null
  BY DEF Drawn
<1>5. m.grid # Null /\ m.grid \in Seq(CellValues) /\ d.grid = m.grid
  <2>1. sent # <<>> /\ d.grid = Unpacked(sent)
    BY <1>1, <1>3, <1>4 DEF DecodedGrid
  <2>2. m.grid # Null /\ sent = Wire(m.grid)
    BY <2>1 DEF sent
  <2>3. m.grid \in Seq(CellValues)
    BY <2>2 DEF IsRobotMap
  <2> QED
    BY <2>1, <2>2, <2>3, WireUnpacked
<1>6. m.grid \in Seq(Nat)
  <2> DEFINE g == m.grid
             n == Len(g)
  <2>1. n \in Nat /\ g \in [1..n -> CellValues]
    BY <1>5, LenProperties
  <2>2. CellValues \subseteq Nat
    <3>1. \A k : k \in CellValues => k \in Nat
      BY SMT DEF CellValues
    <3> QED
      BY <3>1
  <2> HIDE DEF g, n
  <2>3. g \in [1..n -> Nat]
    BY <2>1, <2>2
  <2>4. g \in Seq(Nat)
    BY <2>1, <2>3
  <2> QED
    BY <2>4 DEF g
<1>7. /\ of.width = m.width /\ of.height = m.height /\ of.grid = m.grid
      /\ of.dock = ToCell(m.station, m.border) /\ of.rooms = d.rooms
  BY <1>3, <1>5 DEF fromStaticMap
<1>8. Drawn(of) = Drawn(d)
  BY <1>3, <1>5, <1>7 DEF Drawn, Places, CellAt
<1> HIDE DEF of
<1>9. WithCells(of)
  <2>1. /\ m.width \in Nat /\ m.height \in Nat /\ m.width > 0 /\ m.height > 0
        /\ Len(m.grid) = m.width * m.height
    BY <1>2, <1>3, <1>5 DEF IsWhole, IsRobotMap
  <2> QED
    BY <1>5, <1>6, <1>7, <2>1 DEF WithCells
<1> QED
  BY <1>3, <1>7, <1>8, <1>9 DEF of

\* A picture's rooms are the robot's, with ids of their own.
LEMMA RoomsReceived ==
  ASSUME NEW m, IsRobotMap(m), NEW of,
         of.rooms = [i \in DOMAIN m.rooms |->
                       [id |-> m.rooms[i].id, name |-> RoomName(m.rooms, i)]]
  PROVE  /\ RoomsKnown(of) /\ Len(of.rooms) = Len(m.rooms) /\ Len(m.rooms) \in Nat
         /\ DOMAIN m.rooms = 1..Len(m.rooms)
         /\ \A i \in 1..Len(m.rooms) :
              /\ of.rooms[i].id = m.rooms[i].id /\ of.rooms[i].id \in Nat
              /\ of.rooms[i].name = RoomName(m.rooms, i)
<1> DEFINE rooms == of.rooms
           n == Len(m.rooms)
           S == ToSet(rooms)
           id(i) == m.rooms[i].id
           name(i) == RoomName(m.rooms, i)
<1>1. n \in Nat /\ DOMAIN m.rooms = 1..n /\ \A i \in 1..n : id(i) \in Nat
  <2>1. m.rooms \in Seq(ToSet(m.rooms)) /\ \A r \in ToSet(m.rooms) : r.id \in Nat
    BY DEF IsRobotMap
  <2> DEFINE M == ToSet(m.rooms)
  <2> HIDE DEF M
  <2> QED
    BY <2>1, ElementOfSeq, LenProperties DEF M
<1>2. /\ rooms = [i \in 1..n |-> [id |-> id(i), name |-> name(i)]]
      /\ DOMAIN rooms = 1..n
      /\ \A i \in 1..n : rooms[i].id = id(i) /\ rooms[i].name = name(i)
  BY <1>1
<1>3. \A r \in S : r.id \in Nat
  BY <1>1, <1>2 DEF ToSet
<1>4. \A i \in 1..n : rooms[i] \in S
  BY <1>2 DEF ToSet
<1> HIDE DEF rooms, n, S, id, name
<1>5. rooms \in [1..n -> S]
  <2>1. rooms = [i \in 1..n |-> rooms[i]]
    BY <1>2
  <2> QED
    BY <1>4, <2>1
<1>6. rooms \in Seq(S) /\ Len(rooms) = n
  <2>1. rooms \in Seq(S)
    BY <1>1, <1>5
  <2> QED
    BY <1>1, <1>5, <2>1, LenProperties
<1>7. RoomsKnown(of)
  BY <1>3, <1>6 DEF RoomsKnown, rooms, S
<1> QED
  BY <1>1, <1>2, <1>6, <1>7 DEF rooms, n, id, name

\* The name of a room is the one of the room with its id, or says that there is none.
LEMMA NameOfIs ==
  ASSUME NEW R, NEW of, of.rooms \in Seq(R), NEW id
  PROVE  \/ \E k \in 1..Len(of.rooms) :
              of.rooms[k].id = id /\ NameOf(of, id) = of.rooms[k].name
         \/ /\ \A k \in 1..Len(of.rooms) : of.rooms[k].id # id
            /\ NameOf(of, id) = Spelled(0, 1, id)
<1> DEFINE I == {i \in 1..Len(of.rooms) : of.rooms[i].id = id}
           known == SelectInSeq(of.rooms, LAMBDA r : r.id = id)
<1>1. known = IF I # {} THEN Min(I) ELSE 0
  BY DEF SelectInSeq
<1>2. NameOf(of, id) = IF known = 0 THEN Spelled(0, 1, id) ELSE of.rooms[known].name
  BY DEF NameOf
<1> HIDE DEF known
<1>3. CASE I # {}
  <2>1. I \subseteq Nat /\ \A i \in I : i # 0
    BY LenProperties
  <2>2. Min(I) \in I
    BY <1>3, <2>1, MinIs
  <2>3. known \in I /\ known # 0
    BY <1>1, <1>3, <2>1, <2>2
  <2> QED
    BY <1>2, <2>3
<1>4. CASE I = {}
  BY <1>1, <1>2, <1>4
<1> QED
  BY <1>3, <1>4

\* What is drawn has rooms and cells; without anything due, it is the map that the
\* client has, and that is what the robot sent.
MapInv ==
  /\ robot = Null \/ robot \in (SavedMaps \cup LiveMaps) \ {Null}
  /\ map # Null => robot # Null /\ map = decodeGetMapResponse(Reply(robot))
  /\ DOMAIN render = {"due", "of", "meta"}
  /\ render.due => map # Null
  /\ render.of # Null =>
       WithCells(render.of) /\ RoomsKnown(render.of) /\ Drawn(render.of) # {}
  /\ render.of # Null /\ ~render.due =>
       map # Null /\ Drawn(map) # {} /\ render.of = fromStaticMap(map)

\* A stored map is read as it was, or is none.
LEMMA StoredIs ==
  ASSUME NEW m, IsRobotMap(m), NEW d, d = decodeGetMapResponse(Reply(m))
  PROVE  Stored(d) = Null \/ Stored(d) = d
<1> DEFINE packed == packStaticMap(d)
<1>1. CASE d = Null \/ packed = Null
  BY <1>1 DEF Stored, unpackStaticMap
<1>2. CASE d # Null /\ packed # Null
  <2> DEFINE reply == Reply(m)
  <2>1. d = decodeStaticMap(reply) /\ d.grid # Null
    BY <1>2 DEF decodeGetMapResponse, packStaticMap
  <2>2. /\ DOMAIN reply = {"width", "height", "border", "station", "rooms", "grid"}
        /\ reply.grid = IF m.grid = Null THEN <<>> ELSE Wire(m.grid)
    BY DEF Reply, IsRobotMap
  <2> HIDE DEF reply
  <2>3. /\ d.grid = DecodedGrid(reply) /\ d = [x \in DOMAIN d |-> d[x]] /\ "grid" \in DOMAIN d
    BY <2>1, <2>2 DEF decodeStaticMap
  <2>4. d.grid = Unpacked(reply.grid) /\ reply.grid # <<>>
    BY <2>1, <2>3 DEF DecodedGrid
  <2>5. m.grid # Null /\ reply.grid = Wire(m.grid)
    BY <2>2, <2>4
  <2>6. m.grid \in Seq(CellValues) /\ d.grid = m.grid
    BY <2>4, <2>5, WireUnpacked DEF IsRobotMap
  <2>7. Unrolled(Runs(d.grid)) = d.grid
    BY <2>6, RunsUnrolled
  <2>8. packed = [d EXCEPT !.grid = Runs(d.grid)]
    BY <2>1 DEF packStaticMap
  <2>9. packed.grid = Runs(d.grid)
    BY <2>3, <2>8
  <2>10. Stored(d) = [packed EXCEPT !.grid = Unrolled(packed.grid)]
    BY <1>2 DEF Stored, unpackStaticMap
  <2> HIDE DEF packed
  <2>11. Stored(d) = [packed EXCEPT !.grid = d.grid]
    BY <2>7, <2>9, <2>10
  <2>12. Stored(d) = d
    BY <2>3, <2>8, <2>11
  <2> QED
    BY <2>12
<1> QED
  BY <1>1, <1>2

LEMMA MapInit == Init => MapInv
<1> SUFFICES ASSUME Init PROVE MapInv
  OBVIOUS
<1>1. PICK m \in SavedMaps :
        robot = m /\ map = IF m = Null THEN Null ELSE Stored(decodeGetMapResponse(Reply(m)))
  BY DEF Init
<1>2. DOMAIN render = {"due", "of", "meta"} /\ ~render.due /\ render.of = Null
  BY DEF Init, NoPicture
<1>3. map # Null => robot # Null /\ map = decodeGetMapResponse(Reply(robot))
  <2> SUFFICES ASSUME map # Null
               PROVE  robot # Null /\ map = decodeGetMapResponse(Reply(robot))
    OBVIOUS
  <2>1. m # Null /\ map = Stored(decodeGetMapResponse(Reply(m)))
    BY <1>1
  <2>2. IsRobotMap(m)
    BY <2>1, MapsAssumption
  <2> QED
    BY <1>1, <2>1, <2>2, StoredIs
<1> QED
  BY <1>1, <1>2, <1>3 DEF MapInv

LEMMA MapFetchedKeeps == MapInv /\ MapFetched => MapInv'
<1> SUFFICES ASSUME MapInv, MapFetched PROVE MapInv'
  OBVIOUS
<1>1. PICK m \in LiveMaps \ {robot, Null} :
        /\ decodeGetMapResponse(Reply(m)) # Null /\ robot' = m
        /\ map' = decodeGetMapResponse(Reply(m))
  BY DEF MapFetched
<1>2. DOMAIN render' = {"due", "of", "meta"} /\ render'.due /\ render'.of = render.of
  BY DEF MapFetched, MapInv
<1> QED
  BY <1>1, <1>2 DEF MapInv

LEMMA MapUpdatedKeeps == MapInv /\ MapUpdated => MapInv'
<1> SUFFICES ASSUME MapInv, MapUpdated PROVE MapInv'
  OBVIOUS
<1>1. DOMAIN render' = {"due", "of", "meta"} /\ render'.due /\ render'.of = render.of
      /\ map # Null /\ UNCHANGED <<map, robot>>
  BY DEF MapUpdated, MapInv
<1> QED
  BY <1>1 DEF MapInv

LEMMA RenderMapKeeps == MapInv /\ RenderMap => MapInv'
<1> SUFFICES ASSUME MapInv, RenderMap PROVE MapInv'
  OBVIOUS
<1>1. UNCHANGED <<map, robot>> /\ map # Null
  BY DEF RenderMap, MapInv
<1>2. DOMAIN render' = {"due", "of", "meta"} /\ ~render'.due
      /\ render'.of = IF Drawn(map) = {} THEN Null ELSE fromStaticMap(map)
  <2>1. CASE Drawn(map) = {}
    BY <2>1 DEF RenderMap, NoPicture
  <2>2. CASE Drawn(map) # {}
    <3>1. PICK meta : render' = [due |-> FALSE, of |-> fromStaticMap(map), meta |-> meta]
      BY <2>2 DEF RenderMap
    <3> QED
      BY <2>2, <3>1
  <2> QED
    BY <2>1, <2>2
<1>3. robot # Null /\ map = decodeGetMapResponse(Reply(robot)) /\ IsRobotMap(robot)
  BY <1>1, MapsAssumption DEF MapInv
<1>4. ASSUME render'.of # Null
      PROVE  /\ Drawn(map) # {} /\ render'.of = fromStaticMap(map)
             /\ WithCells(render'.of) /\ RoomsKnown(render'.of) /\ Drawn(render'.of) # {}
  <2>1. Drawn(map) # {} /\ render'.of = fromStaticMap(map)
    BY <1>2, <1>4
  <2>2. /\ WithCells(fromStaticMap(map)) /\ Drawn(fromStaticMap(map)) # {}
        /\ fromStaticMap(map).rooms = [i \in DOMAIN robot.rooms |->
             [id |-> robot.rooms[i].id, name |-> RoomName(robot.rooms, i)]]
    BY <1>1, <1>3, <2>1, ReceivedIs
  <2>3. RoomsKnown(fromStaticMap(map))
    BY <1>3, <2>2, RoomsReceived
  <2> QED
    BY <2>1, <2>2, <2>3
<1> QED
  BY <1>1, <1>2, <1>3, <1>4 DEF MapInv

LEMMA RestartKeepsMap == MapInv /\ AppRestarts => MapInv'
<1> SUFFICES ASSUME MapInv, AppRestarts PROVE MapInv'
  OBVIOUS
<1>1. /\ map' = Stored(map) /\ robot' = IF map' = Null THEN Null ELSE robot
      /\ DOMAIN render' = {"due", "of", "meta"} /\ ~render'.due /\ render'.of = Null
  BY DEF AppRestarts, NoPicture
<1>2. map' # Null => map # Null /\ map' = map
  <2>1. CASE map = Null
    BY <1>1, <2>1 DEF Stored
  <2>2. CASE map # Null
    <3>1. map = decodeGetMapResponse(Reply(robot)) /\ IsRobotMap(robot)
      BY <2>2, MapsAssumption DEF MapInv
    <3> QED
      BY <1>1, <2>2, <3>1, StoredIs
  <2> QED
    BY <2>1, <2>2
<1> QED
  BY <1>1, <1>2 DEF MapInv

LEMMA MapNext == MapInv /\ [Next]_vars => MapInv'
<1> SUFFICES ASSUME MapInv, [Next]_vars PROVE MapInv'
  OBVIOUS
<1>1. ASSUME UNCHANGED mapVars PROVE MapInv'
  BY <1>1 DEF MapInv, mapVars
<1>2. CASE UNCHANGED vars
  BY <1>1, <1>2 DEF vars, mapVars
<1>3. ASSUME NEW k \in 1..Window, Moves(k) PROVE MapInv'
  BY <1>1, <1>3 DEF Moves
<1>4. CASE \/ NextClean \/ ClientRestarts \/ Load \/ PushLost \/ ReplyLost
           \/ NewPath \/ IntervalOver
  BY <1>1, <1>4
     DEF NextClean, ClientRestarts, Load, PushLost, ReplyLost, NewPath, IntervalOver
<1>5. CASE WidgetWork
  BY <1>1, <1>5 DEF WidgetWork, PushArrives, Answer, ReplyArrives, Poll
<1>6. CASE MapFetched
  BY <1>6, MapFetchedKeeps
<1>7. CASE MapUpdated
  BY <1>7, MapUpdatedKeeps
<1>8. CASE RenderMap
  BY <1>8, RenderMapKeeps
<1>9. CASE AppRestarts
  BY <1>9, RestartKeepsMap
<1> QED
  BY <1>2, <1>3, <1>4, <1>5, <1>6, <1>7, <1>8, <1>9 DEF Next, DeviceWork

\* A room that the robot names is not called by its id.
LEMMA NamedOtherwise ==
  ASSUME NEW m, ToldApart(m.rooms), NEW i \in DOMAIN m.rooms, NEW id \in Nat
  PROVE  RoomName(m.rooms, i) # Spelled(0, 1, id)
<1> DEFINE r == m.rooms[i]
<1>1. CASE r.custom # Null
  <2>1. RoomName(m.rooms, i) = r.custom /\ r.custom \notin MadeUp
    BY <1>1 DEF RoomName, ToldApart
  <2>2. Spelled(0, 1, id) \in MadeUp
    BY SpelledIs
  <2> QED
    BY <2>1, <2>2
<1>2. CASE r.custom = Null
  <2>1. PICK type, number : RoomName(m.rooms, i) = Spelled(type, 0, number)
    BY <1>2 DEF RoomName
  <2> QED
    BY <2>1, SpelledIs
<1> QED
  BY <1>1, <1>2

LEMMA NamesShown ==
  ASSUME NEW m, IsRobotMap(m), ToldApart(m.rooms), NEW of,
         of.rooms = [i \in DOMAIN m.rooms |->
                       [id |-> m.rooms[i].id, name |-> RoomName(m.rooms, i)]],
         NEW a \in Nat, NEW b \in Nat, NameOf(of, a) = NameOf(of, b)
  PROVE  a = b
<1> DEFINE S == ToSet(of.rooms)
           n == Len(m.rooms)
           Has(k, id) == of.rooms[k].id = id /\ NameOf(of, id) = RoomName(m.rooms, k)
           Unknown(id) == NameOf(of, id) = Spelled(0, 1, id)
<1>1. /\ of.rooms \in Seq(S) /\ Len(of.rooms) = n
      /\ \A i \in 1..n : of.rooms[i].name = RoomName(m.rooms, i)
  BY RoomsReceived DEF RoomsKnown
<1>2. \A id : Unknown(id) \/ \E k \in 1..n : Has(k, id)
  <2> TAKE id
  <2> HIDE DEF S
  <2>1. \/ \E k \in 1..Len(of.rooms) :
              of.rooms[k].id = id /\ NameOf(of, id) = of.rooms[k].name
        \/ Unknown(id)
    BY <1>1, NameOfIs
  <2> QED
    BY <1>1, <2>1
<1>3. \A k, l \in 1..n : k # l => RoomName(m.rooms, k) # RoomName(m.rooms, l)
  <2> DEFINE R == ToSet(m.rooms)
  <2>1. m.rooms \in Seq(R) /\ \A r \in R : r.number \in Nat
    BY DEF IsRobotMap
  <2> HIDE DEF R
  <2> QED
    BY <2>1, NamesTellApart
<1>4. \A k \in 1..n : \A id \in Nat : RoomName(m.rooms, k) # Spelled(0, 1, id)
  <2> TAKE k \in 1..n
  <2> TAKE id \in Nat
  <2>1. k \in DOMAIN m.rooms
    BY LenProperties DEF IsRobotMap
  <2> QED
    BY <2>1, NamedOtherwise
<1>5. CASE Unknown(a) /\ Unknown(b)
  <2>1. Spelled(0, 1, a) = Spelled(0, 1, b)
    BY <1>5
  <2> QED
    BY <2>1, SpelledIs
<1>6. ASSUME NEW k \in 1..n, Has(k, a) PROVE a = b
  <2>1. ~Unknown(b)
    BY <1>4, <1>6
  <2>2. PICK l \in 1..n : Has(l, b)
    BY <1>2, <2>1
  <2>3. k = l
    BY <1>3, <1>6, <2>2
  <2> QED
    BY <1>6, <2>2, <2>3
<1>7. ASSUME NEW k \in 1..n, Has(k, b), Unknown(a) PROVE FALSE
  BY <1>4, <1>7
<1> QED
  BY <1>2, <1>5, <1>6, <1>7

\* What is shown is a picture of the robot's map.
LEMMA ShownIs ==
  ASSUME MapInv, render.of # Null, ~render.due
  PROVE  LET of == render.of
         IN  /\ IsRobotMap(robot) /\ WithCells(of) /\ RoomsKnown(of) /\ Drawn(of) # {}
             /\ of.height = robot.height /\ of.dock = ToCell(robot.station, robot.border)
             /\ of.rooms = [i \in DOMAIN robot.rooms |->
                              [id |-> robot.rooms[i].id, name |-> RoomName(robot.rooms, i)]]
             /\ Drawn(of) = Drawn(robot)
             /\ \A x, y : CellAt(of, x, y) = CellAt(robot, x, y)
<1> DEFINE of == render.of
<1>1. /\ map = decodeGetMapResponse(Reply(robot)) /\ map # Null /\ IsRobotMap(robot)
      /\ Drawn(map) # {} /\ of = fromStaticMap(map)
      /\ WithCells(of) /\ RoomsKnown(of) /\ Drawn(of) # {}
  BY MapsAssumption DEF MapInv
<1>2. /\ of.width = robot.width /\ of.height = robot.height /\ of.grid = robot.grid
      /\ of.dock = ToCell(robot.station, robot.border)
      /\ of.rooms = [i \in DOMAIN robot.rooms |->
                       [id |-> robot.rooms[i].id, name |-> RoomName(robot.rooms, i)]]
  BY <1>1, ReceivedIs
<1> HIDE DEF of
<1>3. \A x, y : CellAt(of, x, y) = CellAt(robot, x, y)
  BY <1>2 DEF CellAt
<1>4. Drawn(of) = Drawn(robot)
  BY <1>2, <1>3 DEF Drawn, Places
<1> QED
  BY <1>1, <1>2, <1>3, <1>4 DEF of

LEMMA CellsAreShown ==
  ASSUME MapInv, render.of # Null, ~render.due
  PROVE  LET pic == toRenderData(render.of) IN CellsShown(pic, Unrolled(pic.cells))
<1> DEFINE of == render.of
           pic == toRenderData(of)
           c == Crop(of)
           ids == RoomsOf(of)
           codes == CodesOf(of)
           V(p) == CellAt(of, p[1], p[2])
           At(p) == (p[2] - c.y) * c.w + (p[1] - c.x) + 1
           Code(p) == codes[At(p)]
<1>1. /\ IsRobotMap(robot) /\ WithCells(of) /\ RoomsKnown(of) /\ Drawn(of) # {}
      /\ of.rooms = [i \in DOMAIN robot.rooms |->
                       [id |-> robot.rooms[i].id, name |-> RoomName(robot.rooms, i)]]
      /\ Drawn(of) = Drawn(robot)
      /\ \A x, y : CellAt(of, x, y) = CellAt(robot, x, y)
  BY ShownIs
<1>2. /\ pic.width = c.w /\ pic.height = c.h /\ pic.meta.x = c.x /\ pic.meta.y = c.y
      /\ codes \in Seq(Nat) /\ Unrolled(pic.cells) = codes
      /\ \A a \in Present(codes) : pic.name[a] = NameOf(of, ids[a - ROOM_CODE_BASE + 1])
  <2> HIDE DEF of
  <2>1. /\ pic.width = c.w /\ pic.height = c.h /\ pic.meta = RenderMeta(of, c)
        /\ codes \in Seq(Nat) /\ Unrolled(pic.cells) = codes
        /\ \A a \in Present(codes) : pic.name[a] = NameOf(of, ids[a - ROOM_CODE_BASE + 1])
    BY <1>1, PictureIs
  <2> QED
    BY <2>1 DEF RenderMeta
<1>3. \A p \in Drawn(of) :
        /\ p[1] - c.x \in 0..c.w - 1 /\ p[2] - c.y \in 0..c.h - 1
        /\ Len(codes) = c.w * c.h /\ At(p) \in 1..c.w * c.h /\ V(p) \in Nat
        /\ Code(p) = CellCode(V(p), Kind(V(p)), ids) /\ ids \in Seq(Nat)
        /\ Kind(V(p)) = "room" => roomIdOf(V(p)) \in ToSet(ids)
  BY <1>1, DrawnCell
<1>4. Len(codes) = c.w * c.h
  BY <1>1, <1>3
<1> HIDE DEF of, pic, c, ids, codes, V, At
<1>5. ASSUME NEW p \in Drawn(of), NEW q \in Drawn(of)
      PROVE  /\ Kind(V(p)) = "room" <=> Code(p) >= ROOM_CODE_BASE
             /\ Kind(V(p)) = "room" /\ Kind(V(q)) = "room"
                => (roomIdOf(V(p)) = roomIdOf(V(q)) <=> Code(p) = Code(q))
  <2> DEFINE v == V(p)
             u == V(q)
  <2>1. /\ ids \in Seq(Nat) /\ v \in Nat /\ u \in Nat
        /\ Kind(v) = "room" => roomIdOf(v) \in ToSet(ids)
        /\ Kind(u) = "room" => roomIdOf(u) \in ToSet(ids)
        /\ Code(p) = CellCode(v, Kind(v), ids) /\ Code(q) = CellCode(u, Kind(u), ids)
    BY <1>3
  <2> HIDE DEF v, u, Code
  <2>2. /\ CellCode(v, Kind(v), ids) >= ROOM_CODE_BASE <=> Kind(v) = "room"
        /\ Kind(v) = "room" /\ Kind(u) = "room"
           => (CellCode(v, "room", ids) = CellCode(u, "room", ids)
                 <=> roomIdOf(v) = roomIdOf(u))
    BY <2>1, RoomsToldApart
  <2>3. /\ Kind(v) = "room" <=> Code(p) >= ROOM_CODE_BASE
        /\ Kind(v) = "room" /\ Kind(u) = "room"
           => (roomIdOf(v) = roomIdOf(u) <=> Code(p) = Code(q))
    BY <2>1, <2>2
  <2> QED
    BY <2>3 DEF v, u
<1>6. ASSUME NEW p \in Drawn(of), NEW r \in ToSet(robot.rooms), Kind(V(p)) = "room",
             r.id = roomIdOf(V(p)), r.custom # Null
      PROVE  pic.name[Code(p)] = r.custom
  <2> DEFINE id == roomIdOf(V(p))
             a == Code(p)
  <2>1. a = RoomCode(ids, id) /\ id \in ToSet(ids) /\ ids \in Seq(Nat)
    BY <1>3, <1>6 DEF CellCode
  <2>2. a >= ROOM_CODE_BASE /\ ids[a - ROOM_CODE_BASE + 1] = id
    BY <2>1, RoomCodeIs
  <2>3. a \in Present(codes)
    <3>1. At(p) \in DOMAIN codes
      BY <1>2, <1>3, <1>4, LenProperties
    <3> QED
      BY <2>2, <3>1 DEF Present, ToSet
  <2>4. pic.name[a] = NameOf(of, id)
    BY <1>2, <2>2, <2>3
  <2> HIDE DEF a
  <2> DEFINE S == ToSet(of.rooms)
             n == Len(robot.rooms)
  <2>5. /\ of.rooms \in Seq(S) /\ Len(of.rooms) = n
        /\ n \in Nat /\ DOMAIN robot.rooms = 1..n
        /\ \A i \in 1..n : /\ of.rooms[i].id = robot.rooms[i].id
                           /\ of.rooms[i].name = RoomName(robot.rooms, i)
    BY <1>1, RoomsReceived DEF RoomsKnown
  <2>6. PICK k \in 1..n : r = robot.rooms[k]
    BY <2>5 DEF ToSet
  <2> HIDE DEF S, id
  <2>7. \/ \E l \in 1..n : of.rooms[l].id = id /\ NameOf(of, id) = of.rooms[l].name
        \/ \A l \in 1..n : of.rooms[l].id # id
    <3>1. \/ \E l \in 1..Len(of.rooms) :
                of.rooms[l].id = id /\ NameOf(of, id) = of.rooms[l].name
          \/ \A l \in 1..Len(of.rooms) : of.rooms[l].id # id
      BY <2>5, NameOfIs
    <3> QED
      BY <2>5, <3>1
  <2>8. PICK l \in 1..n : of.rooms[l].id = id /\ NameOf(of, id) = of.rooms[l].name
    BY <1>6, <2>5, <2>6, <2>7 DEF id
  <2>9. l = k
    <3>1. \A i, j \in DOMAIN robot.rooms : robot.rooms[i].id = robot.rooms[j].id => i = j
      BY <1>1 DEF IsRobotMap
    <3> QED
      BY <1>6, <2>5, <2>6, <2>8, <3>1 DEF id
  <2>10. RoomName(robot.rooms, k) = r.custom
    BY <1>6, <2>6 DEF RoomName
  <2> QED
    BY <2>4, <2>5, <2>8, <2>9, <2>10 DEF a
<1>7. \A p : CellAt(robot, p[1], p[2]) = V(p)
  BY <1>1 DEF V
<1>8. \A v : (v \div 256) % 256 = roomIdOf(v)
  BY DEF roomIdOf
<1>9. CellsShown(pic, codes)
  <2> DEFINE X(p) == p[1] - pic.meta.x
             Y(p) == p[2] - pic.meta.y
             Shown(p) == codes[Y(p) * pic.width + X(p) + 1]
             IsRoom(p) == Kind(CellAt(robot, p[1], p[2])) = "room"
             Room(p) == (CellAt(robot, p[1], p[2]) \div 256) % 256
  <2>1. ASSUME NEW p
        PROVE  /\ Shown(p) = Code(p) /\ CellAt(robot, p[1], p[2]) = V(p)
               /\ Room(p) = roomIdOf(V(p))
    <3>1. Shown(p) = Code(p)
      BY <1>2 DEF At
    <3>2. CellAt(robot, p[1], p[2]) = V(p)
      BY <1>7
    <3>3. Room(p) = roomIdOf(V(p))
      BY <1>8, <3>2
    <3> QED
      BY <3>1, <3>2, <3>3
  <2>2. Len(codes) = pic.width * pic.height
    BY <1>2, <1>4
  <2>3. ASSUME NEW p \in Drawn(robot)
        PROVE  /\ X(p) \in 0..pic.width - 1 /\ Y(p) \in 0..pic.height - 1
               /\ IsRoom(p) <=> Shown(p) >= ROOM_CODE_BASE
               /\ \A q \in Drawn(robot) :
                    IsRoom(p) /\ IsRoom(q) => (Room(p) = Room(q) <=> Shown(p) = Shown(q))
               /\ \A r \in ToSet(robot.rooms) :
                    IsRoom(p) /\ r.id = Room(p) /\ r.custom # Null
                      => pic.name[Shown(p)] = r.custom
    <3>1. p \in Drawn(of) /\ Drawn(of) = Drawn(robot)
      BY <1>1
    <3>2. X(p) \in 0..pic.width - 1 /\ Y(p) \in 0..pic.height - 1
      <4>1. p[1] - c.x \in 0..c.w - 1 /\ p[2] - c.y \in 0..c.h - 1
        BY <1>3, <3>1
      <4> QED
        BY <1>2, <4>1
    <3> HIDE DEF Shown, Room, Code
    <3>3. /\ Shown(p) = Code(p) /\ CellAt(robot, p[1], p[2]) = V(p)
          /\ Room(p) = roomIdOf(V(p))
      BY <2>1
    <3>4. IsRoom(p) <=> Shown(p) >= ROOM_CODE_BASE
      <4>1. Kind(V(p)) = "room" <=> Code(p) >= ROOM_CODE_BASE
        BY <1>5, <3>1
      <4> QED
        BY <3>3, <4>1
    <3>5. ASSUME NEW q \in Drawn(robot)
          PROVE  IsRoom(p) /\ IsRoom(q) => (Room(p) = Room(q) <=> Shown(p) = Shown(q))
      <4>1. Kind(V(p)) = "room" /\ Kind(V(q)) = "room"
              => (roomIdOf(V(p)) = roomIdOf(V(q)) <=> Code(p) = Code(q))
        BY <1>5, <3>1
      <4>2. /\ Shown(q) = Code(q) /\ CellAt(robot, q[1], q[2]) = V(q)
            /\ Room(q) = roomIdOf(V(q))
        BY <2>1
      <4> QED
        BY <3>3, <4>1, <4>2
    <3>6. ASSUME NEW r \in ToSet(robot.rooms)
          PROVE  IsRoom(p) /\ r.id = Room(p) /\ r.custom # Null
                   => pic.name[Shown(p)] = r.custom
      <4>1. Kind(V(p)) = "room" /\ r.id = roomIdOf(V(p)) /\ r.custom # Null
              => pic.name[Code(p)] = r.custom
        BY <1>6, <3>1
      <4> QED
        BY <3>3, <4>1
    <3> QED
      BY <3>2, <3>4, <3>5, <3>6
  <2> QED
    BY <2>2, <2>3 DEF CellsShown
<1> QED
  BY <1>2, <1>9 DEF of, pic

LEMMA RoomsAreShown ==
  ASSUME MapInv, render.of # Null, ~render.due
  PROVE  LET pic == toRenderData(render.of) IN RoomsShown(pic, Unrolled(pic.cells))
<1> DEFINE of == render.of
           pic == toRenderData(of)
           c == Crop(of)
           ids == RoomsOf(of)
           codes == CodesOf(of)
           id(a) == ids[a - ROOM_CODE_BASE + 1]
<1>1. /\ IsRobotMap(robot) /\ WithCells(of) /\ RoomsKnown(of) /\ Drawn(of) # {}
      /\ of.height = robot.height /\ of.dock = ToCell(robot.station, robot.border)
      /\ of.rooms = [i \in DOMAIN robot.rooms |->
                       [id |-> robot.rooms[i].id, name |-> RoomName(robot.rooms, i)]]
  BY ShownIs
<1> HIDE DEF of
<1>2. /\ pic.meta = RenderMeta(of, c) /\ pic.dock = ToDisplay(of, c, of.dock)
      /\ Unrolled(pic.cells) = codes /\ DOMAIN pic.name = Present(codes)
      /\ \A a \in Present(codes) :
           a = RoomCode(ids, id(a)) /\ id(a) \in Nat /\ pic.name[a] = NameOf(of, id(a))
      /\ \A a \in DOMAIN pic.label : codes[pic.label[a]] = a
  BY <1>1, PictureIs
<1> HIDE DEF pic, c, ids, codes, id
<1>3. ASSUME ToldApart(robot.rooms), NEW a \in DOMAIN pic.name, NEW b \in DOMAIN pic.name,
             pic.name[a] = pic.name[b]
      PROVE  a = b
  <2>1. id(a) = id(b)
    <3>1. NameOf(of, id(a)) = NameOf(of, id(b))
      BY <1>2, <1>3
    <3> QED
      BY <1>1, <1>2, <1>3, <3>1, NamesShown
  <2> QED
    BY <1>2, <1>3, <2>1
<1>4. ASSUME robot.station # Null, robot.border # Null
      PROVE  pic.dock = <<robot.station[1] - robot.border.left - pic.meta.x,
                          robot.height - 1 - (robot.station[2] - robot.border.bottom)
                            - pic.meta.y>>
  <2> DEFINE s == robot.station
             b == robot.border
             p == <<s[1] - b.left, s[2] - b.bottom>>
  <2>1. s \in Int \X Int /\ b.left \in Int /\ b.bottom \in Int
    BY <1>1, <1>4 DEF IsRobotMap
  <2>2. p \in Int \X Int
    BY <2>1
  <2>3. of.dock = p /\ p # Null
    <3>1. of.dock = p
      BY <1>1, <1>4 DEF ToCell
    <3> HIDE DEF p
    <3> QED
      BY <2>2, <3>1, NullAssumption
  <2>4. p[1] = s[1] - b.left /\ p[2] = s[2] - b.bottom
    OBVIOUS
  <2> HIDE DEF p, s, b
  <2>5. pic.dock = <<p[1] - c.x, of.height - 1 - p[2] - c.y>>
    BY <1>2, <2>3 DEF ToDisplay
  <2>6. pic.meta.x = c.x /\ pic.meta.y = c.y
    BY <1>2 DEF RenderMeta
  <2> QED
    BY <1>1, <2>4, <2>5, <2>6 DEF s, b
<1>5. RoomsShown(pic, codes)
  BY <1>2, <1>3, <1>4 DEF RoomsShown
<1> QED
  BY <1>2, <1>5 DEF of, pic

\* Close cells of a picture show different rooms in different colours.
LEMMA ColoursAreShown ==
  ASSUME MapInv, render.of # Null,
         Cardinality(DOMAIN toRenderData(render.of).color) <= ROOM_COLOR_SETS
  PROVE  LET pic == toRenderData(render.of) IN ColoursShown(pic, Unrolled(pic.cells))
<1> DEFINE of == render.of
           pic == toRenderData(of)
           c == Crop(of)
           codes == CodesOf(of)
<1>1. WithCells(of) /\ RoomsKnown(of) /\ Drawn(of) # {}
  BY DEF MapInv
<1>2. Cardinality(DOMAIN pic.color) <= ROOM_COLOR_SETS
  OBVIOUS
<1> HIDE DEF of
<1>3. /\ pic.width = c.w /\ codes \in Seq(Nat) /\ Unrolled(pic.cells) = codes
      /\ DOMAIN pic.color = Present(codes)
      /\ \A i, j \in 1..Len(codes) :
           /\ IsClose(i, j, c.w) /\ codes[i] # codes[j]
           /\ codes[i] \in Present(codes) /\ codes[j] \in Present(codes)
           => pic.color[codes[i]] # pic.color[codes[j]]
  BY <1>1, <1>2, PictureIs
<1>4. DOMAIN codes = 1..Len(codes)
  BY <1>3, LenProperties
<1> HIDE DEF pic, c, codes
<1>5. ColoursShown(pic, codes)
  <2> DEFINE X(i) == (i - 1) % pic.width
             Y(i) == (i - 1) \div pic.width
             Close(i, j) == \/ Y(i) = Y(j) /\ X(j) - X(i) \in 1..2
                            \/ X(i) = X(j) /\ Y(j) - Y(i) \in 1..2
  <2>1. ASSUME NEW i \in DOMAIN codes, NEW j \in DOMAIN codes, Close(i, j),
               codes[i] # codes[j], codes[i] >= ROOM_CODE_BASE, codes[j] >= ROOM_CODE_BASE
        PROVE  /\ {codes[i], codes[j]} \subseteq DOMAIN pic.color
               /\ pic.color[codes[i]] # pic.color[codes[j]]
    <3>1. IsClose(i, j, c.w)
      BY <1>3, <2>1 DEF IsClose
    <3>2. codes[i] \in Present(codes) /\ codes[j] \in Present(codes)
      BY <2>1 DEF Present, ToSet
    <3> QED
      BY <1>3, <1>4, <2>1, <3>1, <3>2
  <2> QED
    BY <2>1 DEF ColoursShown
<1> QED
  BY <1>3, <1>5 DEF of, pic

\* The picture is the robot's map, for any maps, any padding and any number of cells
\* and rooms, and through every restart (MapParser.js toRenderData, NarwalMapCodec.js
\* decodeStaticMap, packStaticMap).
THEOREM PictureIsTheRobotsMap == Spec => []RenderFaithful
<1>1. MapInv => RenderFaithful
  BY CellsAreShown, RoomsAreShown DEF RenderFaithful, IsPicture
<1> QED
  BY <1>1, MapInit, MapNext, PTL DEF Spec

\* Rooms with at most one cell between them never have the same colour in a picture of
\* at most six rooms, however many cells the map has and however they lie
\* (MapParser.js:410 "neighbours always differ").
THEOREM CloseRoomsDiffer == Spec => []ColoursDiffer
<1>1. MapInv => ColoursDiffer
  BY ColoursAreShown DEF ColoursDiffer
<1> QED
  BY <1>1, MapInit, MapNext, PTL DEF Spec
=============================================================================
