--------------------------- MODULE PositionProofs ---------------------------
(***************************************************************************)
(* Positions: which of them isInside accepts, for any number of devices,   *)
(* any placing and any position, and which of them the map shows, for any  *)
(* devices, times and numbers of frames.                                   *)
(***************************************************************************)
EXTENDS CoverageArea, DeviceMap, FiniteSetTheorems, WellFoundedInduction, TLAPS

Point == [x : Int, y : Int]

LEMMA CornersAndPositions ==
    /\ Corner \subseteq Point
    /\ Position \subseteq Point
<1>1. \A i \in Place : Scale * i \in Int
  BY CoverageAreaAssumption
<1> QED
  BY <1>1, CoverageAreaAssumption DEF Corner, Position, Point

LEMMA ExtremeIsPoint ==
    ASSUME NEW p \in Point
    PROVE  /\ extreme(p) \in Point
           /\ extreme(p).x = Scale * INF /\ extreme(p).y = p.y
           /\ Scale * INF \in Nat
BY CoverageAreaAssumption DEF extreme, Point

LEMMA UnitSquare == Scale * Scale \in Nat /\ Scale * Scale >= 1
BY CoverageAreaAssumption

LEMMA SignOfProduct ==
    ASSUME NEW r \in Int, NEW d \in Int
    PROVE  /\ r * d \in Int
           /\ r > 0 /\ d > 0 => r * d > 0
           /\ r > 0 /\ d < 0 => r * d < 0
           /\ r < 0 /\ d > 0 => r * d < 0
           /\ r < 0 /\ d < 0 => r * d > 0
           /\ r = 0 \/ d = 0 => r * d = 0
OBVIOUS

\* The turn from the ray to a point off its height.
LEMMA RayTurn ==
    ASSUME NEW p \in Point, NEW a \in Point
    PROVE  /\ Turn(p, extreme(p), a) = (Scale * INF - p.x) * (p.y - a.y)
           /\ Scale * INF - p.x \in Int /\ p.y - a.y \in Int
           /\ Turn(p, extreme(p), a) \in Int
BY ExtremeIsPoint DEF Turn, Point

\* A point above the ray is on one side of it, a point below on the other,
\* unless the cast takes it for level.
LEMMA RayOrients ==
    ASSUME NEW p \in Point, p.x < Scale * INF, NEW a \in Point
    PROVE  /\ a.y > p.y /\ ~Level(p, a) => orientation(p, extreme(p), a) = 2
           /\ a.y < p.y /\ ~Level(p, a) => orientation(p, extreme(p), a) = 1
           /\ a.y = p.y => orientation(p, extreme(p), a) = 0 /\ Level(p, a)
<1> DEFINE r == Scale * INF - p.x
           d == p.y - a.y
<1>1. /\ Turn(p, extreme(p), a) = r * d /\ r \in Int /\ d \in Int /\ r > 0
      /\ a.y > p.y <=> d < 0
      /\ a.y < p.y <=> d > 0
      /\ a.y = p.y <=> d = 0
  <2>1. /\ Turn(p, extreme(p), a) = r * d /\ r \in Int /\ d \in Int
    BY RayTurn
  <2>2. p.x \in Int /\ p.y \in Int /\ a.y \in Int /\ Scale * INF \in Int
    BY ExtremeIsPoint DEF Point
  <2>3. /\ r > 0
        /\ a.y > p.y <=> d < 0
        /\ a.y < p.y <=> d > 0
        /\ a.y = p.y <=> d = 0
    BY <2>2
  <2> HIDE DEF r, d
  <2> QED
    BY <2>1, <2>3
<1> HIDE DEF r, d
<1>2. d < 0 /\ ~Level(p, a) => orientation(p, extreme(p), a) = 2
  BY <1>1, SignOfProduct, UnitSquare DEF Level, orientation, Colinear
<1>3. d > 0 /\ ~Level(p, a) => orientation(p, extreme(p), a) = 1
  BY <1>1, SignOfProduct, UnitSquare DEF Level, orientation, Colinear
<1>4. d = 0 => orientation(p, extreme(p), a) = 0 /\ Level(p, a)
  BY <1>1, SignOfProduct, UnitSquare DEF Level, orientation, Colinear
<1> QED
  BY <1>1, <1>2, <1>3, <1>4

\* The ray meets no side that is above its height, and none that is below,
\* if the cast takes neither end for level with it.
LEMMA RayMissesSide ==
    ASSUME NEW p \in Point, NEW a \in Point, NEW b \in Point,
           (a.y > p.y /\ b.y > p.y) \/ (a.y < p.y /\ b.y < p.y),
           ~Level(p, a), ~Level(p, b)
    PROVE  ~doIntersect(a, b, p, extreme(p))
<1> DEFINE e == extreme(p)
           r == Scale * INF - p.x
<1>1. /\ orientation(p, e, a) = orientation(p, e, b)
      /\ orientation(p, e, a) # 0
      /\ orientation(p, e, b) # 0
  <2> DEFINE da == p.y - a.y
             db == p.y - b.y
  <2>1. /\ Turn(p, e, a) = r * da /\ Turn(p, e, b) = r * db
        /\ r \in Int /\ da \in Int /\ db \in Int
    BY RayTurn
  <2>2. (da < 0 /\ db < 0) \/ (da > 0 /\ db > 0)
    BY DEF Point
  <2> HIDE DEF e, r, da, db
  <2>3. (r * da > 0 /\ r * db > 0) \/ (r * da < 0 /\ r * db < 0) \/ (r * da = 0 /\ r * db = 0)
    <3>1. CASE r > 0
      BY <2>1, <2>2, <3>1, SignOfProduct
    <3>2. CASE r < 0
      BY <2>1, <2>2, <3>2, SignOfProduct
    <3>3. CASE r = 0
      BY <2>1, <2>2, <3>3, SignOfProduct
    <3> QED
      BY <2>1, <3>1, <3>2, <3>3
  <2>4. /\ r * da \in Int /\ r * db \in Int
        /\ ~Colinear(p, e, a) /\ ~Colinear(p, e, b)
    BY <2>1, SignOfProduct DEF Level, e
  <2> QED
    BY <2>1, <2>3, <2>4, UnitSquare DEF orientation, Colinear
<1>2. p.y \in Int /\ a.y \in Int /\ b.y \in Int /\ e.y = p.y
  BY ExtremeIsPoint DEF Point
<1>3. ~OnSegment(a, p, b)
  BY <1>2 DEF OnSegment, Smaller, Larger
<1>4. ~OnSegment(a, e, b)
  BY <1>2 DEF OnSegment, Smaller, Larger
<1> HIDE DEF e
<1>5. ~doIntersect(a, b, p, e)
  BY <1>1, <1>3, <1>4 DEF doIntersect
<1> QED
  BY <1>5 DEF e

\* A position that is accepted has a corner at its height or above, and one
\* at its height or below, but for those the cast takes for level with it.
LEMMA InsideIsBetween ==
    ASSUME NEW n \in Nat, n > 1, NEW poly \in [1 .. n -> Point],
           Len(poly) = n, NEW p \in Point, isInside(poly, p)
    PROVE  \E i, j \in 1 .. n : /\ poly[i].y <= p.y \/ Level(p, poly[i])
                                /\ p.y <= poly[j].y \/ Level(p, poly[j])
<1>1. p.y \in Int /\ \A i \in 1 .. n : poly[i].y \in Int
  BY DEF Point
<1>2. DOMAIN poly = 1 .. n /\ \A i \in 1 .. n : Following(poly, i) \in Point
  <2>1. \A i \in 1 .. n : (i % n) + 1 \in 1 .. n
    OBVIOUS
  <2> QED
    BY <2>1 DEF Following
<1>3. CASE n = 2
  <2>1. OnSegment(poly[1], p, poly[2])
    BY <1>3 DEF isInside
  <2>2. 1 \in 1 .. n /\ 2 \in 1 .. n
    BY <1>3
  <2> QED
    BY <1>1, <2>1, <2>2 DEF OnSegment, Smaller, Larger
<1>4. CASE n > 2
  <2>1. Met(poly, p) # {}
    <3>1. Flat(poly, p) # {} \/ Odd(Cardinality(Met(poly, p)))
      BY <1>4 DEF isInside
    <3>2. Flat(poly, p) \subseteq Met(poly, p)
      BY DEF Flat
    <3>3. ~Odd(Cardinality({}))
      BY FS_EmptySet DEF Odd
    <3> QED
      BY <3>1, <3>2, <3>3
  <2>2. PICK i \in 1 .. n :
            doIntersect(poly[i], Following(poly, i), p, extreme(p))
    BY <1>2, <2>1 DEF Met
  <2>3. PICK k \in 1 .. n : Following(poly, i) = poly[k]
    BY DEF Following
  <2>4. \/ Level(p, poly[i]) \/ Level(p, poly[k])
        \/ /\ ~(poly[i].y > p.y /\ poly[k].y > p.y)
           /\ ~(poly[i].y < p.y /\ poly[k].y < p.y)
    BY <2>2, <2>3, RayMissesSide
  <2> QED
    BY <1>1, <2>4
<1> QED
  BY <1>3, <1>4

-----------------------------------------------------------------------------
(* What isInside accepts: side by side, the test with the ray against the  *)
(* position's place.                                                       *)

\* Exchanging two points turns the other way.
LEMMA TurnSwaps ==
    ASSUME NEW a \in Point, NEW b \in Point, NEW p \in Point
    PROVE  /\ Turn(a, b, p) \in Int
           /\ Turn(a, p, b) = -Turn(a, b, p)
           /\ Turn(b, a, p) = -Turn(a, b, p)
           /\ Turn(a, p, b) + Turn(a, b, p) = 0
BY DEF Turn, Point

LEMMA Orientations ==
    ASSUME NEW a \in Point, NEW b \in Point, NEW p \in Point
    PROVE  /\ orientation(a, b, p) = 0 <=> Colinear(a, b, p)
           /\ orientation(a, b, p) = 1 <=> Turn(a, b, p) >= Scale * Scale
           /\ orientation(a, b, p) = 2 <=> Turn(a, b, p) <= -(Scale * Scale)
           /\ orientation(a, b, p) \in {0, 1, 2}
<1>1. Turn(a, b, p) \in Int
  BY TurnSwaps
<1>2. Scale * Scale \in Nat /\ Scale * Scale >= 1
  BY CoverageAreaAssumption
<1> QED
  BY <1>1, <1>2 DEF orientation, Colinear

\* A position is colinear with a side whichever way the three are taken.
LEMMA ColinearSwaps ==
    ASSUME NEW a \in Point, NEW b \in Point, NEW p \in Point
    PROVE  /\ Colinear(a, p, b) <=> Colinear(a, b, p)
           /\ orientation(b, a, p) = 0 <=> orientation(a, b, p) = 0
           /\ orientation(b, a, p) = 1 <=> orientation(a, b, p) = 2
           /\ orientation(b, a, p) = 2 <=> orientation(a, b, p) = 1
<1>1. Scale * Scale \in Nat
  BY CoverageAreaAssumption
<1>2. Colinear(a, p, b) <=> Colinear(a, b, p)
  BY <1>1, TurnSwaps DEF Colinear
<1>3. Colinear(b, a, p) <=> Colinear(a, b, p)
  BY <1>1, TurnSwaps DEF Colinear
<1>4. /\ Turn(b, a, p) >= Scale * Scale <=> Turn(a, b, p) <= -(Scale * Scale)
      /\ Turn(b, a, p) <= -(Scale * Scale) <=> Turn(a, b, p) >= Scale * Scale
  BY <1>1, TurnSwaps
<1> QED
  BY <1>2, <1>3, <1>4, Orientations

\* The ray's far end is as far to the right of a side as it is high.
LEMMA RayEndTurn ==
    ASSUME NEW a \in Point, NEW b \in Point, NEW p \in Point
    PROVE  Turn(a, b, extreme(p)) = Turn(a, b, p) + (b.y - a.y) * (Scale * INF - p.x)
BY ExtremeIsPoint DEF Turn, Point

\* A position and a side whose ends its ray neither meets nor is level with.
Clear(a, b, p) == /\ a.x < Scale * INF /\ b.x < Scale * INF /\ p.x < Scale * INF
                  /\ ~(Level(p, a) /\ (a.y = p.y => p.x <= a.x))
                  /\ ~(Level(p, b) /\ (b.y = p.y => p.x <= b.x))

\* Then only one of doIntersect's special cases is left.
LEMMA ClearIntersects ==
    ASSUME NEW a \in Point, NEW b \in Point, NEW p \in Point, Clear(a, b, p)
    PROVE  LET e == extreme(p)
           IN  doIntersect(a, b, p, e) <=>
                   \/ /\ orientation(a, b, p) # orientation(a, b, e)
                      /\ orientation(p, e, a) # orientation(p, e, b)
                   \/ orientation(a, b, p) = 0 /\ OnSegment(a, p, b)
<1> DEFINE e == extreme(p)
<1>1. /\ e.x = Scale * INF /\ e.y = p.y /\ Scale * INF \in Nat
      /\ ~(a.y = p.y /\ p.x <= a.x) /\ ~(b.y = p.y /\ p.x <= b.x)
      /\ a.x < Scale * INF /\ b.x < Scale * INF /\ p.x < Scale * INF
  BY ExtremeIsPoint, RayOrients DEF Clear
<1> HIDE DEF e
<1>2. ~OnSegment(a, e, b)
  BY <1>1 DEF OnSegment, Smaller, Larger, Point
<1>3. ~OnSegment(p, a, e) /\ ~OnSegment(p, b, e)
  BY <1>1 DEF OnSegment, Smaller, Larger, Point
<1>4. doIntersect(a, b, p, e) <=>
          \/ /\ orientation(a, b, p) # orientation(a, b, e)
             /\ orientation(p, e, a) # orientation(p, e, b)
          \/ orientation(a, b, p) = 0 /\ OnSegment(a, p, b)
  BY <1>2, <1>3 DEF doIntersect
<1> QED
  BY <1>4 DEF e

\* Which way round a side is given makes no difference.
LEMMA SideSwaps ==
    ASSUME NEW a \in Point, NEW b \in Point, NEW p \in Point, Clear(a, b, p)
    PROVE  LET e == extreme(p)
           IN  /\ doIntersect(a, b, p, e) <=> doIntersect(b, a, p, e)
               /\ OnSide(a, b, p) <=> OnSide(b, a, p)
               /\ LeftOf(a, b, p) <=> LeftOf(b, a, p)
<1> DEFINE e == extreme(p)
<1>1. p \in Point /\ e \in Point
  BY ExtremeIsPoint
<1>2. OnSegment(a, p, b) <=> OnSegment(b, p, a)
  BY <1>1 DEF OnSegment, Smaller, Larger, Point
<1>3. Clear(b, a, p)
  BY DEF Clear
<1>4. doIntersect(a, b, p, e) <=> doIntersect(b, a, p, e)
  <2>1. \A q \in {p, e} : /\ orientation(b, a, q) = 0 <=> orientation(a, b, q) = 0
                          /\ orientation(b, a, q) = 1 <=> orientation(a, b, q) = 2
                          /\ orientation(b, a, q) = 2 <=> orientation(a, b, q) = 1
                          /\ orientation(a, b, q) \in {0, 1, 2}
                          /\ orientation(b, a, q) \in {0, 1, 2}
    BY <1>1, ColinearSwaps, Orientations
  <2>2. orientation(a, b, p) # orientation(a, b, e)
            <=> orientation(b, a, p) # orientation(b, a, e)
    BY <2>1
  <2>3. orientation(a, b, p) = 0 <=> orientation(b, a, p) = 0
    BY <2>1
  <2> QED
    BY <1>2, <1>3, <2>2, <2>3, ClearIntersects
<1>5. OnSide(a, b, p) <=> OnSide(b, a, p)
  <2>1. Turn(a, p, b) = 0 <=> Turn(b, p, a) = 0
    <3>1. Turn(a, p, b) = -Turn(a, b, p) /\ Turn(b, p, a) = -Turn(b, a, p)
          /\ Turn(b, a, p) = -Turn(a, b, p) /\ Turn(a, b, p) \in Int
      BY <1>1, TurnSwaps
    <3> QED
      BY <3>1
  <2> QED
    BY <1>2, <2>1 DEF OnSide
<1>6. LeftOf(a, b, p) <=> LeftOf(b, a, p)
  BY DEF LeftOf
<1> QED
  BY <1>4, <1>5, <1>6

\* The cast takes no position for colinear with the side.
Exact(a, b, p) == Colinear(a, p, b) => Turn(a, p, b) = 0

\* A level side is met only by the positions on it.
LEMMA LevelSide ==
    ASSUME NEW a \in Point, NEW b \in Point, NEW p \in Point,
           Clear(a, b, p), Exact(a, b, p), a.y = b.y
    PROVE  doIntersect(a, b, p, extreme(p))
               <=> OnSide(a, b, p) \/ LeftOf(a, b, p)
<1> DEFINE e == extreme(p)
<1>1. p \in Point /\ e \in Point
  BY ExtremeIsPoint
<1>2. a.y \in Int /\ b.y \in Int /\ p.y \in Int
  BY <1>1 DEF Point
<1>3. Turn(a, b, e) = Turn(a, b, p)
  <2>1. Turn(a, b, e) = Turn(a, b, p) + (b.y - a.y) * (Scale * INF - p.x)
    BY <1>1, RayEndTurn
  <2>2. (b.y - a.y) * (Scale * INF - p.x) = 0
    BY <1>2, RayTurn, SignOfProduct
  <2> QED
    BY <1>1, <2>1, <2>2, TurnSwaps
<1>4. orientation(a, b, e) = orientation(a, b, p)
  BY <1>3 DEF orientation, Colinear
<1>5. doIntersect(a, b, p, e) <=> orientation(a, b, p) = 0 /\ OnSegment(a, p, b)
  BY <1>4, ClearIntersects
<1>6. orientation(a, b, p) = 0 <=> Turn(a, p, b) = 0
  <2>1. orientation(a, b, p) = 0 <=> Colinear(a, p, b)
    BY <1>1, Orientations, ColinearSwaps
  <2>2. Turn(a, p, b) = 0 => Colinear(a, p, b)
    BY CoverageAreaAssumption DEF Colinear
  <2> QED
    BY <2>1, <2>2 DEF Exact
<1>7. ~LeftOf(a, b, p)
  BY <1>2 DEF LeftOf
<1> QED
  BY <1>5, <1>6, <1>7 DEF OnSide

\* A turn weighs how far right of the two ends a point is by its height.
LEMMA TurnWeights ==
    ASSUME NEW a \in Point, NEW b \in Point, NEW q \in Point
    PROVE  Turn(a, b, q) = (q.y - a.y) * (q.x - b.x) + (b.y - q.y) * (q.x - a.x)
BY DEF Turn, Point

LEMMA WeightedSum ==
    ASSUME NEW g \in Nat, NEW h \in Nat, g + h > 0, NEW u \in Int, NEW v \in Int
    PROVE  /\ u > 0 /\ v > 0 => g * u + h * v > 0
           /\ u < 0 /\ v < 0 => g * u + h * v < 0
           /\ g = 0 /\ v > 0 => g * u + h * v > 0
           /\ h = 0 /\ u > 0 => g * u + h * v > 0
<1>1. \A m \in Nat, w \in Int : w > 0 => m * w \in Nat /\ (m > 0 => m * w > 0)
  OBVIOUS
<1>2. \A m \in Nat, w \in Int : w < 0 => /\ m * w \in Int /\ m * w <= 0
                                         /\ m > 0 => m * w < 0
  OBVIOUS
<1>3. \A w \in Int : 0 * w = 0
  OBVIOUS
<1>4. u > 0 /\ v > 0 => g * u + h * v > 0
  BY <1>1
<1>5. u < 0 /\ v < 0 => g * u + h * v < 0
  BY <1>2
<1>6. g = 0 /\ v > 0 => g * u + h * v > 0
  BY <1>1, <1>3
<1>7. h = 0 /\ u > 0 => g * u + h * v > 0
  BY <1>1, <1>3
<1> QED
  BY <1>4, <1>5, <1>6, <1>7

\* Between the ends' heights the place of a point beside a rising side shows
\* in its turn.
LEMMA BesideRising ==
    ASSUME NEW a \in Point, NEW b \in Point, NEW q \in Point,
           a.y < b.y, a.y <= q.y, q.y <= b.y
    PROVE  /\ q.x > a.x /\ q.x > b.x => Turn(a, b, q) > 0
           /\ Turn(a, b, q) = 0 => OnSegment(a, q, b)
           /\ q.y = b.y /\ q.x > b.x => Turn(a, b, q) > 0
<1> DEFINE g == q.y - a.y
           h == b.y - q.y
           u == q.x - b.x
           v == q.x - a.x
<1>1. /\ a.x \in Int /\ a.y \in Int /\ b.x \in Int /\ b.y \in Int
      /\ q.x \in Int /\ q.y \in Int
  BY DEF Point
<1>2. g \in Nat /\ h \in Nat /\ g + h > 0 /\ u \in Int /\ v \in Int
  BY <1>1
<1>3. Turn(a, b, q) = g * u + h * v
  BY TurnWeights
<1>4. /\ q.x > b.x <=> u > 0
      /\ q.x > a.x <=> v > 0
      /\ q.x < b.x <=> u < 0
      /\ q.x < a.x <=> v < 0
      /\ q.y = b.y <=> h = 0
  BY <1>1
<1> HIDE DEF g, h, u, v
<1>5. q.x > a.x /\ q.x > b.x => Turn(a, b, q) > 0
  BY <1>2, <1>3, <1>4, WeightedSum
<1>6. q.x < a.x /\ q.x < b.x => Turn(a, b, q) < 0
  BY <1>2, <1>3, <1>4, WeightedSum
<1>7. q.y = b.y /\ q.x > b.x => Turn(a, b, q) > 0
  BY <1>2, <1>3, <1>4, WeightedSum
<1>8. Turn(a, b, q) = 0 => OnSegment(a, q, b)
  BY <1>1, <1>5, <1>6 DEF OnSegment, Smaller, Larger
<1> QED
  BY <1>5, <1>7, <1>8

\* A rising side is met by the positions on it and on its left.
LEMMA RisingSide ==
    ASSUME NEW a \in Point, NEW b \in Point, NEW p \in Point,
           Clear(a, b, p), Exact(a, b, p), a.y < b.y
    PROVE  doIntersect(a, b, p, extreme(p))
               <=> OnSide(a, b, p) \/ LeftOf(a, b, p)
<1> DEFINE e == extreme(p)
<1>1. p \in Point /\ e \in Point /\ e.x = Scale * INF /\ e.y = p.y
  BY ExtremeIsPoint
<1>2. /\ a.x \in Int /\ a.y \in Int /\ b.x \in Int /\ b.y \in Int
      /\ p.x \in Int /\ p.y \in Int
  BY <1>1 DEF Point
<1>3. Scale * Scale \in Nat /\ Scale * Scale >= 1
  BY CoverageAreaAssumption
<1>4. CASE p.y < a.y \/ b.y < p.y
  <2>1. ~doIntersect(a, b, p, e)
    <3>1. (a.y # p.y => ~Level(p, a)) /\ (b.y # p.y => ~Level(p, b))
      BY DEF Clear
    <3> QED
      BY <1>2, <1>4, <3>1, RayMissesSide
  <2>2. ~OnSide(a, b, p) /\ ~LeftOf(a, b, p)
    BY <1>2, <1>4 DEF OnSide, OnSegment, Smaller, Larger, LeftOf
  <2> QED
    BY <2>1, <2>2
<1>5. CASE a.y <= p.y /\ p.y <= b.y
  <2>1. orientation(p, e, a) # orientation(p, e, b)
    <3>1. (a.y # p.y => ~Level(p, a)) /\ (b.y # p.y => ~Level(p, b)) /\ p.x < Scale * INF
      BY DEF Clear
    <3>2. /\ a.y < p.y => orientation(p, e, a) = 1
          /\ a.y = p.y => orientation(p, e, a) = 0
          /\ b.y > p.y => orientation(p, e, b) = 2
          /\ b.y = p.y => orientation(p, e, b) = 0
      BY <1>2, <3>1, RayOrients
    <3> QED
      BY <1>2, <1>5, <3>2
  <2>0. Scale * INF \in Int
    BY ExtremeIsPoint
  <2>2. doIntersect(a, b, p, e) <=>
            \/ orientation(a, b, p) # orientation(a, b, e)
            \/ orientation(a, b, p) = 0 /\ OnSegment(a, p, b)
    BY <2>1, ClearIntersects
  <2>3. /\ Turn(a, b, p) \in Int /\ Turn(a, b, e) \in Int
        /\ Turn(a, p, b) = -Turn(a, b, p) /\ Turn(b, a, p) = -Turn(a, b, p)
    BY <1>1, TurnSwaps
  <2>4. Turn(a, b, e) > 0
    <3>1. e.x > a.x /\ e.x > b.x
      BY <1>1 DEF Clear
    <3> QED
      BY <1>1, <1>5, <3>1, BesideRising
  <2>5. orientation(a, b, p) = 0 => Turn(a, b, p) = 0
    BY <1>1, <2>3, Orientations, ColinearSwaps DEF Exact
  <2>6. CASE Turn(a, b, p) = 0
    <3>1. OnSegment(a, p, b)
      BY <1>1, <1>5, <2>6, BesideRising
    <3>2. orientation(a, b, p) = 0
      BY <1>3, <2>6 DEF orientation, Colinear
    <3>3. OnSide(a, b, p)
      <4>1. Turn(a, p, b) \in Int /\ Turn(a, p, b) + Turn(a, b, p) = 0
        BY <1>1, TurnSwaps
      <4>2. Turn(a, p, b) = 0
        BY <2>6, <4>1
      <4> QED
        BY <3>1, <4>2 DEF OnSide
    <3> QED
      BY <2>2, <3>1, <3>2, <3>3
  <2>7. CASE Turn(a, b, p) < 0
    <3>1. p.y # b.y
      <4>1. p.y = b.y => p.x > b.x
        BY <1>2, RayOrients DEF Clear
      <4>2. p.y = b.y /\ p.x > b.x => Turn(a, b, p) > 0
        BY <1>1, <1>5, BesideRising
      <4> QED
        BY <2>3, <2>7, <4>1, <4>2
    <3>2. LeftOf(a, b, p)
      BY <1>2, <1>5, <2>7, <3>1 DEF LeftOf
    <3>3. orientation(a, b, p) = 2
      <4>1. orientation(a, b, p) # 0 /\ orientation(a, b, p) # 1
        BY <1>1, <1>3, <2>3, <2>5, <2>7, Orientations
      <4> QED
        BY <1>1, <4>1, Orientations
    <3>4. orientation(a, b, e) # 2
      BY <1>1, <1>3, <2>3, <2>4, Orientations
    <3> QED
      BY <2>2, <3>2, <3>3, <3>4
  <2>8. CASE Turn(a, b, p) > 0
    <3>1. orientation(a, b, p) = 1
      <4>1. orientation(a, b, p) # 0 /\ orientation(a, b, p) # 2
        BY <1>1, <1>3, <2>3, <2>5, <2>8, Orientations
      <4> QED
        BY <1>1, <4>1, Orientations
    <3>2. orientation(a, b, e) = 1
      <4>1. Turn(a, b, p) >= Scale * Scale
        BY <1>1, <3>1, Orientations
      <4>2. Turn(a, b, e) = Turn(a, b, p) + (b.y - a.y) * (Scale * INF - p.x)
        BY <1>1, RayEndTurn
      <4>3. (b.y - a.y) * (Scale * INF - p.x) \in Nat
        <5>1. Scale * INF - p.x \in Nat /\ b.y - a.y \in Nat
          <6>1. p.x < Scale * INF
            BY DEF Clear
          <6> QED
            BY <1>2, <2>0, <6>1
        <5> QED
          BY <5>1
      <4>4. Turn(a, b, e) >= Scale * Scale
        BY <1>3, <2>3, <4>1, <4>2, <4>3
      <4> QED
        BY <1>1, <4>4, Orientations
    <3>3. ~LeftOf(a, b, p)
      BY <1>2, <2>3, <2>8 DEF LeftOf
    <3>4. ~OnSide(a, b, p)
      BY <2>3, <2>8 DEF OnSide
    <3> QED
      BY <2>2, <3>1, <3>2, <3>3, <3>4
  <2> QED
    BY <2>3, <2>6, <2>7, <2>8
<1> QED
  BY <1>2, <1>4, <1>5

LEMMA SideMet ==
    ASSUME NEW a \in Point, NEW b \in Point, NEW p \in Point,
           Clear(a, b, p), Exact(a, b, p)
    PROVE  doIntersect(a, b, p, extreme(p))
               <=> OnSide(a, b, p) \/ LeftOf(a, b, p)
<1>1. a.y \in Int /\ b.y \in Int /\ p \in Point
  BY DEF Point
<1>2. Clear(b, a, p)
  BY DEF Clear
<1>3. Exact(b, a, p)
  <2>1. Colinear(a, p, b) <=> Colinear(b, p, a)
    BY <1>1, Orientations, ColinearSwaps
  <2>2. Turn(a, p, b) = -Turn(b, p, a) /\ Turn(b, p, a) \in Int
    <3>1. /\ Turn(a, p, b) = -Turn(a, b, p) /\ Turn(b, p, a) = -Turn(b, a, p)
          /\ Turn(b, a, p) = -Turn(a, b, p) /\ Turn(a, b, p) \in Int
      BY <1>1, TurnSwaps
    <3> QED
      BY <3>1
  <2> QED
    BY <2>1, <2>2 DEF Exact
<1>4. CASE a.y = b.y
  BY <1>4, LevelSide
<1>5. CASE a.y < b.y
  BY <1>5, RisingSide
<1>6. CASE b.y < a.y
  BY <1>2, <1>3, <1>6, RisingSide, SideSwaps
<1> QED
  BY <1>1, <1>4, <1>5, <1>6

LEMMA LeastIndex ==
    ASSUME NEW T, T \subseteq Nat, T # {}
    PROVE  \E i \in T : \A j \in T : i <= j
<1>1. PICK i \in T : \A j \in T : ~(<<j, i>> \in OpToRel(<, Nat))
  BY NatLessThanWellFounded, WFMin
<1>2. ASSUME NEW j \in T PROVE i <= j
  <2>1. i \in Nat /\ j \in Nat
    OBVIOUS
  <2>2. ~(j < i)
    BY <1>1, <2>1 DEF OpToRel
  <2> QED
    BY <2>1, <2>2
<1> QED
  BY <1>2

\* With three corners or more and a clear ray, the sides met are those the
\* position is on and those it is on the left of.
LEMMA IsInsideLiesWithin ==
    ASSUME NEW n \in Nat, n > 2, NEW poly \in [1 .. n -> Point], Len(poly) = n,
           NEW p \in Point, ~ThroughCorner(poly, p), ~Rounded(poly, p),
           BeforeEnd(poly, p)
    PROVE  isInside(poly, p) <=> LiesWithin(poly, p)
<1> DEFINE After(i) == Following(poly, i)
           On == {i \in 1 .. n : OnSide(poly[i], After(i), p)}
           Left == {i \in 1 .. n : LeftOf(poly[i], After(i), p)}
<1>1. p \in Point
  OBVIOUS
<1>2. DOMAIN poly = 1 .. n
  OBVIOUS
<1>3. ASSUME NEW i \in 1 .. n
      PROVE  /\ After(i) \in Point
             /\ doIntersect(poly[i], After(i), p, extreme(p))
                    <=> OnSide(poly[i], After(i), p) \/ LeftOf(poly[i], After(i), p)
             /\ orientation(poly[i], p, After(i)) = 0 <=> Turn(poly[i], p, After(i)) = 0
             /\ LeftOf(poly[i], After(i), p) => Turn(poly[i], p, After(i)) # 0
  <2>1. PICK k \in 1 .. n : After(i) = poly[k]
    <3>1. (i % n) + 1 \in 1 .. n
      OBVIOUS
    <3> QED
      BY <3>1 DEF Following
  <2>2. poly[i] \in Point /\ poly[k] \in Point
    OBVIOUS
  <2>3. Clear(poly[i], poly[k], p)
    BY <1>2 DEF Clear, ThroughCorner, BeforeEnd, extreme
  <2>4. Exact(poly[i], poly[k], p)
    BY <1>2, <2>1 DEF Exact, Rounded
  <2>5. doIntersect(poly[i], poly[k], p, extreme(p))
            <=> OnSide(poly[i], poly[k], p) \/ LeftOf(poly[i], poly[k], p)
    BY <2>2, <2>3, <2>4, SideMet
  <2>6. orientation(poly[i], p, poly[k]) = 0 <=> Turn(poly[i], p, poly[k]) = 0
    <3>1. orientation(poly[i], p, poly[k]) = 0 <=> Colinear(poly[i], p, poly[k])
      BY <1>1, <2>2, Orientations
    <3>2. Turn(poly[i], p, poly[k]) = 0 => Colinear(poly[i], p, poly[k])
      BY CoverageAreaAssumption DEF Colinear
    <3> QED
      BY <2>4, <3>1, <3>2 DEF Exact
  <2>7. LeftOf(poly[i], poly[k], p) => Turn(poly[i], p, poly[k]) # 0
    <3>1. /\ Turn(poly[i], p, poly[k]) = -Turn(poly[i], poly[k], p)
          /\ Turn(poly[k], poly[i], p) = -Turn(poly[i], poly[k], p)
          /\ Turn(poly[i], poly[k], p) \in Int
      BY <1>1, <2>2, TurnSwaps
    <3>2. LeftOf(poly[i], poly[k], p) => Turn(poly[i], poly[k], p) < 0
                                         \/ Turn(poly[k], poly[i], p) < 0
      BY DEF LeftOf
    <3> QED
      BY <3>1, <3>2
  <2> QED
    BY <2>1, <2>2, <2>5, <2>6, <2>7
<1>4. Met(poly, p) = On \cup Left
  BY <1>2, <1>3 DEF Met
<1>5. Flat(poly, p) = On
  <2>1. ASSUME NEW i \in 1 .. n
        PROVE  i \in Flat(poly, p) <=> i \in On
    BY <1>3, <1>4 DEF Flat, OnSide
  <2>2. Flat(poly, p) \subseteq 1 .. n
    BY <1>2 DEF Flat, Met
  <2> QED
    BY <2>1, <2>2
<1>6. LiesWithin(poly, p) <=> On # {} \/ Odd(Cardinality(Left))
  BY <1>2 DEF LiesWithin
<1> HIDE DEF Left, On
<1>7. CASE On # {}
  <2> DEFINE First(s) == CHOOSE i \in s : \A j \in s : i <= j
  <2>1. On \subseteq Nat
    BY DEF On
  <2>2. First(On) \in On
    BY <1>7, <2>1, LeastIndex
  <2>3. OnSegment(poly[First(On)], p, Following(poly, First(On)))
    BY <2>2 DEF On, OnSide
  <2>4. isInside(poly, p)
    BY <1>5, <1>7, <2>3 DEF isInside
  <2> QED
    BY <1>6, <1>7, <2>4
<1>8. CASE On = {}
  <2>1. Met(poly, p) = Left
    BY <1>4, <1>8
  <2>2. isInside(poly, p) <=> Odd(Cardinality(Left))
    BY <1>5, <1>8, <2>1 DEF isInside
  <2> QED
    BY <1>6, <1>8, <2>2
<1> QED
  BY <1>7, <1>8

\* With two corners the position must be between them.
LEMMA IsBetweenLiesWithin ==
    ASSUME NEW poly \in [1 .. 2 -> Point], Len(poly) = 2, NEW p \in Point,
           Turn(poly[1], p, poly[2]) = 0
    PROVE  isInside(poly, p) <=> LiesWithin(poly, p)
<1> DEFINE a == poly[1]
           b == poly[2]
<1>1. a \in Point /\ b \in Point /\ p \in Point
  OBVIOUS
<1>2. DOMAIN poly = {1, 2} /\ Following(poly, 1) = b /\ Following(poly, 2) = a
  BY DEF Following
<1>3. /\ Turn(a, b, p) = 0 /\ Turn(b, a, p) = 0 /\ Turn(b, p, a) = 0
  <2>1. /\ Turn(a, p, b) = -Turn(a, b, p) /\ Turn(b, p, a) = -Turn(b, a, p)
        /\ Turn(b, a, p) = -Turn(a, b, p) /\ Turn(a, b, p) \in Int
    BY <1>1, TurnSwaps
  <2> QED
    BY <2>1
<1>4. OnSegment(a, p, b) <=> OnSegment(b, p, a)
  BY <1>1 DEF OnSegment, Smaller, Larger, Point
<1>5. isInside(poly, p) <=> OnSegment(a, p, b)
  BY DEF isInside
<1>6. {i \in DOMAIN poly : LeftOf(poly[i], Following(poly, i), p)} = {}
  BY <1>2, <1>3 DEF LeftOf
<1>7. ~Odd(Cardinality({}))
  BY FS_EmptySet DEF Odd
<1>8. LiesWithin(poly, p) <=> OnSide(a, b, p) \/ OnSide(b, a, p)
  BY <1>2, <1>6, <1>7 DEF LiesWithin
<1> QED
  BY <1>3, <1>4, <1>5, <1>8 DEF OnSide

\* The polygon is the table, and a verdict is isInside's on it.
IInv ==
    /\ TypeOK
    /\ table \in [DOMAIN table -> Corner]
    /\ polygon # <<>> => polygon \in [1 .. esp_number -> Corner]
    /\ Judged => /\ polygon # <<>>
                 /\ asked \in Position
                 /\ verdict = "inside" <=> isInside(polygon, asked)

LEMMA InitInv == Init => IInv
BY CoverageAreaAssumption DEF Init, IInv, TypeOK, Judged

LEMMA NextInv == IInv /\ [Next]_vars => IInv'
<1> SUFFICES ASSUME IInv, [Next]_vars PROVE IInv'
  OBVIOUS
<1> USE DEF IInv, TypeOK, Judged
<1>1. CASE store_esp
  BY <1>1 DEF store_esp
<1>2. CASE ReadPolygon
  <2>1. polygon' \in [1 .. esp_number -> Corner] /\ verdict = "none"
    BY <1>2 DEF ReadPolygon
  <2>2. Len(polygon') = esp_number
    BY <1>2, CoverageAreaAssumption DEF ReadPolygon
  <2> QED
    BY <1>2, <2>1, <2>2 DEF ReadPolygon
<1>3. CASE Ask
  BY <1>3 DEF Ask
<1>4. CASE UNCHANGED vars
  BY <1>4 DEF vars
<1> QED
  BY <1>1, <1>2, <1>3, <1>4 DEF Next

LEMMA Invariance == Spec => []IInv
BY InitInv, NextInv, PTL DEF Spec

(* The processor thread reads the polygon once every device has its row.   *)
THEOREM CoverageTypes == Spec => []TypeOK
<1>1. IInv => TypeOK
  BY DEF IInv
<1> QED
  BY <1>1, Invariance, PTL

(* isInside accepts a position above all devices, or below them all, only  *)
(* when the cast in orientation takes a device for level with it, whatever *)
(* the polygon, the position and the length of the ray.                    *)
THEOREM CoverageBetweenHeights == Spec => []BetweenHeights
<1>1. IInv => BetweenHeights
  <2> SUFFICES ASSUME IInv, Judged, esp_number > 1, verdict = "inside"
               PROVE  \E i, j \in DOMAIN polygon :
                          /\ polygon[i].y <= asked.y \/ Level(asked, polygon[i])
                          /\ asked.y <= polygon[j].y \/ Level(asked, polygon[j])
    BY DEF BetweenHeights
  <2>1. /\ polygon \in [1 .. esp_number -> Point] /\ Len(polygon) = esp_number
        /\ asked \in Point /\ isInside(polygon, asked) /\ esp_number \in Nat
    BY CornersAndPositions, CoverageAreaAssumption DEF IInv, TypeOK, Judged
  <2> QED
    BY <2>1, InsideIsBetween
<1> QED
  BY <1>1, Invariance, PTL

(* isInside returns whether the position lies inside the polygon, whatever *)
(* the polygon - corners that coincide or lie in a line, sides that cross  *)
(* - and wherever the position is, unless its ray runs through a corner or *)
(* the cast rounds: a corner to the position's height, or the position     *)
(* onto a side.                                                            *)
THEOREM CoverageAgrees == Spec => []Agrees
<1>1. IInv => Agrees
  <2> SUFFICES ASSUME IInv, Judged, esp_number > 1, ~Rounded(polygon, asked),
                      esp_number = 2 => Turn(polygon[1], asked, polygon[2]) = 0,
                      esp_number > 2 => /\ BeforeEnd(polygon, asked)
                                        /\ ~ThroughCorner(polygon, asked)
               PROVE  verdict = "inside" <=> LiesWithin(polygon, asked)
    BY DEF Agrees
  <2>1. /\ polygon \in [1 .. esp_number -> Point] /\ Len(polygon) = esp_number
        /\ asked \in Point /\ esp_number \in Nat
        /\ verdict = "inside" <=> isInside(polygon, asked)
    BY CornersAndPositions, CoverageAreaAssumption DEF IInv, TypeOK, Judged
  <2>2. CASE esp_number = 2
    BY <2>1, <2>2, IsBetweenLiesWithin
  <2>3. CASE esp_number > 2
    BY <2>1, <2>3, IsInsideLiesWithin
  <2> QED
    BY <2>1, <2>2, <2>3
<1> QED
  BY <1>1, Invariance, PTL

-----------------------------------------------------------------------------
(* The map. *)

\* The request before this one was for too many frames.
Refused == TooMany(unixBegin, unixLast, granularity)

(***************************************************************************)
(* What the handlers leave behind: after a refused request there is nothing*)
(* on the map, which is why the next one need not clear it; while frames   *)
(* are drawn nothing can be seen yet; and the frame the slider shows is    *)
(* the one the next move of it hides.                                      *)
(***************************************************************************)
RequestOK ==
    /\ Refused => frame = 0 /\ canvas = {} /\ latest = {} /\ slider = 0
    /\ frame # 0 => /\ granularity \in Time /\ clicks >= 1
                    /\ unixBegin \in Time /\ unixLast \in Time
                    /\ visible = {} /\ latest = {} /\ slider = 0
                    /\ frame <= unixLast + granularity
    /\ slider # 0 => previouslyChecked = slider /\ latest = {}

(***************************************************************************)
(* The frames drawn so far are the first k of the request.                 *)
(***************************************************************************)
FramesDrawn(k) ==
    /\ \A e \in canvas : \E i \in 0 .. k - 1 : e.frame = unixBegin + i * granularity
    /\ frame # 0 => frame = unixBegin + k * granularity
    /\ k > 0 => (k - 1) * granularity <= unixLast - unixBegin

(***************************************************************************)
(* A name stands for an ellipse of the time it is made of, and each ellipse*)
(* on the canvas is found under one, before the first gap: stale names     *)
(* stand for ellipses that are on the canvas no more.                      *)
(***************************************************************************)
NamesOK ==
    /\ names \in [DOMAIN names -> Ellipse]
    /\ \A n \in DOMAIN names : /\ n = <<n[1], n[2]>> /\ n[1] \in Nat \ {0}
                               /\ names[n].frame = n[2]
    /\ \A e \in canvas : e \in Shown(e.frame)

MapValues ==
    /\ devices \in Seq([mac : Mac, timestamp : Time]) /\ Len(devices) <= MaxRows
    /\ frame \in 0 .. 2 * MaxTime
    /\ unixBegin \in 0 .. MaxTime /\ unixLast \in 0 .. MaxTime
    /\ granularity \in 1 .. MaxTime \cup {100}
    /\ clicks \in 0 .. MaxClicks
    /\ canvas \subseteq Ellipse /\ visible \subseteq canvas
    /\ latest \subseteq Mac
    /\ slider \in 0 .. MaxTime /\ previouslyChecked \in 0 .. MaxTime

MapInv ==
    /\ MapValues /\ RequestOK /\ NamesOK /\ OneMap /\ OnlyThisFrame
    /\ \E k \in Nat : FramesDrawn(k)

\* No ellipse is called "device0_...", so ClearMap unregisters none.
LEMMA ClearMapKeepsNames ==
    ASSUME NamesOK, ClearMap
    PROVE  names' = names
<1>1. \A n \in DOMAIN names : n[1] # 0
  BY DEF NamesOK
<1>2. ASSUME NEW t, <<0, t>> \in DOMAIN names PROVE FALSE
  <2>1. <<0, t>>[1] = 0
    OBVIOUS
  <2> QED
    BY <1>1, <1>2, <2>1
<1>3. names' = Restrict(names, DOMAIN names)
  <2>1. DOMAIN names \ {<<0, t>> : t \in FramesOf(unixBegin, unixLast, granularity)}
            = DOMAIN names
    BY <1>2
  <2> QED
    BY <2>1 DEF ClearMap
<1> QED
  BY <1>3 DEF Restrict, NamesOK

\* What a frame's names show of the canvas is what was drawn for it.
LEMMA ShownIsDrawn ==
    ASSUME NamesOK, NEW t
    PROVE  Shown(t) \cap canvas = {e \in canvas : e.frame = t}
<1>1. \A e \in Shown(t) : e.frame = t
  BY DEF NamesOK, Shown, Named
<1> QED
  BY <1>1 DEF NamesOK

LEMMA FirstFrame ==
    ASSUME NEW b \in Nat, NEW g \in Nat
    PROVE  /\ b + 0 * g = b
           /\ \A l \in Nat : b < l => b <= l + g
OBVIOUS

\* Names and canvas unchanged, or the canvas cleared.
LEMMA NamesRest ==
    ASSUME NamesOK, names' = names, canvas' \subseteq canvas
    PROVE  NamesOK'
BY DEF NamesOK, Shown, Named

LEMMA InsertInv ==
    ASSUME MapInv, InsertDevice
    PROVE  MapInv'
<1>1. /\ UNCHANGED <<frame, request, names, canvas, visible, latest, slider,
                     previouslyChecked>>
      /\ UNCHANGED <<unixBegin, unixLast, granularity, clicks>>
  BY DEF InsertDevice, request
<1>2. devices' \in Seq([mac : Mac, timestamp : Time]) /\ Len(devices') <= MaxRows
  BY DeviceMapAssumption DEF InsertDevice, MapInv, MapValues
<1>3. MapValues' /\ RequestOK' /\ OneMap' /\ OnlyThisFrame'
  BY <1>1, <1>2 DEF MapInv, MapValues, RequestOK, Refused, TooMany, OneMap, OnlyThisFrame
<1>4. NamesOK'
  BY <1>1, NamesRest DEF MapInv
<1>5. \E k \in Nat : FramesDrawn(k)'
  BY <1>1 DEF MapInv, FramesDrawn
<1> QED
  BY <1>3, <1>4, <1>5 DEF MapInv

LEMMA UpdateInv ==
    ASSUME MapInv, UpdateClick
    PROVE  MapInv'
<1>1. /\ UNCHANGED <<devices, frame, clicks>> /\ frame = 0
      /\ canvas' = {} /\ visible' = {} /\ slider' = 0 /\ previouslyChecked' = 0
      /\ unixBegin' = 0 /\ unixLast' = 0 /\ granularity' = 100
      /\ latest' \subseteq Mac
  BY DEF UpdateClick, ClearMap, ForgetRequest, Since
<1>2. MapValues'
  BY <1>1, DeviceMapAssumption DEF MapInv, MapValues
<1>3. ~Refused'
  BY <1>1, DeviceMapAssumption DEF Refused, TooMany
<1>4. RequestOK' /\ OneMap' /\ OnlyThisFrame'
  BY <1>1, <1>3 DEF RequestOK, OneMap, OnlyThisFrame
<1>5. NamesOK'
  BY <1>1, ClearMapKeepsNames, NamesRest DEF MapInv, UpdateClick
<1>6. FramesDrawn(0)'
  BY <1>1 DEF FramesDrawn
<1> QED
  BY <1>2, <1>4, <1>5, <1>6 DEF MapInv

LEMMA AnimationInv ==
    ASSUME MapInv, AnimationClick
    PROVE  MapInv'
<1>1. /\ frame = 0 /\ clicks < MaxClicks /\ clicks' = clicks + 1 /\ devices' = devices
      /\ unixBegin' \in Time /\ unixLast' \in Time /\ granularity' \in Time
      /\ frame' = IF unixBegin' < unixLast' /\ ~Refused' THEN unixBegin' ELSE 0
  BY DEF AnimationClick, Refused, TooMany
<1>2. canvas' = {} /\ visible' = {} /\ slider' = 0 /\ latest' = {}
  <2>1. CASE Refused
    BY <2>1 DEF AnimationClick, Refused, MapInv, RequestOK, MapValues
  <2>2. CASE ~Refused
    BY <2>2 DEF AnimationClick, Refused, ClearMap
  <2> QED
    BY <2>1, <2>2
<1>3. names' = names /\ previouslyChecked' \in 0 .. MaxTime
  <2>1. CASE Refused
    BY <2>1 DEF AnimationClick, Refused, MapInv, MapValues
  <2>2. CASE ~Refused
    BY <2>2, ClearMapKeepsNames, DeviceMapAssumption
       DEF AnimationClick, Refused, ClearMap, MapInv
  <2> QED
    BY <2>1, <2>2
<1>4. clicks \in 0 .. MaxClicks /\ devices \in Seq([mac : Mac, timestamp : Time])
      /\ Len(devices) <= MaxRows
  BY DEF MapInv, MapValues
<1>5. /\ unixBegin' \in 1 .. MaxTime /\ unixLast' \in 1 .. MaxTime
      /\ granularity' \in 1 .. MaxTime
      /\ (frame' = 0 \/ frame' = unixBegin')
      /\ frame' # 0 => frame' = unixBegin' /\ unixBegin' < unixLast'
  BY <1>1 DEF Time
<1>6. Refused' => frame' = 0
  BY <1>1
<1>7. MapValues'
  <2>1. clicks' \in 0 .. MaxClicks
    BY <1>1, <1>4, DeviceMapAssumption
  <2>2. unixBegin' \in 0 .. MaxTime /\ unixLast' \in 0 .. MaxTime
        /\ frame' \in 0 .. 2 * MaxTime
    BY <1>5, DeviceMapAssumption
  <2>3. devices' \in Seq([mac : Mac, timestamp : Time]) /\ Len(devices') <= MaxRows
    BY <1>1, <1>4
  <2> QED
    BY <1>2, <1>3, <1>5, <2>1, <2>2, <2>3, DeviceMapAssumption DEF MapValues
<1>8. OneMap' /\ OnlyThisFrame'
  BY <1>2 DEF OneMap, OnlyThisFrame
<1>9. RequestOK'
  <2>1. frame' # 0 => frame' <= unixLast' + granularity'
    <3>1. unixBegin' \in Nat /\ unixLast' \in Nat /\ granularity' \in Nat
      BY <1>5, DeviceMapAssumption
    <3>2. frame' # 0 => frame' = unixBegin' /\ unixBegin' < unixLast'
      BY <1>5
    <3>3. unixBegin' < unixLast' => unixBegin' <= unixLast' + granularity'
      BY <3>1, FirstFrame
    <3> SUFFICES ASSUME frame' # 0 PROVE frame' <= unixLast' + granularity'
      OBVIOUS
    <3>4. frame' = unixBegin' /\ unixBegin' <= unixLast' + granularity'
      BY <3>2, <3>3
    <3> QED
      BY <3>4
  <2>2. Refused' => frame' = 0
    BY <1>6
  <2>3. clicks' >= 1
    BY <1>1, <1>4, DeviceMapAssumption
  <2> QED
    BY <1>5, <1>2, <2>1, <2>2, <2>3 DEF RequestOK, Time
<1>10. NamesOK'
  BY <1>2, <1>3, NamesRest DEF MapInv
<1>11. FramesDrawn(0)'
  <2>1. unixBegin' \in Nat /\ granularity' \in Nat
    BY <1>5, DeviceMapAssumption
  <2>2. unixBegin' + 0 * granularity' = unixBegin'
    BY <2>1, FirstFrame
  <2>3. frame' # 0 => frame' = unixBegin'
    BY <1>5
  <2>4. frame' # 0 => frame' = unixBegin' + 0 * granularity'
    BY <2>2, <2>3
  <2>5. \A e \in canvas' : \E i \in 0 .. 0 - 1 : e.frame = unixBegin' + i * granularity'
    BY <1>2
  <2> QED
    BY <2>4, <2>5 DEF FramesDrawn
<1> QED
  BY <1>7, <1>8, <1>9, <1>10, <1>11 DEF MapInv

\* DrawFrame draws each device of the slice once, under names without a gap.
LEMMA FrameIsDrawn ==
    ASSUME MapInv, DrawFrame
    PROVE  \E macs \in [1 .. Cardinality(Slice(frame)) -> Slice(frame)] :
               /\ \A mac \in Slice(frame) : \E i \in DOMAIN macs : macs[i] = mac
               /\ DOMAIN names' = DOMAIN names \cup {<<i, frame>> : i \in DOMAIN macs}
               /\ \A i \in DOMAIN macs :
                      names'[<<i, frame>>] =
                          [click |-> clicks, frame |-> frame, mac |-> macs[i]]
               /\ \A n \in DOMAIN names :
                      n \notin {<<i, frame>> : i \in DOMAIN macs} => names'[n] = names[n]
               /\ names' \in [DOMAIN names' -> Range(names')]
<1>1. PICK macs \in [1 .. Cardinality(Slice(frame)) -> Slice(frame)] :
          /\ IsInjective(macs)
          /\ names' = [n \in DOMAIN names \cup {<<i, frame>> : i \in DOMAIN macs} |->
                          IF n \in {<<i, frame>> : i \in DOMAIN macs}
                          THEN [click |-> clicks, frame |-> frame, mac |-> macs[n[1]]]
                          ELSE names[n]]
  BY DEF DrawFrame
<1>2. \A mac \in Slice(frame) : \E i \in DOMAIN macs : macs[i] = mac
  <2>1. IsFiniteSet(Slice(frame)) /\ Cardinality(Slice(frame)) \in Nat
    <3>1. Slice(frame) \in SUBSET Mac
      BY DEF Slice
    <3> QED
      BY <3>1, DeviceMapAssumption, FS_Subset, FS_CardinalityType
  <2>2. Cardinality(1 .. Cardinality(Slice(frame))) = Cardinality(Slice(frame))
    <3>1. \A c \in Nat : Cardinality(1 .. c) = c
      BY FS_Interval
    <3> QED
      BY <2>1, <3>1
  <2>3. macs \in Injection(1 .. Cardinality(Slice(frame)), Slice(frame))
    BY <1>1 DEF Injection, IsInjective
  <2>4. macs \in Surjection(1 .. Cardinality(Slice(frame)), Slice(frame))
    BY <2>1, <2>2, <2>3, FS_Injection
  <2> QED
    BY <2>4 DEF Surjection
<1>3. \A i \in DOMAIN macs : <<i, frame>>[1] = i
  OBVIOUS
<1> QED
  BY <1>1, <1>2, <1>3 DEF Range
LEMMA LaterFrame ==
    ASSUME NEW b \in Nat, NEW g \in Nat \ {0}, NEW k \in Nat
    PROVE  /\ \A i \in 0 .. k - 1 : b + i * g # b + k * g
           /\ (b + k * g) + g = b + (k + 1) * g
           /\ 0 .. k - 1 \subseteq 0 .. (k + 1) - 1
           /\ k \in 0 .. (k + 1) - 1
           /\ (k + 1) - 1 = k
           /\ (b + k * g) - b = k * g
<1>1. k * g \in Nat /\ (k + 1) * g = k * g + g
  OBVIOUS
<1>2. ASSUME NEW i \in 0 .. k - 1 PROVE b + i * g # b + k * g
  <2>1. i \in Nat /\ i + 1 <= k
    OBVIOUS
  <2>2. PICK d \in Nat : k = i + 1 + d
    <3>1. k - i - 1 \in Nat /\ k = i + 1 + (k - i - 1)
      BY <2>1
    <3> QED
      BY <3>1
  <2>3. k * g = i * g + g + d * g /\ i * g \in Nat /\ d * g \in Nat
    BY <2>1, <2>2
  <2> QED
    BY <2>3
<1> QED
  BY <1>1, <1>2

LEMMA DrawNames ==
    ASSUME MapInv, DrawFrame
    PROVE  NamesOK'
<1>1. PICK macs \in [1 .. Cardinality(Slice(frame)) -> Slice(frame)] :
          /\ \A mac \in Slice(frame) : \E i \in DOMAIN macs : macs[i] = mac
          /\ DOMAIN names' = DOMAIN names \cup {<<i, frame>> : i \in DOMAIN macs}
          /\ \A i \in DOMAIN macs :
                 names'[<<i, frame>>] =
                     [click |-> clicks, frame |-> frame, mac |-> macs[i]]
          /\ \A n \in DOMAIN names :
                 n \notin {<<i, frame>> : i \in DOMAIN macs} => names'[n] = names[n]
          /\ names' \in [DOMAIN names' -> Range(names')]
  BY FrameIsDrawn
<1>2. /\ frame \in Time /\ clicks \in 1 .. MaxClicks
      /\ canvas' = canvas \cup {[click |-> clicks, frame |-> frame, mac |-> mac] :
                                    mac \in Slice(frame)}
  <2>1. frame \in 1 .. unixLast /\ unixLast \in 0 .. MaxTime /\ clicks \in 0 .. MaxClicks
    BY DEF DrawFrame, MapInv, MapValues
  <2>2. clicks >= 1
    BY <2>1, DeviceMapAssumption DEF MapInv, RequestOK
  <2>3. frame \in Time /\ clicks \in 1 .. MaxClicks
    BY <2>1, <2>2, DeviceMapAssumption DEF Time
  <2> QED
    BY <2>3 DEF DrawFrame
<1>3. \A i \in DOMAIN macs : i \in Nat \ {0} /\ 1 .. i \subseteq DOMAIN macs
  <2>1. IsFiniteSet(Slice(frame))
    <3>1. Slice(frame) \in SUBSET Mac
      BY DEF Slice
    <3> QED
      BY <3>1, DeviceMapAssumption, FS_Subset
  <2>2. Cardinality(Slice(frame)) \in Nat
    BY <2>1, FS_CardinalityType
  <2> QED
    BY <1>1, <2>2
<1>4. \A i \in DOMAIN macs : names'[<<i, frame>>] \in Ellipse
  <2> SUFFICES ASSUME NEW i \in DOMAIN macs PROVE names'[<<i, frame>>] \in Ellipse
    OBVIOUS
  <2>1. macs[i] \in Mac
    BY DEF Slice
  <2>2. [click |-> clicks, frame |-> frame, mac |-> macs[i]] \in Ellipse
    BY <1>2, <2>1 DEF Ellipse
  <2>3. names'[<<i, frame>>] = [click |-> clicks, frame |-> frame, mac |-> macs[i]]
    BY <1>1
  <2> QED
    BY <2>2, <2>3
<1>5. names' \in [DOMAIN names' -> Ellipse]
  <2>1. \A n \in DOMAIN names' : names'[n] \in Ellipse
    BY <1>1, <1>4 DEF MapInv, NamesOK
  <2> QED
    BY <1>1, <2>1
<1>6. \A n \in DOMAIN names' : /\ n = <<n[1], n[2]>> /\ n[1] \in Nat \ {0}
                               /\ names'[n].frame = n[2]
  <2> SUFFICES ASSUME NEW n \in DOMAIN names'
               PROVE  n = <<n[1], n[2]>> /\ n[1] \in Nat \ {0} /\ names'[n].frame = n[2]
    OBVIOUS
  <2>1. CASE n \in {<<i, frame>> : i \in DOMAIN macs}
    <3>1. PICK i \in DOMAIN macs : n = <<i, frame>>
      BY <2>1
    <3>2. n[1] = i /\ n[2] = frame /\ n = <<n[1], n[2]>>
      BY <3>1
    <3>3. names'[n].frame = frame
      <4>1. names'[n] = [click |-> clicks, frame |-> frame, mac |-> macs[i]]
        BY <1>1, <3>1
      <4> QED
        BY <4>1
    <3> QED
      BY <1>3, <3>2, <3>3
  <2>2. CASE n \notin {<<i, frame>> : i \in DOMAIN macs}
    BY <1>1, <2>2 DEF MapInv, NamesOK
  <2> QED
    BY <2>1, <2>2
<1>7. ASSUME NEW e \in canvas PROVE e \in Shown(e.frame)'
  <2>1. e.frame # frame
    <3>1. PICK k \in Nat : FramesDrawn(k)
      BY DEF MapInv
    <3>2. frame = unixBegin + k * granularity
          /\ \E i \in 0 .. k - 1 : e.frame = unixBegin + i * granularity
      BY <3>1, <1>2, DeviceMapAssumption DEF FramesDrawn, Time
    <3>3. unixBegin \in Nat /\ granularity \in Nat \ {0}
      BY DeviceMapAssumption DEF MapInv, MapValues
    <3> QED
      BY <3>2, <3>3, LaterFrame
  <2>2. PICK n \in DOMAIN names :
            /\ names[n] = e /\ n[2] = e.frame /\ n[1] >= 1
            /\ \A i \in 1 .. n[1] : <<i, e.frame>> \in DOMAIN names
    BY DEF MapInv, NamesOK, Shown, Named
  <2>3. names'[n] = e /\ n \in DOMAIN names'
    <3>1. n \notin {<<i, frame>> : i \in DOMAIN macs}
      BY <2>1, <2>2
    <3> QED
      BY <1>1, <2>2, <3>1
  <2> QED
    BY <1>1, <2>2, <2>3 DEF Shown, Named
<1>8. ASSUME NEW mac \in Slice(frame),
             NEW e, e = [click |-> clicks, frame |-> frame, mac |-> mac]
      PROVE  e \in Shown(e.frame)'
  <2>1. PICK i \in DOMAIN macs : macs[i] = mac
    BY <1>1
  <2>2. /\ <<i, frame>> \in DOMAIN names' /\ names'[<<i, frame>>] = e
        /\ \A j \in 1 .. i : <<j, frame>> \in DOMAIN names'
    BY <1>1, <1>3, <1>8, <2>1
  <2>3. <<i, frame>>[1] = i /\ <<i, frame>>[2] = frame /\ e.frame = frame /\ i >= 1
    BY <1>3, <1>8
  <2> QED
    BY <2>2, <2>3 DEF Shown, Named
<1> QED
  BY <1>2, <1>5, <1>6, <1>7, <1>8 DEF NamesOK

LEMMA DrawInv ==
    ASSUME MapInv, DrawFrame
    PROVE  MapInv'
<1>1. PICK k \in Nat : FramesDrawn(k)
  BY DEF MapInv
<1>2. /\ frame \in 1 .. unixLast /\ frame' = frame + granularity
      /\ UNCHANGED <<devices, unixBegin, unixLast, granularity, clicks, visible,
                     latest, slider, previouslyChecked>>
      /\ canvas' = canvas \cup {[click |-> clicks, frame |-> frame, mac |-> mac] :
                                    mac \in Slice(frame)}
  BY DEF DrawFrame, request
<1>3. /\ frame # 0 /\ unixBegin \in Time /\ unixLast \in Time /\ granularity \in Time
      /\ visible = {} /\ latest = {} /\ slider = 0 /\ clicks \in 1 .. MaxClicks
      /\ ~Refused
  <2>1. frame # 0 /\ clicks \in 0 .. MaxClicks /\ unixLast \in 0 .. MaxTime
    BY <1>2 DEF MapInv, MapValues
  <2>2. clicks \in Nat /\ MaxClicks \in Nat
    BY <2>1, DeviceMapAssumption
  <2> QED
    BY <2>1, <2>2 DEF MapInv, RequestOK
<1>4. frame \in Time /\ frame' \in 0 .. 2 * MaxTime /\ frame' <= unixLast' + granularity'
  BY <1>2, <1>3, DeviceMapAssumption DEF Time
<1>5. canvas' \subseteq Ellipse
  BY <1>2, <1>3, <1>4 DEF MapInv, MapValues, Ellipse, Slice
<1>6. MapValues'
  BY <1>2, <1>3, <1>4, <1>5 DEF MapInv, MapValues
<1>7. RequestOK'
  <2>1. ~Refused'
    BY <1>2, <1>3 DEF Refused, TooMany
  <2>2. clicks' >= 1
    BY <1>2, <1>3
  <2> QED
    BY <1>2, <1>3, <1>4, <2>1, <2>2 DEF RequestOK
<1>8. OneMap' /\ OnlyThisFrame'
  BY <1>2, <1>3 DEF OneMap, OnlyThisFrame, MapInv
<1>9. FramesDrawn(k + 1)'
  <2>1. unixBegin \in Nat /\ granularity \in Nat \ {0} /\ unixLast \in Nat
    BY <1>3, DeviceMapAssumption DEF Time
  <2>2. frame = unixBegin + k * granularity
    BY <1>1, <1>3 DEF FramesDrawn
  <2>3. ASSUME NEW e \in canvas'
        PROVE  \E i \in 0 .. (k + 1) - 1 : e.frame = unixBegin + i * granularity
    BY <1>1, <1>2, <2>1, <2>2, LaterFrame DEF FramesDrawn
  <2>4. frame' = unixBegin + (k + 1) * granularity
    BY <1>2, <2>1, <2>2, LaterFrame
  <2>5. ((k + 1) - 1) * granularity <= unixLast - unixBegin
    <3>1. ((k + 1) - 1) * granularity = frame - unixBegin
      BY <2>1, <2>2, LaterFrame
    <3> QED
      BY <1>2, <2>1, <3>1
  <2> QED
    BY <1>2, <2>3, <2>4, <2>5 DEF FramesDrawn
<1>10. NamesOK'
  BY DrawNames
<1>11. k + 1 \in Nat
  OBVIOUS
<1> QED
  BY <1>6, <1>7, <1>8, <1>9, <1>10, <1>11 DEF MapInv
\* The slider set up or moved: all that was visible is hidden first.
LEMMA SlideInv ==
    ASSUME MapInv, ~Refused, latest = {},
           visible = {} \/ visible = {e \in canvas : e.frame = previouslyChecked},
           NEW t \in 0 .. MaxTime, UpdateAnimation(t),
           slider' = t, frame' = 0,
           UNCHANGED <<devices, request, names, canvas, latest>>
    PROVE  MapInv'
<1>1. UNCHANGED <<unixBegin, unixLast, granularity, clicks>>
  BY DEF request
<1>2. visible' = {e \in canvas : e.frame = t}
  <2>1. visible \ Shown(previouslyChecked) = {}
    BY ShownIsDrawn DEF MapInv
  <2>2. visible' = Shown(t) \cap canvas
    BY <2>1 DEF UpdateAnimation
  <2> QED
    BY <2>2, ShownIsDrawn DEF MapInv
<1>3. previouslyChecked' = t
  BY DEF UpdateAnimation
<1>4. MapValues'
  <2>1. 0 \in 0 .. 2 * MaxTime
    BY DeviceMapAssumption
  <2> QED
    BY <1>1, <1>2, <1>3, <2>1 DEF MapInv, MapValues
<1>5. ~Refused'
  BY <1>1 DEF Refused, TooMany
<1>6. RequestOK' /\ OneMap' /\ OnlyThisFrame'
  BY <1>1, <1>2, <1>3, <1>5 DEF MapInv, RequestOK, OneMap, OnlyThisFrame
<1>7. NamesOK'
  BY NamesRest DEF MapInv
<1>8. \E k \in Nat : FramesDrawn(k)'
  BY <1>1 DEF MapInv, FramesDrawn
<1> QED
  BY <1>4, <1>6, <1>7, <1>8 DEF MapInv

LEMMA SetUpInv ==
    ASSUME MapInv, SetUpSlider
    PROVE  MapInv'
<1>1. /\ frame > unixLast /\ frame' = 0 /\ slider' = unixBegin
      /\ UpdateAnimation(unixBegin)
      /\ UNCHANGED <<devices, request, names, canvas, latest>>
  BY DEF SetUpSlider
<1>2. frame # 0 /\ unixBegin \in 0 .. MaxTime
  BY <1>1, DeviceMapAssumption DEF MapInv, MapValues
<1>3. ~Refused /\ latest = {} /\ visible = {}
  BY <1>2 DEF MapInv, RequestOK
<1> QED
  BY <1>1, <1>2, <1>3, SlideInv

LEMMA MoveInv ==
    ASSUME MapInv, MoveSlider
    PROVE  MapInv'
<1>1. PICK t \in FramesOf(unixBegin, unixLast, granularity) \cup {unixLast} :
          slider' = t /\ UpdateAnimation(t)
  BY DEF MoveSlider
<1>2. /\ frame = 0 /\ frame' = 0 /\ slider # 0
      /\ UNCHANGED <<devices, request, names, canvas, latest>>
  BY DEF MoveSlider
<1>3. t \in 0 .. MaxTime
  BY DeviceMapAssumption DEF FramesOf, MapInv, MapValues
<1>4. ~Refused /\ latest = {} /\ visible = {e \in canvas : e.frame = previouslyChecked}
  BY <1>2 DEF MapInv, RequestOK, OnlyThisFrame
<1> QED
  BY <1>1, <1>2, <1>3, <1>4, SlideInv

LEMMA MapInvInit == MapInit => MapInv
<1> SUFFICES ASSUME MapInit PROVE MapInv
  OBVIOUS
<1>1. /\ devices = <<>> /\ frame = 0 /\ unixBegin = 0 /\ unixLast = 0
      /\ granularity = 100 /\ clicks = 0 /\ names = <<>> /\ canvas = {}
      /\ visible = {} /\ latest = {} /\ slider = 0 /\ previouslyChecked = 0
  BY DEF MapInit
<1>2. MapValues
  BY <1>1, DeviceMapAssumption DEF MapValues
<1>3. ~Refused
  BY <1>1, DeviceMapAssumption DEF Refused, TooMany
<1>4. RequestOK /\ OneMap /\ OnlyThisFrame
  BY <1>1, <1>3 DEF RequestOK, OneMap, OnlyThisFrame
<1>5. NamesOK
  <2>1. DOMAIN names = {} /\ names \in [{} -> Ellipse]
    BY <1>1
  <2> QED
    BY <1>1, <2>1 DEF NamesOK
<1>6. FramesDrawn(0)
  BY <1>1 DEF FramesDrawn
<1> QED
  BY <1>2, <1>4, <1>5, <1>6 DEF MapInv

LEMMA MapInvariance == MapSpec => []MapInv
<1>1. MapInv /\ [MapNext]_mapVars => MapInv'
  <2> SUFFICES ASSUME MapInv, [MapNext]_mapVars PROVE MapInv'
    OBVIOUS
  <2>1. CASE InsertDevice
    BY <2>1, InsertInv
  <2>2. CASE UpdateClick
    BY <2>2, UpdateInv
  <2>3. CASE AnimationClick
    BY <2>3, AnimationInv
  <2>4. CASE DrawFrame
    BY <2>4, DrawInv
  <2>5. CASE SetUpSlider
    BY <2>5, SetUpInv
  <2>6. CASE MoveSlider
    BY <2>6, MoveInv
  <2>7. CASE UNCHANGED mapVars
    BY <2>7 DEF mapVars, request, MapInv, MapValues, RequestOK, Refused, TooMany,
                FramesDrawn, NamesOK, Shown, Named, OneMap, OnlyThisFrame
  <2> QED
    BY <2>1, <2>2, <2>3, <2>4, <2>5, <2>6, <2>7 DEF MapNext
<1> QED
  BY <1>1, MapInvInit, PTL DEF MapSpec

\* The frames of a request that is not refused are at most MaxFrames + 1.
LEMMA StepsInSpan ==
    ASSUME NEW g \in Nat \ {0}, NEW x \in Nat, NEW j \in Nat, j * g <= x,
           x \div g <= MaxFrames
    PROVE  j <= MaxFrames
<1>1. x \div g \in Nat /\ x < ((x \div g) + 1) * g
  OBVIOUS
<1>2. j <= x \div g
  <2> SUFFICES ASSUME j > x \div g PROVE FALSE
    BY <1>1
  <2> DEFINE q == (x \div g) + 1
  <2>1. q \in Nat /\ j >= q
    BY <1>1
  <2> HIDE DEF q
  <2>2. PICK d \in Nat : j = q + d
    <3>1. j - q \in Nat /\ j = q + (j - q)
      BY <2>1
    <3> QED
      BY <3>1
  <2>3. j * g = q * g + d * g /\ d * g \in Nat /\ q * g \in Nat
    BY <2>1, <2>2
  <2>4. x < q * g
    BY <1>1 DEF q
  <2> QED
    BY <2>3, <2>4
<1> QED
  BY <1>1, <1>2, DeviceMapAssumption

LEMMA DrawnAreFew ==
    ASSUME MapInv
    PROVE  FewFrames
<1> DEFINE F == {e.frame : e \in canvas}
<1>1. PICK k \in Nat : FramesDrawn(k)
  BY DEF MapInv
<1>2. unixBegin \in Nat /\ unixLast \in Nat /\ granularity \in Nat \ {0}
      /\ MaxFrames \in Nat
  BY DeviceMapAssumption DEF MapInv, MapValues
<1>3. CASE canvas = {}
  <2>1. F = {}
    BY <1>3
  <2> HIDE DEF F
  <2>2. Cardinality(F) = 0
    BY <2>1, FS_EmptySet
  <2>3. Cardinality(F) <= MaxFrames + 1
    BY <1>2, <2>2
  <2> QED
    BY <2>3 DEF F, FewFrames
<1>4. CASE canvas # {}
  <2>1. k > 0 /\ (k - 1) * granularity <= unixLast - unixBegin
    BY <1>1, <1>4 DEF FramesDrawn
  <2>2. (unixLast - unixBegin) \div granularity <= MaxFrames
    BY <1>2, <1>4 DEF MapInv, RequestOK, Refused, TooMany
  <2>3. k <= MaxFrames + 1
    <3>1. k - 1 \in Nat
      BY <2>1
    <3>2. (k - 1) * granularity \in Nat
      BY <1>2, <3>1
    <3>3. unixLast - unixBegin \in Nat
      BY <1>2, <2>1, <3>2
    <3>4. k - 1 <= MaxFrames
      BY <1>2, <2>1, <2>2, <3>1, <3>3, StepsInSpan
    <3> QED
      BY <1>2, <3>4
  <2> DEFINE f == [i \in 0 .. k - 1 |-> unixBegin + i * granularity]
             E == {f[i] : i \in 0 .. k - 1}
  <2>4. F \subseteq E
    BY <1>1 DEF FramesDrawn
  <2>5. IsFiniteSet(0 .. k - 1) /\ Cardinality(0 .. k - 1) = k
    <3>1. \A c \in Nat : IsFiniteSet(0 .. c - 1) /\ Cardinality(0 .. c - 1) = c
      BY FS_Interval
    <3> QED
      BY <3>1
  <2>6. IsFiniteSet(E) /\ Cardinality(E) <= k
    <3>1. f \in [0 .. k - 1 -> E] /\ \A t \in E : \E i \in 0 .. k - 1 : f[i] = t
      OBVIOUS
    <3>2. f \in Surjection(0 .. k - 1, E)
      BY <3>1 DEF Surjection
    <3> HIDE DEF f, E
    <3>3. IsFiniteSet(E) /\ Cardinality(E) <= Cardinality(0 .. k - 1)
      BY <2>5, <3>2, FS_Surjection
    <3> QED
      BY <2>5, <3>3
  <2> HIDE DEF F, E
  <2>7. Cardinality(F) <= Cardinality(E) /\ Cardinality(F) \in Nat /\ Cardinality(E) \in Nat
    BY <2>4, <2>6, FS_Subset, FS_CardinalityType
  <2>8. Cardinality(F) <= MaxFrames + 1
    BY <1>2, <2>3, <2>6, <2>7
  <2> QED
    BY <2>8 DEF F, FewFrames
<1> QED
  BY <1>3, <1>4
(* The types of the map's variables.                                       *)
THEOREM MapTypes == MapSpec => []MapTypeOK
<1>1. MapInv => MapTypeOK
  <2> SUFFICES ASSUME MapInv PROVE MapTypeOK
    OBVIOUS
  <2>1. Range(names) \subseteq Ellipse
    BY DEF MapInv, NamesOK, Range
  <2> QED
    BY <2>1 DEF MapTypeOK, MapInv, MapValues
<1> QED
  BY <1>1, MapInvariance, PTL

(* An animation never draws more than MaxFrames + 1 frames, also after a   *)
(* request that was refused and left the map as it was.                    *)
THEOREM MapFewFrames == MapSpec => []FewFrames
BY MapInvariance, DrawnAreFew, PTL

(* What the slider shows are the ellipses of its time, and all of them,    *)
(* although a name is never unregistered.                                  *)
THEOREM MapOnlyThisFrame == MapSpec => []OnlyThisFrame
<1>1. MapInv => OnlyThisFrame
  BY DEF MapInv
<1> QED
  BY <1>1, MapInvariance, PTL

(* Two animations, or an animation and the latest positions, are never on  *)
(* the canvas together.                                                    *)
THEOREM MapOneMap == MapSpec => []OneMap
<1>1. MapInv => OneMap
  BY DEF MapInv
<1> QED
  BY <1>1, MapInvariance, PTL

=============================================================================
