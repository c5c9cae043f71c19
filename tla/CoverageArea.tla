---------------------------- MODULE CoverageArea ----------------------------
(***************************************************************************)
(* The area positions must lie in to be stored.  The devices join one by   *)
(* one and leave a row each in table ESP; the processor thread reads the   *)
(* table once, in the order of its primary key, the MAC address, and takes *)
(* the rows for the corners of a polygon; isInside then judges positions   *)
(* by the parity of the sides a ray to the right meets.                    *)
(*                                                                         *)
(* Coordinates are in units of 1 / Scale, devices at multiples of Scale.   *)
(* The code's are doubles: their arithmetic is taken as exact, and turns   *)
(* as small enough for the cast to int.                                    *)
(***************************************************************************)
EXTENDS Integers, Sequences, FiniteSets

CONSTANTS MaxEsp,  \* bound: devices; 8 in the server
          Place,   \* bound: the coordinates devices are given, in whole units
          Spot,    \* bound: the coordinates asked about
          Scale,   \* bound: positions are multiples of 1 / Scale
          INF      \* how far right the ray goes; 10000 in the server

ASSUME CoverageAreaAssumption ==
    /\ MaxEsp \in Nat \ {0}
    /\ Place \subseteq Int
    /\ Spot \subseteq Int
    /\ Scale \in Nat \ {0}
    /\ INF \in Nat

VARIABLES esp_number,
          table,    \* table ESP: the coordinates by MAC address, 1, 2, ...
          polygon,
          asked,    \* the position isInside was last asked about
          verdict   \* and what it returned; "none" before

vars == <<esp_number, table, polygon, asked, verdict>>

Corner == [x : {Scale * i : i \in Place}, y : {Scale * i : i \in Place}]
Position == [x : Spot, y : Spot]
-----------------------------------------------------------------------------
(* onSegment, orientation and doIntersect                                  *)

Larger(a, b) == IF a > b THEN a ELSE b
Smaller(a, b) == IF a < b THEN a ELSE b

\* variant: without the test of the heights
OnSegmentAcross(p, q, r) == Smaller(p.x, r.x) <= q.x /\ q.x <= Larger(p.x, r.x)

OnSegment(p, q, r) ==
    /\ Smaller(p.x, r.x) <= q.x /\ q.x <= Larger(p.x, r.x)
    /\ Smaller(p.y, r.y) <= q.y /\ q.y <= Larger(p.y, r.y)

Turn(p, q, r) == (q.y - p.y) * (r.x - q.x) - (q.x - p.x) * (r.y - q.y)

\* The double is cast to int: whatever is nearer to 0 than 1 is colinear.
Colinear(p, q, r) == -(Scale * Scale) < Turn(p, q, r) /\ Turn(p, q, r) < Scale * Scale

orientation(p, q, r) ==
    IF Colinear(p, q, r) THEN 0 ELSE IF Turn(p, q, r) > 0 THEN 1 ELSE 2

doIntersect(p1, q1, p2, q2) ==
    LET o1 == orientation(p1, q1, p2)
        o2 == orientation(p1, q1, q2)
        o3 == orientation(p2, q2, p1)
        o4 == orientation(p2, q2, q1)
    IN  \/ o1 # o2 /\ o3 # o4
        \/ o1 = 0 /\ OnSegment(p1, p2, q1)
        \/ o2 = 0 /\ OnSegment(p1, q2, q1)
        \/ o3 = 0 /\ OnSegment(p2, p1, q2)
        \/ o4 = 0 /\ OnSegment(p2, q1, q2)

Following(poly, i) == poly[(i % Len(poly)) + 1]

Odd(n) == n % 2 = 1

\* where the ray from p ends
extreme(p) == [x |-> Scale * INF, y |-> p.y]

\* sides the ray from p meets, and those among them p is colinear with
Met(poly, p) ==
    {i \in DOMAIN poly :
        doIntersect(poly[i], Following(poly, i), p, extreme(p))}
Flat(poly, p) ==
    {i \in Met(poly, p) : orientation(poly[i], p, Following(poly, i)) = 0}

\* variant: colinear sides are counted like the others
IsInsideByCount(poly, p) == Len(poly) < 2 \/ Odd(Cardinality(Met(poly, p)))

\* The loop returns at the first colinear side.
isInside(poly, p) ==
    LET First(s) == CHOOSE i \in s : \A j \in s : i <= j
        Lies(i) == OnSegment(poly[i], p, Following(poly, i))
    IN  CASE Len(poly) < 2 -> TRUE
          [] Len(poly) = 2 -> OnSegment(poly[1], p, poly[2])
          [] OTHER -> IF Flat(poly, p) # {} THEN Lies(First(Flat(poly, p)))
                                            ELSE Odd(Cardinality(Met(poly, p)))
-----------------------------------------------------------------------------
Init == /\ esp_number \in 1 .. MaxEsp
        /\ table = <<>>
        /\ polygon = <<>>
        /\ asked = [x |-> 0, y |-> 0]
        /\ verdict = "none"

\* ESP32::store_esp, for a device that joins at the coordinates asked for
store_esp ==
    /\ \E mac \in (1 .. esp_number) \ DOMAIN table, c \in Corner :
           table' = [m \in DOMAIN table \cup {mac} |-> IF m = mac THEN c ELSE table[m]]
    /\ UNCHANGED <<esp_number, polygon, asked, verdict>>

\* CoverageArea::CoverageArea, once the processor thread starts
ReadPolygon ==
    /\ DOMAIN table = 1 .. esp_number
    /\ polygon = <<>>
    /\ polygon' = [i \in 1 .. esp_number |-> table[i]]
    /\ UNCHANGED <<esp_number, table, asked, verdict>>

Ask ==
    /\ polygon # <<>>
    /\ verdict = "none"
    /\ \E p \in Position :
           /\ asked' = p
           /\ verdict' = IF isInside(polygon, p) THEN "inside" ELSE "outside"
    /\ UNCHANGED <<esp_number, table, polygon>>

Next == store_esp \/ ReadPolygon \/ Ask

Spec == Init /\ [][Next]_vars
-----------------------------------------------------------------------------
TypeOK ==
    /\ esp_number \in 1 .. MaxEsp
    /\ DOMAIN table \subseteq 1 .. esp_number
    /\ \A mac \in DOMAIN table : table[mac] \in Corner
    /\ polygon # <<>> => Len(polygon) = esp_number
    /\ verdict \in {"none", "inside", "outside"}

(* What the words "lies inside the polygon" mean: on its boundary, or on   *)
(* the left of an odd number of its sides, each taken without its upper    *)
(* end.                                                                    *)
OnSide(a, b, p) == Turn(a, p, b) = 0 /\ OnSegment(a, p, b)

LeftOf(a, b, p) ==
    \/ a.y <= p.y /\ p.y < b.y /\ Turn(a, b, p) < 0
    \/ b.y <= p.y /\ p.y < a.y /\ Turn(b, a, p) < 0

LiesWithin(poly, p) ==
    \/ \E i \in DOMAIN poly : OnSide(poly[i], Following(poly, i), p)
    \/ Odd(Cardinality({i \in DOMAIN poly : LeftOf(poly[i], Following(poly, i), p)}))

Judged == verdict # "none"

\* The cast takes corner c for colinear with the ray from p: its height differs
\* from p's by less than 1 / (INF - p.x), which is 0.0001 in the server.
Level(p, c) == Colinear(p, extreme(p), c)

\* The ray of isInside runs through a corner, or past one that is level with it.
ThroughCorner(poly, p) ==
    \E i \in DOMAIN poly : /\ Level(p, poly[i])
                           /\ poly[i].y = p.y => p.x <= poly[i].x

\* p and the corners are to the left of the ray's end.
BeforeEnd(poly, p) ==
    /\ p.x < extreme(p).x
    /\ \A i \in DOMAIN poly : poly[i].x < extreme(p).x

\* p is colinear with a side after the cast only.
Rounded(poly, p) ==
    \E i \in DOMAIN poly : LET a == poly[i]  b == Following(poly, i)
                           IN  Colinear(a, p, b) /\ Turn(a, p, b) # 0

(***************************************************************************)
(* isInside returns whether the position lies inside the polygon, unless   *)
(* its ray runs through a corner or the cast takes a corner for level with *)
(* it, or the cast takes the position for colinear with a side.  With two  *)
(* devices this is only so for positions on the line through them.         *)
(***************************************************************************)
Agrees ==
    /\ Judged
    /\ esp_number > 1
    /\ ~Rounded(polygon, asked)
    /\ esp_number = 2 => Turn(polygon[1], asked, polygon[2]) = 0
    /\ esp_number > 2 => BeforeEnd(polygon, asked) /\ ~ThroughCorner(polygon, asked)
    =>
    (verdict = "inside" <=> LiesWithin(polygon, asked))

(***************************************************************************)
(* A position above all devices, or below all of them, is accepted only    *)
(* when the cast takes a device for level with it, whatever else its ray   *)
(* runs through and whatever else is rounded.                              *)
(***************************************************************************)
BetweenHeights ==
    Judged /\ esp_number > 1 /\ verdict = "inside" =>
        \E i, j \in DOMAIN polygon :
            /\ polygon[i].y <= asked.y \/ Level(asked, polygon[i])
            /\ asked.y <= polygon[j].y \/ Level(asked, polygon[j])
=============================================================================
