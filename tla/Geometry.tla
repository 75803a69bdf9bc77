------------------------------- MODULE Geometry -------------------------------
(***************************************************************************)
(* The scalar geometry of the rule engine (hub/edge_hub/rules/geometry.py) *)
(* and the copy the rule canvas uses (web/dist/js/coords.js), over points  *)
(* of an integer grid: frame_norm coordinates times the grid's width.      *)
(***************************************************************************)
EXTENDS Integers, Sequences, FiniteSets

(* The vertex before vertex i of a closed polygon.                         *)
Before(poly, i) == poly[IF i = 1 THEN Len(poly) ELSE i - 1]

(* One edge of point_in_polygon, from b to a: it spans the point's height  *)
(* and the point is left of it.  max(yj - yi, 1e-9) is the height of an    *)
(* edge that rises from a to b; for one that falls it is 1e-9, so that the *)
(* quotient is beyond the frame on the side the numerator's sign says, or  *)
(* zero for a vertical edge (true of any grid coarser than 1e-4).          *)
HubEdgeHit(pt, a, b) ==
  /\ (a[2] > pt[2]) # (b[2] > pt[2])
  /\ LET run == (b[1] - a[1]) * (pt[2] - a[2])
         rise == b[2] - a[2]
     IN  IF rise > 0 THEN (pt[1] - a[1]) * rise < run
         ELSE run > 0 \/ (run = 0 /\ pt[1] < a[1])

(* point_in_polygon: inside is toggled by every edge that is hit.          *)
PointInPolygon(pt, poly) ==
  /\ Len(poly) >= 3
  /\ Cardinality({i \in 1..Len(poly) : HubEdgeHit(pt, poly[i], Before(poly, i))}) % 2 = 1

(* Mutant: the slope of the edge is ignored.                               *)
CanvasEdgeHit_NoSlope(pt, a, b) ==
  /\ (a[2] > pt[2]) # (b[2] > pt[2])
  /\ pt[1] < a[1]

(* One edge of coords.js pointInPolygon: the divisor is yj - yi itself,    *)
(* which is not zero when the edge spans the point's height.               *)
CanvasEdgeHit(pt, a, b) ==
  /\ (a[2] > pt[2]) # (b[2] > pt[2])
  /\ LET run == (b[1] - a[1]) * (pt[2] - a[2])
         rise == b[2] - a[2]
     IN  IF rise > 0 THEN (pt[1] - a[1]) * rise < run
                     ELSE (pt[1] - a[1]) * rise > run

CanvasPointInPolygon(pt, poly) ==
  Cardinality({i \in 1..Len(poly) : CanvasEdgeHit(pt, poly[i], Before(poly, i))}) % 2 = 1

(* (b-a) x (c-a) > 0: strictly counter-clockwise.                          *)
Ccw(a, b, c) == (c[2] - a[2]) * (b[1] - a[1]) > (b[2] - a[2]) * (c[1] - a[1])

SegmentsIntersect(a, b, c, d) ==
  /\ Ccw(a, c, d) # Ccw(b, c, d)
  /\ Ccw(a, b, c) # Ccw(a, b, d)

(* The sign of (end-start) x (p-start).                                    *)
Side(start, end, p) ==
  LET cross == (end[1] - start[1]) * (p[2] - start[2])
               - (end[2] - start[2]) * (p[1] - start[1])
  IN  IF cross > 0 THEN 1 ELSE IF cross < 0 THEN -1 ELSE 0

(* The sign flip that makes a crossing, "none" when either side is zero.   *)
DirectionFromSides(prev, curr) ==
  CASE prev > 0 /\ curr < 0 -> "forward"
    [] prev < 0 /\ curr > 0 -> "backward"
    [] OTHER -> "none"
=============================================================================
