------------------------------ MODULE MCGeometry ------------------------------
(* The operators of Geometry against reference definitions: four points of *)
(* a small grid, chosen freely and moved one at a time.                    *)
EXTENDS Geometry

CONSTANT Width                  \* the grid is 0..Width in both directions

ASSUME WidthAssumption == Width \in Nat

Grid == (0..Width) \X (0..Width)

VARIABLES A, B, C, X            \* three corners, and a point
geoVars == <<A, B, C, X>>

GeoInit == A \in Grid /\ B \in Grid /\ C = <<0, 0>> /\ X = <<0, 0>>
MoveC == C' \in Grid /\ UNCHANGED <<A, B, X>>
MoveX == X' \in Grid /\ UNCHANGED <<A, B, C>>
GeoNext == MoveC \/ MoveX
GeoSpec == GeoInit /\ [][GeoNext]_geoVars

Triangle == <<A, B, C>>
(* The rectangle with opposite corners A and B, in both windings.          *)
Rectangles == {<<A, <<B[1], A[2]>>, B, <<A[1], B[2]>>>>,
               <<A, <<A[1], B[2]>>, B, <<B[1], A[2]>>>>}

Sides == {Side(A, B, X), Side(B, C, X), Side(C, A, X)}
InsideTriangle == Sides = {1} \/ Sides = {-1}
OnTriangle == 0 \in Sides /\ (Sides \subseteq {0, 1} \/ Sides \subseteq {0, -1})

Between(x, u, v) == (u < x /\ x < v) \/ (v < x /\ x < u)
InsideRectangle == Between(X[1], A[1], B[1]) /\ Between(X[2], A[2], B[2])
OutsideRectangle ==
  \E k \in {1, 2} : \/ X[k] < A[k] /\ X[k] < B[k]
                    \/ X[k] > A[k] /\ X[k] > B[k]

(* The canvas decides the inside of any triangle rightly, whichever way it *)
(* was drawn (coords.js pointInPolygon); points on an edge are left open.  *)
CanvasIsRayCasting ==
  (Side(A, B, C) # 0 /\ ~OnTriangle) =>
    (CanvasPointInPolygon(X, Triangle) <=> InsideTriangle)

(* The hub decides the inside of a rectangle rightly, whichever corner it  *)
(* was drawn from and whichever way round (geometry.py point_in_polygon).  *)
HubDecidesRectangles ==
  \A r \in Rectangles :
    /\ InsideRectangle => PointInPolygon(X, r)
    /\ OutsideRectangle => ~PointInPolygon(X, r)

(* What a user sees strictly inside a zone on the canvas is inside for the *)
(* hub: the canvas says it mirrors geometry.py (coords.js:85).             *)
CanvasMirrorsHub ==
  InsideTriangle =>
    (PointInPolygon(X, Triangle) <=> CanvasPointInPolygon(X, Triangle))

(* With no three points in line, segments_intersect is the strict straddle *)
(* of both segments, so it is the same from either end of either segment.  *)
StraddleWhenClear ==
  (0 \notin {Side(A, B, C), Side(A, B, X), Side(C, X, A), Side(C, X, B)}) =>
    (SegmentsIntersect(A, B, C, X) <=>
       /\ Side(A, B, C) # Side(A, B, X)
       /\ Side(C, X, A) # Side(C, X, B))

(* Containment and intersection as both sides of the wire decide them:     *)
(* the canvas's even-odd ray casting is right for every triangle, the      *)
(* hub's is right for rectangles, and segments in general position         *)
(* intersect when they straddle (geometry.py, coords.js).                  *)
GeometryIsRight == CanvasIsRayCasting /\ HubDecidesRectangles /\ StraddleWhenClear
=============================================================================
