------------------------------ MODULE Tracker ------------------------------
(***************************************************************************)
(* IoUTracker, the same on every platform (tracker.py): the boxes of a     *)
(* frame are given to the tracks they overlap most, best overlap first,    *)
(* what is left over starts a new track, and a track that has not been     *)
(* seen for longer than max_lost_sec is dropped.                           *)
(*                                                                         *)
(* Coordinates are integers and overlaps are compared as fractions.  The   *)
(* score of a track and its count of missed frames, which nothing reads,   *)
(* are left out.                                                           *)
(***************************************************************************)
EXTENDS Integers, Sequences, FiniteSets, FiniteSetsExt

CONSTANTS
  Boxes,            \* the boxes a detection may have: <<x1, y1, x2, y2>>
  Threshold,        \* of the IoU, as <<numerator, denominator>>
  MaxLost,          \* age beyond which a track is dropped
  MaxSeen,          \* bound on the detections of one frame
  MaxIds            \* bound on the ids given out

ASSUME TrackerAssumption ==
  /\ Boxes \subseteq Int \X Int \X Int \X Int
  /\ Threshold \in Nat \X (Nat \ {0}) /\ Threshold[1] > 0
  /\ MaxLost \in Nat /\ MaxSeen \in Nat /\ MaxIds \in Nat

VARIABLES
  tracks,           \* id -> last box, and age since it was seen
  nextId,           \* the id of the next new track
  shown,            \* what update returned last: detection -> id
  before            \* history: the detections and live tracks it was given

trackerVars == <<tracks, nextId, shown, before>>

TrackerInit ==
  /\ tracks = <<>> /\ nextId = 1
  /\ shown = <<>> /\ before = [dets |-> <<>>, live |-> <<>>, next |-> 1]

-----------------------------------------------------------------------------
Larger(u, v) == IF u > v THEN u ELSE v
Smaller(u, v) == IF u < v THEN u ELSE v
Extent(u, v) == Larger(0, v - u)

Area(b) == Extent(b[1], b[3]) * Extent(b[2], b[4])
Inter(a, b) == Extent(Larger(a[1], b[1]), Smaller(a[3], b[3]))
               * Extent(Larger(a[2], b[2]), Smaller(a[4], b[4]))

(* Intersection over union; two empty boxes have none.                     *)
Iou(a, b) == <<Inter(a, b), Larger(1, Area(a) + Area(b) - Inter(a, b))>>
Less(p, q) == p[1] * q[2] < q[1] * p[2]
Same(p, q) == p[1] * q[2] = q[1] * p[2]

(* What is left after the expired tracks are deleted.                      *)
Live(ts, dt) ==
  [id \in {i \in DOMAIN ts : ts[i].age + dt <= MaxLost} |->
     [box |-> ts[id].box, age |-> ts[id].age + dt]]

(* The pairs of a live track and a detection that overlap enough.          *)
Eligible(live, dets) ==
  {p \in (DOMAIN live) \X (DOMAIN dets) :
     ~Less(Iou(live[p[1]].box, dets[p[2]]), Threshold)}

(* Pairs are tried from the last of the sorted list: the higher overlap,   *)
(* then the younger track, then the later detection.                       *)
Before(live, dets, p, q) ==
  LET u == Iou(live[p[1]].box, dets[p[2]])
      v == Iou(live[q[1]].box, dets[q[2]])
  IN \/ Less(v, u)
     \/ Same(u, v) /\ p[1] > q[1]
     \/ Same(u, v) /\ p[1] = q[1] /\ p[2] > q[2]

(* Mutant: the sorted pairs are taken in ascending order.                  *)
Matching_Ascending(live, dets) ==
  LET take[S \in SUBSET Eligible(live, dets)] ==
        IF S = {} THEN {}
        ELSE LET p == CHOOSE w \in S : \A q \in S \ {w} : Before(live, dets, q, w)
             IN {p} \cup take[{q \in S : q[1] # p[1] /\ q[2] # p[2]}]
  IN take[Eligible(live, dets)]

(* The loop over the sorted pairs: each track and each detection once.     *)
Matching(live, dets) ==
  LET take[S \in SUBSET Eligible(live, dets)] ==
        IF S = {} THEN {}
        ELSE LET p == CHOOSE w \in S : \A q \in S \ {w} : Before(live, dets, w, q)
             IN {p} \cup take[{q \in S : q[1] # p[1] /\ q[2] # p[2]}]
  IN take[Eligible(live, dets)]

(* Every detection's id: of the track it was matched with, or a new one,   *)
(* in the order of the detections.                                         *)
Given(live, dets, next) ==
  LET pairs == Matching(live, dets)
      fresh == {d \in DOMAIN dets : \A p \in pairs : p[2] # d}
  IN [d \in DOMAIN dets |->
        IF d \in fresh THEN next + Cardinality({e \in fresh : e < d})
        ELSE (CHOOSE p \in pairs : p[2] = d)[1]]

(* IoUTracker.update with the detections of a frame, dt after the last.    *)
Update(dets, dt) ==
  LET live == Live(tracks, dt)
      ids == Given(live, dets, nextId)
      seen == {ids[d] : d \in DOMAIN dets}
  IN
    /\ nextId' = Max({nextId} \cup {i + 1 : i \in seen})
    /\ nextId' <= MaxIds + 1
    /\ tracks' = [i \in (DOMAIN live) \cup seen |->
                    IF i \in seen
                    THEN [box |-> dets[CHOOSE d \in DOMAIN dets : ids[d] = i], age |-> 0]
                    ELSE live[i]]
    /\ shown' = ids
    /\ before' = [dets |-> dets, live |-> live, next |-> nextId]

Seen(n) == UNION {[1..k -> Boxes] : k \in 0..n}

TrackerNext == \E dets \in Seen(MaxSeen), dt \in 1..(MaxLost + 1) : Update(dets, dt)

TrackerSpec == TrackerInit /\ [][TrackerNext]_trackerVars

-----------------------------------------------------------------------------
Ids == 1..MaxIds

TrackerTypeOK ==
  /\ nextId \in 1..(MaxIds + 1)
  /\ DOMAIN tracks \subseteq 1..(nextId - 1)
  /\ \A i \in DOMAIN tracks : tracks[i].box \in Boxes /\ tracks[i].age \in 0..MaxLost

(* A frame names each of its boxes once, by a track that is alive or by an *)
(* id nobody has had; and when a box is not given to a live track that it  *)
(* overlaps enough, one of the two has gone to a partner at least as good: *)
(* a person who stays where no one else is keeps the id the hub's zones    *)
(* and lines are judged by (tracker.py, update).                           *)
TracksHold ==
  LET dets == before.dets
      live == before.live
      over(i, d) == Iou(live[i].box, dets[d])
  IN
    /\ \A d, e \in DOMAIN shown : d # e => shown[d] # shown[e]
    /\ \A d \in DOMAIN shown : shown[d] \in DOMAIN live \/ shown[d] >= before.next
    /\ \A i \in DOMAIN live, d \in DOMAIN dets :
         ~Less(over(i, d), Threshold) /\ shown[d] # i =>
           \/ shown[d] \in DOMAIN live /\ ~Less(over(shown[d], d), over(i, d))
           \/ \E e \in DOMAIN shown : shown[e] = i /\ ~Less(over(i, e), over(i, d))
=============================================================================
