----------------------------- MODULE MCRuleEngine -----------------------------
(* The rule engine on a small grid: a square zone and two lines across it. *)
EXTENDS RuleEngine

(* The square (2,1)-(4,3), its left edge on the lines.                     *)
MCPolygon == [z \in Zones |-> <<<<2, 1>>, <<4, 1>>, <<4, 3>>, <<2, 3>>>>]
MCDwell == [z \in Zones |-> 1]

(* Two segments of the line x = 2: one short and any-way, one long and     *)
(* forward only.                                                           *)
MCSegment ==
  [l \in Lines |->
     IF l = "door" THEN [start |-> <<2, 1>>, end |-> <<2, 3>>, direction |-> "any"]
                   ELSE [start |-> <<2, 0>>, end |-> <<2, 9>>, direction |-> "forward"]]

(* Left, on the lines, right and in the zone, right beyond the door's end. *)
MCPoints == {<<1, 2>>, <<2, 2>>, <<3, 2>>, <<3, 8>>}

MCFeatures == {Features, {"zone_detection"}, NoRules}
=============================================================================
