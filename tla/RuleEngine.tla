------------------------------ MODULE RuleEngine ------------------------------
(***************************************************************************)
(* The rule engine for one stream of a hub-mode device (rules/engine.py,   *)
(* state.py, zone.py, line.py): which candidate alerts a sequence of       *)
(* detection messages produces.  A message is one action, as the engine is *)
(* synchronous.  Detections with track_id 0 are never looked at and left   *)
(* out.  The generation reset of the whole device is ResetDevice; which    *)
(* messages cause it is DeviceGeneration's subject.                        *)
(***************************************************************************)
EXTENDS Geometry, SequencesExt

CONSTANTS
  Tracks,           \* track ids >= 1
  Points,           \* centroids a detection may have
  Zones,            \* zone ids
  Polygon,          \* zone -> its points
  Dwell,            \* zone -> dwell_seconds
  Lines,            \* line ids
  Segment,          \* line -> [start, end, direction]
  FeatureSets,      \* what PUT rules may configure: sets of features, NoRules
  ChainGap,         \* line_chain_gap_ms
  TrackExpiry,      \* track_expiry_s
  MaxTicks,         \* bound on the hub's monotonic clock
  MaxFrames         \* bound on frame ids

Features == {"zone_detection", "loitering", "line_crossing"}
NoRules == {"no rules"}
Never == -1

ASSUME EngineAssumption ==
  /\ ChainGap \in Nat /\ TrackExpiry \in Nat
  /\ MaxTicks \in Nat /\ MaxFrames \in Nat
  /\ FeatureSets \subseteq (SUBSET Features) \cup {NoRules}
  /\ Dwell \in [Zones -> Nat]
  /\ Points \subseteq Int \X Int

VARIABLES
  now,              \* the hub's monotonic clock
  features,         \* the stream's rules: enabled features, or NoRules
  watermark,        \* last_frame_id, 0 for None
  tracks,           \* track -> TrackState
  out,              \* what the last step returned: Returned(candidates) or Nothing
  trail,            \* history: track -> its evaluated observations, this session
  frames            \* history: when the evaluated messages of this session came

vars == <<now, features, watermark, tracks, out, trail, frames>>

Returned(hits) == [evaluated |-> TRUE, hits |-> hits]
Nothing == [evaluated |-> FALSE, hits |-> {}]

(* A track without state: also what a new TrackState holds.                *)
NoTrack ==
  [seen    |-> Never,                        \* last_seen_mono
   entered |-> [z \in Zones |-> Never],      \* zone_entered_at
   chainAt |-> Never,                        \* last_point_mono
   side    |-> [l \in Lines |-> 0],          \* line_side, 0 when not recorded
   anchor  |-> [l \in Lines |-> <<>>]]       \* line_anchor

Init ==
  /\ now = 0
  /\ features \in FeatureSets
  /\ watermark = 0
  /\ tracks = [t \in Tracks |-> NoTrack]
  /\ out = Nothing
  /\ trail = [t \in Tracks |-> <<>>]
  /\ frames = <<>>

-----------------------------------------------------------------------------
(* Zones.                                                                  *)

Inside(pt, z) == PointInPolygon(pt, Polygon[z])

ZoneOn == "zone_detection" \in features
LoiteringOn == "loitering" \in features
LinesOn == "line_crossing" \in features

(* Mutant: leaving a zone does not forget when it was entered.             *)
EnteredAt_Sticky(entered, pt) ==
  [z \in Zones |-> IF Inside(pt, z) /\ entered[z] = Never THEN now
                   ELSE entered[z]]

(* evaluate_zones' bookkeeping: the instant is set on entry, deleted on    *)
(* leaving.                                                                *)
EnteredAt(entered, pt) ==
  [z \in Zones |-> IF ~Inside(pt, z) THEN Never
                   ELSE IF entered[z] = Never THEN now ELSE entered[z]]

(* Its candidates: an entry, and a loitering on every message from the     *)
(* moment the dwell is reached.                                            *)
ZoneCandidates(t, entered, pt) ==
  {[type |-> "zone_enter", track |-> t, rule |-> z] :
     z \in {y \in Zones : Inside(pt, y) /\ entered[y] = Never}}
  \cup
  {[type |-> "loitering", track |-> t, rule |-> z] :
     z \in {y \in Zones : /\ LoiteringOn /\ Inside(pt, y)
                          /\ now - EnteredAt(entered, pt)[y] >= Dwell[y]}}

-----------------------------------------------------------------------------
(* Lines.                                                                  *)

SideOf(l, pt) == Side(Segment[l].start, Segment[l].end, pt)

(* note_line_side: a zero side is ignored.                                 *)
Noted(side, l, pt) == IF SideOf(l, pt) = 0 THEN side ELSE SideOf(l, pt)

(* _reanchor: forget every side, then seed from the current centroid.      *)
Reanchored(ts, pt) ==
  [ts EXCEPT !.side = [l \in Lines |-> SideOf(l, pt)],
             !.anchor = [l \in Lines |-> IF SideOf(l, pt) = 0 THEN <<>> ELSE pt]]

(* Mutant: a gap of any length keeps the chain.                            *)
ChainOk_AnyGap(ts) == ts.chainAt # Never

ChainOk(ts) == ts.chainAt # Never /\ now - ts.chainAt <= ChainGap

(* The chain goes on: a non-zero side is remembered with its centroid.     *)
Followed(ts, pt) ==
  [ts EXCEPT !.side = [l \in Lines |-> Noted(@[l], l, pt)],
             !.anchor = [l \in Lines |-> IF SideOf(l, pt) = 0 THEN @[l] ELSE pt]]

(* A crossing of line l from the remembered side and anchor to pt.         *)
Crosses(l, side, anchor, pt) ==
  /\ side # 0
  /\ DirectionFromSides(side, SideOf(l, pt)) # "none"
  /\ SegmentsIntersect(anchor, pt, Segment[l].start, Segment[l].end)
  /\ Segment[l].direction \in {"any", DirectionFromSides(side, SideOf(l, pt))}

LineCandidate(t, l, side, pt) ==
  [type |-> DirectionFromSides(side, SideOf(l, pt)), track |-> t, rule |-> l]

LineCandidates(t, ts, pt) ==
  {LineCandidate(t, l, ts.side[l], pt) :
     l \in {k \in Lines : Crosses(k, ts.side[k], ts.anchor[k], pt)}}

-----------------------------------------------------------------------------
(* One detection of track t at pt.                                         *)

AfterZones(ts, pt) ==
  IF ZoneOn THEN [ts EXCEPT !.entered = EnteredAt(@, pt)] ELSE ts

AfterLines(ts, pt) ==
  [(IF LinesOn /\ ChainOk(ts) THEN Followed(ts, pt) ELSE Reanchored(ts, pt))
     EXCEPT !.chainAt = now]

Evaluated(ts, pt) == [AfterLines(AfterZones(ts, pt), pt) EXCEPT !.seen = now]

Candidates(t, ts, pt) ==
  (IF ZoneOn THEN ZoneCandidates(t, ts.entered, pt) ELSE {})
  \cup (IF LinesOn /\ ChainOk(ts) THEN LineCandidates(t, ts, pt) ELSE {})

(* expire_tracks, at the end of the message.                               *)
Expired(ts) == ts.seen # Never /\ now - ts.seen > TrackExpiry

(* What a message with the detections dets makes of all tracks.            *)
TracksAfter(dets) ==
  LET seen == [t \in Tracks |-> IF t \in DOMAIN dets
                                THEN Evaluated(tracks[t], dets[t])
                                ELSE tracks[t]]
  IN  [t \in Tracks |-> IF Expired(seen[t]) THEN NoTrack ELSE seen[t]]

Observation(dets, t) ==
  [pt |-> dets[t], at |-> now, n |-> Len(frames) + 1, on |-> features]

(* RuleEngine.on_detections for a frame that is newer than the last.       *)
OnDetections(f, dets) ==
  /\ f > watermark
  /\ watermark' = f
  /\ features # NoRules
  /\ tracks' = TracksAfter(dets)
  /\ out' = Returned(UNION {Candidates(t, tracks[t], dets[t]) : t \in DOMAIN dets})
  /\ trail' = [t \in Tracks |-> IF t \in DOMAIN dets
                                THEN Append(trail[t], Observation(dets, t))
                                ELSE trail[t]]
  /\ frames' = Append(frames, now)
  /\ UNCHANGED <<now, features>>

(* A stream without rules only moves its watermark.                        *)
OnDetectionsNoRules(f) ==
  /\ f > watermark
  /\ features = NoRules
  /\ watermark' = f
  /\ out' = Nothing
  /\ UNCHANGED <<now, features, tracks, trail, frames>>

(* frame_out_of_order: a repeated or overtaken frame.                      *)
OnDetectionsLate(f) ==
  /\ f <= watermark
  /\ out' = Nothing
  /\ UNCHANGED <<now, features, watermark, tracks, trail, frames>>

(* reset_generation or reset_device: every stream of the device restarts.  *)
ResetDevice ==
  /\ watermark' = 0
  /\ tracks' = [t \in Tracks |-> NoTrack]
  /\ out' = Nothing
  /\ trail' = [t \in Tracks |-> <<>>]
  /\ frames' = <<>>
  /\ UNCHANGED <<now, features>>

(* PUT rules: the next message is judged by the new body.                  *)
ChangeRules ==
  /\ features' \in FeatureSets \ {features}
  /\ out' = Nothing
  /\ UNCHANGED <<now, watermark, tracks, trail, frames>>

Tick ==
  /\ now < MaxTicks
  /\ now' = now + 1
  /\ out' = Nothing
  /\ UNCHANGED <<features, watermark, tracks, trail, frames>>

Detections == UNION {[S -> Points] : S \in SUBSET Tracks}

Next ==
  \/ \E f \in 1..MaxFrames :
       \/ \E dets \in Detections : OnDetections(f, dets)
       \/ OnDetectionsNoRules(f)
       \/ OnDetectionsLate(f)
  \/ ResetDevice \/ ChangeRules \/ Tick

Spec == Init /\ [][Next]_vars

-----------------------------------------------------------------------------
(* Properties.  What a message returns is compared with what the trail of  *)
(* observations says, without the engine's incremental state.              *)

TrackState ==
  [seen    : Never..MaxTicks,
   entered : [Zones -> Never..MaxTicks],
   chainAt : Never..MaxTicks,
   side    : [Lines -> -1..1],
   anchor  : [Lines -> Points \cup {<<>>}]]

(* A remembered side is the side of the remembered anchor.                 *)
SideMatchesAnchor(ts, l) ==
  /\ ts.side[l] = 0 <=> ts.anchor[l] = <<>>
  /\ ts.anchor[l] # <<>> => SideOf(l, ts.anchor[l]) = ts.side[l]

(* The state has its types, and a track's line chain is never apart from   *)
(* the state it belongs to (TrackState).                                   *)
TypeOK ==
  /\ now \in 0..MaxTicks
  /\ features \in FeatureSets
  /\ watermark \in 0..MaxFrames
  /\ tracks \in [Tracks -> TrackState]
  /\ \A t \in Tracks : /\ tracks[t].chainAt = tracks[t].seen
                       /\ \A l \in Lines : SideMatchesAnchor(tracks[t], l)

(* The messages strictly between two observations of a track: expire_tracks *)
(* forgot it at one of them.                                               *)
SweptBetween(o, p) ==
  \E k \in (o.n + 1)..(p.n - 1) : frames[k] - o.at > TrackExpiry

(* The index of the first observation of the state the engine holds.       *)
BornAt(t) ==
  LET h == trail[t]
  IN  CHOOSE i \in DOMAIN h :
        /\ i = 1 \/ SweptBetween(h[i - 1], h[i])
        /\ \A j \in (i + 1)..Len(h) : ~SweptBetween(h[j - 1], h[j])

(* HUB_SPEC's table of what is kept per track: after being absent for      *)
(* longer than track_expiry_s a track's state is cleared, so its present   *)
(* life begins with the observation that ended its last such absence.      *)
Absent(o, p) == p.at - o.at > TrackExpiry

AppearedAt(t) ==
  LET h == trail[t]
  IN  CHOOSE i \in DOMAIN h :
        /\ i = 1 \/ Absent(h[i - 1], h[i])
        /\ \A j \in (i + 1)..Len(h) : ~Absent(h[j - 1], h[j])

(* The observations from b on that zones were judged at.                   *)
ZoneSightings(t, b) ==
  {i \in b..Len(trail[t]) : "zone_detection" \in trail[t][i].on}

(* The visit of zone z the track is on: all sightings since were inside.   *)
Visit(t, b, z) ==
  {i \in ZoneSightings(t, b) :
     \A j \in ZoneSightings(t, b) : j >= i => Inside(trail[t][j].pt, z)}

(* The oldest of a nonempty set of indices.                                *)
First(S) == CHOOSE i \in S : \A j \in S : i <= j

(* The tracks the last message was about.                                  *)
Seen == {t \in Tracks : trail[t] # <<>> /\ Last(trail[t]).n = Len(frames)}

(* The code updates the track before it looks for expired ones, so an      *)
(* absence is only noticed at a message of the stream that comes in it and *)
(* late enough.  One in the track's life went by unnoticed.                *)
Overlooked(t) ==
  /\ t \in Seen
  /\ \E i \in (BornAt(t) + 1)..Len(trail[t]) : Absent(trail[t][i - 1], trail[t][i])

(* What the observations from b on earn.                                   *)
ZoneHitsSince(t, b) ==
  {[type |-> "zone_enter", track |-> t, rule |-> z] :
     z \in {y \in Zones : Visit(t, b, y) = {Len(trail[t])}}}
  \cup
  {[type |-> "loitering", track |-> t, rule |-> z] :
     z \in {y \in Zones : /\ LoiteringOn /\ Visit(t, b, y) # {}
                          /\ now - trail[t][First(Visit(t, b, y))].at >= Dwell[y]}}

EarnedZoneHits(t) ==
  IF ZoneOn /\ t \in Seen THEN ZoneHitsSince(t, AppearedAt(t)) ELSE {}

ZoneTypes == {"zone_enter", "loitering"}
ZoneVerdicts(t) == {h \in out.hits : h.type \in ZoneTypes /\ h.track = t}

(* A zone_enter is returned exactly for the first observation of a visit,  *)
(* a loitering exactly when the visit is as long as the zone's dwell, and  *)
(* a visit ends when the track leaves or is absent beyond track_expiry_s:  *)
(* whatever was toggled, expired or seen of other tracks in between        *)
(* (evaluate_zones, StreamState.track, expire_tracks).  Except for a track *)
(* that is back before anyone noticed (AbsenceEndsVisits).                 *)
ZoneVerdictsAreEarned ==
  out.evaluated =>
    \A t \in Tracks : ~Overlooked(t) => ZoneVerdicts(t) = EarnedZoneHits(t)

(* The same for every track, as HUB_SPEC has it: one that is seen again    *)
(* after more than track_expiry_s enters the zone anew.                    *)
AbsenceEndsVisits ==
  out.evaluated => \A t \in Tracks : ZoneVerdicts(t) = EarnedZoneHits(t)

(* Observation i of the track starts a chain: nothing before it counts.    *)
StartsChain(t, i) ==
  LET h == trail[t]
  IN  \/ i = BornAt(t)
      \/ "line_crossing" \notin h[i].on
      \/ h[i].at - h[i - 1].at > ChainGap

Chain(t) ==
  {i \in BornAt(t)..Len(trail[t]) :
     \A j \in (i + 1)..Len(trail[t]) : ~StartsChain(t, j)}

(* The chain's earlier observations off line l; the newest of a set.       *)
OffLine(t, l) ==
  {i \in Chain(t) \ {Len(trail[t])} : SideOf(l, trail[t][i].pt) # 0}
Newest(S) == CHOOSE i \in S : \A j \in S : i >= j

EarnedCrossings(t) ==
  LET at == Last(trail[t]).pt
      crossed == {l \in Lines :
                    /\ OffLine(t, l) # {}
                    /\ LET from == trail[t][Newest(OffLine(t, l))].pt
                       IN  /\ SideOf(l, at) = -SideOf(l, from)
                           /\ SegmentsIntersect(from, at, Segment[l].start, Segment[l].end)
                           /\ Segment[l].direction \in
                                {"any", IF SideOf(l, at) < 0 THEN "forward" ELSE "backward"}}
  IN  {[type |-> IF SideOf(l, at) < 0 THEN "forward" ELSE "backward",
        track |-> t, rule |-> l] : l \in crossed}

(* A crossing is returned exactly when the track's newest earlier position *)
(* off the line, in a chain of observations no further apart than the gap, *)
(* was on the other side and the chord between them meets the segment: a   *)
(* track that sits on the line, or whose chain broke, crosses nothing      *)
(* (evaluate_lines, contracts/MQTT.md `direction`).                        *)
CrossingsAreEarned ==
  out.evaluated =>
    {h \in out.hits : h.type \notin ZoneTypes}
      = IF LinesOn THEN UNION {EarnedCrossings(t) : t \in Seen} ELSE {}
=============================================================================
