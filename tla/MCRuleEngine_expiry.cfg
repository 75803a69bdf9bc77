SPECIFICATION Spec
CONSTANTS
  Tracks = {1}
  Points <- MCPoints
  Zones = {"yard"}
  Polygon <- MCPolygon
  Dwell <- MCDwell
  Lines = {"door", "fence"}
  Segment <- MCSegment
  FeatureSets <- MCFeatures
  ChainGap = 0
  TrackExpiry = 1
  MaxTicks = 2
  MaxFrames = 3
INVARIANT AbsenceEndsVisits
CHECK_DEADLOCK FALSE
