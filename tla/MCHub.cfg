SPECIFICATION HubSpec
CONSTANTS
  Streams = {"cam0", "cam1"}
  Hub = "hub"
  Keys = {"days", "size"}
  EnvKeys = {}
  Keep = 2
  MaxPuts = 3
  Parsed = {"days"}
  Handed = {"days"}
  MaxTokens = 2
  MaxPasswords = 2
  IdleTimes = {1, 2}
  MaxTime = 4
  AdminPassword = FALSE
  MaxMessages = 3
  MaxCuts = 3
  BackoffCap = 3
  Viewers = {"v1", "v2"}
  Window = 2
  FetchTimeout = 3
  LastTick = 4
  Tracks = {1}
  Points <- MCPoints
  Zones = {"yard"}
  Polygon <- MCPolygon
  Dwell <- MCDwell
  Lines = {"door", "fence"}
  Segment <- MCSegment
  FeatureSets <- MCFeatures
  ChainGap = 0
  TrackExpiry = 1
  MaxTicks = 2
  MaxFrames = 3
  Width = 2
  Edited = {"cam0", "cam1"}
  MaxPicks = 2
  MaxSaves = 1
  MaxEdits = 2
  MaxLoads = 2
  MaxSignIns = 2
  MaxLapses = 1
  MaxOutages = 1
  HubKeys = {"k1"}
  BoxKeys = {"b1"}
  SimKey = "sim"
  MaxSeq = 2
  MaxAlerts = 2
  MaxCrashes = 0
  PublishFails = TRUE
  WriteFails = TRUE
  Retention = FALSE
INVARIANTS
  ConfirmedHolds HistoryInStep BarredStayOut
  CachedAgeIsHonest ZoneVerdictsAreEarned CrossingsAreEarned GeometryIsRight EditorIsHonest EchoSafe
PROPERTIES
  ImportIsWhole SessionLife HubIngestRecovers SocketFollowsSession
CHECK_DEADLOCK FALSE
