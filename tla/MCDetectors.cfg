SPECIFICATION DetectorsSpec
CONSTANTS
  Platforms = {"jetson", "generic", "hailo"}
  Cameras = {"cam0", "cam1"}
  Configured = {"cam0"}
  MaxWorkers = 2
  MaxSession = 2
  MaxFrame = 2
  MaxInbox = 3
  LateWills = FALSE
  FreqSteps = {1, 2, 3}
  Boxes <- SomeBoxes
  Threshold <- OneFifth
  MaxLost = 1
  MaxSeen = 2
  MaxIds = 4
  Side = 64
  Sources <- FrameSizes
  Grids <- ThreeGrids
  Classes = 8
  BoxChannels = 6
  Views <- SomeViews
  Levels = {3, 4, 5}
  Scale <- OneQuarter
  Zero = 1
  Conf <- ThreeFifths
  IouMax <- NineTwentieths
  MaxPreNms = 2
  Threads = {"a", "b"}
  Thresholds = {1, 2}
  MaxFrames = 2
  Watched = {"cam0", "cam1"}
  Viewers = {"v1"}
  MaxShots = 2
  MaxChanges = 2
  OutTensors = 2
  Memory = 4
  MinFree = 3
  MaxLoops = 5
INVARIANTS
   DecodeIsHonest BoardIsAsFound TracksHold
  BoxesAreTrue ResultsAreOwn ServedWhole BenchIsHonest
PROPERTIES
  FatalSurfaces EntriesAreReal RegistryFollowsDevice
CHECK_DEADLOCK FALSE
