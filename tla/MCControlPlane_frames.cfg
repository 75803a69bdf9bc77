\* One camera is removed and added again within a session.
SPECIFICATION Spec
CONSTANTS
  Requests = {1, 2}
  Streams = {"cam0", "cam1"}
  Targets = {"cam1"}
  AtBoot = {"cam1"}
  Default = "cam0"
  MaxStreams = 0
  SeenLimit = 1
  RetryWindow = 0
  MaxRetries = 0
  MaxSessions = 1
  MaxFrames = 2
PROPERTY FrameIdsIncrease
CHECK_DEADLOCK FALSE
