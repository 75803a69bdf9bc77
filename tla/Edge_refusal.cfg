INIT EdgeInit
NEXT EdgeNext
CONSTANTS
  Platforms = {"rknn"}
  Cameras = {"cam0", "cam1"}
  Configured = {"cam0"}
  MaxWorkers = 2
INVARIANT RefusalIsHarmless
CHECK_DEADLOCK FALSE
