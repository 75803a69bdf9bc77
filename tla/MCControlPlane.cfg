\* Two commands and a repeated delivery, two detector starts; the file lists
\* one of the streams at first, a second one is the default of an empty list.
SPECIFICATION FairSpec
CONSTANTS
  Requests = {1, 2}
  Streams = {"cam0", "cam1", "cam2"}
  Targets = {"cam1", "cam2"}
  AtBoot = {"cam1"}
  Default = "cam0"
  MaxStreams = 2
  SeenLimit = 1
  RetryWindow = 1
  MaxRetries = 1
  MaxSessions = 2
  MaxFrames = 1
INVARIANTS OutcomeIsTrue AppliedOnce NoOrphanStreams PersistedHolds
PROPERTY RosterFollows
CHECK_DEADLOCK FALSE
