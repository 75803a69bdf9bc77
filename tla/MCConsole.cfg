\* Alerts before the page is opened and after, two connections, and a
\* disposition that supersedes another; catch-ups that are cut at one row.
SPECIFICATION FairSpec
CONSTANTS
  Stored = 1
  MaxAlerts = 2
  MaxEvents = 3
  CatchUpLimit = 1
  MaxOpens = 2
  MaxStages = 2
  Targets = {"acked"}
  OthersTargets = {"dismissed"}
INVARIANTS RingsOnce NoneSlipsThrough ShownIsReal
PROPERTIES UndoneNeverSent ConsoleSettles
CHECK_DEADLOCK FALSE
