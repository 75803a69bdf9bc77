CONSTANTS
  HubKeys = {k1}
  BoxKeys = {b1}
  SimKey = sim
  MaxSeq = 1
  MaxAlerts = 2
  MaxCrashes = 0
  PublishFails = TRUE
  WriteFails = FALSE
  Retention = FALSE
SPECIFICATION LifecycleFairSpec
PROPERTIES PendingSettles
