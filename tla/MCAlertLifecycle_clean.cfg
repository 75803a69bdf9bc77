CONSTANTS
  HubKeys = {k1, b1}
  BoxKeys = {b1}
  SimKey = sim
  MaxSeq = 2
  MaxAlerts = 2
  MaxCrashes = 1
  PublishFails = FALSE
  WriteFails = FALSE
  Retention = TRUE
SPECIFICATION LifecycleFairSpec
INVARIANTS NextIdFresh PendingArmed ParkedHasNoAlert
PROPERTIES PendingSettles ImplementsPromise
