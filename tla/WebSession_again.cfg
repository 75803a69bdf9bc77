\* One load of the page, nothing goes wrong, and a sign-in after a sign-out.
SPECIFICATION WebSpec
CONSTANTS
  MaxLoads = 1
  MaxSignIns = 1
  MaxLapses = 0
  MaxOutages = 0
PROPERTY SignedInIsConnected
CHECK_DEADLOCK FALSE
