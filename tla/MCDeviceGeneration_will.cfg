SPECIFICATION Spec
CONSTANTS
  MaxSession = 2
  MaxFrame = 2
  MaxInbox = 3
  LateWills = TRUE
PROPERTY EntriesAreReal
