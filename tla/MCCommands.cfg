CONSTANTS
  ann = ann
  bob = bob
  b1 = b1
  none = none
  nothing = nothing
  Person <- People
  Body <- MCBody
  Empty <- none
  Reason <- MCReason
  Nothing <- nothing
  MaxCommands = 4
SPECIFICATION Spec
INVARIANTS
  TypeOK
  ReasonOnlyWhilePaused
PROPERTIES
  ImplementsEdits
  CreateReplacesWhatItRead
CHECK_DEADLOCK FALSE
