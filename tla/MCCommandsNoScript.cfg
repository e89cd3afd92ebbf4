CONSTANTS
  ann = ann
  bob = bob
  b1 = b1
  none = none
  nothing = nothing
  Person <- People
  Body <- MCBody
  Empty <- none
  Reason <- MCReason
  Nothing <- nothing
  MaxCommands = 3
SPECIFICATION Spec
PROPERTIES
  RunRefusesEmpty
CHECK_DEADLOCK FALSE
