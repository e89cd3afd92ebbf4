SPECIFICATION FairBothSpec
CONSTANTS
  Node = {1}
  b1 = b1
  b2 = b2
  none = none
  Body <- MCBody
  Empty = none
  NoScript = NoScript
  NoNM = NoNM
  Controller = {1}
  TargetLists <- MCTargetLists
  InitialSpecs <- OneNode
  InitialSpecs2 <- DrainRun
  ApplySpecs <- NoSpecs
  EditKinds = {"node"}
  KeepPods = TRUE
  CapturesOutput = FALSE
  MaxEdits = 1
  MaxFaults = 1
  RunsCap = 0
CHECK_DEADLOCK FALSE
INVARIANTS
  GivenBackByBoth
PROPERTIES
  BothEnd
