SPECIFICATION Spec
CONSTANTS
  Node = {1, 2}
  b1 = b1
  b2 = b2
  none = none
  Body <- MCBody
  Empty = none
  NoScript = NoScript
  NoNM = NoNM
  Controller = {1}
  TargetLists <- MCTargetLists
  InitialSpecs <- OneNode
  ApplySpecs <- WithDrain
  EditKinds = {"apply"}
  KeepPods = FALSE
  CapturesOutput = FALSE
  MaxEdits = 1
  MaxFaults = 0
  RunsCap = 2
CHECK_DEADLOCK FALSE
PROPERTIES
  CompletedMeansWholePlan
