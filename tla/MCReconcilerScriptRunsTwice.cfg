SPECIFICATION Spec
CONSTANTS
  Node = {1, 2}
  b1 = b1
  b2 = b2
  none = none
  Body <- MCBody
  Empty = none
  NoScript = NoScript
  NoNM = NoNM
  Controller = {1}
  TargetLists <- MCTargetLists
  InitialSpecs <- OneNode
  ApplySpecs <- NoSpecs
  EditKinds = {}
  KeepPods = FALSE
  CapturesOutput = FALSE
  MaxEdits = 0
  MaxFaults = 0
  RunsCap = 2
CHECK_DEADLOCK FALSE
INVARIANTS
  ScriptAtMostOnce
