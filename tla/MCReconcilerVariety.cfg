SPECIFICATION Spec
CONSTANTS
  Node = {1, 2}
  b1 = b1
  b2 = b2
  none = none
  Body <- MCBody
  Empty = none
  NoScript = NoScript
  NoNM = NoNM
  Controller = {1}
  TargetLists <- MCTargetLists
  InitialSpecs <- Variety
  ApplySpecs <- WithDrain
  EditKinds = {"apply", "run", "pod", "node"}
  KeepPods = FALSE
  CapturesOutput = FALSE
  MaxEdits = 1
  MaxFaults = 0
  RunsCap = 0
CHECK_DEADLOCK FALSE
INVARIANTS
  RecordedScriptRan
PROPERTIES
  ImplementsRun
