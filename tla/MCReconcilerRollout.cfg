SPECIFICATION FairSpec
CONSTANTS
  Node = {1, 2}
  b1 = b1
  b2 = b2
  none = none
  Body <- MCBody
  Empty = none
  NoScript = NoScript
  NoNM = NoNM
  Controller = {1, 2}
  TargetLists <- MCTargetLists
  InitialSpecs <- OneNode
  ApplySpecs <- NoSpecs
  EditKinds = {"pause", "run"}
  KeepPods = FALSE
  CapturesOutput = FALSE
  MaxEdits = 1
  MaxFaults = 0
  RunsCap = 0
CHECK_DEADLOCK FALSE
INVARIANTS
  RecordedScriptRan
  FailedScriptLeavesCordon
PROPERTIES
  ImplementsRun
  RunEnds
