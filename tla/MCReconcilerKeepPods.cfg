SPECIFICATION FairSpec
CONSTANTS
  Node = {1, 2}
  b1 = b1
  b2 = b2
  none = none
  Body <- MCBody
  Empty = none
  NoScript = NoScript
  NoNM = NoNM
  Controller = {1}
  TargetLists <- MCTargetLists
  InitialSpecs <- OneNodePaused
  ApplySpecs <- NoSpecs
  EditKinds = {"pause", "run", "attach"}
  KeepPods = TRUE
  CapturesOutput = TRUE
  MaxEdits = 3
  MaxFaults = 1
  RunsCap = 2
CHECK_DEADLOCK FALSE
INVARIANTS
  ScriptAtMostOnce
  ScriptsRunOnCordonedNodes
PROPERTIES
  RunEnds
  EventuallySeeded
  PausedScriptRendered
