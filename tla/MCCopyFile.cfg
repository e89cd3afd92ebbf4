CONSTANTS
  Command <- TwoCommands
  Mix <- BothPull
  Block = {"x", "y"}
  File <- MCFile
  Pushed <- MCPushed
  CaptureLimit = 3
  TailLimit = 2
  KeepPods = FALSE
  MaxUpsets = 1
SPECIFICATION Spec
INVARIANTS
  TypeOK
  CompletedRunRan
  CompletedPullHasOutput
  PullDelivers
CHECK_DEADLOCK FALSE
