CONSTANTS
  Command <- OneCommand
  Mix <- PullOrPush
  Block = {"x", "y"}
  File <- OneFile
  Pushed <- MCPushed
  CaptureLimit = 3
  TailLimit = 2
  KeepPods = FALSE
  MaxUpsets = 2
SPECIFICATION FairSpec
PROPERTIES
  NothingLeft
CHECK_DEADLOCK FALSE
