CONSTANTS
  Command <- OneCommand
  Mix <- PullAlone
  Block = {"x", "y"}
  File <- MCFile
  Pushed <- MCPushed
  CaptureLimit = 3
  TailLimit = 2
  KeepPods = FALSE
  MaxUpsets = 0
SPECIFICATION Spec
PROPERTIES
  OutputSettled
CHECK_DEADLOCK FALSE
