SPECIFICATION FairSpec
CONSTANTS
  Pod = {"app", "agent", "static"}
  Mirror = {"static"}
  DaemonSet = {"agent"}
  Options = {"nil", "ignore", "evict"}
  MaxFaults = 2
CHECK_DEADLOCK FALSE
INVARIANTS
  TypeOK
  DrainedStaysEmpty
  BlameIsTrue
PROPERTIES
  EvictsOnlyEvictable
  DrainReturns
  DrainSucceeds
