CONSTANTS
  NCase = 4
  Limit = 3
  ChunkSize = 2
  MaxFault = 0
  Edge <- MCEdge
  Blocked <- MCBlocked
  Root <- MCRoot
SPECIFICATION Spec
INVARIANT GuardedStaysForReview
CHECK_DEADLOCK FALSE
