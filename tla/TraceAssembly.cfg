CONSTANTS
  NCase = 4
  Limit = 3
  ChunkSize = 2
  MaxFault = 1
  Edge <- MCEdge
  Blocked <- MCBlocked
  Root <- MCRoot
SPECIFICATION Spec
PROPERTIES RunEnds
INVARIANTS TypeOK ComponentsAreSound OnlyForcedSplits TracesAreSafe EverythingAccountedFor ReplayIsStable
CHECK_DEADLOCK FALSE
