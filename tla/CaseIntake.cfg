CONSTANTS
  NUnit = 2
  Message = {"m1", "m2", "m3"}
  Rows <- MCRows
  Evidence <- MCEvidence
  Ref = {"F1", "F2"}
  Reply <- MCReply
  MaxRuns = 3
SPECIFICATION Spec
PROPERTIES BatchEnds
INVARIANTS TypeOK NothingIsLost EveryCaseHasItsCard OnlyAccountedIsExtracted ReplayBuildsTheSame
CHECK_DEADLOCK FALSE
