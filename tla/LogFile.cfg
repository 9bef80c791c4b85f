CONSTANTS
  HeaderLen = 3
  BodyLen = 2
  Callers = {"main"}
  MaxRecords = 2
  MaxRuns = 2
  MaxOpen = 2
  MaxBad = 1
SPECIFICATION Spec
INVARIANTS TypeOK DumpsWholeRecords SharingNeverShifts
PROPERTIES TornOnlyInBetween
