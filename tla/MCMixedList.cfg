CONSTANTS
  null = null
  Null = null
  Calls <- MeasureCalls
SPECIFICATION Spec
INVARIANTS InsideGroups FullLength NoNullFollowed
