CONSTANTS
  null = null
  Null = null
  Calls <- OutsideCalls
SPECIFICATION Spec
INVARIANTS InsideBuffer
