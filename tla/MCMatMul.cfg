CONSTANTS
  Size = 4
  Dim = 2
  Inputs <- SomeMatrices
SPECIFICATION Spec
INVARIANTS BlockProduct SumsAgree TransposesAgree
