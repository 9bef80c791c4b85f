CONSTANTS
  Size = 4
  Dim = 2
  Inputs <- MainMatrices
SPECIFICATION Spec
INVARIANTS TransposeProduct
