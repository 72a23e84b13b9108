SPECIFICATION Spec
CONSTANTS
  PageSize = 2
  Bits = 2
  Width = 16
  Sizes <- Fitting
  NULL = NULL
INVARIANTS
  Inv
PROPERTIES
  ImplementsAllocator
