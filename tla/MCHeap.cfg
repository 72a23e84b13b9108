SPECIFICATION HeapSpec
CONSTANTS
  HeapSize = 18
  Header = 2
  Slack = 1
  Request = {0, 1, 2, 5, 30}
  NULL = NULL
INVARIANTS
  HeapInv
  HeldAreBlocks
  WasteBounded
