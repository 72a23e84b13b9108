SPECIFICATION Spec
CONSTANTS
  main = main
  taskA = taskA
  taskB = taskB
  Writers <- Tasks
  CharW = 1
  CharH = 2
  LineAdvance = 2
  Width = 2
  Heights <- Screens
  Wrap = 14
SYMMETRY TaskSymmetry
INVARIANTS
  Inv
  CursorOnScreen
  FreshLine
