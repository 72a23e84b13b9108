SPECIFICATION SmallSpec
CONSTANTS
  Sticks = {stick1, stick2}
  Internal = internal
  Numbers = {1}
  Letters = {e, f}
  Spare = {f}
  Threads = {t1, t2}
  NULL = NULL
  MaxMishaps = 1
SYMMETRY Symmetric
INVARIANTS
  Inv
  QuietMeansBootable
  OnlyChosenOrTiny
