SPECIFICATION FairSpec
CONSTANTS
  Trbs = 4
  Trb = {t1, t2}
  NoTrb = NoTrb
  MaxPending = 3
  MaxTd = 3
\* the ring does stop, at its link TRB
CHECK_DEADLOCK FALSE
INVARIANTS
  Inv
  RingLife
PROPERTIES
  ImplementsQueue
  TwoLapsExecuted
