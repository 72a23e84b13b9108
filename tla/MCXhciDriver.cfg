SPECIFICATION FairSpec
CONSTANT Setups <- Machines
\* idle in the main loop, with nothing to poll
CHECK_DEADLOCK FALSE
INVARIANTS
  Inv
  OneReportBuffer
  SlotsAgree
  ReportsFindTheirDevice
PROPERTIES
  BringUpEnds
  RearmedInMainLoop
  UndisturbedBootDevicesPolled
