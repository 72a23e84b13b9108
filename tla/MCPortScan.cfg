SPECIFICATION FairScanSpec
CONSTANTS
  MaxMishaps = 2
\* the scan ends
CHECK_DEADLOCK FALSE
INVARIANTS
  ScanInv
PROPERTIES
  ScanEnds
  StableDeviceAddressed
