SPECIFICATION FairSpec
CONSTANTS
  Entries = 4
  PageSize = 16
  Bits = 8
  Width = 1024
  NULL = NULL
  MaxFirmware = 1
  Machines <- Boots
  Low = 4
  Window = 46
  CodeSpan = 2
  StackSpan = 1
\* the boot ends
CHECK_DEADLOCK FALSE
INVARIANTS
  Inv
  MapFits
  OnlyFreeMemory
  EverythingMapped
  NullTableIsFatal
  OncePerController
  OverflowStaysInBuffer
PROPERTIES
  BootEnds
