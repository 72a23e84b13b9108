SPECIFICATION FairSpec
CONSTANT Setups <- OnlyOneBoot
\* idle in the main loop, with nothing to poll
CHECK_DEADLOCK FALSE
PROPERTIES
  BootDevicesPolled
