\* the kernel's own numbers
SPECIFICATION FairSpec
CONSTANTS
  HeapSize = 4096
  Header = 24
  Slack = 16
  StackSize = 4096
  Request = {4096}
  NULL = NULL
  MaxTasks = 10
  Entries <- KernelTasks
  MaxDepth = 1
PROPERTIES
  ResumesWhereStopped
