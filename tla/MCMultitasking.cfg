\* a heap with room for every stack
SPECIFICATION FairSpec
CONSTANTS
  HeapSize = 40
  Header = 2
  Slack = 1
  StackSize = 8
  Request = {8}
  NULL = NULL
  MaxTasks = 3
  Entries <- ThreeTasks
  MaxDepth = 3
INVARIANTS
  Inv
PROPERTIES
  ResumesWhereStopped
  EveryTaskRuns
