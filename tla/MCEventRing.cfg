SPECIFICATION FairSpec
CONSTANTS
  N = 5
  Event = {e1, e2}
  NoEvent = NoEvent
INVARIANTS
  Inv
  ReadyIsExact
PROPERTIES
  ImplementsQueue
  EventuallyTaken
