SPECIFICATION FairSpec
CONSTANTS
  Size = 3
  Word = 16
  Threads <- TwoThreads
  Uses <- AllUses
  MaxElements = 10
  MaxDepth = 3
INVARIANTS
  MaskedInside
  EnabledOutside
  NothingLost
  TakenWasPut
PROPERTIES
  ImplementsQueue
  
CHECK_DEADLOCK FALSE
