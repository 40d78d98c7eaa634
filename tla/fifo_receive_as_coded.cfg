SPECIFICATION Spec
CONSTANTS
  Size = 3
  Word = 16
  Threads <- TwoThreads
  Uses <- ReceiveAsCoded
  MaxElements = 10
  MaxDepth = 3
INVARIANTS
  CountExact
CHECK_DEADLOCK FALSE
