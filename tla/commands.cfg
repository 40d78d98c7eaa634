SPECIFICATION FairSpec
CONSTANTS
  Nodes <- TwoNodes
  Programs <- TwoPrograms
  Payloads = {"off", "none"}
  AppIds = {"app"}
  Mailboxes = 1
  FifoSize = 2
  HeapBlocks = 2
  MaxMessages = 2
INVARIANTS
  PayloadsOwned
  DarkWhenInactive
PROPERTIES
  DefinitionsStay
  CommandAnswered
CHECK_DEADLOCK FALSE
