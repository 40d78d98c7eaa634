SPECIFICATION FairSpec
CONSTANTS
  Tasks <- OneTask
  Mailboxes = 3
  QueueSize = 32
  MaxFrames = 7
INVARIANTS
  SentInOrder
PROPERTIES
  OnlyLatePutStrands
  TransmitsAsQueue
  FlushReturnsUnlessStranded
CHECK_DEADLOCK FALSE
