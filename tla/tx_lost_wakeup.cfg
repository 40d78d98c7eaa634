SPECIFICATION FairSpec
CONSTANTS
  Tasks <- OneTask
  Mailboxes = 3
  QueueSize = 32
  MaxFrames = 7
PROPERTIES
  FlushReturns
CHECK_DEADLOCK FALSE
