SPECIFICATION FairSpec
CONSTANTS
  N = 3
  AddrMod = 8
  Mailboxes = 3
  FifoSize = 128
  QueueBound = 10
  MaxFaults = 1
  FaultKinds <- AnyFault
  CalmFaults = TRUE
  MinPowered = 2
  InitPowered <- EndsMissing
  ReadyWait = TRUE
  RespondWait = TRUE
INVARIANTS
  AddressesFollowChain
  ReadyStopsWaiting
PROPERTIES
  EventuallySettled
