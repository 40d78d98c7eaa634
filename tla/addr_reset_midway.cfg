SPECIFICATION FairSpec
CONSTANTS
  N = 2
  AddrMod = 8
  Mailboxes = 3
  FifoSize = 128
  QueueBound = 8
  MaxFaults = 1
  FaultKinds <- ResetOnly
  CalmFaults = FALSE
  MinPowered = 0
  InitPowered <- WholeChain
  ReadyWait = FALSE
  RespondWait = FALSE
PROPERTIES
  FaultsHeal
CHECK_DEADLOCK FALSE
