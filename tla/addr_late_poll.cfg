SPECIFICATION Spec
CONSTANTS
  N = 3
  AddrMod = 8
  Mailboxes = 3
  FifoSize = 128
  QueueBound = 4
  MaxFaults = 0
  FaultKinds <- NoFaults
  CalmFaults = FALSE
  MinPowered = 0
  InitPowered <- WholeChain
  ReadyWait = FALSE
  RespondWait = FALSE
INVARIANTS
  AddressedInPlace
CHECK_DEADLOCK FALSE
