SPECIFICATION FairSpec
CONSTANTS
  N = 2
  AddrMod = 8
  Mailboxes = 3
  FifoSize = 4
  QueueBound = 4
  MaxFaults = 1
  FaultKinds <- AnyFault
  CalmFaults = FALSE
  MinPowered = 0
  InitPowered <- LastMissing
  ReadyWait = FALSE
  RespondWait = FALSE
INVARIANTS
  TypeOK
  ReadyIsAddressed
  DaisyLowWhileWaiting
  ReadyHearsItself
  ReadyAddressesDistinct
PROPERTIES
  SettlesUndisturbed
CHECK_DEADLOCK FALSE
