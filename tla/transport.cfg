SPECIFICATION FairSpec
CONSTANTS
  Senders <- TwoSenders
  key <- OwnKey
  Sizes <- Extremes
  CounterMod = 4
  Mailboxes = 1
  RxSize = 2
  FifoSize = 3
  MaxMessages = 2
  FaultKinds <- AnyFault
  MaxFaults = 1
INVARIANTS
  TypeOK
  DeliveredIntact
  DeliveredInOrder
  HaltHasCause
PROPERTIES
  EveryMessageArrives
CHECK_DEADLOCK FALSE
