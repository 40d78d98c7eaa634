SPECIFICATION UtilitiesSpec
CONSTANTS
  Tasks = {"a", "b"}
  Main = "main"
  Idle = "idle"
  Programs <- AllPrograms
  MaxTries = 3
  Libraries <- AllLibraries
  Names = {"frames", "payload"}
  Addresses = {1, 2, 3}
  Null = 0
  Chunks <- SmallChunks
  Word = 16
  ShrinkMoves = FALSE
  MaxLength = 3
  Timeouts <- SomeTimeouts
  MaxElapsed = 30
  Requests <- SomeDelays
  MaxTicks = 8
  Calls <- SomeCalls
  MaxCalls = 2
INVARIANTS
  HandlerOwnsGlobals
  CaughtByInnermost
  JumpsAreArmed
  HeapOwned
  OnlyEmptyRunsWild
  WatchdogHonoursTimeout
  DelayShortByLessThanTwoTicks
  DisplayTakesWhatIsMeant
PROPERTIES
  ErrorReachesHandler
  InterruptsComeBack
  VarbufImplementsLists
  DelayReturns
CHECK_DEADLOCK FALSE
