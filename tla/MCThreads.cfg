SPECIFICATION SyncFairSpec
CONSTANTS
  Threads = {t1, t2, t3}
  SpuriousFailure = TRUE
  Lockers = {1, 2, 3}
  TicketMod = 4
  Locks <- AllLocks
  MaxDepth = 2
  MaxThreads = 4
  UIntMod = 16
  MayFail = TRUE
INVARIANTS
  WriterAlone
  MutualExclusion
  ServedInOrder
  ServeAfterAllRegistered
  BarrierFreedLast
PROPERTIES
  BusyOnlyIfHeld
  SomeoneEnters
  TicketServed
  ProcessEnds
