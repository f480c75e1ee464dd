SPECIFICATION FairSpec
CONSTANTS
  c1 = c1
  c2 = c2
  Callers <- Threads
  Kinds <- AllKinds
  MaxMessages = 2
INVARIANTS
  TypeOK
  ReleaseEndsStream
  DisposeWaits
PROPERTIES
  NothingTakenAfterRelease
  RunningStaysDown
  Subscribes
  ConstructorReturns
  CallsEnd
  EndIsNoticed
CHECK_DEADLOCK FALSE
