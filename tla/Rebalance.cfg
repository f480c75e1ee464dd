SPECIFICATION Spec
CONSTANTS
  a = a
  b = b
  c = c
  o = o
  ab = ab
  bc = bc
  ao = ao
  Nodes = {a, b, c, o}
  Pool = {a, b, c}
  Channels = {ab, bc, ao}
  Ends <- MCEnds
  Capacity <- MCCapacity
  CommitFee <- MCCommitFee
  MaxPendingMsat <- MCMaxPendingMsat
  MinHtlcMsat <- MCMinHtlcMsat
  DeltaThreshold = 3
  HasSaveAction = TRUE
  Disturbances <- All
  MaxCalls = 2
  MaxDisturbances = 2
INVARIANTS
  TypeOK
  OneTaskPerChannel
  NothingLeftToPay
  PaidIsSaved
PROPERTIES
  PaymentsNarrowGaps
CHECK_DEADLOCK FALSE
