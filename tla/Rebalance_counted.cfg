SPECIFICATION Spec
CONSTANTS
  a = a
  b = b
  c = c
  o = o
  ab = ab
  bc = bc
  ao = ao
  Nodes = {a, b, c, o}
  Pool = {a, b, c}
  Channels = {ab, bc, ao}
  Ends <- MCEnds
  Capacity <- MCCapacity
  CommitFee <- MCCommitFee
  MaxPendingMsat <- MCMaxPendingMsat
  MinHtlcMsat <- MCMinHtlcMsat
  DeltaThreshold = 3
  HasSaveAction = TRUE
  Disturbances <- Quiet
  MaxCalls = 1
  MaxDisturbances = 0
INVARIANTS
  CountIsOfSuccesses
CHECK_DEADLOCK FALSE
