SPECIFICATION FairSpec
CONSTANTS
  miner = miner
  loopLnd = loopLnd
  loopServer = loopServer
  alice = alice
  bob = bob
  Miner <- miner
  LoopLnd <- loopLnd
  LoopServer <- loopServer
  Loop = FALSE
  LNDNodes <- TwoNodes
  Channels <- AChannelEach
  MaxFaults = 1
  MaxRestarts = 1
  Careful = TRUE
INVARIANTS
  TypeOK
  DestroyLeavesNothing
  OneConnection
PROPERTIES
  BuiltAsConfigured
  BuildFailsForAReason
  OperationsEnd
CHECK_DEADLOCK FALSE
