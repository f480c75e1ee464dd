SPECIFICATION Spec
CONSTANTS
  miner = miner
  loopLnd = loopLnd
  loopServer = loopServer
  alice = alice
  bob = bob
  Miner <- miner
  LoopLnd <- loopLnd
  LoopServer <- loopServer
  Loop = FALSE
  LNDNodes <- TwoNodes
  Channels <- AChannelEach
  MaxFaults = 1
  MaxRestarts = 1
  Careful = FALSE
INVARIANTS
  RestartOpensSynced
CHECK_DEADLOCK FALSE
