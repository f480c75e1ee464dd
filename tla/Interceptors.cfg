SPECIFICATION FairSpec
CONSTANTS
  c1 = c1
  c2 = c2
  alice = alice
  bob = bob
  h1 = h1
  h2 = h2
  NoHandler = NoHandler
  NoAlias = NoAlias
  Callers <- TwoCalls
  Aliases <- TwoNodes
  Handlers <- TwoHandlers
  Leaving <- OneNode
INVARIANTS
  TypeOK
  NoneLost
PROPERTIES
  CancelFrees
  CallsEnd
CHECK_DEADLOCK FALSE
