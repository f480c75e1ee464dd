SPECIFICATION FairSpec
CONSTANTS
  a = a
  b = b
  p1 = p1
  p2 = p2
  Endpoints = {a, b}
  ConnectTo <- OnlyA
  Enlisted <- None
  Callers = {p1}
  ServerStates <- AllStates
  MaxSubmitted = 1
PROPERTIES
  ActiveIsServed
  InactiveIsDropped
  QuickStartupEnds
  DisposeStopsMonitor
