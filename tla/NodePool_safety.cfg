SPECIFICATION Spec
CONSTANTS
  a = a
  b = b
  p1 = p1
  p2 = p2
  Endpoints = {a}
  ConnectTo <- OnlyA
  Enlisted <- OnlyA
  Callers = {p1, p2}
  ServerStates <- DownActive
  MaxSubmitted = 2
SYMMETRY CallerSymmetry
INVARIANTS
  TypeOK
  OnlyModificationKillsMonitor
  GhostsHaveNoMonitor
  SettingsConserved
  NoDoubleListing
