SPECIFICATION TownAccountsSpec
CONSTANTS
  town = town
  system = system
  ana = ana
  rui = rui
  route = route
  c1 = c1
  c2 = c2
  None = None
  Towns <- MCTowns
  System = system
  People <- MCPeople
  Routes = {route}
  Calls = {c1, c2}
  Requests <- MCRequests
  MaxRequests = 2
SYMMETRY MCSymmetry
INVARIANTS
  TownAccountsTypeOK
  OneManager
  PeriodsEarned
  ElevatorsFollow
PROPERTIES
  InsertsChecked
  DecisionsStand
