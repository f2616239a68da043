SPECIFICATION FleetSpec
CONSTANTS
  r1 = r1
  r2 = r2
  here = here
  there = there
  p1 = p1
  p2 = p2
  d1 = d1
  t1 = t1
  t2 = t2
  u1 = u1
  Routes = {r1, r2}
  Towns = {here, there}
  TownOf <- MCTownOf
  Pickups = {p1, p2}
  Dropoffs = {d1}
  Trips = {t1, t2}
  DateOf <- MCDateOf
  Users = {u1}
  LastDay = 2
  Calls = {c1, c2}
  Requests <- MCRequests
  Switched = {r1}
  Starts <- MCStarts
  None = None
SYMMETRY MCCallSymmetry
INVARIANTS
  FleetTypeOK
  OnlyRacesFail
  DeletedForGood
PROPERTIES
  PlannedTripsKept
  ActiveRoutesKept
