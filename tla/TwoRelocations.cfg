SPECIFICATION TripsSpec
CONSTANTS
  r1 = r1
  r2 = r2
  r3 = r3
  u1 = u1
  u2 = u2
  lead = lead
  root = root
  outsider = outsider
  t1 = t1
  t2 = t2
  t3 = t3
  b1 = b1
  Users <- MCUsers
  Students = {u1, u2}
  SuperAdmins = {root}
  Wheelchair = {}
  HomeStop = {}
  Trips <- MCTrips
  Outbound = {}
  Citizens <- MCCitizens
  Buses <- MCBuses
  Elevator = {}
  SeatCells <- MCSeatCells
  Seats <- MCSeats
  ResIds = {r1, r2, r3}
  Booked = {r1, r2, r3}
  Scheduled = {t1, t2}
  TripRows <- MCTripRows
  UserRows <- UnlevelledRows
  Finishes = {}
  Relocations = {m1, m2}
  FinishRequests <- LeaderFinishes
  RelocationRequests <- MCRelocationRequests
  StaffTrips = {t3}
SYMMETRY MCBookedSymmetry
INVARIANTS
  RelocatedTogether
  FilledFromFront
