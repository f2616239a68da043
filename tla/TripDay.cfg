SPECIFICATION TripDaySpec
CONSTANTS
  r1 = r1
  c1 = c1
  u1 = u1
  u2 = u2
  lead = lead
  t1 = t1
  t2 = t2
  b1 = b1
  Users <- MCUsers
  Students = {u1, u2}
  SuperAdmins = {}
  Wheelchair = {}
  HomeStop = {}
  Trips <- MCTrips
  Outbound = {}
  Citizens <- MCCitizens
  Buses = {b1}
  Elevator = {}
  SeatCells <- MCSeatCells
  Seats <- MCSeats
  ResIds <- MCResIds
  Booked = {r1}
  Scheduled = {t1, t2}
  TripRows <- MCTripRows
  UserRows <- MCUserRows
  Creates = {c1}
  Edits = {e1}
  Posts <- MCPosts
  Changes <- MCChanges
  RegistrationChanges = {}
  Finishes = {f1}
  Relocations = {m1}
  FinishRequests <- MCFinishRequests
  RelocationRequests <- MCRelocationRequests
  StaffTrips = {}
PROPERTIES
  AllocatesSeats
  OwnerOrLeaderWrites
  EveryTripCallAnswered
