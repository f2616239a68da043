SPECIFICATION PatientSpec
CONSTANTS
  u1 = u1
  u2 = u2
  t1 = t1
  t2 = t2
  b1 = b1
  r1 = r1
  c1 = c1
  c2 = c2
  Users <- MCUsers
  Students <- MCUsers
  SuperAdmins = {}
  Wheelchair = {}
  HomeStop <- MCHomeStop
  Trips <- MCTrips
  Outbound = {t1}
  Citizens <- MCCitizens
  Buses <- MCBuses
  Elevator = {}
  SeatCells <- MCSeatCells
  Seats <- MCSeats
  ResIds <- MCResIds
  Booked = {r1}
  Scheduled = {t1}
  TripRows <- MCTripRows
  UserRows <- MCPatientRows
  Creates = {c1, c2}
  Edits = {e1}
  Posts <- AllPosts
  Changes <- PatientChanges
  RegistrationChanges = {}
INVARIANTS
  OneActivePerTrip
PROPERTIES
  EveryCallAnswered
