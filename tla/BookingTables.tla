--------------------------- MODULE BookingTables ---------------------------
(***************************************************************************)
(* The three PostgreSQL tables the booking services share - reservations,  *)
(* trips and the columns of users they read or write - and the SQL         *)
(* statements the services send.  The application opens no transaction, so *)
(* each statement is one atomic step and nothing else is: a handler is a   *)
(* sequence of them with other handlers' statements in between.            *)
(*                                                                         *)
(* A table is a function from its primary keys; the rows it holds are its  *)
(* DOMAIN.                                                                 *)
(***************************************************************************)
EXTENDS Integers, FiniteSets, Functions

CONSTANTS
  Users,        \* user ids
  Students,     \* users whose role is STUDENT, who hold the reservations
  SuperAdmins,  \* users whose role is SUPER_ADMIN
  Wheelchair,   \* users with needsWheelchair
  HomeStop,     \* <<u, t>>: u's default point is a stop of t's route
  Trips,        \* trip keys
  Outbound,     \* trips whose direction is OUTBOUND, the others are INBOUND
  Citizens,     \* Citizens[t]: users of the municipality of t's route
  Buses,        \* bus ids
  Elevator,     \* buses with hasElevator
  SeatCells,    \* SeatCells[b]: virtual numbers of the SEAT cells of b's layout
  Seats,        \* seat numbers
  ResIds,       \* reservation ids, never used twice (defaultRandom UUIDs)
  Booked,       \* reservations made before the behaviour starts
  Scheduled,    \* trips scheduled before the behaviour starts
  TripRows,     \* rows the staff write into trips (a bound: see TripsService)
  UserRows      \* rows users start with

NoSeat == 0         \* a seat_number column that is NULL
NoStatus == "NULL"  \* a status column that is NULL: both tables allow it

VARIABLES
  reservations, \* reservation id -> row
  trips,        \* trip key -> row
  users         \* user id -> row

tables == <<reservations, trips, users>>

----------------------------------------------------------------------------

ReservationStatus ==
  {"CONFIRMED", "PRESENT", "ABSENT", "CANCELLED_BY_SYSTEM", "EXCESS"}

TripStatus ==
  {"SCHEDULED", "OPEN_FOR_RESERVATION", "ONGOING", "FINISHED", "CANCELLED"}

RegistrationStatus ==
  {"PENDING", "APPROVED", "REJECTED", "RENEWAL_PENDING", "SUSPENDED", "INACTIVE"}

Reservation ==
  [trip: Trips, user: Users, seat: Seats \cup {NoSeat},
   status: ReservationStatus \cup {NoStatus}]

\* leaders that are NULL lead no more than none do.
Trip ==
  [status: TripStatus \cup {NoStatus}, capacity: Nat, bus: Buses, leaders: SUBSET Users]

\* level 0 is a priority_level column that is NULL; blocked says that
\* seat_block_until has been written.
User ==
  [registration: RegistrationStatus, level: 0..3, blocked: BOOLEAN]

ASSUME TablesAssumption ==
  /\ Seats \subseteq Nat \ {NoSeat}
  /\ SeatCells \in [Buses -> SUBSET Seats]
  /\ Students \subseteq Users
  /\ Citizens \in [Trips -> SUBSET Users]
  /\ Booked \subseteq ResIds /\ IsFiniteSet(Booked)
  /\ Scheduled \subseteq Trips
  /\ TripRows \subseteq Trip
  /\ UserRows \subseteq User

TablesTypeOK ==
  /\ DOMAIN reservations \subseteq ResIds
  /\ \A i \in DOMAIN reservations : reservations[i] \in Reservation
  /\ DOMAIN trips \subseteq Trips
  /\ \A t \in DOMAIN trips : trips[t] \in Trip
  /\ users \in [Users -> User]

----------------------------------------------------------------------------

\* A function with one more key, or another value for one it has.
With(f, k, v) == [x \in DOMAIN f \cup {k} |-> IF x = k THEN v ELSE f[x]]

Live == DOMAIN reservations

OfTrip(t) == {i \in Live : reservations[i].trip = t}

\* Mutant of SeatedOn: the seat_number IS NOT NULL condition is missing.
SeatedOnAnyRow(t) == OfTrip(t)

SeatedOn(t) == {i \in OfTrip(t) : reservations[i].seat # NoSeat}

\* What ne(status, 'CANCELLED_BY_SYSTEM') selects: in SQL a NULL status is not
\* unequal to anything, so a row without a status is passed over.
Active(i) == reservations[i].status \notin {"CANCELLED_BY_SYSTEM", NoStatus}

\* Mutant of SeatTaken: a schema without the UNIQUE constraint.
SeatNeverTaken(t, s, i) == FALSE

\* The UNIQUE (trip_id, seat_number) constraint would refuse to give seat s of
\* trip t to reservation i.  NULL equals nothing in SQL, so excess rows pass.
SeatTaken(t, s, i) ==
  /\ s # NoSeat
  /\ \E j \in Live \ {i} : reservations[j].trip = t /\ reservations[j].seat = s

InsertReservation(i, row) == reservations' = With(reservations, i, row)

UpdateReservation(i, row) == reservations' = [reservations EXCEPT ![i] = row]

DeleteReservation(i) == reservations' = Restrict(reservations, Live \ {i})

\* A restart of the process drops every call in flight; the tables stay.
Dropped(calls) ==
  [k \in DOMAIN calls |->
     IF calls[k].pc = "done" THEN calls[k] ELSE [calls[k] EXCEPT !.pc = "lost"]]

----------------------------------------------------------------------------

(***************************************************************************)
(* A behaviour may start from any tables that earlier bookings can have    *)
(* left: each seat given once, each user once per trip, a seated row       *)
(* CONFIRMED on a seat of the trip's layout, an unseated row EXCESS.       *)
(***************************************************************************)
BookedRow(row) ==
  /\ row.trip \in Scheduled /\ row.user \in Students
  /\ \/ row.seat = NoSeat /\ row.status = "EXCESS"
     \/ row.seat \in SeatCells[trips[row.trip].bus] /\ row.status = "CONFIRMED"

TablesInit ==
  /\ trips \in [Scheduled -> TripRows]
  /\ users \in [Users -> UserRows]
  /\ reservations \in [Booked -> {row \in Reservation : BookedRow(row)}]
  /\ \A i, j \in Booked :
       reservations[i].trip = reservations[j].trip /\ i # j =>
         /\ reservations[i].user # reservations[j].user
         /\ reservations[i].seat = NoSeat \/ reservations[i].seat # reservations[j].seat

(***************************************************************************)
(* A seat of a trip belongs to at most one reservation, whichever services *)
(* wrote the rows: seat choice, seat change and relocation all go through  *)
(* the UNIQUE constraint of reservation.schema.ts.                         *)
(***************************************************************************)
SeatUnique ==
  \A i, j \in Live :
    /\ reservations[i].trip = reservations[j].trip
    /\ reservations[i].seat = reservations[j].seat
    /\ reservations[i].seat # NoSeat
    => i = j

\* The seats students hold, as SeatAllocation sees them: an excess row holds none.
Claims ==
  {[trip |-> reservations[i].trip, seat |-> reservations[i].seat, holder |-> i] :
     i \in {j \in Live : reservations[j].seat # NoSeat}}

Allocation == INSTANCE SeatAllocation WITH Holders <- ResIds, claims <- Claims

(***************************************************************************)
(* Booking, changing and cancelling, interleaved in any way, implement the *)
(* atomic seat allocation: every statement is one claim taken, moved or    *)
(* released, or nothing at all.                                            *)
(***************************************************************************)
AllocatesSeats == Allocation!Spec
============================================================================
