--------------------------- MODULE MCReservations ---------------------------
(***************************************************************************)
(* Small instances of ReservationsService for TLC: one scheduled trip t1   *)
(* whose bus b1 has the single seat 1, and a trip t2 that does not exist.  *)
(***************************************************************************)
EXTENDS ReservationsService

CONSTANTS u1, u2, t1, t2, b1, r1, c1, c2

MCUsers == {u1, u2}
MCTrips == {t1, t2}
MCBuses == {b1}
MCSeats == 1..2
MCHomeStop == {<<u1, t1>>}
MCCitizens == [t \in MCTrips |-> MCUsers]
MCSeatCells == [b \in MCBuses |-> {1}]
MCResIds == Booked \cup Creates

MCTripRows ==
  {[status |-> "OPEN_FOR_RESERVATION", capacity |-> 1, bus |-> b1, leaders |-> {}]}

MCUserRows == {[registration |-> "APPROVED", level |-> 0, blocked |-> FALSE]}

\* A student may also have been suspended before.
MCPatientRows ==
  {[registration |-> r, level |-> 0, blocked |-> FALSE] : r \in {"APPROVED", "SUSPENDED"}}

Post(u, t, s, p) == [user |-> u, trip |-> t, seat |-> s, point |-> p]

Patch(u, i, s, st) == [op |-> "update", user |-> u, id |-> i, seat |-> s, status |-> st]

Delete(u, i) ==
  [op |-> "remove", user |-> u, id |-> i, seat |-> KeepSeat, status |-> KeepStatus]

\* Both students want the one seat or, when it is taken, the excess bus.
SeatPosts ==
  {Post(u1, t1, 1, "absent"), Post(u2, t1, 1, "stop"),
   Post(u1, t1, NoSeat, "absent"), Post(u2, t1, NoSeat, "stop")}

\* Requests ReadTrip refuses: a seat outside the layout, a missing trip, points
\* that are not stops, and u2 who has no default point.
RefusedPosts ==
  {Post(u1, t1, 2, "absent"), Post(u1, t2, 1, "absent"),
   Post(u1, t1, 1, "elsewhere"), Post(u2, t1, 1, "absent")}

OwnChanges(ids) ==
  UNION {{Patch(u1, i, 2, KeepStatus), Patch(u1, i, NoSeat, "PRESENT"),
          Patch(u1, i, 1, KeepStatus), Patch(u1, i, KeepSeat, "PRESENT"),
          Patch(u1, i, KeepSeat, KeepStatus), Patch(u1, i, KeepSeat, NoStatus),
          Delete(u1, i)} : i \in ids}

AllPosts == SeatPosts \cup RefusedPosts
AllChanges == OwnChanges({r1, c1})
Cancellations == {Delete(u, i) : u \in MCUsers, i \in {r1, c1, c2}}

\* No PATCH that makes a cancelled reservation active again; two that make POST's
\* check pass over one, of which only the first cancels it.
PatientChanges ==
  Cancellations \cup
  {Patch(u1, r1, 2, KeepStatus), Patch(u1, r1, KeepSeat, KeepStatus),
   Patch(u1, r1, KeepSeat, "CANCELLED_BY_SYSTEM"), Patch(u1, r1, KeepSeat, NoStatus)}
============================================================================
