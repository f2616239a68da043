----------------------------- MODULE MCTripDay -----------------------------
(***************************************************************************)
(* Small instances of TripDay for TLC: trips t1 and t2, the reservation r1 *)
(* made before, and few calls of each kind.                                *)
(***************************************************************************)
EXTENDS TripDay

CONSTANTS r1, c1, u1, u2, lead, t1, t2, b1

MCUsers == {u1, u2, lead}
MCTrips == {t1, t2}
MCSeats == 1..2
MCCitizens == [t \in MCTrips |-> MCUsers]
MCSeatCells == [b \in {b1} |-> 1..2]
MCResIds == Booked \cup Creates

MCTripRows ==
  {[status |-> "OPEN_FOR_RESERVATION", capacity |-> 1, bus |-> b1, leaders |-> {lead}]}

MCUserRows == {[registration |-> "APPROVED", level |-> 1, blocked |-> FALSE]}

Post(u, t, s) == [user |-> u, trip |-> t, seat |-> s, point |-> "stop"]

Change(op, u, i, s, st) == [op |-> op, user |-> u, id |-> i, seat |-> s, status |-> st]

MCPosts == {Post(u1, t1, 1), Post(u2, t2, 1), Post(u2, t1, NoSeat)}

MCChanges ==
  {Change("remove", u1, r1, KeepSeat, KeepStatus),
   Change("update", u1, r1, KeepSeat, "PRESENT"),
   Change("update", u1, r1, KeepSeat, NoStatus),
   Change("update", u1, r1, 2, KeepStatus)}

MCFinishRequests == {[user |-> lead, trip |-> t1], [user |-> u2, trip |-> t1]}

MCRelocationRequests == {[user |-> lead, trip |-> t1, destination |-> t2]}
============================================================================
