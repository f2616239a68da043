------------------------------ MODULE MCTrips ------------------------------
(***************************************************************************)
(* Small instances of TripsService for TLC: trips of one leader with up to *)
(* three reservations made before; which of them are scheduled, and which  *)
(* one the staff plan and change meanwhile, is up to the configuration.    *)
(***************************************************************************)
EXTENDS TripsService, TLC

CONSTANTS r1, r2, r3, u1, u2, lead, root, outsider, t1, t2, t3, b1

MCUsers == {u1, u2, lead, root, outsider}
MCTrips == {t1, t2, t3}
MCBuses == {b1}
MCSeats == 1..4
MCCitizens == [t \in Trips |-> {u1, u2, lead} \cap Users]
MCSeatCells == [b \in MCBuses |-> 1..2]

OpenTrip == [status |-> "OPEN_FOR_RESERVATION", capacity |-> 2, bus |-> b1,
             leaders |-> {lead, outsider} \cap Users]
MCTripRows == {OpenTrip}

\* Users as they register, with a priorityLevel or without: the DTO takes 1, 2 and 3,
\* and here 2 stands for them, one absence away from the cap.
MCUserRows == {[registration |-> "APPROVED", level |-> l, blocked |-> FALSE] : l \in {0, 2}}

\* For the runs in which levels do not matter.
UnlevelledRows == {row \in MCUserRows : row.level = 0}

Relocate(u, t, d) == [user |-> u, trip |-> t, destination |-> d]

MCRelocationRequests ==
  {Relocate(lead, t1, t2), Relocate(root, t2, t1), Relocate(lead, t1, t1),
   Relocate(u1, t1, t2), Relocate(lead, t1, t3)}

\* The calls that are not refused, for the runs that are about their loops.
LeaderFinishes == {[user |-> lead, trip |-> t] : t \in Scheduled}

LeaderRelocations == {Relocate(lead, t1, t2), Relocate(lead, t2, t1), Relocate(lead, t1, t1)}

MCBookedSymmetry == Permutations(Booked)
============================================================================
