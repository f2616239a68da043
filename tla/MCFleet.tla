------------------------------ MODULE MCFleet ------------------------------
(***************************************************************************)
(* A small instance of FleetRoutes for TLC: two routes of one town, and    *)
(* the day on which one of them is to go.                                  *)
(***************************************************************************)
EXTENDS FleetRoutes, TLC

CONSTANTS r1, r2, here, there, p1, p2, d1, t1, t2, u1

MCTownOf == [r \in {r1, r2} |-> here]
MCDateOf == (t1 :> 1) @@ (t2 :> 2)

Manager1 == [town |-> here, super |-> FALSE]
Stranger == [town |-> there, super |-> FALSE]
Admin == [town |-> there, super |-> TRUE]

\* Rider u1 of route r1 and its stop p1, a trip of yesterday; route r1 switched
\* off or not yet, route r2 there or not yet.
MCStarts ==
  {[routes |-> (r1 :> s1) @@ (r2 :> s2),
    points |-> (p1 :> r1),
    trips |-> (t1 :> [route |-> r1, date |-> d]),
    users |-> U] :
     s1 \in {"active", "inactive"}, s2 \in {"new", "inactive"}, d \in {0, 1},
     U \in {<<>>, u1 :> [route |-> r1, point |-> p1]}}

\* One caller of each sort for each operation that tells them apart.
Deletions ==
  {[op |-> "deleteRoute", by |-> by, route |-> r1] : by \in {Manager1, Stranger, Admin}}
    \cup {[op |-> "deleteRoute", by |-> Manager1, route |-> r2]}

PointRequests ==
  {[op |-> "createPoint", by |-> Manager1, route |-> r1, point |-> p] : p \in {p2, d1}}
    \cup {[op |-> "createPoint", by |-> Stranger, route |-> r1, point |-> d1]}
    \cup {[op |-> "deletePoint", by |-> by, point |-> p1] : by \in {Manager1, Stranger}}
    \cup {[op |-> "choosePoint", user |-> u1, point |-> p] : p \in {p1, p2}}

TripRequests ==
  {[op |-> "createTrip", by |-> by, trip |-> t2, route |-> r1, date |-> 1] :
     by \in {Manager1, Stranger, Admin}}
    \cup {[op |-> "updateTrip", by |-> by, trip |-> t1, route |-> r2, date |-> 2] :
            by \in {Manager1, Stranger, Admin}}
    \cup {[op |-> "updateTrip", by |-> Manager1, trip |-> t1, route |-> None, date |-> 1]}
    \cup {[op |-> "scheduleTrips", by |-> Manager1, route |-> r, trips |-> <<t1, t2>>] :
            r \in {r1, r2}}

MCRequests == Deletions \cup PointRequests \cup TripRequests

MCCallSymmetry == Permutations(Calls)
============================================================================
