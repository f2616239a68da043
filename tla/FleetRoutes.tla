---------------------------- MODULE FleetRoutes ----------------------------
(***************************************************************************)
(* Routes and what refers to them: pick-up and drop-off points, trips and  *)
(* the users whose default route or point it is.  FleetService deletes a   *)
(* route in seven statements without a transaction, while managers plan    *)
(* trips, add points and switch the route on, and users choose points.     *)
(* What keeps rows from referring to nothing are the foreign keys.         *)
(*                                                                         *)
(* Points and trips are functions from the keys of the rows that exist; a  *)
(* route also remembers that it is gone, because its UUID never returns.   *)
(***************************************************************************)
EXTENDS Integers, Sequences, Functions

CONSTANTS
  Routes,     \* route ids
  Towns,      \* municipalities
  TownOf,     \* TownOf[r]: the municipality of route r
  Pickups,    \* ids of pick-up points
  Dropoffs,   \* ids of drop-off points
  Trips,      \* trip keys
  DateOf,     \* DateOf[t]: the day in trip key t
  Users,      \* user ids
  LastDay,    \* the last day (a bound)
  Calls,      \* calls to a handler of several statements
  Requests,   \* what they may ask, a subset of Request
  Switched,   \* routes the managers switch on and off meanwhile (a bound)
  Starts,     \* tables a behaviour may start from
  None        \* NULL

Points == Pickups \cup Dropoffs
Days == 0..LastDay

VARIABLES
  routes,     \* route id -> whether there is such a row, and routes.is_active
  points,     \* point id -> its route
  trips,      \* trip key -> its route and date
  users,      \* user id -> defaultRouteId and defaultPointId
  today,      \* the day, in UTC
  calls,      \* call -> its request and how far it has come
  meanwhile   \* history: call -> what others did to its route since it began

fleetTables == <<routes, points, trips, users>>
fleetVars == <<fleetTables, today, calls, meanwhile>>

----------------------------------------------------------------------------

RouteState == {"new", "active", "inactive", "deleted"}
Trip == [route: Routes, date: Days]
User == [route: Routes \cup {None}, point: Pickups \cup {None}]

\* A manager's municipality; super makes the role SUPER_ADMIN.
Manager == [town: Towns, super: BOOLEAN]

Request ==
  [op: {"deleteRoute"}, by: Manager, route: Routes]
    \cup [op: {"createPoint"}, by: Manager, route: Routes, point: Points]
    \cup [op: {"deletePoint"}, by: Manager, point: Points]
    \cup [op: {"choosePoint"}, user: Users, point: Pickups]
    \cup [op: {"createTrip"}, by: Manager, trip: Trips, route: Routes, date: Days]
    \cup [op: {"updateTrip"}, by: Manager, trip: Trips,
          route: Routes \cup {None}, date: Days \cup {None}]
    \cup [op: {"scheduleTrips"}, by: Manager, route: Routes, trips: Seq(Trips)]

Statements ==
  {"find", "future", "users", "points", "usersPoints", "trips", "row",
   "insert", "write", "owner", "target", "exists", "rewrite"}

\* read is the route of the trip found; riders the pick-up points found.
Call ==
  [request: Request, pc: Statements \cup {"done", "lost"},
   read: Routes \cup {None}, riders: SUBSET Pickups, todo: Seq(Trips),
   answer: {"none", "200", "201", "204", "400", "403", "404", "409", "500"}]

\* A table: rows for some of the keys.
IsTable(f, Keys, Row) == DOMAIN f \subseteq Keys /\ f \in [DOMAIN f -> Row]

\* The route switched on, a user choosing it or a point of it, trips put on it.
Events == {"activated", "chosen"} \cup Trips

ASSUME FleetAssumption ==
  /\ LastDay \in Nat \ {0}
  /\ TownOf \in [Routes -> Towns]
  /\ DateOf \in [Trips -> Days]
  /\ None \notin Routes \cup Points \cup Days
  /\ Requests \subseteq Request
  /\ \A s \in Starts :
       /\ s.routes \in [Routes -> RouteState] /\ IsTable(s.points, Points, Routes)
       /\ IsTable(s.trips, Trips, Trip) /\ IsTable(s.users, Users, User)

FleetTypeOK ==
  /\ routes \in [Routes -> RouteState]
  /\ IsTable(points, Points, Routes)
  /\ IsTable(trips, Trips, Trip)
  /\ IsTable(users, Users, User)
  /\ today \in Days
  /\ IsTable(calls, Calls, Call)
  /\ meanwhile \in [Calls -> SUBSET Events]

----------------------------------------------------------------------------
(* The tables and their foreign keys *)

With(f, k, v) == [x \in DOMAIN f \cup {k} |-> IF x = k THEN v ELSE f[x]]

Exists(r) == routes[r] \in {"active", "inactive"}

PointsOf(r) == {p \in DOMAIN points : points[p] = r}
TripsOf(r) == {t \in DOMAIN trips : trips[t].route = r}
RidersOf(r) == {u \in DOMAIN users : users[u].route = r}
RidersAt(P) == {u \in DOMAIN users : users[u].point \in P}

\* Mutant of Referenced: a schema where trips.route_id is no foreign key.
ReferencedByUsers(r) == RidersOf(r) # {} \/ RidersAt(PointsOf(r)) # {}

\* What makes PostgreSQL refuse to delete a route: its points go with it, but
\* users.default_route_id, users.default_point_id and trips.route_id say nothing
\* ON DELETE.
Referenced(r) ==
  \/ RidersOf(r) # {}
  \/ RidersAt(PointsOf(r)) # {}
  \/ TripsOf(r) # {}

\* Every reference is to a row.
ReferencesHold ==
  /\ \A p \in DOMAIN points : Exists(points[p])
  /\ \A t \in DOMAIN trips : Exists(trips[t].route)
  /\ \A u \in DOMAIN users :
       /\ users[u].route # None => Exists(users[u].route)
       /\ users[u].point # None => users[u].point \in DOMAIN points

\* A route the caller's municipality has.
InTown(r, by) == Exists(r) /\ TownOf[r] = by.town

\* Only deleteRoute lets a super admin into every municipality.
MayDelete(r, by) == by.super \/ TownOf[r] = by.town

----------------------------------------------------------------------------
(* Calls *)

At(c, op, pc) ==
  c \in DOMAIN calls /\ calls[c].request.op = op /\ calls[c].pc = pc

Answer(c, code) ==
  calls' = [calls EXCEPT ![c].pc = "done", ![c].answer = code]

Advance(c, pc) == calls' = [calls EXCEPT ![c].pc = pc]

\* Where a handler begins: a super admin's createTrip looks nothing up.
FirstStatement(q) ==
  IF q.op = "createTrip" /\ q.by.super THEN "insert" ELSE "find"

\* A fresh UUID: no row and no other call has it.
FreshPoint(p) ==
  /\ p \notin DOMAIN points
  /\ \A c \in DOMAIN calls : calls[c].request.op = "createPoint" => calls[c].request.point # p

Receive(c, q) ==
  /\ c \notin DOMAIN calls
  /\ q.op = "createPoint" => FreshPoint(q.point)
  /\ q.op = "choosePoint" => q.user \in DOMAIN users
  /\ calls' = With(calls, c,
       [request |-> q, pc |-> FirstStatement(q), read |-> None, riders |-> {},
        todo |-> IF q.op = "scheduleTrips" THEN q.trips ELSE <<>>, answer |-> "none"])
  /\ UNCHANGED <<fleetTables, today>>

----------------------------------------------------------------------------
(* deleteRoute *)

\* Mutant of Deletable: an active route may be deleted.
DeletableAnyway(r) == TRUE

Deletable(r) == routes[r] # "active"

FindRoute(c) ==
  LET q == calls[c].request IN
  /\ At(c, "deleteRoute", "find")
  /\ \/ ~ Exists(q.route) /\ Answer(c, "404")
     \/ Exists(q.route) /\ ~ MayDelete(q.route, q.by) /\ Answer(c, "403")
     \/ Exists(q.route) /\ MayDelete(q.route, q.by)
          /\ IF Deletable(q.route) THEN Advance(c, "future") ELSE Answer(c, "400")
  /\ UNCHANGED <<fleetTables, today>>

\* Mutant of FutureTrips: gt for gte, the trips of today are missing.
LaterTrips(r) == {t \in TripsOf(r) : trips[t].date > today}

FutureTrips(r) == {t \in TripsOf(r) : trips[t].date >= today}

CheckFuture(c) ==
  /\ At(c, "deleteRoute", "future")
  /\ IF FutureTrips(calls[c].request.route) # {} THEN Answer(c, "409") ELSE Advance(c, "users")
  /\ UNCHANGED <<fleetTables, today>>

\* Default route or default point set to NULL for the users in U.
ClearRoute(U) ==
  users' = [u \in DOMAIN users |-> IF u \in U THEN [users[u] EXCEPT !.route = None] ELSE users[u]]
ClearPoint(U) ==
  users' = [u \in DOMAIN users |-> IF u \in U THEN [users[u] EXCEPT !.point = None] ELSE users[u]]

ReleaseRiders(c) ==
  /\ At(c, "deleteRoute", "users")
  /\ ClearRoute(RidersOf(calls[c].request.route))
  /\ Advance(c, "points")
  /\ UNCHANGED <<routes, points, trips, today>>

\* Mutant of PointsToRelease: the users' points are forgotten.
NoPointsToRelease(r) == {}

PointsToRelease(r) == PointsOf(r) \cap Pickups

ReadPoints(c) ==
  LET ids == PointsToRelease(calls[c].request.route) IN
  /\ At(c, "deleteRoute", "points")
  /\ calls' = [calls EXCEPT ![c].riders = ids,
                            ![c].pc = IF ids = {} THEN "trips" ELSE "usersPoints"]
  /\ UNCHANGED <<fleetTables, today>>

ReleasePoints(c) ==
  /\ At(c, "deleteRoute", "usersPoints")
  /\ ClearPoint(RidersAt(calls[c].riders))
  /\ Advance(c, "trips")
  /\ UNCHANGED <<routes, points, trips, today>>

\* All trips of the route, whatever their date; reservations go with them.
DeleteTrips(c) ==
  /\ At(c, "deleteRoute", "trips")
  /\ trips' = Restrict(trips, DOMAIN trips \ TripsOf(calls[c].request.route))
  /\ Advance(c, "row")
  /\ UNCHANGED <<routes, points, users, today>>

\* Deleting a route that is gone already is no error.
DeleteRow(c) ==
  LET r == calls[c].request.route IN
  /\ At(c, "deleteRoute", "row")
  /\ IF Referenced(r)
       THEN Answer(c, "500") /\ UNCHANGED <<routes, points>>
       ELSE /\ routes' = [routes EXCEPT ![r] = "deleted"]
            /\ points' = Restrict(points, DOMAIN points \ PointsOf(r))
            /\ Answer(c, "204")
  /\ UNCHANGED <<trips, users, today>>

DeleteRouteStep(c) ==
  \/ FindRoute(c) \/ CheckFuture(c) \/ ReleaseRiders(c) \/ ReadPoints(c)
  \/ ReleasePoints(c) \/ DeleteTrips(c) \/ DeleteRow(c)

----------------------------------------------------------------------------
(* Points: createPoint and createDropoffPoint, deletePoint and deleteDropoffPoint, *)
(* UsersService.updatePoint                                                        *)

FindRouteForPoint(c) ==
  LET q == calls[c].request IN
  /\ At(c, "createPoint", "find")
  /\ IF InTown(q.route, q.by) THEN Advance(c, "insert") ELSE Answer(c, "404")
  /\ UNCHANGED <<fleetTables, today>>

InsertPoint(c) ==
  LET q == calls[c].request IN
  /\ At(c, "createPoint", "insert")
  /\ IF Exists(q.route)
       THEN points' = With(points, q.point, q.route) /\ Answer(c, "201")
       ELSE UNCHANGED points /\ Answer(c, "500")
  /\ UNCHANGED <<routes, trips, users, today>>

FindPointToDelete(c) ==
  LET q == calls[c].request IN
  /\ At(c, "deletePoint", "find")
  /\ \/ q.point \notin DOMAIN points /\ Answer(c, "404")
     \/ q.point \in DOMAIN points
          /\ IF TownOf[points[q.point]] = q.by.town THEN Advance(c, "write") ELSE Answer(c, "403")
  /\ UNCHANGED <<fleetTables, today>>

\* The foreign key of users.default_point_id refuses a point somebody has chosen.
DeletePoint(c) ==
  LET p == calls[c].request.point IN
  /\ At(c, "deletePoint", "write")
  /\ IF RidersAt({p}) # {}
       THEN UNCHANGED points /\ Answer(c, "500")
       ELSE points' = Restrict(points, DOMAIN points \ {p}) /\ Answer(c, "200")
  /\ UNCHANGED <<routes, trips, users, today>>

FindPointToChoose(c) ==
  /\ At(c, "choosePoint", "find")
  /\ IF calls[c].request.point \in DOMAIN points THEN Advance(c, "write") ELSE Answer(c, "404")
  /\ UNCHANGED <<fleetTables, today>>

ChoosePoint(c) ==
  LET q == calls[c].request IN
  /\ At(c, "choosePoint", "write")
  /\ IF q.point \in DOMAIN points
       THEN users' = [users EXCEPT ![q.user].point = q.point] /\ Answer(c, "200")
       ELSE UNCHANGED users /\ Answer(c, "500")
  /\ UNCHANGED <<routes, points, trips, today>>

PointStep(c) ==
  \/ FindRouteForPoint(c) \/ InsertPoint(c) \/ FindPointToDelete(c) \/ DeletePoint(c)
  \/ FindPointToChoose(c) \/ ChoosePoint(c)

----------------------------------------------------------------------------
(* Trips: createTrip, updateTrip and the loop of scheduleTrips *)

FindRouteForTrip(c) ==
  LET q == calls[c].request IN
  /\ At(c, "createTrip", "find")
  /\ \/ ~ Exists(q.route) /\ Answer(c, "404")
     \/ Exists(q.route) /\
          IF InTown(q.route, q.by) THEN Advance(c, "insert") ELSE Answer(c, "403")
  /\ UNCHANGED <<fleetTables, today>>

\* INSERT INTO trips: refused by the primary key or by the foreign key.
Insertable(t, r) == t \notin DOMAIN trips /\ Exists(r)

InsertTrip(c) ==
  LET q == calls[c].request IN
  /\ At(c, "createTrip", "insert")
  /\ IF Insertable(q.trip, q.route)
       THEN trips' = With(trips, q.trip, [route |-> q.route, date |-> q.date]) /\ Answer(c, "201")
       ELSE UNCHANGED trips /\ Answer(c, "500")
  /\ UNCHANGED <<routes, points, users, today>>

FindTrip(c) ==
  LET q == calls[c].request IN
  /\ At(c, "updateTrip", "find")
  /\ IF q.trip \in DOMAIN trips
       THEN calls' = [calls EXCEPT ![c].read = trips[q.trip].route,
                                   ![c].pc = IF q.by.super THEN "write" ELSE "owner"]
       ELSE Answer(c, "404")
  /\ UNCHANGED <<fleetTables, today>>

FindTripsRoute(c) ==
  LET call == calls[c] IN
  /\ At(c, "updateTrip", "owner")
  /\ IF ~ InTown(call.read, call.request.by) THEN Answer(c, "403")
     ELSE Advance(c, IF call.request.route = None THEN "write" ELSE "target")
  /\ UNCHANGED <<fleetTables, today>>

FindNewRoute(c) ==
  LET q == calls[c].request IN
  /\ At(c, "updateTrip", "target")
  /\ \/ ~ Exists(q.route) /\ Answer(c, "404")
     \/ Exists(q.route) /\
          IF InTown(q.route, q.by) THEN Advance(c, "write") ELSE Answer(c, "403")
  /\ UNCHANGED <<fleetTables, today>>

\* Mutant of Updated: columns the request leaves out become NULL.
UpdatedBlindly(row, q) == [route |-> q.route, date |-> q.date]

\* The columns the request names, the others as they are.
Updated(row, q) ==
  [route |-> IF q.route = None THEN row.route ELSE q.route,
   date  |-> IF q.date = None THEN row.date ELSE q.date]

WriteTrip(c) ==
  LET q == calls[c].request IN
  /\ At(c, "updateTrip", "write")
  /\ \/ q.trip \notin DOMAIN trips /\ Answer(c, "404") /\ UNCHANGED trips
     \/ /\ q.trip \in DOMAIN trips /\ (q.route # None => Exists(q.route))
        /\ trips' = [trips EXCEPT ![q.trip] = Updated(@, q)]
        /\ Answer(c, "200")
     \/ /\ q.trip \in DOMAIN trips /\ q.route # None /\ ~ Exists(q.route)
        /\ Answer(c, "500") /\ UNCHANGED trips
  /\ UNCHANGED <<routes, points, users, today>>

FindRouteToSchedule(c) ==
  LET q == calls[c].request IN
  /\ At(c, "scheduleTrips", "find")
  /\ IF InTown(q.route, q.by) THEN Advance(c, "exists") ELSE Answer(c, "404")
  /\ UNCHANGED <<fleetTables, today>>

\* The head of the loop: the next date and direction, if there is one left.
LookUpTrip(c) ==
  /\ At(c, "scheduleTrips", "exists")
  /\ \/ calls[c].todo = <<>> /\ Answer(c, "201")
     \/ /\ calls[c].todo # <<>>
        /\ Advance(c, IF Head(calls[c].todo) \in DOMAIN trips THEN "rewrite" ELSE "insert")
  /\ UNCHANGED <<fleetTables, today>>

Scheduled(q, t) == [route |-> q.route, date |-> DateOf[t]]

NextTrip(c) ==
  calls' = [calls EXCEPT ![c].pc = "exists", ![c].todo = Tail(@)]

ScheduleNew(c) ==
  LET q == calls[c].request t == Head(calls[c].todo) IN
  /\ At(c, "scheduleTrips", "insert")
  /\ IF Insertable(t, q.route)
       THEN trips' = With(trips, t, Scheduled(q, t)) /\ NextTrip(c)
       ELSE UNCHANGED trips /\ Answer(c, "500")
  /\ UNCHANGED <<routes, points, users, today>>

\* A trip with that key is written over, whichever route it was on.  When it is
\* gone by now the UPDATE finds no row, which is no error.
ScheduleOver(c) ==
  LET q == calls[c].request t == Head(calls[c].todo) IN
  /\ At(c, "scheduleTrips", "rewrite")
  /\ \/ t \notin DOMAIN trips /\ UNCHANGED trips /\ NextTrip(c)
     \/ t \in DOMAIN trips /\ Exists(q.route)
          /\ trips' = With(trips, t, Scheduled(q, t)) /\ NextTrip(c)
     \/ t \in DOMAIN trips /\ ~ Exists(q.route) /\ UNCHANGED trips /\ Answer(c, "500")
  /\ UNCHANGED <<routes, points, users, today>>

TripStep(c) ==
  \/ FindRouteForTrip(c) \/ InsertTrip(c)
  \/ FindTrip(c) \/ FindTripsRoute(c) \/ FindNewRoute(c) \/ WriteTrip(c)
  \/ FindRouteToSchedule(c) \/ LookUpTrip(c) \/ ScheduleNew(c) \/ ScheduleOver(c)

----------------------------------------------------------------------------
(* Single statements *)

CreateRoute(r) ==
  /\ routes[r] = "new"
  /\ routes' = [routes EXCEPT ![r] = "active"]
  /\ UNCHANGED <<points, trips, users, today, calls>>

\* updateRoute with an is_active in its body, of a route that exists.
UpdateRoute(r, state) ==
  /\ Exists(r)
  /\ routes' = [routes EXCEPT ![r] = state]
  /\ UNCHANGED <<points, trips, users, today, calls>>

\* register: the foreign key refuses a default route that does not exist.
Register(u, r) ==
  /\ u \notin DOMAIN users /\ (r # None => Exists(r))
  /\ users' = With(users, u, [route |-> r, point |-> None])
  /\ UNCHANGED <<routes, points, trips, today, calls>>

Midnight ==
  /\ today < LastDay
  /\ today' = today + 1
  /\ UNCHANGED <<fleetTables, calls>>

\* A restart of the process drops every call in flight.
FleetRestart ==
  /\ calls' = [c \in DOMAIN calls |->
       IF calls[c].pc = "done" THEN calls[c] ELSE [calls[c] EXCEPT !.pc = "lost"]]
  /\ UNCHANGED <<fleetTables, today>>

----------------------------------------------------------------------------
(* The history variable: nothing in the code, and no guard reads it. *)

Deleting(c) ==
  /\ c \in DOMAIN calls /\ calls[c].request.op = "deleteRoute"
  /\ calls[c].pc \notin {"find", "done", "lost"}

Activated(r) == routes[r] # "active" /\ routes'[r] = "active"

\* The trips put on the route, or moved to another day.
Planned(r) ==
  {t \in DOMAIN trips' :
     trips'[t].route = r /\ (t \in DOMAIN trips => trips[t] # trips'[t])}

Chosen(r) == \E u \in DOMAIN users' :
  \/ users'[u].route = r /\ u \notin DOMAIN users
  \/ /\ users'[u].point \in PointsOf(r)
     /\ u \in DOMAIN users => users[u].point # users'[u].point

Against(r) ==
  Planned(r) \cup (IF Activated(r) THEN {"activated"} ELSE {})
             \cup (IF Chosen(r) THEN {"chosen"} ELSE {})

Remember ==
  meanwhile' = [c \in Calls |->
    IF Deleting(c) THEN meanwhile[c] \cup Against(calls[c].request.route) ELSE meanwhile[c]]

----------------------------------------------------------------------------

FleetInit ==
  /\ \E s \in Starts : routes = s.routes /\ points = s.points /\ trips = s.trips /\ users = s.users
  /\ ReferencesHold
  /\ today = 1
  /\ calls = [c \in {} |-> c]
  /\ meanwhile = [c \in Calls |-> {}]

CallStep(c) == DeleteRouteStep(c) \/ PointStep(c) \/ TripStep(c)

SingleStatement ==
  \/ \E r \in Routes : CreateRoute(r)
  \/ \E r \in Switched, state \in {"active", "inactive"} : UpdateRoute(r, state)
  \/ \E u \in Users, r \in Routes \cup {None} : Register(u, r)

FleetStep ==
  \/ \E c \in Calls, q \in Requests : Receive(c, q)
  \/ \E c \in Calls : CallStep(c)
  \/ SingleStatement
  \/ Midnight
  \/ FleetRestart

FleetNext == FleetStep /\ Remember

FleetSpec == FleetInit /\ [][FleetNext]_fleetVars

----------------------------------------------------------------------------
(* Properties *)

(***************************************************************************)
(* 'Nao e possivel excluir a rota pois existem viagens futuras planejadas' *)
(* (fleet.service.ts:149): a trip of today or later goes with its route    *)
(* only if that very trip was put on the route, or moved to its day, while *)
(* the deletion was under way.                                             *)
(***************************************************************************)
PlannedTripsKept ==
  [][\A t \in DOMAIN trips \ DOMAIN trips' :
       trips[t].date >= today =>
         \E c \in DOMAIN calls :
           Deleting(c) /\ calls[c].request.route = trips[t].route /\ t \in meanwhile[c]
    ]_fleetVars

(***************************************************************************)
(* 'Desative-a antes de excluir' (fleet.service.ts:132): an active route   *)
(* loses no row, no trip and no rider to a deletion, unless it was         *)
(* switched on while the deletion was under way.                           *)
(***************************************************************************)
Loses(r) ==
  \/ routes'[r] = "deleted"
  \/ \E t \in TripsOf(r) : t \notin DOMAIN trips'
  \/ \E u \in RidersOf(r) : users'[u].route # r

ActiveRoutesKept ==
  [][\A r \in Routes :
       routes[r] = "active" /\ Loses(r) =>
         \E c \in DOMAIN calls :
           Deleting(c) /\ calls[c].request.route = r /\ "activated" \in meanwhile[c]
    ]_fleetVars

(***************************************************************************)
(* The statements of deleteRoute release whatever the foreign keys of the  *)
(* route would miss: it fails only when somebody refers to the route again *)
(* before it is done.                                                      *)
(***************************************************************************)
OnlyRacesFail ==
  \A c \in DOMAIN calls :
    calls[c].request.op = "deleteRoute" /\ calls[c].answer = "500" =>
      meanwhile[c] \cap ({"chosen"} \cup Trips) # {}

(***************************************************************************)
(* 'A rota foi excluida com sucesso' (fleet.controller.ts:127): the route  *)
(* is gone for good, and no trip, point or user refers to it, then or      *)
(* later, although trips, points and users are written by handlers that    *)
(* found the route before.                                                 *)
(***************************************************************************)
DeletedForGood ==
  \A c \in DOMAIN calls :
    calls[c].request.op = "deleteRoute" /\ calls[c].answer = "204" =>
      LET r == calls[c].request.route
      IN  routes[r] = "deleted" /\ PointsOf(r) = {} /\ TripsOf(r) = {} /\ RidersOf(r) = {}
============================================================================
