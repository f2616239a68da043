------------------------- MODULE FleetRoutes_proofs -------------------------
(***************************************************************************)
(* Proofs about FleetRoutes: types, the foreign keys, what a deletion may  *)
(* take with it when nobody interferes, and when it can fail.              *)
(***************************************************************************)
EXTENDS FleetRoutes, TLAPS

(* What a request holds, by its operation. *)
LEMMA RequestType ==
  ASSUME NEW q \in Request
  PROVE  /\ q.op \in {"deleteRoute", "createPoint", "createTrip", "scheduleTrips"} =>
              q.route \in Routes
         /\ q.op \in {"createPoint", "deletePoint"} => q.point \in Points
         /\ q.op = "choosePoint" => q.user \in Users /\ q.point \in Pickups
         /\ q.op \in {"createTrip", "updateTrip"} => q.trip \in Trips
         /\ q.op = "createTrip" => q.date \in Days
         /\ q.op = "updateTrip" =>
              q.route \in Routes \cup {None} /\ q.date \in Days \cup {None}
         /\ q.op = "scheduleTrips" => q.trips \in Seq(Trips)
  BY DEF Request

(* A row added, written over or taken away leaves a table. *)
LEMMA TableWith ==
  ASSUME NEW Keys, NEW Row, NEW f, IsTable(f, Keys, Row), NEW k \in Keys, NEW v \in Row
  PROVE  IsTable(With(f, k, v), Keys, Row)
  BY DEF IsTable, With

LEMMA TableExcept ==
  ASSUME NEW Keys, NEW Row, NEW f, IsTable(f, Keys, Row), NEW k, NEW v,
         k \in DOMAIN f => v \in Row
  PROVE  IsTable([f EXCEPT ![k] = v], Keys, Row)
  BY DEF IsTable

LEMMA TableRestrict ==
  ASSUME NEW Keys, NEW Row, NEW f, IsTable(f, Keys, Row), NEW S
  PROVE  IsTable(Restrict(f, DOMAIN f \ S), Keys, Row)
  BY DEF IsTable, Restrict

----------------------------------------------------------------------------
(* Calls *)

\* One call moves on, keeping its request; the others stay as they are.
Moves(c) ==
  /\ c \in DOMAIN calls
  /\ IsTable(calls', Calls, Call)
  /\ DOMAIN calls' = DOMAIN calls
  /\ \A d \in DOMAIN calls :
       calls'[d].request = calls[d].request /\ (d # c => calls'[d] = calls[d])

LEMMA MovesTo ==
  ASSUME FleetTypeOK, NEW c \in DOMAIN calls, NEW call \in Call,
         call.request = calls[c].request, calls' = [calls EXCEPT ![c] = call]
  PROVE  Moves(c)
  BY DEF FleetTypeOK, IsTable, Moves

LEMMA AnswerMoves ==
  ASSUME FleetTypeOK, NEW c \in DOMAIN calls,
         NEW code \in {"200", "201", "204", "400", "403", "404", "409", "500"},
         Answer(c, code)
  PROVE  Moves(c) /\ calls'[c].pc = "done" /\ calls'[c].answer = code
<1> DEFINE call == [calls[c] EXCEPT !.pc = "done", !.answer = code]
<1>1. calls[c] \in Call
  BY DEF FleetTypeOK, IsTable
<1>2. call \in Call /\ call.request = calls[c].request
  BY <1>1 DEF Call
<1>3. calls' = [calls EXCEPT ![c] = call]
  BY DEF Answer
<1>4. QED
  BY <1>1, <1>2, <1>3, MovesTo DEF Call

LEMMA AdvanceMoves ==
  ASSUME FleetTypeOK, NEW c \in DOMAIN calls, NEW pc \in Statements, Advance(c, pc)
  PROVE  Moves(c) /\ calls'[c] = [calls[c] EXCEPT !.pc = pc]
<1> DEFINE call == [calls[c] EXCEPT !.pc = pc]
<1>1. calls[c] \in Call
  BY DEF FleetTypeOK, IsTable
<1>2. call \in Call /\ call.request = calls[c].request
  BY <1>1 DEF Call
<1>3. calls' = [calls EXCEPT ![c] = call]
  BY DEF Advance
<1>4. QED
  BY <1>1, <1>2, <1>3, MovesTo DEF Call

----------------------------------------------------------------------------
(* Types *)

\* The loop of scheduleTrips writes only when there is a trip left to write.
TripLeft ==
  \A c \in DOMAIN calls :
    calls[c].request.op = "scheduleTrips" /\ calls[c].pc \in {"insert", "rewrite"} =>
      calls[c].todo # <<>>

TypesInv == FleetTypeOK /\ TripLeft

TablesTyped ==
  /\ routes \in [Routes -> RouteState]
  /\ IsTable(points, Points, Routes)
  /\ IsTable(trips, Trips, Trip)
  /\ IsTable(users, Users, User)

\* A column set to NULL for some users leaves users what they are.
LEMMA ClearTypes ==
  ASSUME IsTable(users, Users, User), NEW U, ClearRoute(U) \/ ClearPoint(U)
  PROVE  IsTable(users', Users, User) /\ DOMAIN users' = DOMAIN users
  BY DEF IsTable, ClearRoute, ClearPoint, User

LEMMA DeleteRouteTypes ==
  ASSUME TypesInv, NEW c \in Calls, DeleteRouteStep(c)
  PROVE  Moves(c) /\ TablesTyped' /\ today' = today /\ calls[c].request.op = "deleteRoute"
<1> DEFINE r == calls[c].request.route
<1>1. FleetTypeOK /\ TablesTyped
  BY DEF TypesInv, TablesTyped, FleetTypeOK
<1>2. c \in DOMAIN calls /\ calls[c].request.op = "deleteRoute" /\ calls[c] \in Call
  BY <1>1 DEF DeleteRouteStep, FindRoute, CheckFuture, ReleaseRiders, ReadPoints,
     ReleasePoints, DeleteTrips, DeleteRow, At, FleetTypeOK, IsTable
<1>3. r \in Routes
  BY <1>2, RequestType DEF Call
<1>4. CASE FindRoute(c)
  <2>1. Moves(c)
    BY <1>1, <1>2, <1>4, AnswerMoves, AdvanceMoves DEF FindRoute, Statements
  <2>2. QED
    BY <1>1, <1>2, <1>4, <2>1 DEF FindRoute, TablesTyped, fleetTables
<1>5. CASE CheckFuture(c)
  <2>1. Moves(c)
    BY <1>1, <1>2, <1>5, AnswerMoves, AdvanceMoves DEF CheckFuture, Statements
  <2>2. QED
    BY <1>1, <1>2, <1>5, <2>1 DEF CheckFuture, TablesTyped, fleetTables
<1>6. CASE ReleaseRiders(c)
  <2>1. Moves(c)
    BY <1>1, <1>2, <1>6, AdvanceMoves DEF ReleaseRiders, Statements
  <2>2. IsTable(users', Users, User)
    BY <1>1, <1>6, ClearTypes DEF ReleaseRiders, TablesTyped
  <2>3. QED
    BY <1>1, <1>2, <1>6, <2>1, <2>2 DEF ReleaseRiders, TablesTyped
<1>7. CASE ReadPoints(c)
  <2> DEFINE ids == PointsToRelease(r)
             pc == IF ids = {} THEN "trips" ELSE "usersPoints"
             call == [calls[c] EXCEPT !.riders = ids, !.pc = pc]
  <2>1. ids \subseteq Pickups /\ pc \in Statements
    BY DEF PointsToRelease, Statements
  <2>2. call \in Call /\ call.request = calls[c].request
    <3> HIDE DEF ids, pc
    <3> QED
      BY <1>2, <2>1 DEF Call
  <2>3. calls' = [calls EXCEPT ![c] = call]
    BY <1>7 DEF ReadPoints
  <2>4. Moves(c)
    <3> HIDE DEF call
    <3> QED
      BY <1>1, <1>2, <2>2, <2>3, MovesTo
  <2>5. QED
    BY <1>1, <1>2, <1>7, <2>4 DEF ReadPoints, TablesTyped, fleetTables
<1>8. CASE ReleasePoints(c)
  <2>1. Moves(c)
    BY <1>1, <1>2, <1>8, AdvanceMoves DEF ReleasePoints, Statements
  <2>2. IsTable(users', Users, User)
    BY <1>1, <1>8, ClearTypes DEF ReleasePoints, TablesTyped
  <2>3. QED
    BY <1>1, <1>2, <1>8, <2>1, <2>2 DEF ReleasePoints, TablesTyped
<1>9. CASE DeleteTrips(c)
  <2>1. Moves(c)
    BY <1>1, <1>2, <1>9, AdvanceMoves DEF DeleteTrips, Statements
  <2>2. IsTable(trips', Trips, Trip)
    BY <1>1, <1>9, TableRestrict DEF DeleteTrips, TablesTyped
  <2>3. QED
    BY <1>1, <1>2, <1>9, <2>1, <2>2 DEF DeleteTrips, TablesTyped
<1>10. CASE DeleteRow(c)
  <2>1. Moves(c)
    BY <1>1, <1>2, <1>10, AnswerMoves DEF DeleteRow
  <2>2. IsTable(points', Points, Routes)
    BY <1>1, <1>10, TableRestrict DEF DeleteRow, TablesTyped
  <2>3. routes' \in [Routes -> RouteState]
    <3>1. routes \in [Routes -> RouteState] /\ "deleted" \in RouteState
      BY <1>1 DEF TablesTyped, RouteState
    <3>2. routes' = routes \/ routes' = [routes EXCEPT ![r] = "deleted"]
      BY <1>10 DEF DeleteRow
    <3>3. QED
      BY <1>3, <3>1, <3>2
  <2>4. QED
    BY <1>1, <1>2, <1>10, <2>1, <2>2, <2>3 DEF DeleteRow, TablesTyped
<1>11. QED
  BY <1>4, <1>5, <1>6, <1>7, <1>8, <1>9, <1>10 DEF DeleteRouteStep

LEMMA PointTypes ==
  ASSUME TypesInv, NEW c \in Calls, PointStep(c)
  PROVE  /\ Moves(c) /\ TablesTyped' /\ today' = today
         /\ calls[c].request.op \in {"createPoint", "deletePoint", "choosePoint"}
<1> DEFINE q == calls[c].request
<1>1. FleetTypeOK /\ TablesTyped
  BY DEF TypesInv, TablesTyped, FleetTypeOK
<1>2. /\ c \in DOMAIN calls /\ calls[c] \in Call
      /\ q.op \in {"createPoint", "deletePoint", "choosePoint"}
  BY <1>1 DEF PointStep, FindRouteForPoint, InsertPoint, FindPointToDelete, DeletePoint,
     FindPointToChoose, ChoosePoint, At, FleetTypeOK, IsTable
<1>3. /\ q.op \in {"createPoint", "deletePoint"} => q.point \in Points
      /\ q.op = "createPoint" => q.route \in Routes
      /\ q.op = "choosePoint" => q.user \in Users /\ q.point \in Pickups
  BY <1>2, RequestType DEF Call
<1>4. Moves(c)
  BY <1>1, <1>2, AnswerMoves, AdvanceMoves DEF PointStep, FindRouteForPoint, InsertPoint,
     FindPointToDelete, DeletePoint, FindPointToChoose, ChoosePoint, Statements
<1>5. CASE InsertPoint(c)
  <2>1. IsTable(points', Points, Routes)
    BY <1>1, <1>3, <1>5, TableWith DEF InsertPoint, At, TablesTyped
  <2>2. QED
    BY <1>1, <1>2, <1>4, <1>5, <2>1 DEF InsertPoint, TablesTyped
<1>6. CASE DeletePoint(c)
  <2>1. IsTable(points', Points, Routes)
    BY <1>1, <1>6, TableRestrict DEF DeletePoint, TablesTyped
  <2>2. QED
    BY <1>1, <1>2, <1>4, <1>6, <2>1 DEF DeletePoint, TablesTyped
<1>7. CASE ChoosePoint(c)
  <2>1. IsTable(users', Users, User)
    BY <1>1, <1>3, <1>7 DEF ChoosePoint, At, TablesTyped, IsTable, User
  <2>2. QED
    BY <1>1, <1>2, <1>4, <1>7, <2>1 DEF ChoosePoint, TablesTyped
<1>8. CASE FindRouteForPoint(c) \/ FindPointToDelete(c) \/ FindPointToChoose(c)
  BY <1>1, <1>2, <1>4, <1>8 DEF FindRouteForPoint, FindPointToDelete, FindPointToChoose,
     TablesTyped, fleetTables
<1>9. QED
  BY <1>5, <1>6, <1>7, <1>8 DEF PointStep

LEMMA ScheduledType ==
  ASSUME NEW q, q.route \in Routes, NEW t \in Trips
  PROVE  Scheduled(q, t) \in Trip
  BY FleetAssumption DEF Scheduled, Trip

LEMMA NextTripMoves ==
  ASSUME FleetTypeOK, NEW c \in DOMAIN calls, calls[c].todo # <<>>, NextTrip(c)
  PROVE  Moves(c) /\ calls'[c].pc = "exists" /\ calls'[c].answer = calls[c].answer
<1> DEFINE call == [calls[c] EXCEPT !.pc = "exists", !.todo = Tail(@)]
<1>1. calls[c] \in Call /\ Tail(calls[c].todo) \in Seq(Trips)
  BY DEF FleetTypeOK, IsTable, Call
<1>2. call \in Call /\ call.request = calls[c].request
  BY <1>1 DEF Call, Statements
<1>3. calls' = [calls EXCEPT ![c] = call]
  BY DEF NextTrip
<1>4. QED
  BY <1>1, <1>2, <1>3, MovesTo DEF Call

LEMMA TripTypes ==
  ASSUME TypesInv, NEW c \in Calls, TripStep(c)
  PROVE  /\ Moves(c) /\ TablesTyped' /\ today' = today
         /\ calls[c].request.op \in {"createTrip", "updateTrip", "scheduleTrips"}
<1> DEFINE q == calls[c].request
           t == Head(calls[c].todo)
<1>1. FleetTypeOK /\ TablesTyped
  BY DEF TypesInv, TablesTyped, FleetTypeOK
<1>2. /\ c \in DOMAIN calls /\ calls[c] \in Call
      /\ q.op \in {"createTrip", "updateTrip", "scheduleTrips"}
  BY <1>1 DEF TripStep, FindRouteForTrip, InsertTrip, FindTrip, FindTripsRoute, FindNewRoute,
     WriteTrip, FindRouteToSchedule, LookUpTrip, ScheduleNew, ScheduleOver, At, FleetTypeOK,
     IsTable
<1>3. /\ q.op \in {"createTrip", "scheduleTrips"} => q.route \in Routes
      /\ q.op = "createTrip" => q.trip \in Trips /\ q.date \in Days
      /\ q.op = "updateTrip" =>
           q.route \in Routes \cup {None} /\ q.date \in Days \cup {None}
  BY <1>2, RequestType DEF Call
<1>4. calls[c].todo \in Seq(Trips)
  BY <1>2 DEF Call
<1>5. CASE FindRouteForTrip(c) \/ FindNewRoute(c) \/ FindRouteToSchedule(c) \/ FindTripsRoute(c)
  <2>1. Moves(c)
    BY <1>1, <1>2, <1>5, AnswerMoves, AdvanceMoves DEF FindRouteForTrip, FindNewRoute,
       FindRouteToSchedule, FindTripsRoute, Statements
  <2>2. QED
    BY <1>1, <1>2, <1>5, <2>1 DEF FindRouteForTrip, FindNewRoute, FindRouteToSchedule,
       FindTripsRoute, TablesTyped, fleetTables
<1>6. CASE InsertTrip(c)
  <2>1. Moves(c)
    BY <1>1, <1>2, <1>6, AnswerMoves DEF InsertTrip
  <2>2. q.trip \in Trips /\ [route |-> q.route, date |-> q.date] \in Trip
    BY <1>3, <1>6 DEF InsertTrip, At, Trip
  <2>3. IsTable(trips', Trips, Trip)
    BY <1>1, <1>6, <2>2, TableWith DEF InsertTrip, TablesTyped
  <2>4. QED
    BY <1>1, <1>2, <1>6, <2>1, <2>3 DEF InsertTrip, TablesTyped
<1>7. CASE FindTrip(c)
  <2> DEFINE pc == IF q.by.super THEN "write" ELSE "owner"
             call == [calls[c] EXCEPT !.read = trips[q.trip].route, !.pc = pc]
  <2>1. CASE q.trip \in DOMAIN trips
    <3>1. trips[q.trip].route \in Routes /\ pc \in Statements
      BY <1>1, <2>1 DEF TablesTyped, IsTable, Trip, Statements
    <3>2. call \in Call /\ call.request = q
      <4> HIDE DEF pc
      <4> QED
        BY <1>2, <3>1 DEF Call
    <3>3. calls' = [calls EXCEPT ![c] = call]
      BY <1>7, <2>1 DEF FindTrip
    <3>4. QED
      <4> HIDE DEF call
      <4>1. Moves(c)
        BY <1>1, <1>2, <3>2, <3>3, MovesTo
      <4>2. QED
        BY <1>1, <1>2, <1>7, <4>1 DEF FindTrip, TablesTyped, fleetTables
  <2>2. CASE q.trip \notin DOMAIN trips
    BY <1>1, <1>2, <1>7, <2>2, AnswerMoves DEF FindTrip, TablesTyped, fleetTables
  <2>3. QED
    BY <2>1, <2>2
<1>8. CASE WriteTrip(c)
  <2>1. Moves(c)
    BY <1>1, <1>2, <1>8, AnswerMoves DEF WriteTrip
  <2>2. IsTable(trips', Trips, Trip)
    <3>1. CASE UNCHANGED trips
      BY <1>1, <3>1 DEF TablesTyped
    <3>2. CASE q.trip \in DOMAIN trips /\ trips' = [trips EXCEPT ![q.trip] = Updated(@, q)]
      <4>1. trips[q.trip] \in Trip
        BY <1>1, <3>2 DEF TablesTyped, IsTable
      <4>2. Updated(trips[q.trip], q) \in Trip
        BY <1>3, <1>8, <4>1 DEF Updated, Trip, WriteTrip, At
      <4>3. QED
        BY <1>1, <3>2, <4>2, TableExcept DEF TablesTyped
    <3>3. QED
      BY <1>8, <3>1, <3>2 DEF WriteTrip
  <2>3. QED
    BY <1>1, <1>2, <1>8, <2>1, <2>2 DEF WriteTrip, TablesTyped
<1>9. CASE LookUpTrip(c)
  <2>1. Moves(c)
    BY <1>1, <1>2, <1>9, AnswerMoves, AdvanceMoves DEF LookUpTrip, Statements
  <2>2. QED
    BY <1>1, <1>2, <1>9, <2>1 DEF LookUpTrip, TablesTyped, fleetTables
<1>10. CASE ScheduleNew(c) \/ ScheduleOver(c)
  <2>1. calls[c].todo # <<>> /\ q.op = "scheduleTrips"
    BY <1>2, <1>10 DEF ScheduleNew, ScheduleOver, At, TypesInv, TripLeft
  <2>2. t \in Trips
    BY <1>4, <2>1
  <2>3. Moves(c)
    BY <1>1, <1>2, <1>10, <2>1, AnswerMoves, NextTripMoves DEF ScheduleNew, ScheduleOver
  <2>4. Scheduled(q, t) \in Trip
    BY <1>3, <2>1, <2>2, ScheduledType
  <2>5. IsTable(trips', Trips, Trip)
    BY <1>1, <1>10, <2>2, <2>4, TableWith DEF ScheduleNew, ScheduleOver, TablesTyped
  <2>6. QED
    BY <1>1, <1>2, <1>10, <2>3, <2>5 DEF ScheduleNew, ScheduleOver, TablesTyped
<1>11. QED
  BY <1>5, <1>6, <1>7, <1>8, <1>9, <1>10 DEF TripStep

LEMMA SingleTypes ==
  ASSUME FleetTypeOK, SingleStatement
  PROVE  TablesTyped' /\ calls' = calls /\ today' = today
<1>1. TablesTyped
  BY DEF TablesTyped, FleetTypeOK
<1>2. ASSUME NEW r \in Routes, CreateRoute(r)
      PROVE  TablesTyped' /\ calls' = calls /\ today' = today
  BY <1>1, <1>2 DEF CreateRoute, TablesTyped, RouteState
<1>3. ASSUME NEW r \in Switched, NEW state \in {"active", "inactive"}, UpdateRoute(r, state)
      PROVE  TablesTyped' /\ calls' = calls /\ today' = today
  BY <1>1, <1>3 DEF UpdateRoute, TablesTyped, RouteState
<1>4. ASSUME NEW u \in Users, NEW r \in Routes \cup {None}, Register(u, r)
      PROVE  TablesTyped' /\ calls' = calls /\ today' = today
  <2>1. [route |-> r, point |-> None] \in User
    BY DEF User
  <2>2. IsTable(users', Users, User)
    BY <1>1, <1>4, <2>1, TableWith DEF Register, TablesTyped
  <2>3. QED
    BY <1>1, <1>4, <2>2 DEF Register, TablesTyped
<1>5. QED
  BY <1>2, <1>3, <1>4 DEF SingleStatement

\* A call received: the others are as they were.
Received(c, q) ==
  /\ DOMAIN calls' = DOMAIN calls \cup {c} /\ IsTable(calls', Calls, Call)
  /\ calls'[c].request = q /\ calls'[c].pc = FirstStatement(q) /\ calls'[c].answer = "none"
  /\ \A d \in DOMAIN calls : calls'[d] = calls[d]

LEMMA ReceiveTypes ==
  ASSUME FleetTypeOK, NEW c \in Calls, NEW q \in Requests, Receive(c, q)
  PROVE  Received(c, q)
<1> DEFINE pc == FirstStatement(q)
           todo == IF q.op = "scheduleTrips" THEN q.trips ELSE <<>>
           call == [request |-> q, pc |-> pc, read |-> None, riders |-> {},
                    todo |-> todo, answer |-> "none"]
<1>1. q \in Request
  BY FleetAssumption
<1>2. todo \in Seq(Trips) /\ pc \in Statements
  BY <1>1, RequestType DEF FirstStatement, Statements
<1>3. call \in Call /\ call.request = q /\ call.pc = pc /\ call.answer = "none"
  <2> HIDE DEF todo, pc
  <2> QED
    BY <1>1, <1>2 DEF Call
<1>4. calls' = With(calls, c, call) /\ c \notin DOMAIN calls
  BY DEF Receive
<1> HIDE DEF call
<1>5. IsTable(calls', Calls, Call)
  BY <1>3, <1>4, TableWith DEF FleetTypeOK
<1>6. QED
  BY <1>3, <1>4, <1>5 DEF Received, With

\* A restart leaves every call its request, and no answer changes.
LEMMA RestartTypes ==
  ASSUME FleetTypeOK, FleetRestart
  PROVE  /\ IsTable(calls', Calls, Call) /\ DOMAIN calls' = DOMAIN calls
         /\ \A d \in DOMAIN calls :
              /\ calls'[d].request = calls[d].request /\ calls'[d].answer = calls[d].answer
              /\ calls'[d] = calls[d] \/ calls'[d].pc = "lost"
<1>1. \A d \in DOMAIN calls : calls[d] \in Call
  BY DEF FleetTypeOK, IsTable
<1>2. DOMAIN calls' = DOMAIN calls
  BY DEF FleetRestart
<1>3. \A d \in DOMAIN calls :
        /\ calls'[d] \in Call
        /\ calls'[d].request = calls[d].request /\ calls'[d].answer = calls[d].answer
        /\ calls'[d] = calls[d] \/ calls'[d].pc = "lost"
  BY <1>1 DEF FleetRestart, Call
<1>4. calls' = [d \in DOMAIN calls' |-> calls'[d]]
  BY DEF FleetRestart
<1>5. QED
  BY <1>2, <1>3, <1>4 DEF FleetTypeOK, IsTable

\* The history only names events, whatever the step.
LEMMA HistoryTypes ==
  ASSUME FleetTypeOK, IsTable(trips', Trips, Trip), Remember
  PROVE  meanwhile' \in [Calls -> SUBSET Events]
<1>1. \A r : Against(r) \subseteq Events
  BY DEF Against, Planned, Events, IsTable
<1>2. QED
  BY <1>1 DEF Remember, FleetTypeOK

LEMMA TripLeftKept ==
  ASSUME TypesInv, NEW c \in Calls, CallStep(c), Moves(c)
  PROVE  TripLeft'
<1> SUFFICES calls'[c].request.op = "scheduleTrips" /\ calls'[c].pc \in {"insert", "rewrite"} =>
               calls'[c].todo # <<>>
  BY DEF TypesInv, TripLeft, Moves
<1> SUFFICES ASSUME calls[c].request.op = "scheduleTrips"
             PROVE  calls'[c].pc \in {"insert", "rewrite"} => calls'[c].todo # <<>>
  BY DEF Moves
<1>1. FleetTypeOK /\ c \in DOMAIN calls /\ calls[c] \in Call
  BY DEF TypesInv, FleetTypeOK, IsTable, Moves
<1>2. CASE FindRouteToSchedule(c)
  BY <1>1, <1>2, AnswerMoves, AdvanceMoves DEF FindRouteToSchedule, Statements, Call
<1>3. CASE LookUpTrip(c)
  <2>1. CASE Answer(c, "201")
    BY <1>1, <2>1, AnswerMoves
  <2>2. CASE Advance(c, "rewrite") /\ calls[c].todo # <<>>
    <3>1. calls'[c] = [calls[c] EXCEPT !.pc = "rewrite"]
      BY <1>1, <2>2, AdvanceMoves DEF Statements
    <3>2. QED
      BY <1>1, <2>2, <3>1 DEF Call
  <2>3. CASE Advance(c, "insert") /\ calls[c].todo # <<>>
    <3>1. calls'[c] = [calls[c] EXCEPT !.pc = "insert"]
      BY <1>1, <2>3, AdvanceMoves DEF Statements
    <3>2. QED
      BY <1>1, <2>3, <3>1 DEF Call
  <2>4. QED
    BY <1>3, <2>1, <2>2, <2>3 DEF LookUpTrip
<1>4. CASE ScheduleNew(c) \/ ScheduleOver(c)
  <2>1. calls[c].todo # <<>>
    BY <1>1, <1>4 DEF ScheduleNew, ScheduleOver, At, TypesInv, TripLeft
  <2>2. QED
    BY <1>1, <1>4, <2>1, AnswerMoves, NextTripMoves DEF ScheduleNew, ScheduleOver
<1>5. FindRouteToSchedule(c) \/ LookUpTrip(c) \/ ScheduleNew(c) \/ ScheduleOver(c)
  <2>1. TripStep(c)
    BY DeleteRouteTypes, PointTypes DEF CallStep
  <2>2. QED
    BY <2>1 DEF TripStep, FindRouteForTrip, InsertTrip, FindTrip, FindTripsRoute, FindNewRoute,
       WriteTrip, At
<1>6. QED
  BY <1>2, <1>3, <1>4, <1>5

LEMMA FleetStart ==
  ASSUME FleetInit
  PROVE  TypesInv
<1>1. TablesTyped /\ calls = [c \in {} |-> c] /\ today = 1 /\ meanwhile = [c \in Calls |-> {}]
  BY FleetAssumption DEF FleetInit, TablesTyped
<1>2. IsTable(calls, Calls, Call) /\ TripLeft
  BY <1>1 DEF IsTable, TripLeft
<1>3. today \in Days /\ meanwhile \in [Calls -> SUBSET Events]
  BY <1>1, FleetAssumption DEF Days
<1>4. QED
  BY <1>1, <1>2, <1>3 DEF TypesInv, TablesTyped, FleetTypeOK

LEMMA TypesKept ==
  ASSUME TypesInv, [FleetNext]_fleetVars
  PROVE  TypesInv'
<1>1. FleetTypeOK /\ TripLeft /\ TablesTyped
  BY DEF TypesInv, FleetTypeOK, TablesTyped
<1>2. ASSUME NEW c \in Calls, CallStep(c), Remember
      PROVE  TypesInv'
  <2>1. Moves(c) /\ TablesTyped' /\ today' = today
    BY <1>2, DeleteRouteTypes, PointTypes, TripTypes DEF CallStep
  <2>2. TripLeft'
    BY <1>2, <2>1, TripLeftKept
  <2>3. meanwhile' \in [Calls -> SUBSET Events]
    BY <1>1, <1>2, <2>1, HistoryTypes DEF TablesTyped
  <2>4. QED
    BY <1>1, <2>1, <2>2, <2>3 DEF TypesInv, TablesTyped, FleetTypeOK, Moves
<1>3. ASSUME NEW c \in Calls, NEW q \in Requests, Receive(c, q), Remember
      PROVE  TypesInv'
  <2>1. Received(c, q)
    BY <1>1, <1>3, ReceiveTypes
  <2>2. TablesTyped' /\ today' = today
    BY <1>1, <1>3 DEF Receive, TablesTyped, fleetTables
  <2>3. TripLeft'
    BY <1>1, <2>1 DEF TripLeft, Received, FirstStatement
  <2>4. meanwhile' \in [Calls -> SUBSET Events]
    BY <1>1, <1>3, <2>2, HistoryTypes DEF TablesTyped
  <2>5. QED
    BY <1>1, <2>1, <2>2, <2>3, <2>4 DEF TypesInv, TablesTyped, FleetTypeOK, Received
<1>4. ASSUME SingleStatement, Remember
      PROVE  TypesInv'
  <2>1. TablesTyped' /\ calls' = calls /\ today' = today
    BY <1>1, <1>4, SingleTypes
  <2>2. meanwhile' \in [Calls -> SUBSET Events]
    BY <1>1, <1>4, <2>1, HistoryTypes DEF TablesTyped
  <2>3. QED
    BY <1>1, <2>1, <2>2 DEF TypesInv, TripLeft, TablesTyped, FleetTypeOK
<1>5. ASSUME Midnight, Remember
      PROVE  TypesInv'
  <2>1. TablesTyped' /\ calls' = calls
    BY <1>1, <1>5 DEF Midnight, TablesTyped, fleetTables
  <2>2. today' \in Days
    BY <1>1, <1>5, FleetAssumption DEF Midnight, FleetTypeOK, Days
  <2>3. meanwhile' \in [Calls -> SUBSET Events]
    BY <1>1, <1>5, <2>1, HistoryTypes DEF TablesTyped
  <2>4. QED
    BY <1>1, <2>1, <2>2, <2>3 DEF TypesInv, TripLeft, TablesTyped, FleetTypeOK
<1>6. ASSUME FleetRestart, Remember
      PROVE  TypesInv'
  <2>1. TablesTyped' /\ today' = today
    BY <1>1, <1>6 DEF FleetRestart, TablesTyped, fleetTables
  <2>2. TripLeft' /\ IsTable(calls', Calls, Call)
    BY <1>1, <1>6, RestartTypes DEF TripLeft
  <2>3. meanwhile' \in [Calls -> SUBSET Events]
    BY <1>1, <1>6, <2>1, HistoryTypes DEF TablesTyped
  <2>4. QED
    BY <1>1, <2>1, <2>2, <2>3 DEF TypesInv, TablesTyped, FleetTypeOK
<1>7. CASE UNCHANGED fleetVars
  BY <1>1, <1>7 DEF fleetVars, fleetTables, TypesInv, FleetTypeOK, TripLeft
<1>8. QED
  BY <1>2, <1>3, <1>4, <1>5, <1>6, <1>7 DEF FleetNext, FleetStep

(***************************************************************************)
(* Tables, calls and the history keep their types whatever handlers,       *)
(* single statements, midnights and restarts interleave.                   *)
(***************************************************************************)
THEOREM FleetTypeCorrect == FleetSpec => []FleetTypeOK
<1>1. FleetInit => TypesInv
  BY FleetStart
<1>2. TypesInv /\ [FleetNext]_fleetVars => TypesInv'
  BY TypesKept
<1>3. TypesInv => FleetTypeOK
  BY DEF TypesInv
<1>4. QED
  BY <1>1, <1>2, <1>3, PTL DEF FleetSpec

----------------------------------------------------------------------------
(* What a deletion takes with it *)

\* A deletion under way was under way before, or has just found its route; it
\* moves by its own statements only.
LEMMA DeletionMoves ==
  ASSUME TypesInv, FleetStep, NEW c, Deleting(c)'
  PROVE  /\ c \in DOMAIN calls /\ c \in Calls /\ calls'[c].request = calls[c].request
         /\ calls[c].request.op = "deleteRoute"
         /\ \/ calls'[c] = calls[c] /\ Deleting(c)
            \/ DeleteRouteStep(c)
<1>1. FleetTypeOK /\ TypesInv
  BY DEF TypesInv
<1>2. c \in DOMAIN calls' /\ calls'[c].request.op = "deleteRoute"
      /\ calls'[c].pc \notin {"find", "done", "lost"}
  BY DEF Deleting
<1>3. ASSUME NEW d \in Calls, NEW q \in Requests, Receive(d, q)
      PROVE  c \in DOMAIN calls /\ calls'[c] = calls[c]
  <2>1. Received(d, q)
    BY <1>1, <1>3, ReceiveTypes
  <2>2. c # d
    BY <1>2, <2>1 DEF Received, FirstStatement
  <2>3. QED
    BY <1>2, <2>1, <2>2 DEF Received
<1>4. ASSUME NEW d \in Calls, CallStep(d)
      PROVE  /\ c \in DOMAIN calls /\ calls'[c].request = calls[c].request
             /\ calls'[c] = calls[c] \/ DeleteRouteStep(c)
  <2>1. Moves(d)
    BY <1>1, <1>4, DeleteRouteTypes, PointTypes, TripTypes DEF CallStep
  <2>2. c \in DOMAIN calls /\ calls'[c].request = calls[c].request
    BY <1>2, <2>1 DEF Moves
  <2>3. CASE c = d
    <3>1. DeleteRouteStep(c)
      BY <1>1, <1>2, <1>4, <2>2, <2>3, PointTypes, TripTypes DEF CallStep
    <3>2. QED
      BY <2>2, <3>1
  <2>4. CASE c # d
    BY <2>1, <2>2, <2>4 DEF Moves
  <2>5. QED
    BY <2>3, <2>4
<1>5. ASSUME SingleStatement
      PROVE  c \in DOMAIN calls /\ calls'[c] = calls[c]
  BY <1>1, <1>2, <1>5, SingleTypes
<1>6. ASSUME Midnight
      PROVE  c \in DOMAIN calls /\ calls'[c] = calls[c]
  BY <1>2, <1>6 DEF Midnight
<1>7. ASSUME FleetRestart
      PROVE  c \in DOMAIN calls /\ calls'[c] = calls[c]
  BY <1>1, <1>2, <1>7, RestartTypes
<1>8. /\ c \in DOMAIN calls /\ calls'[c].request = calls[c].request
      /\ calls'[c] = calls[c] \/ DeleteRouteStep(c)
  BY <1>2, <1>3, <1>4, <1>5, <1>6, <1>7 DEF FleetStep
<1>9. QED
  BY <1>1, <1>2, <1>8 DEF Deleting, FleetTypeOK, IsTable

(***************************************************************************)
(* A deletion that has found its route knows of its activation since.      *)
(***************************************************************************)
ActivationSeen ==
  \A c \in DOMAIN calls :
    Deleting(c) /\ routes[calls[c].request.route] = "active" => "activated" \in meanwhile[c]

LEMMA ActivationSeenKept ==
  ASSUME TypesInv, ActivationSeen, [FleetNext]_fleetVars
  PROVE  ActivationSeen'
<1>1. CASE FleetNext
  <2> SUFFICES ASSUME NEW c, Deleting(c)', routes'[calls'[c].request.route] = "active"
               PROVE  "activated" \in meanwhile'[c]
    BY DEF ActivationSeen
  <2> DEFINE r == calls[c].request.route
  <2>1. /\ c \in DOMAIN calls /\ c \in Calls /\ calls'[c].request = calls[c].request
        /\ (calls'[c] = calls[c] /\ Deleting(c)) \/ DeleteRouteStep(c)
    BY <1>1, DeletionMoves DEF FleetNext
  <2>2. CASE Deleting(c)
    <3>1. meanwhile'[c] = meanwhile[c] \cup Against(r)
      BY <1>1, <2>1, <2>2 DEF FleetNext, Remember
    <3>2. routes[r] = "active" \/ "activated" \in Against(r)
      BY <2>1 DEF Against, Activated
    <3>3. QED
      BY <2>1, <2>2, <3>1, <3>2 DEF ActivationSeen
  <2>3. CASE ~ Deleting(c)
    <3>1. calls[c].pc \in {"find", "done", "lost"} /\ DeleteRouteStep(c)
      BY <2>1, <2>3, DeleteRouteTypes DEF Deleting
    <3>2. FindRoute(c)
      BY <3>1 DEF DeleteRouteStep, CheckFuture, ReleaseRiders, ReadPoints, ReleasePoints,
         DeleteTrips, DeleteRow, At
    <3>3. FleetTypeOK
      BY DEF TypesInv
    <3>4. routes' = routes /\ (Deletable(r) \/ calls'[c].pc = "done")
      BY <2>1, <3>2, <3>3, AnswerMoves DEF FindRoute, fleetTables
    <3>5. QED
      BY <2>1, <3>4 DEF Deletable, Deleting
  <2>4. QED
    BY <2>2, <2>3
<1>2. CASE UNCHANGED fleetVars
  BY <1>2 DEF fleetVars, fleetTables, ActivationSeen, Deleting
<1>3. QED
  BY <1>1, <1>2

(***************************************************************************)
(* A deletion past its check takes trips of the past, and such as were     *)
(* put on the route since.                                                 *)
(***************************************************************************)
PastCheck(c) == Deleting(c) /\ calls[c].pc \in {"users", "points", "usersPoints", "trips"}

PlansSeen ==
  \A c \in DOMAIN calls : PastCheck(c) =>
    \A t \in TripsOf(calls[c].request.route) : trips[t].date < today \/ t \in meanwhile[c]

LEMMA PlansSeenKept ==
  ASSUME TypesInv, PlansSeen, [FleetNext]_fleetVars, today' \in Days
  PROVE  PlansSeen'
<1>1. CASE FleetNext
  <2> SUFFICES ASSUME NEW c, PastCheck(c)', NEW t \in TripsOf(calls[c].request.route)',
                      calls'[c].request = calls[c].request
               PROVE  trips'[t].date < today' \/ t \in meanwhile'[c]
    BY <1>1, DeletionMoves DEF PlansSeen, PastCheck, FleetNext, TripsOf
  <2> DEFINE r == calls[c].request.route
  <2>1. /\ c \in DOMAIN calls /\ c \in Calls
        /\ (calls'[c] = calls[c] /\ Deleting(c)) \/ DeleteRouteStep(c)
    BY <1>1, DeletionMoves DEF FleetNext, PastCheck
  <2>2. FleetTypeOK /\ today \in Int /\ today' \in Int
    BY FleetAssumption DEF TypesInv, FleetTypeOK, Days
  <2>3. today' >= today
    <3>1. CASE \E d \in Calls : CallStep(d)
      BY <2>2, <3>1, DeleteRouteTypes, PointTypes, TripTypes DEF CallStep
    <3>2. CASE SingleStatement
      BY <2>2, <3>2, SingleTypes
    <3>3. CASE Midnight
      BY <2>2, <3>3 DEF Midnight
    <3>4. CASE FleetRestart \/ \E d \in Calls, q \in Requests : Receive(d, q)
      <4>1. today' = today
        BY <3>4 DEF FleetRestart, Receive
      <4>2. QED
        BY <2>2, <4>1
    <3>5. QED
      BY <1>1, <3>1, <3>2, <3>3, <3>4 DEF FleetNext, FleetStep
  <2>4. CASE PastCheck(c)
    <3>1. meanwhile'[c] = meanwhile[c] \cup Against(r)
      BY <1>1, <2>1, <2>4 DEF FleetNext, Remember, PastCheck
    <3>2. CASE t \in DOMAIN trips /\ trips'[t] = trips[t]
      <4>1. t \in TripsOf(r) /\ trips[t].date \in Int
        BY <2>2, <3>2, FleetAssumption DEF TripsOf, FleetTypeOK, IsTable, Trip, Days
      <4>2. trips[t].date < today \/ t \in meanwhile[c]
        BY <2>1, <2>4, <4>1 DEF PlansSeen
      <4>3. QED
        BY <2>2, <2>3, <3>1, <3>2, <4>1, <4>2
    <3>3. CASE ~ (t \in DOMAIN trips /\ trips'[t] = trips[t])
      <4>1. t \in Planned(r)
        BY <3>3 DEF Planned, TripsOf
      <4>2. QED
        BY <3>1, <4>1 DEF Against
    <3>4. QED
      BY <3>2, <3>3
  <2>5. CASE ~ PastCheck(c)
    <3>1. CheckFuture(c)
      <4>1. DeleteRouteStep(c) /\ calls[c].pc \notin {"users", "points", "usersPoints", "trips"}
        BY <2>1, <2>5, DeleteRouteTypes DEF PastCheck, Deleting
      <4>2. CASE FindRoute(c)
        <5>1. calls[c] \in Call
          BY <2>1, <2>2 DEF FleetTypeOK, IsTable
        <5>2. CASE \E code \in {"400", "403", "404"} : Answer(c, code)
          BY <2>1, <2>2, <5>2, AnswerMoves DEF PastCheck
        <5>3. CASE Advance(c, "future")
          <6>1. calls'[c] = [calls[c] EXCEPT !.pc = "future"]
            BY <2>1, <2>2, <5>3, AdvanceMoves DEF Statements
          <6>2. QED
            BY <5>1, <6>1 DEF Call, PastCheck
        <5>4. QED
          BY <4>2, <5>2, <5>3 DEF FindRoute
      <4>3. CASE DeleteRow(c)
        BY <2>1, <2>2, <4>3, AnswerMoves DEF DeleteRow, PastCheck, Deleting
      <4>4. QED
        BY <4>1, <4>2, <4>3 DEF DeleteRouteStep, ReleaseRiders, ReadPoints, ReleasePoints,
           DeleteTrips, At
    <3>2. FutureTrips(r) = {} /\ UNCHANGED <<trips, today>>
      BY <2>1, <2>2, <3>1, AnswerMoves DEF CheckFuture, PastCheck, Deleting, fleetTables
    <3>3. t \in TripsOf(r) /\ trips[t].date \in Int
      BY <2>2, <3>2, FleetAssumption DEF TripsOf, FleetTypeOK, IsTable, Trip, Days
    <3>4. QED
      BY <2>2, <3>2, <3>3 DEF FutureTrips
  <2>6. QED
    BY <2>4, <2>5
<1>2. CASE UNCHANGED fleetVars
  BY <1>2 DEF fleetVars, fleetTables, PlansSeen, PastCheck, Deleting, TripsOf
<1>3. QED
  BY <1>1, <1>2

\* Only deleteRoute takes trips away, all of its route.
LEMMA TripsTaken ==
  ASSUME TypesInv, FleetStep, NEW t \in DOMAIN trips, t \notin DOMAIN trips'
  PROVE  \E c \in DOMAIN calls : DeleteTrips(c) /\ calls[c].request.route = trips[t].route
<1>1. PICK c \in Calls : CallStep(c)
  <2>1. ~ SingleStatement
    BY DEF SingleStatement, CreateRoute, UpdateRoute, Register
  <2>2. QED
    BY <2>1 DEF FleetStep, Receive, Midnight, FleetRestart, fleetTables
<1>2. ~ TripStep(c)
  BY DEF TripStep, FindRouteForTrip, InsertTrip, FindTrip, FindTripsRoute, FindNewRoute,
     WriteTrip, FindRouteToSchedule, LookUpTrip, ScheduleNew, ScheduleOver, With, fleetTables
<1>3. ~ PointStep(c)
  BY DEF PointStep, FindRouteForPoint, InsertPoint, FindPointToDelete, DeletePoint,
     FindPointToChoose, ChoosePoint, fleetTables
<1>4. DeleteTrips(c)
  BY <1>1, <1>2, <1>3 DEF CallStep, DeleteRouteStep, FindRoute, CheckFuture, ReleaseRiders,
     ReadPoints, ReleasePoints, DeleteRow, fleetTables
<1>5. t \in TripsOf(calls[c].request.route)
  BY <1>4 DEF DeleteTrips, Restrict
<1>6. QED
  BY <1>4, <1>5 DEF TripsOf, DeleteTrips, At

\* A route that exists loses its row only to the last statement of deleteRoute.
LEMMA RowTaken ==
  ASSUME TypesInv, FleetStep, NEW r \in Routes, Exists(r), ~ Exists(r)'
  PROVE  \E c \in DOMAIN calls :
           DeleteRow(c) /\ calls[c].request.route = r /\ ~ Referenced(r)
<1>1. routes \in [Routes -> RouteState]
  BY DEF TypesInv, FleetTypeOK
<1>2. ~ SingleStatement
  BY <1>1 DEF SingleStatement, CreateRoute, UpdateRoute, Register, Exists
<1>3. PICK c \in Calls : CallStep(c)
  BY <1>2 DEF FleetStep, Receive, Midnight, FleetRestart, fleetTables, Exists
<1>4. ~ TripStep(c)
  BY DEF TripStep, FindRouteForTrip, InsertTrip, FindTrip, FindTripsRoute, FindNewRoute,
     WriteTrip, FindRouteToSchedule, LookUpTrip, ScheduleNew, ScheduleOver, fleetTables, Exists
<1>5. ~ PointStep(c)
  BY DEF PointStep, FindRouteForPoint, InsertPoint, FindPointToDelete, DeletePoint,
     FindPointToChoose, ChoosePoint, fleetTables, Exists
<1>6. DeleteRow(c)
  BY <1>3, <1>4, <1>5 DEF CallStep, DeleteRouteStep, FindRoute, CheckFuture, ReleaseRiders,
     ReadPoints, ReleasePoints, DeleteTrips, fleetTables, Exists
<1>7. QED
  BY <1>1, <1>6 DEF DeleteRow, Exists, At

\* A default route is taken from its rider only by deleteRoute.
LEMMA RiderReleased ==
  ASSUME TypesInv, FleetStep, NEW u \in DOMAIN users, users'[u].route # users[u].route
  PROVE  \E c \in DOMAIN calls : ReleaseRiders(c) /\ calls[c].request.route = users[u].route
<1>1. users[u] \in User /\ users \in [DOMAIN users -> User]
  BY DEF TypesInv, FleetTypeOK, IsTable
<1>2. ~ SingleStatement
  BY DEF SingleStatement, CreateRoute, UpdateRoute, Register, With
<1>3. PICK c \in Calls : CallStep(c)
  BY <1>2 DEF FleetStep, Receive, Midnight, FleetRestart, fleetTables
<1>4. ~ TripStep(c)
  BY DEF TripStep, FindRouteForTrip, InsertTrip, FindTrip, FindTripsRoute, FindNewRoute,
     WriteTrip, FindRouteToSchedule, LookUpTrip, ScheduleNew, ScheduleOver, fleetTables
<1>5. ~ ChoosePoint(c)
  BY <1>1 DEF ChoosePoint, User
<1>6. ~ PointStep(c)
  BY <1>5 DEF PointStep, FindRouteForPoint, InsertPoint, FindPointToDelete, DeletePoint,
     FindPointToChoose, fleetTables
<1>7. ~ ReleasePoints(c)
  BY <1>1 DEF ReleasePoints, ClearPoint, User
<1>8. ReleaseRiders(c)
  BY <1>3, <1>4, <1>6, <1>7 DEF CallStep, DeleteRouteStep, FindRoute, CheckFuture,
     ReadPoints, DeleteTrips, DeleteRow, fleetTables
<1>9. u \in RidersOf(calls[c].request.route)
  BY <1>8 DEF ReleaseRiders, ClearRoute
<1>10. QED
  BY <1>8, <1>9 DEF RidersOf, ReleaseRiders, At

DeletionInv == TypesInv /\ ActivationSeen /\ PlansSeen

LEMMA DeletionInvHolds == FleetSpec => []DeletionInv
<1>1. FleetInit => DeletionInv
  <2> SUFFICES ASSUME FleetInit PROVE DeletionInv
    OBVIOUS
  <2>1. TypesInv
    BY FleetStart
  <2>2. DOMAIN calls = {}
    BY DEF FleetInit
  <2>3. QED
    BY <2>1, <2>2 DEF DeletionInv, ActivationSeen, PlansSeen
<1>2. DeletionInv /\ [FleetNext]_fleetVars => DeletionInv'
  <2> SUFFICES ASSUME DeletionInv, [FleetNext]_fleetVars PROVE DeletionInv'
    OBVIOUS
  <2>1. TypesInv'
    BY TypesKept DEF DeletionInv
  <2>2. today' \in Days
    BY <2>1 DEF TypesInv, FleetTypeOK
  <2>3. QED
    BY <2>1, <2>2, ActivationSeenKept, PlansSeenKept DEF DeletionInv
<1>3. QED
  BY <1>1, <1>2, PTL DEF FleetSpec

(***************************************************************************)
(* For every set of calls: a planned trip goes with its route only if it   *)
(* was put there while the deletion was under way.                         *)
(***************************************************************************)
THEOREM PlannedTripsSafe == FleetSpec => PlannedTripsKept
<1> DEFINE Kept ==
      \A t \in DOMAIN trips \ DOMAIN trips' :
        trips[t].date >= today =>
          \E c \in DOMAIN calls :
            Deleting(c) /\ calls[c].request.route = trips[t].route /\ t \in meanwhile[c]
<1>1. DeletionInv /\ [FleetNext]_fleetVars => [Kept]_fleetVars
  <2> SUFFICES ASSUME DeletionInv, FleetNext, NEW t \in DOMAIN trips \ DOMAIN trips',
                      trips[t].date >= today
               PROVE  \E c \in DOMAIN calls :
                        Deleting(c) /\ calls[c].request.route = trips[t].route
                        /\ t \in meanwhile[c]
    OBVIOUS
  <2>1. PICK c \in DOMAIN calls : DeleteTrips(c) /\ calls[c].request.route = trips[t].route
    BY TripsTaken DEF FleetNext, DeletionInv
  <2>2. PastCheck(c) /\ t \in TripsOf(calls[c].request.route)
    BY <2>1 DEF DeleteTrips, At, PastCheck, Deleting, TripsOf
  <2>3. trips[t].date \in Int /\ today \in Int
    BY FleetAssumption DEF DeletionInv, TypesInv, FleetTypeOK, IsTable, Trip, Days
  <2>4. t \in meanwhile[c]
    BY <2>2, <2>3 DEF DeletionInv, PlansSeen
  <2>5. QED
    BY <2>1, <2>2, <2>4 DEF PastCheck
<1>2. QED
  BY <1>1, DeletionInvHolds, PTL DEF FleetSpec, PlannedTripsKept

(***************************************************************************)
(* For every set of calls: an active route loses nothing to a deletion     *)
(* unless it was switched on while the deletion was under way.             *)
(***************************************************************************)
THEOREM ActiveRoutesSafe == FleetSpec => ActiveRoutesKept
<1> DEFINE Kept ==
      \A r \in Routes :
        routes[r] = "active" /\ Loses(r) =>
          \E c \in DOMAIN calls :
            Deleting(c) /\ calls[c].request.route = r /\ "activated" \in meanwhile[c]
<1>1. DeletionInv /\ [FleetNext]_fleetVars => [Kept]_fleetVars
  <2> SUFFICES ASSUME DeletionInv, FleetNext, NEW r \in Routes, routes[r] = "active", Loses(r)
               PROVE  \E c \in DOMAIN calls :
                        Deleting(c) /\ calls[c].request.route = r
                        /\ "activated" \in meanwhile[c]
    OBVIOUS
  <2>1. FleetStep /\ TypesInv
    BY DEF FleetNext, DeletionInv
  <2>2. \E c \in DOMAIN calls : Deleting(c) /\ calls[c].request.route = r
    <3>1. CASE routes'[r] = "deleted"
      <4>1. Exists(r) /\ ~ Exists(r)'
        BY <3>1 DEF Exists
      <4>2. QED
        BY <2>1, <4>1, RowTaken DEF DeleteRow, At, Deleting
    <3>2. CASE \E t \in TripsOf(r) : t \notin DOMAIN trips'
      BY <2>1, <3>2, TripsTaken DEF TripsOf, DeleteTrips, At, Deleting
    <3>3. CASE \E u \in RidersOf(r) : users'[u].route # r
      BY <2>1, <3>3, RiderReleased DEF RidersOf, ReleaseRiders, At, Deleting
    <3>4. QED
      BY <3>1, <3>2, <3>3 DEF Loses
  <2>3. QED
    BY <2>2 DEF DeletionInv, ActivationSeen
<1>2. QED
  BY <1>1, DeletionInvHolds, PTL DEF FleetSpec, ActiveRoutesKept

----------------------------------------------------------------------------
(* The foreign keys, and what a deleted route leaves behind *)

StillExists(r) == routes'[r] \in {"active", "inactive"}

\* A step that keeps the routes there are, and refers to such routes only.
LEMMA SoundWrite ==
  ASSUME ReferencesHold, TablesTyped,
         \A r \in Routes : Exists(r) => StillExists(r),
         \A p \in DOMAIN points' :
           (p \in DOMAIN points /\ points'[p] = points[p]) \/ StillExists(points'[p]),
         \A t \in DOMAIN trips' :
           \/ t \in DOMAIN trips /\ trips'[t].route = trips[t].route
           \/ StillExists(trips'[t].route),
         \A u \in DOMAIN users' :
           \/ u \in DOMAIN users /\ users'[u].route = users[u].route
           \/ users'[u].route # None => StillExists(users'[u].route),
         \A u \in DOMAIN users' :
           \/ /\ u \in DOMAIN users /\ users'[u].point = users[u].point
              /\ users[u].point \in DOMAIN points => users[u].point \in DOMAIN points'
           \/ users'[u].point # None => users'[u].point \in DOMAIN points'
  PROVE  ReferencesHold'
<1>1. \A p \in DOMAIN points' : StillExists(points'[p])
  BY DEF ReferencesHold, IsTable, TablesTyped
<1>2. \A t \in DOMAIN trips' : StillExists(trips'[t].route)
  BY DEF ReferencesHold, IsTable, Trip, TablesTyped
<1>3. \A u \in DOMAIN users' : users'[u].route # None => StillExists(users'[u].route)
  BY DEF ReferencesHold, IsTable, User, TablesTyped
<1>4. \A u \in DOMAIN users' : users'[u].point # None => users'[u].point \in DOMAIN points'
  BY DEF ReferencesHold
<1>5. QED
  BY <1>1, <1>2, <1>3, <1>4 DEF ReferencesHold, StillExists, Exists

LEMMA ReferencesKept ==
  ASSUME TypesInv, ReferencesHold, [FleetNext]_fleetVars
  PROVE  ReferencesHold'
<1>1. TablesTyped /\ FleetTypeOK
  BY DEF TypesInv, FleetTypeOK, TablesTyped
<1>2. CASE UNCHANGED fleetTables
  BY <1>2 DEF fleetTables, ReferencesHold, Exists
<1>3. ASSUME NEW c \in Calls, ReleaseRiders(c) \/ ReleasePoints(c)
      PROVE  ReferencesHold'
  <2>1. \A u \in DOMAIN users : users[u] \in User
    BY <1>1 DEF TablesTyped, IsTable
  <2>2. /\ DOMAIN users' = DOMAIN users
        /\ \A u \in DOMAIN users :
             /\ users'[u].route = users[u].route \/ users'[u].route = None
             /\ users'[u].point = users[u].point \/ users'[u].point = None
    BY <1>3, <2>1 DEF ReleaseRiders, ReleasePoints, ClearRoute, ClearPoint, User
  <2>3. UNCHANGED <<routes, points, trips>>
    BY <1>3 DEF ReleaseRiders, ReleasePoints
  <2>4. QED
    BY <1>1, <2>2, <2>3, SoundWrite DEF StillExists, Exists
<1>4. ASSUME NEW c \in Calls, DeleteTrips(c)
      PROVE  ReferencesHold'
  BY <1>1, <1>4, SoundWrite DEF DeleteTrips, Restrict, StillExists, Exists
<1>5. ASSUME NEW c \in Calls, DeleteRow(c)
      PROVE  ReferencesHold'
  <2> DEFINE r == calls[c].request.route
  <2>1. CASE Referenced(r)
    BY <1>2, <1>5, <2>1 DEF DeleteRow, fleetTables
  <2>2. CASE ~ Referenced(r)
    <3>1. /\ routes' = [routes EXCEPT ![r] = "deleted"] /\ UNCHANGED <<trips, users>>
          /\ points' = Restrict(points, DOMAIN points \ PointsOf(r))
      BY <1>5, <2>2 DEF DeleteRow
    <3>2. \A x \in Routes : x # r /\ Exists(x) => StillExists(x)
      BY <1>1, <3>1 DEF TablesTyped, Exists, StillExists
    <3>3. \A p \in DOMAIN points' :
            p \in DOMAIN points /\ points'[p] = points[p] /\ points[p] # r
      BY <3>1 DEF Restrict, PointsOf
    <3>4. \A t \in DOMAIN trips : trips[t].route # r
      BY <2>2 DEF Referenced, TripsOf
    <3>5. \A u \in DOMAIN users :
            users[u].route # r /\ (users[u].point \in DOMAIN points => users[u].point \in DOMAIN points')
      BY <2>2, <3>1 DEF Referenced, RidersOf, RidersAt, Restrict
    <3>6. \A p \in DOMAIN points' : StillExists(points'[p])
      BY <1>1, <3>2, <3>3 DEF ReferencesHold, TablesTyped, IsTable
    <3>7. \A t \in DOMAIN trips' : StillExists(trips'[t].route)
      BY <1>1, <3>1, <3>2, <3>4 DEF ReferencesHold, TablesTyped, IsTable, Trip
    <3>8. \A u \in DOMAIN users' :
            /\ users'[u].route # None => StillExists(users'[u].route)
            /\ users'[u].point # None => users'[u].point \in DOMAIN points'
      BY <1>1, <3>1, <3>2, <3>5 DEF ReferencesHold, TablesTyped, IsTable, User
    <3>9. QED
      BY <3>6, <3>7, <3>8 DEF ReferencesHold, StillExists, Exists
  <2>3. QED
    BY <2>1, <2>2
<1>6. ASSUME NEW c \in Calls, InsertPoint(c)
      PROVE  ReferencesHold'
  BY <1>1, <1>6, SoundWrite DEF InsertPoint, With, StillExists, Exists
<1>7. ASSUME NEW c \in Calls, DeletePoint(c)
      PROVE  ReferencesHold'
  BY <1>1, <1>7, SoundWrite DEF DeletePoint, Restrict, RidersAt, StillExists, Exists
<1>8. ASSUME NEW c \in Calls, ChoosePoint(c)
      PROVE  ReferencesHold'
  <2>1. \A u \in DOMAIN users : users[u] \in User
    BY <1>1 DEF TablesTyped, IsTable
  <2>2. /\ DOMAIN users' = DOMAIN users /\ UNCHANGED <<routes, points, trips>>
        /\ \A u \in DOMAIN users :
             /\ users'[u].route = users[u].route
             /\ users'[u].point = users[u].point \/ users'[u].point \in DOMAIN points
    BY <1>8, <2>1 DEF ChoosePoint, User
  <2>3. QED
    BY <1>1, <2>2, SoundWrite DEF StillExists, Exists
<1>9. ASSUME NEW c \in Calls, InsertTrip(c)
      PROVE  ReferencesHold'
  BY <1>1, <1>9, SoundWrite DEF InsertTrip, Insertable, With, StillExists, Exists
<1>10. ASSUME NEW c \in Calls, ScheduleNew(c) \/ ScheduleOver(c)
       PROVE  ReferencesHold'
  BY <1>1, <1>10, SoundWrite
     DEF ScheduleNew, ScheduleOver, Insertable, Scheduled, With, StillExists, Exists
<1>11. ASSUME NEW c \in Calls, WriteTrip(c)
       PROVE  ReferencesHold'
  <2> DEFINE q == calls[c].request
  <2>1. CASE UNCHANGED trips
    BY <1>2, <1>11, <2>1 DEF WriteTrip, fleetTables
  <2>2. CASE trips' = [trips EXCEPT ![q.trip] = Updated(@, q)] /\ (q.route # None => Exists(q.route))
    <3>1. /\ DOMAIN trips' = DOMAIN trips /\ UNCHANGED <<routes, points, users>>
          /\ \A t \in DOMAIN trips :
               trips'[t].route = trips[t].route \/ Exists(trips'[t].route)
      BY <1>11, <2>2 DEF WriteTrip, Updated
    <3>2. QED
      BY <1>1, <3>1, SoundWrite DEF StillExists, Exists
  <2>3. QED
    BY <1>11, <2>1, <2>2 DEF WriteTrip
<1>12. CASE SingleStatement
  <2>1. ASSUME NEW r \in Routes, CreateRoute(r) PROVE ReferencesHold'
    BY <1>1, <2>1, SoundWrite DEF CreateRoute, StillExists, Exists, TablesTyped
  <2>2. ASSUME NEW r \in Switched, NEW state \in {"active", "inactive"}, UpdateRoute(r, state)
        PROVE  ReferencesHold'
    BY <1>1, <2>2, SoundWrite DEF UpdateRoute, StillExists, Exists, TablesTyped
  <2>3. ASSUME NEW u \in Users, NEW r \in Routes \cup {None}, Register(u, r)
        PROVE  ReferencesHold'
    BY <1>1, <2>3, SoundWrite DEF Register, With, StillExists, Exists
  <2>4. QED
    BY <1>12, <2>1, <2>2, <2>3 DEF SingleStatement
<1>13. ASSUME NEW c \in Calls, CallStep(c)
       PROVE  ReferencesHold'
  <2>1. CASE DeleteRouteStep(c)
    BY <1>2, <1>3, <1>4, <1>5, <2>1 DEF DeleteRouteStep, FindRoute, CheckFuture, ReadPoints
  <2>2. CASE PointStep(c)
    BY <1>2, <1>6, <1>7, <1>8, <2>2
       DEF PointStep, FindRouteForPoint, FindPointToDelete, FindPointToChoose
  <2>3. CASE TripStep(c)
    BY <1>2, <1>9, <1>10, <1>11, <2>3 DEF TripStep, FindRouteForTrip, FindTrip,
       FindTripsRoute, FindNewRoute, FindRouteToSchedule, LookUpTrip
  <2>4. QED
    BY <1>13, <2>1, <2>2, <2>3 DEF CallStep
<1>14. QED
  BY <1>2, <1>12, <1>13
     DEF FleetNext, FleetStep, Receive, Midnight, FleetRestart, fleetVars, fleetTables

\* A deleted route stays deleted: its id is never used again.
LEMMA DeletedStays ==
  ASSUME TypesInv, [FleetNext]_fleetVars, NEW r \in Routes, routes[r] = "deleted"
  PROVE  routes'[r] = "deleted"
<1>1. routes \in [Routes -> RouteState]
  BY DEF TypesInv, FleetTypeOK
<1>2. CASE SingleStatement
  BY <1>1, <1>2 DEF SingleStatement, CreateRoute, UpdateRoute, Register, Exists
<1>3. ASSUME NEW c \in Calls, CallStep(c)
      PROVE  routes'[r] = "deleted"
  <2>1. CASE DeleteRouteStep(c)
    BY <1>1, <2>1 DEF DeleteRouteStep, FindRoute, CheckFuture, ReleaseRiders, ReadPoints,
       ReleasePoints, DeleteTrips, DeleteRow, fleetTables
  <2>2. CASE PointStep(c)
    BY <2>2 DEF PointStep, FindRouteForPoint, InsertPoint, FindPointToDelete, DeletePoint,
       FindPointToChoose, ChoosePoint, fleetTables
  <2>3. CASE TripStep(c)
    BY <2>3 DEF TripStep, FindRouteForTrip, InsertTrip, FindTrip, FindTripsRoute, FindNewRoute,
       WriteTrip, FindRouteToSchedule, LookUpTrip, ScheduleNew, ScheduleOver, fleetTables
  <2>4. QED
    BY <1>3, <2>1, <2>2, <2>3 DEF CallStep
<1>4. QED
  BY <1>2, <1>3
     DEF FleetNext, FleetStep, Receive, Midnight, FleetRestart, fleetVars, fleetTables

\* A deletion answers success only with its last statement.
LEMMA SuccessDeletes ==
  ASSUME TypesInv, NEW c \in Calls, DeleteRouteStep(c), calls'[c].answer = "204",
         calls[c].answer # "204"
  PROVE  routes'[calls[c].request.route] = "deleted"
<1>1. FleetTypeOK /\ Moves(c)
  BY DeleteRouteTypes DEF TypesInv
<1>2. c \in DOMAIN calls /\ calls[c] \in Call /\ calls[c].request.op = "deleteRoute"
  BY <1>1, DeleteRouteTypes DEF Moves, FleetTypeOK, IsTable
<1>3. calls[c].request.route \in Routes /\ routes \in [Routes -> RouteState]
  BY <1>1, <1>2, RequestType DEF Call, FleetTypeOK
<1>4. \A code \in {"400", "403", "404", "409", "500"} : ~ Answer(c, code)
  BY <1>1, <1>2, AnswerMoves
<1>5. \A pc \in Statements : ~ Advance(c, pc)
  <2> SUFFICES ASSUME NEW pc \in Statements, Advance(c, pc) PROVE FALSE
    OBVIOUS
  <2>1. calls'[c] = [calls[c] EXCEPT !.pc = pc]
    BY <1>1, <1>2, AdvanceMoves
  <2>2. QED
    BY <1>2, <2>1 DEF Call
<1>6. ~ ReadPoints(c)
  BY <1>2 DEF ReadPoints, Call
<1>7. DeleteRow(c)
  BY <1>4, <1>5, <1>6 DEF DeleteRouteStep, FindRoute, CheckFuture, ReleaseRiders,
     ReleasePoints, DeleteTrips, Statements
<1>8. QED
  BY <1>3, <1>4, <1>7 DEF DeleteRow

SuccessMeansDeleted ==
  \A c \in DOMAIN calls :
    calls[c].request.op = "deleteRoute" /\ calls[c].answer = "204" =>
      routes[calls[c].request.route] = "deleted"

LEMMA SuccessKept ==
  ASSUME TypesInv, SuccessMeansDeleted, [FleetNext]_fleetVars
  PROVE  SuccessMeansDeleted'
<1>1. FleetTypeOK
  BY DEF TypesInv
<1>2. SUFFICES ASSUME NEW c \in DOMAIN calls', calls'[c].request.op = "deleteRoute",
                      calls'[c].answer = "204"
               PROVE  routes'[calls'[c].request.route] = "deleted"
  BY DEF SuccessMeansDeleted
<1>3. ASSUME c \in DOMAIN calls, calls'[c].request = calls[c].request, calls[c].answer = "204"
      PROVE  routes'[calls'[c].request.route] = "deleted"
  <2>1. calls[c] \in Call
    BY <1>1, <1>3 DEF FleetTypeOK, IsTable
  <2>2. calls[c].request.route \in Routes
    BY <1>2, <1>3, <2>1, RequestType DEF Call
  <2>3. QED
    BY <1>2, <1>3, <2>2, DeletedStays DEF SuccessMeansDeleted
<1>4. ASSUME NEW d \in Calls, NEW q \in Requests, Receive(d, q)
      PROVE  routes'[calls'[c].request.route] = "deleted"
  <2>1. Received(d, q)
    BY <1>1, <1>4, ReceiveTypes
  <2>2. c \in DOMAIN calls /\ calls'[c] = calls[c]
    BY <1>2, <2>1 DEF Received
  <2>3. QED
    BY <1>2, <1>3, <2>2
<1>5. ASSUME NEW d \in Calls, CallStep(d)
      PROVE  routes'[calls'[c].request.route] = "deleted"
  <2>1. Moves(d)
    BY <1>5, DeleteRouteTypes, PointTypes, TripTypes DEF CallStep
  <2>2. c \in DOMAIN calls /\ calls'[c].request = calls[c].request
    BY <1>2, <2>1 DEF Moves
  <2>3. CASE c # d
    BY <1>2, <1>3, <2>1, <2>2, <2>3 DEF Moves
  <2>4. CASE c = d
    <3>1. DeleteRouteStep(c)
      BY <1>2, <1>5, <2>2, <2>4, PointTypes, TripTypes DEF CallStep
    <3>2. QED
      BY <1>2, <1>3, <2>2, <2>4, <3>1, SuccessDeletes
  <2>5. QED
    BY <2>3, <2>4
<1>6. CASE SingleStatement
  BY <1>1, <1>2, <1>3, <1>6, SingleTypes
<1>7. CASE Midnight
  BY <1>2, <1>3, <1>7 DEF Midnight
<1>8. CASE FleetRestart
  BY <1>1, <1>2, <1>3, <1>8, RestartTypes
<1>9. CASE UNCHANGED fleetVars
  BY <1>2, <1>3, <1>9 DEF fleetVars
<1>10. QED
  BY <1>4, <1>5, <1>6, <1>7, <1>8, <1>9 DEF FleetNext, FleetStep

(***************************************************************************)
(* For every set of calls: once a deletion has answered success, nothing   *)
(* refers to the route, for ever.  The foreign keys do it (ReferencesHold):*)
(* whoever writes a reference finds no route.                              *)
(***************************************************************************)
THEOREM DeletedRoutesGone == FleetSpec => []DeletedForGood
<1> DEFINE Inv == TypesInv /\ ReferencesHold /\ SuccessMeansDeleted
<1>1. FleetInit => Inv
  BY FleetStart DEF FleetInit, SuccessMeansDeleted
<1>2. Inv /\ [FleetNext]_fleetVars => Inv'
  BY TypesKept, ReferencesKept, SuccessKept
<1>3. Inv => DeletedForGood
  <2> SUFFICES ASSUME Inv, NEW c \in DOMAIN calls, calls[c].request.op = "deleteRoute",
                      calls[c].answer = "204"
               PROVE  LET r == calls[c].request.route
                      IN  /\ routes[r] = "deleted" /\ PointsOf(r) = {}
                          /\ TripsOf(r) = {} /\ RidersOf(r) = {}
    BY DEF DeletedForGood
  <2> DEFINE r == calls[c].request.route
  <2>1. calls[c] \in Call
    BY DEF TypesInv, FleetTypeOK, IsTable
  <2>2. r # None
    BY <2>1, RequestType, FleetAssumption DEF Call
  <2>3. routes[r] = "deleted"
    BY DEF SuccessMeansDeleted
  <2>4. QED
    BY <2>2, <2>3 DEF ReferencesHold, Exists, PointsOf, TripsOf, RidersOf
<1>4. QED
  BY <1>1, <1>2, <1>3, PTL DEF FleetSpec


----------------------------------------------------------------------------
(* A deletion that nobody disturbs *)

(* The id of a point to be inserted is in no row yet, and no other call's. *)
PointsFresh ==
  \A c \in DOMAIN calls : calls[c].request.op = "createPoint" =>
    /\ calls[c].pc \notin {"done", "lost"} => calls[c].request.point \notin DOMAIN points
    /\ \A d \in DOMAIN calls :
         calls[d].request.op = "createPoint" /\ d # c =>
           calls[d].request.point # calls[c].request.point

\* Rows of points come from createPoint only, and none of them is written over.
LEMMA PointRows ==
  ASSUME TypesInv, PointsFresh, FleetStep
  PROVE  /\ points' = points \/ users' = users
         /\ \A p \in DOMAIN points \cap DOMAIN points' : points'[p] = points[p]
         /\ \A p \in DOMAIN points' \ DOMAIN points :
              \E d \in Calls : InsertPoint(d) /\ p = calls[d].request.point
<1> DEFINE Goal ==
      /\ points' = points \/ users' = users
      /\ \A p \in DOMAIN points \cap DOMAIN points' : points'[p] = points[p]
      /\ \A p \in DOMAIN points' \ DOMAIN points :
           \E d \in Calls : InsertPoint(d) /\ p = calls[d].request.point
<1>1. ASSUME points' = points PROVE Goal
  BY <1>1
<1>2. ASSUME NEW S, points' = Restrict(points, DOMAIN points \ S), users' = users PROVE Goal
  BY <1>2 DEF Restrict
<1>3. ASSUME NEW c \in Calls, InsertPoint(c) PROVE Goal
  <2>1. CASE points' = points
    BY <1>1, <2>1
  <2>2. CASE points' = With(points, calls[c].request.point, calls[c].request.route)
    <3>1. users' = users /\ calls[c].request.point \notin DOMAIN points
      BY <1>3 DEF InsertPoint, At, PointsFresh
    <3>2. QED
      BY <1>3, <2>2, <3>1 DEF With
  <2>3. QED
    BY <1>3, <2>1, <2>2 DEF InsertPoint
<1> HIDE DEF Goal
<1>4. ASSUME NEW c \in Calls, DeletePoint(c) PROVE Goal
  BY <1>1, <1>2, <1>4 DEF DeletePoint
<1>5. ASSUME NEW c \in Calls, DeleteRow(c) PROVE Goal
  BY <1>1, <1>2, <1>5 DEF DeleteRow
<1>6. ASSUME NEW c \in Calls, CallStep(c) PROVE Goal
  <2>1. CASE DeleteRouteStep(c)
    BY <1>1, <1>5, <2>1 DEF DeleteRouteStep, FindRoute, CheckFuture, ReleaseRiders,
       ReadPoints, ReleasePoints, DeleteTrips, fleetTables
  <2>2. CASE PointStep(c)
    BY <1>1, <1>3, <1>4, <2>2 DEF PointStep, FindRouteForPoint, FindPointToDelete,
       FindPointToChoose, ChoosePoint, fleetTables
  <2>3. CASE TripStep(c)
    BY <1>1, <2>3 DEF TripStep, FindRouteForTrip, InsertTrip, FindTrip, FindTripsRoute,
       FindNewRoute, WriteTrip, FindRouteToSchedule, LookUpTrip, ScheduleNew, ScheduleOver,
       fleetTables
  <2>4. QED
    BY <1>6, <2>1, <2>2, <2>3 DEF CallStep
<1>7. ASSUME SingleStatement PROVE Goal
  BY <1>1, <1>7 DEF SingleStatement, CreateRoute, UpdateRoute, Register
<1>8. QED
  BY <1>1, <1>6, <1>7 DEF FleetStep, Receive, Midnight, FleetRestart, fleetTables, Goal

\* A call that is over takes no step.
LEMMA StepsBeforeEnd ==
  ASSUME NEW c, CallStep(c)
  PROVE  c \in DOMAIN calls /\ calls[c].pc \notin {"done", "lost"}
<1>1. ASSUME NEW op, NEW pc \in Statements, At(c, op, pc)
      PROVE  c \in DOMAIN calls /\ calls[c].pc \notin {"done", "lost"}
  BY <1>1 DEF At, Statements
<1>2. CASE DeleteRouteStep(c)
  BY <1>1, <1>2 DEF DeleteRouteStep, FindRoute, CheckFuture, ReleaseRiders, ReadPoints,
     ReleasePoints, DeleteTrips, DeleteRow, Statements
<1>3. CASE PointStep(c)
  BY <1>1, <1>3 DEF PointStep, FindRouteForPoint, InsertPoint, FindPointToDelete, DeletePoint,
     FindPointToChoose, ChoosePoint, Statements
<1>4. CASE TripStep(c)
  BY <1>1, <1>4 DEF TripStep, FindRouteForTrip, InsertTrip, FindTrip, FindTripsRoute,
     FindNewRoute, WriteTrip, FindRouteToSchedule, LookUpTrip, ScheduleNew, ScheduleOver,
     Statements
<1>5. QED
  BY <1>2, <1>3, <1>4 DEF CallStep

LEMMA PointsFreshKept ==
  ASSUME TypesInv, PointsFresh, [FleetNext]_fleetVars
  PROVE  PointsFresh'
<1>1. FleetTypeOK
  BY DEF TypesInv
<1>2. CASE calls' = calls /\ points' = points
  BY <1>2 DEF PointsFresh
<1>3. ASSUME NEW c \in Calls, NEW q \in Requests, Receive(c, q)
      PROVE  PointsFresh'
  <2>1. Received(c, q) /\ points' = points /\ c \notin DOMAIN calls
    BY <1>1, <1>3, ReceiveTypes DEF Receive, fleetTables
  <2>2. q.op = "createPoint" => FreshPoint(q.point)
    BY <1>3 DEF Receive
  <2>3. QED
    BY <2>1, <2>2 DEF PointsFresh, Received, FreshPoint
<1>4. ASSUME NEW c \in Calls, CallStep(c), FleetStep
      PROVE  PointsFresh'
  <2>1. Moves(c) /\ calls[c].pc \notin {"done", "lost"}
    BY <1>4, DeleteRouteTypes, PointTypes, TripTypes, StepsBeforeEnd DEF CallStep
  <2>2. ASSUME NEW d \in DOMAIN calls, calls[d].request.op = "createPoint",
               calls'[d].pc \notin {"done", "lost"}
        PROVE  calls[d].request.point \notin DOMAIN points'
    <3>1. calls[d].request.point \notin DOMAIN points
      BY <2>1, <2>2 DEF Moves, PointsFresh
    <3>2. SUFFICES ASSUME NEW e \in Calls, InsertPoint(e),
                          calls[e].request.point = calls[d].request.point
                   PROVE  FALSE
      BY <1>4, <3>1, PointRows
    <3>3. e \in DOMAIN calls /\ calls[e].request.op = "createPoint"
      BY <3>2 DEF InsertPoint, At
    <3>4. d = e
      BY <2>2, <3>2, <3>3 DEF PointsFresh
    <3>5. QED
      BY <1>1, <2>2, <3>2, <3>3, <3>4, AnswerMoves DEF InsertPoint
  <2>3. QED
    BY <2>1, <2>2 DEF PointsFresh, Moves
<1>5. CASE SingleStatement /\ FleetStep
  <2>1. calls' = calls /\ points' = points
    BY <1>1, <1>5, SingleTypes DEF SingleStatement, CreateRoute, UpdateRoute, Register
  <2>2. QED
    BY <1>2, <2>1
<1>6. CASE FleetRestart
  BY <1>1, <1>6, RestartTypes DEF PointsFresh, FleetRestart, fleetTables
<1>7. QED
  BY <1>2, <1>3, <1>4, <1>5, <1>6
     DEF FleetNext, FleetStep, Midnight, fleetVars, fleetTables


\* No step gives a user who is there another default route.
LEMMA RoutesOfUsers ==
  ASSUME TypesInv, FleetStep, NEW u \in DOMAIN users
  PROVE  users'[u].route \in {users[u].route, None}
<1>1. CASE users'[u].route = users[u].route
  BY <1>1
<1>2. CASE users'[u].route # users[u].route
  <2>1. PICK c \in DOMAIN calls : ReleaseRiders(c) /\ calls[c].request.route = users[u].route
    BY <1>2, RiderReleased
  <2>2. users[u] \in User /\ u \in RidersOf(users[u].route)
    BY DEF TypesInv, FleetTypeOK, IsTable, RidersOf
  <2>3. QED
    BY <2>1, <2>2 DEF ReleaseRiders, ClearRoute, User
<1>3. QED
  BY <1>1, <1>2

\* While nobody plans on the route, chooses it or a point of it, nothing comes to
\* refer to it: its riders, its trips and the riders at its points only get fewer.
LEMMA NobodyComes ==
  ASSUME TypesInv, ReferencesHold, PointsFresh, FleetStep, NEW r \in Routes,
         Planned(r) = {}, ~ Chosen(r)
  PROVE  /\ RidersOf(r)' \subseteq RidersOf(r)
         /\ TripsOf(r)' \subseteq TripsOf(r)
         /\ \A u \in RidersAt(PointsOf(r))' :
              u \in RidersAt(PointsOf(r)) /\ users'[u].point = users[u].point
<1>1. r # None /\ None \notin Points
  BY FleetAssumption
<1>2. RidersOf(r)' \subseteq RidersOf(r)
  BY <1>1, RoutesOfUsers DEF RidersOf, Chosen
<1>3. TripsOf(r)' \subseteq TripsOf(r)
  BY DEF TripsOf, Planned
<1>4. ASSUME NEW u \in RidersAt(PointsOf(r))'
      PROVE  u \in RidersAt(PointsOf(r)) /\ users'[u].point = users[u].point
  <2> DEFINE p == users'[u].point
  <2>1. u \in DOMAIN users' /\ p \in DOMAIN points' /\ points'[p] = r
    BY <1>4 DEF RidersAt, PointsOf
  <2>2. CASE points' = points
    BY <2>1, <2>2 DEF Chosen, RidersAt, PointsOf
  <2>3. CASE users' = users /\ points' # points
    <3>1. CASE p \in DOMAIN points
      BY <2>1, <2>3, <3>1, PointRows DEF RidersAt, PointsOf
    <3>2. CASE p \notin DOMAIN points
      <4>1. users[u].point # None => p \in DOMAIN points
        BY <2>1, <2>3 DEF ReferencesHold
      <4>2. p = None
        BY <2>3, <3>2, <4>1
      <4>3. PICK d \in Calls : InsertPoint(d) /\ p = calls[d].request.point
        BY <2>1, <3>2, PointRows
      <4>4. calls[d] \in Call /\ calls[d].request.op = "createPoint"
        BY <4>3 DEF InsertPoint, At, TypesInv, FleetTypeOK, IsTable
      <4>5. calls[d].request.point \in Points
        BY <4>4, RequestType DEF Call
      <4>6. QED
        BY <1>1, <4>2, <4>3, <4>5
    <3>3. QED
      BY <3>1, <3>2
  <2>4. QED
    BY <2>2, <2>3, PointRows
<1>5. QED
  BY <1>2, <1>3, <1>4

\* What others have done to the route of a deletion that its statements do not
\* release again: trips put on it, the route or a point of it chosen.
Raced(c) == meanwhile[c] \cap ({"chosen"} \cup Trips) # {}

(***************************************************************************)
(* How much of route r a deletion has released when it is at pc, ids being *)
(* the pick-up points it has read.                                         *)
(***************************************************************************)
Released(pc, r, ids) ==
  /\ pc \in {"points", "usersPoints", "trips", "row"} => RidersOf(r) = {}
  /\ pc = "usersPoints" => \A u \in RidersAt(PointsOf(r)) : users[u].point \in ids
  /\ pc \in {"trips", "row"} => RidersAt(PointsOf(r)) = {}
  /\ pc = "row" => TripsOf(r) = {}

ReleasedInv ==
  \A c \in DOMAIN calls :
    Deleting(c) /\ ~ Raced(c) =>
      Released(calls[c].pc, calls[c].request.route, calls[c].riders)

\* While a deletion is under way its history has what this step does to the route.
LEMMA RaceSeen ==
  ASSUME TypesInv, FleetNext, NEW c \in Calls, Deleting(c), ~ Raced(c)'
  PROVE  LET r == calls[c].request.route
         IN  ~ Raced(c) /\ Planned(r) = {} /\ ~ Chosen(r)
<1> DEFINE r == calls[c].request.route
<1>1. meanwhile'[c] = meanwhile[c] \cup Against(r)
  BY DEF FleetNext, Remember
<1>2. Planned(r) \subseteq Trips
  <2>1. TypesInv'
    BY TypesKept
  <2>2. QED
    BY <2>1 DEF TypesInv, FleetTypeOK, IsTable, Planned
<1>3. QED
  BY <1>1, <1>2 DEF Raced, Against

\* A statement of the deletion releases what comes next.
LEMMA StatementReleases ==
  ASSUME TypesInv, ReferencesHold, PointsFresh, FleetStep,
         NEW c \in Calls, DeleteRouteStep(c), Deleting(c), Deleting(c)',
         NEW r \in Routes, r = calls[c].request.route, Planned(r) = {}, ~ Chosen(r),
         Released(calls[c].pc, r, calls[c].riders),
         NEW pc, pc = calls'[c].pc, NEW ids, ids = calls'[c].riders
  PROVE  Released(pc, r, ids)'
<1>1. FleetTypeOK /\ c \in DOMAIN calls /\ calls[c] \in Call /\ r # None
  BY FleetAssumption DEF TypesInv, FleetTypeOK, IsTable, Deleting
<1>2. /\ RidersOf(r)' \subseteq RidersOf(r)
      /\ TripsOf(r)' \subseteq TripsOf(r)
      /\ \A u \in RidersAt(PointsOf(r))' :
           u \in RidersAt(PointsOf(r)) /\ users'[u].point = users[u].point
  BY NobodyComes
<1>3. \A u \in DOMAIN users : users[u] \in User
  BY <1>1 DEF FleetTypeOK, IsTable
<1>4. ASSUME NEW to \in Statements, Advance(c, to)
      PROVE  pc = to /\ ids = calls[c].riders
  <2>1. calls'[c] = [calls[c] EXCEPT !.pc = to]
    BY <1>1, <1>4, AdvanceMoves
  <2>2. QED
    BY <1>1, <2>1 DEF Call
<1>5. ~ FindRoute(c)
  BY DEF FindRoute, At, Deleting
<1>6. CASE CheckFuture(c)
  <2>1. Advance(c, "users")
    BY <1>1, <1>6, AnswerMoves DEF CheckFuture, Deleting
  <2>2. QED
    BY <1>4, <2>1 DEF Released, Statements
<1>7. CASE ReleaseRiders(c)
  <2>1. pc = "points"
    BY <1>4, <1>7 DEF ReleaseRiders, Statements
  <2>2. RidersOf(r)' = {}
    BY <1>1, <1>3, <1>7 DEF ReleaseRiders, ClearRoute, RidersOf, User
  <2>3. QED
    BY <2>1, <2>2 DEF Released
<1>8. CASE ReadPoints(c)
  <2>1. /\ calls[c].pc = "points" /\ UNCHANGED <<points, users>>
        /\ ids = PointsOf(r) \cap Pickups
        /\ pc = IF ids = {} THEN "trips" ELSE "usersPoints"
    BY <1>1, <1>8 DEF ReadPoints, At, PointsToRelease, Call, fleetTables
  <2>2. RidersOf(r)' = {}
    BY <1>2, <2>1 DEF Released
  <2>3. \A u \in RidersAt(PointsOf(r))' : users'[u].point \in ids
    <3>1. None \notin PointsOf(r)
      BY <1>1, FleetAssumption DEF PointsOf, FleetTypeOK, IsTable
    <3>2. \A u \in RidersAt(PointsOf(r)) : users[u].point \in PointsOf(r) \cap Pickups
      BY <1>3, <3>1 DEF RidersAt, User
    <3>3. QED
      BY <1>2, <2>1, <3>2
  <2>4. QED
    BY <2>1, <2>2, <2>3 DEF Released
<1>9. CASE ReleasePoints(c)
  <2>1. pc = "trips" /\ calls[c].pc = "usersPoints"
    BY <1>4, <1>9 DEF ReleasePoints, At, Statements
  <2>2. RidersOf(r)' = {}
    BY <1>2, <2>1 DEF Released
  <2>3. RidersAt(PointsOf(r))' = {}
    <3> SUFFICES ASSUME NEW u \in RidersAt(PointsOf(r))' PROVE FALSE
      OBVIOUS
    <3>1. u \in DOMAIN users /\ users'[u].point = users[u].point /\ users[u].point \in PointsOf(r)
      BY <1>2 DEF RidersAt
    <3>2. users[u].point \in calls[c].riders
      BY <1>2, <2>1 DEF Released
    <3>3. users'[u].point = None
      BY <1>3, <1>9, <3>1, <3>2 DEF ReleasePoints, ClearPoint, RidersAt, User
    <3>4. QED
      BY <1>1, <3>1, <3>3, FleetAssumption DEF PointsOf, FleetTypeOK, IsTable
  <2>4. QED
    BY <2>1, <2>2, <2>3 DEF Released
<1>10. CASE DeleteTrips(c)
  <2>1. pc = "row" /\ calls[c].pc = "trips"
    BY <1>4, <1>10 DEF DeleteTrips, At, Statements
  <2>2. RidersOf(r)' = {} /\ RidersAt(PointsOf(r))' = {}
    BY <1>2, <2>1 DEF Released
  <2>3. TripsOf(r)' = {}
    BY <1>10 DEF DeleteTrips, TripsOf, Restrict
  <2>4. QED
    BY <2>1, <2>2, <2>3 DEF Released
<1>11. ~ DeleteRow(c)
  BY <1>1, AnswerMoves DEF DeleteRow, Deleting
<1>12. QED
  BY <1>5, <1>6, <1>7, <1>8, <1>9, <1>10, <1>11 DEF DeleteRouteStep

LEMMA ReleasedKept ==
  ASSUME TypesInv, ReferencesHold, PointsFresh, ReleasedInv, [FleetNext]_fleetVars
  PROVE  ReleasedInv'
<1>1. CASE UNCHANGED fleetVars
  BY <1>1 DEF fleetVars, fleetTables, ReleasedInv, Deleting, Raced, Released, RidersOf,
     RidersAt, PointsOf, TripsOf
<1>2. CASE FleetNext
  <2> SUFFICES ASSUME NEW c \in DOMAIN calls', Deleting(c)', ~ Raced(c)',
                      NEW pc, pc = calls'[c].pc, NEW r, r = calls'[c].request.route,
                      NEW ids, ids = calls'[c].riders
               PROVE  Released(pc, r, ids)'
    BY DEF ReleasedInv, Released
  <2>1. /\ c \in DOMAIN calls /\ c \in Calls /\ calls'[c].request = calls[c].request
        /\ calls[c].request.op = "deleteRoute"
        /\ (calls'[c] = calls[c] /\ Deleting(c)) \/ DeleteRouteStep(c)
    BY <1>2, DeletionMoves DEF FleetNext
  <2>2. FleetStep /\ calls[c] \in Call /\ FleetTypeOK
    BY <1>2, <2>1 DEF FleetNext, TypesInv, FleetTypeOK, IsTable
  <2>3. r \in Routes /\ r = calls[c].request.route
    BY <2>1, <2>2, RequestType DEF Call
  <2>4. CASE Deleting(c)
    <3>1. ~ Raced(c) /\ Planned(r) = {} /\ ~ Chosen(r)
      BY <1>2, <2>1, <2>3, <2>4, RaceSeen
    <3>2. Released(calls[c].pc, r, calls[c].riders)
      BY <2>1, <2>3, <2>4, <3>1 DEF ReleasedInv
    <3>3. CASE calls'[c] = calls[c]
      <4>1. /\ RidersOf(r)' \subseteq RidersOf(r)
            /\ TripsOf(r)' \subseteq TripsOf(r)
            /\ \A u \in RidersAt(PointsOf(r))' :
                 u \in RidersAt(PointsOf(r)) /\ users'[u].point = users[u].point
        BY <2>2, <2>3, <3>1, NobodyComes
      <4>2. QED
        BY <3>2, <3>3, <4>1 DEF Released
    <3>4. CASE DeleteRouteStep(c)
      BY <2>1, <2>2, <2>3, <2>4, <3>1, <3>2, <3>4, StatementReleases
    <3>5. QED
      BY <2>1, <3>3, <3>4
  <2>5. CASE ~ Deleting(c)
    <3>1. FindRoute(c)
      BY <2>1, <2>5 DEF Deleting, DeleteRouteStep, CheckFuture, ReleaseRiders, ReadPoints,
         ReleasePoints, DeleteTrips, DeleteRow, At
    <3>2. Advance(c, "future")
      BY <2>1, <2>2, <3>1, AnswerMoves DEF FindRoute, Deleting
    <3>3. pc = "future"
      <4>1. calls'[c] = [calls[c] EXCEPT !.pc = "future"]
        BY <2>1, <2>2, <3>2, AdvanceMoves DEF Statements
      <4>2. QED
        BY <2>2, <4>1 DEF Call
    <3>4. QED
      BY <3>3 DEF Released
  <2>6. QED
    BY <2>4, <2>5
<1>3. QED
  BY <1>1, <1>2


\* A deletion fails only at its last statement, for a reference to the route.
LEMMA FailureRefused ==
  ASSUME TypesInv, NEW c \in Calls, DeleteRouteStep(c), calls'[c].answer = "500",
         calls[c].answer # "500"
  PROVE  DeleteRow(c) /\ Referenced(calls[c].request.route)
<1>1. FleetTypeOK /\ c \in DOMAIN calls /\ calls[c] \in Call
  BY DeleteRouteTypes DEF Moves, TypesInv, FleetTypeOK, IsTable
<1>2. \A code \in {"204", "400", "403", "404", "409"} : ~ Answer(c, code)
  BY <1>1, AnswerMoves
<1>3. \A pc \in Statements : ~ Advance(c, pc)
  <2> SUFFICES ASSUME NEW pc \in Statements, Advance(c, pc) PROVE FALSE
    OBVIOUS
  <2>1. calls'[c] = [calls[c] EXCEPT !.pc = pc]
    BY <1>1, AdvanceMoves
  <2>2. QED
    BY <1>1, <2>1 DEF Call
<1>4. ~ ReadPoints(c)
  BY <1>1 DEF ReadPoints, Call
<1>5. DeleteRow(c)
  BY <1>2, <1>3, <1>4 DEF DeleteRouteStep, FindRoute, CheckFuture, ReleaseRiders,
     ReleasePoints, DeleteTrips, Statements
<1>6. QED
  BY <1>2, <1>5 DEF DeleteRow

LEMMA OnlyRacesFailKept ==
  ASSUME TypesInv, ReleasedInv, OnlyRacesFail, [FleetNext]_fleetVars
  PROVE  OnlyRacesFail'
<1>1. FleetTypeOK
  BY DEF TypesInv
<1>2. CASE UNCHANGED fleetVars
  BY <1>2 DEF fleetVars, OnlyRacesFail
<1>3. CASE FleetNext
  <2> SUFFICES ASSUME NEW c \in DOMAIN calls', calls'[c].request.op = "deleteRoute",
                      calls'[c].answer = "500"
               PROVE  Raced(c)'
    BY DEF OnlyRacesFail, Raced
  <2>1. ASSUME c \in DOMAIN calls, calls'[c].request = calls[c].request, calls[c].answer = "500"
        PROVE  Raced(c)'
    <3>1. Raced(c) /\ c \in Calls
      BY <1>1, <2>1 DEF OnlyRacesFail, Raced, FleetTypeOK, IsTable
    <3>2. meanwhile[c] \subseteq meanwhile'[c]
      BY <1>3, <3>1 DEF FleetNext, Remember
    <3>3. QED
      BY <3>1, <3>2 DEF Raced
  <2>2. ASSUME NEW d \in Calls, NEW q \in Requests, Receive(d, q)
        PROVE  Raced(c)'
    <3>1. Received(d, q)
      BY <1>1, <2>2, ReceiveTypes
    <3>2. c \in DOMAIN calls /\ calls'[c] = calls[c]
      BY <3>1 DEF Received
    <3>3. QED
      BY <2>1, <3>2
  <2>3. ASSUME NEW d \in Calls, CallStep(d)
        PROVE  Raced(c)'
    <3>1. Moves(d)
      BY <2>3, DeleteRouteTypes, PointTypes, TripTypes DEF CallStep
    <3>2. c \in DOMAIN calls /\ calls'[c].request = calls[c].request
      BY <3>1 DEF Moves
    <3>3. CASE calls[c].answer = "500"
      BY <2>1, <3>2, <3>3
    <3>4. CASE calls[c].answer # "500"
      <4>1. c = d /\ c \in Calls
        BY <2>3, <3>1, <3>2, <3>4 DEF Moves
      <4>2. DeleteRouteStep(c)
        BY <2>3, <3>2, <4>1, PointTypes, TripTypes DEF CallStep
      <4>3. DeleteRow(c) /\ Referenced(calls[c].request.route)
        BY <3>4, <4>1, <4>2, FailureRefused
      <4>4. Deleting(c) /\ calls[c].pc = "row"
        BY <4>3 DEF DeleteRow, At, Deleting
      <4>5. SUFFICES ASSUME ~ Raced(c)' PROVE FALSE
        OBVIOUS
      <4>6. ~ Raced(c)
        BY <1>3, <4>1, <4>4, <4>5, RaceSeen
      <4>7. QED
        BY <3>2, <4>3, <4>4, <4>6 DEF ReleasedInv, Released, Referenced
    <3>5. QED
      BY <3>3, <3>4
  <2>4. CASE SingleStatement
    BY <1>1, <2>1, <2>4, SingleTypes
  <2>5. CASE Midnight
    BY <2>1, <2>5 DEF Midnight
  <2>6. CASE FleetRestart
    BY <1>1, <2>1, <2>6, RestartTypes
  <2>7. QED
    BY <1>3, <2>2, <2>3, <2>4, <2>5, <2>6 DEF FleetNext, FleetStep
<1>4. QED
  BY <1>2, <1>3

(***************************************************************************)
(* For every set of calls: the statements of a deletion release whatever   *)
(* the foreign keys would miss, in an order that leaves nothing behind, so *)
(* it answers 500 only if somebody chose the route or a point of it, or    *)
(* put a trip on it, while the deletion was under way.                     *)
(***************************************************************************)
THEOREM DeletionsFailByRaces == FleetSpec => []OnlyRacesFail
<1> DEFINE Inv ==
      TypesInv /\ ReferencesHold /\ PointsFresh /\ ReleasedInv /\ OnlyRacesFail
<1>1. FleetInit => Inv
  <2> SUFFICES ASSUME FleetInit PROVE Inv
    OBVIOUS
  <2>1. TypesInv /\ ReferencesHold /\ DOMAIN calls = {}
    BY FleetStart DEF FleetInit
  <2>2. QED
    BY <2>1 DEF PointsFresh, ReleasedInv, OnlyRacesFail
<1>2. Inv /\ [FleetNext]_fleetVars => Inv'
  BY TypesKept, ReferencesKept, PointsFreshKept, ReleasedKept, OnlyRacesFailKept
<1>3. QED
  BY <1>1, <1>2, PTL DEF FleetSpec
=============================================================================
