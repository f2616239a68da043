---------------------------- MODULE TripsService ----------------------------
(***************************************************************************)
(* TripsService on the day of a trip: finishAndPunish and relocation, the  *)
(* two calls that loop over a snapshot of a trip's reservations with an    *)
(* UPDATE per row, and the single-statement writes to trips they meet      *)
(* (create, update, schedule, depart).  As in ReservationsService, a call  *)
(* is a record whose pc names its next statement.                          *)
(***************************************************************************)
EXTENDS BookingTables

CONSTANTS
  Finishes,          \* POST finish-and-punish calls
  Relocations,       \* POST relocation calls
  FinishRequests,    \* see FinishRequest
  RelocationRequests,\* see RelocationRequest
  StaffTrips         \* trips the staff write to meanwhile (a bound)

VARIABLES
  finishes,    \* finishAndPunish call -> record
  relocations  \* relocation call -> record

tripCalls == <<finishes, relocations>>
tripVars == <<tables, tripCalls>>

----------------------------------------------------------------------------

FinishRequest == [user: Users, trip: Trips]

RelocationRequest == [user: Users, trip: Trips, destination: Trips]

ASSUME TripsAssumption ==
  /\ FinishRequests \subseteq FinishRequest
  /\ RelocationRequests \subseteq RelocationRequest
  /\ StaffTrips \subseteq Trips

TripAnswers == {"none", "200", "403", "404", "500"}

\* snapshot: the CONFIRMED reservations read, by id and user; todo: those the
\* loop has not reached; victim and level: the user it is at, the level read.
Absentee == [id: ResIds, user: Users]

FinishCall ==
  [pc: {"check", "read", "loop", "level", "penalise", "done", "lost"},
   request: FinishRequest, snapshot: SUBSET Absentee, todo: SUBSET Absentee,
   victim: Users, level: 0..3, answer: TripAnswers]

\* leads: whether the caller may relocate; snapshot: the reservations of the origin
\* trip read, by id and whether seated;
\* occupied: the destination's seats, read once and added to; seat: the counter.
Passenger == [id: ResIds, seated: BOOLEAN]

RelocationCall ==
  [pc: {"origin", "destination", "read", "occupied", "loop", "done", "lost"},
   request: RelocationRequest, leads: BOOLEAN, snapshot: SUBSET Passenger,
   todo: SUBSET Passenger, occupied: SUBSET Seats, seat: Nat, answer: TripAnswers]

TripCallsTypeOK ==
  /\ DOMAIN finishes \subseteq Finishes
  /\ \A f \in DOMAIN finishes : finishes[f] \in FinishCall
  /\ DOMAIN relocations \subseteq Relocations
  /\ \A r \in DOMAIN relocations : relocations[r] \in RelocationCall

TripCallsInit ==
  /\ finishes = [f \in {} |-> f]
  /\ relocations = [r \in {} |-> r]

\* Mutant of MayLead: anybody of the town will do.
MayLeadAsCitizen(u, t) == u \in SuperAdmins \cup Citizens[t]

\* Leaders act on trips of their own municipality, super admins on every trip.
MayLead(u, t) == u \in SuperAdmins \/ (u \in trips[t].leaders /\ u \in Citizens[t])

----------------------------------------------------------------------------
(* finishAndPunish *)

FinishAnswer(f, code) ==
  finishes' = [finishes EXCEPT ![f].pc = "done", ![f].answer = code]

ReceiveFinish(f, request) ==
  /\ f \notin DOMAIN finishes
  /\ finishes' = With(finishes, f,
       [pc |-> "check", request |-> request, snapshot |-> {}, todo |-> {},
        victim |-> request.user, level |-> 0, answer |-> "none"])
  /\ UNCHANGED <<tables, relocations>>

CheckFinish(f) ==
  LET request == finishes[f].request IN
  /\ finishes[f].pc = "check"
  /\ IF request.trip \notin DOMAIN trips THEN FinishAnswer(f, "404")
     ELSE IF ~ MayLead(request.user, request.trip) THEN FinishAnswer(f, "403")
     ELSE finishes' = [finishes EXCEPT ![f].pc = "read"]
  /\ UNCHANGED <<tables, relocations>>

\* The loop passes over every reservation that is not CONFIRMED in the snapshot.
Punishable(row) == row.status = "CONFIRMED"

Absentees(t) ==
  {[id |-> i, user |-> reservations[i].user] :
     i \in {j \in OfTrip(t) : Punishable(reservations[j])}}

ReadAbsentees(f) ==
  /\ finishes[f].pc = "read"
  /\ finishes' = [finishes EXCEPT
       ![f].pc = "loop",
       ![f].snapshot = Absentees(finishes[f].request.trip),
       ![f].todo = Absentees(finishes[f].request.trip)]
  /\ UNCHANGED <<tables, relocations>>

\* Mutant of MarkAbsent: nothing remembers that the trip was missed.
MarkAbsentUnsaved(f, a) ==
  /\ finishes[f].pc = "loop" /\ a \in finishes[f].todo
  /\ finishes' = [finishes EXCEPT
       ![f].pc = "level", ![f].victim = a.user, ![f].todo = @ \ {a}]
  /\ UNCHANGED <<tables, relocations>>

\* Mutant of MarkAbsent: the row is read again, and one that is ABSENT by now is
\* taken to have been penalised.
MarkAbsentOnce(f, a) ==
  LET marked == a.id \in Live /\ reservations[a.id].status = "ABSENT" IN
  /\ finishes[f].pc = "loop" /\ a \in finishes[f].todo
  /\ IF a.id \in Live
       THEN UpdateReservation(a.id, [reservations[a.id] EXCEPT !.status = "ABSENT"])
       ELSE UNCHANGED reservations
  /\ finishes' = [finishes EXCEPT
       ![f].pc = IF marked THEN "loop" ELSE "level",
       ![f].victim = a.user, ![f].todo = @ \ {a}]
  /\ UNCHANGED <<trips, users, relocations>>

\* UPDATE reservations SET status = 'ABSENT': by id alone, so it also hits a row
\* whose status has changed since the snapshot, and misses one that is gone.
MarkAbsent(f, a) ==
  /\ finishes[f].pc = "loop" /\ a \in finishes[f].todo
  /\ IF a.id \in Live
       THEN UpdateReservation(a.id, [reservations[a.id] EXCEPT !.status = "ABSENT"])
       ELSE UNCHANGED reservations
  /\ finishes' = [finishes EXCEPT
       ![f].pc = "level", ![f].victim = a.user, ![f].todo = @ \ {a}]
  /\ UNCHANGED <<trips, users, relocations>>

ReadLevel(f) ==
  /\ finishes[f].pc = "level"
  /\ finishes' = [finishes EXCEPT
       ![f].pc = "penalise", ![f].level = users[finishes[f].victim].level]
  /\ UNCHANGED <<tables, relocations>>

\* Mutant of NextLevel: Math.max for Math.min.
NextLevelAtLeast3(level) == IF level < 3 THEN 3 ELSE level + 1

\* Math.min(3, (priorityLevel ?? 1) + 1)
NextLevel(level) == IF level = 0 THEN 2 ELSE IF level = 3 THEN 3 ELSE level + 1

\* UPDATE users: the level computed from the one read, and a week's seat block.
Penalise(f) ==
  /\ finishes[f].pc = "penalise"
  /\ users' = [users EXCEPT
       ![finishes[f].victim].level = NextLevel(finishes[f].level),
       ![finishes[f].victim].blocked = TRUE]
  /\ finishes' = [finishes EXCEPT ![f].pc = "loop"]
  /\ UNCHANGED <<reservations, trips, relocations>>

FinishTrip(f) ==
  /\ finishes[f].pc = "loop" /\ finishes[f].todo = {}
  /\ trips' = [trips EXCEPT ![finishes[f].request.trip].status = "FINISHED"]
  /\ FinishAnswer(f, "200")
  /\ UNCHANGED <<reservations, users, relocations>>

FinishStep(f) ==
  /\ f \in DOMAIN finishes
  /\ \/ CheckFinish(f)
     \/ ReadAbsentees(f)
     \/ \E a \in finishes[f].todo : MarkAbsent(f, a)
     \/ ReadLevel(f)
     \/ Penalise(f)
     \/ FinishTrip(f)

----------------------------------------------------------------------------
(* relocation *)

RelocationAnswer(r, code) ==
  relocations' = [relocations EXCEPT ![r].pc = "done", ![r].answer = code]

ReceiveRelocation(r, request) ==
  /\ r \notin DOMAIN relocations
  /\ relocations' = With(relocations, r,
       [pc |-> "origin", request |-> request, leads |-> FALSE, snapshot |-> {}, todo |-> {},
        occupied |-> {}, seat |-> 1, answer |-> "none"])
  /\ UNCHANGED <<tables, finishes>>

\* Both trips must exist; only the origin's leader is asked for, as the origin's row
\* says when it is read.
ReadOrigin(r) ==
  LET request == relocations[r].request IN
  /\ relocations[r].pc = "origin"
  /\ IF request.trip \notin DOMAIN trips THEN RelocationAnswer(r, "404")
     ELSE relocations' = [relocations EXCEPT
            ![r].pc = "destination", ![r].leads = MayLead(request.user, request.trip)]
  /\ UNCHANGED <<tables, finishes>>

ReadDestination(r) ==
  /\ relocations[r].pc = "destination"
  /\ IF relocations[r].request.destination \notin DOMAIN trips THEN RelocationAnswer(r, "404")
     ELSE IF ~ relocations[r].leads THEN RelocationAnswer(r, "403")
     ELSE relocations' = [relocations EXCEPT ![r].pc = "read"]
  /\ UNCHANGED <<tables, finishes>>

Passengers(t) ==
  {[id |-> i, seated |-> reservations[i].seat # NoSeat] : i \in OfTrip(t)}

ReadPassengers(r) ==
  /\ relocations[r].pc = "read"
  /\ relocations' = [relocations EXCEPT
       ![r].pc = "occupied",
       ![r].snapshot = Passengers(relocations[r].request.trip),
       ![r].todo = Passengers(relocations[r].request.trip)]
  /\ UNCHANGED <<tables, finishes>>

SeatsOf(t) == {reservations[i].seat : i \in SeatedOn(t)}

ReadOccupied(r) ==
  /\ relocations[r].pc = "occupied"
  /\ relocations' = [relocations EXCEPT
       ![r].pc = "loop",
       ![r].occupied = SeatsOf(relocations[r].request.destination)]
  /\ UNCHANGED <<tables, finishes>>

\* Mutants of NextFree: the counter is advanced first; an if instead of the while.
NextFreeAfter(occupied, from, s) ==
  s > from /\ s \notin occupied /\ \A x \in (from + 1)..(s - 1) : x \in occupied
NextFreeNoLoop(occupied, from, s) == s = from /\ s \notin occupied

\* while (occupiedSet.has(seat)) seat++
NextFree(occupied, from, s) ==
  /\ s >= from /\ s \notin occupied
  /\ \A x \in from..(s - 1) : x \in occupied

\* An excess passenger keeps a null seat and leaves the counter alone.
SeatFor(call, p) ==
  IF p.seated THEN {s \in Seats : NextFree(call.occupied, call.seat, s)} ELSE {NoSeat}

\* Mutant of Moved: the trip is not written.
MovedSeatOnly(row, t, s) == [row EXCEPT !.seat = s]

Moved(row, t, s) == [row EXCEPT !.trip = t, !.seat = s]

\* UPDATE reservations SET trip, seat: by id alone.  A row that is gone is no
\* error; a seat somebody took since it was read as free is, and ends the call.
MoveRow(r, p) ==
  LET call == relocations[r]
      t == call.request.destination
  IN
  /\ call.pc = "loop" /\ p \in call.todo
  /\ \E s \in SeatFor(call, p) :
       IF p.id \in Live /\ SeatTaken(t, s, p.id)
         THEN RelocationAnswer(r, "500") /\ UNCHANGED reservations
         ELSE /\ IF p.id \in Live
                   THEN UpdateReservation(p.id, Moved(reservations[p.id], t, s))
                   ELSE UNCHANGED reservations
              /\ relocations' = [relocations EXCEPT
                   ![r].todo = @ \ {p},
                   ![r].occupied = IF p.seated THEN @ \cup {s} ELSE @,
                   ![r].seat = IF p.seated THEN s ELSE @]
  /\ UNCHANGED <<trips, users, finishes>>

CancelOrigin(r) ==
  /\ relocations[r].pc = "loop" /\ relocations[r].todo = {}
  /\ trips' = [trips EXCEPT ![relocations[r].request.trip].status = "CANCELLED"]
  /\ RelocationAnswer(r, "200")
  /\ UNCHANGED <<reservations, users, finishes>>

RelocationStep(r) ==
  /\ r \in DOMAIN relocations
  /\ \/ ReadOrigin(r)
     \/ ReadDestination(r)
     \/ ReadPassengers(r)
     \/ ReadOccupied(r)
     \/ \E p \in relocations[r].todo : MoveRow(r, p)
     \/ CancelOrigin(r)

----------------------------------------------------------------------------
(* Single-statement writes to trips.  No status stops any of them. *)

\* createTrip: the primary key refuses a trip that exists.
CreateTrip(t, row) ==
  /\ t \notin DOMAIN trips /\ row.status = "OPEN_FOR_RESERVATION"
  /\ trips' = With(trips, t, row)
  /\ UNCHANGED <<reservations, users, tripCalls>>

\* scheduleTrips over a trip that exists: bus and capacity are written again and
\* the trip is open again, whatever it was.
RescheduleTrip(t, row) ==
  /\ t \in DOMAIN trips
  /\ trips' = [trips EXCEPT ![t].status = "OPEN_FOR_RESERVATION",
                            ![t].bus = row.bus, ![t].capacity = row.capacity]
  /\ UNCHANGED <<reservations, users, tripCalls>>

\* updateTrip: any of the columns, to anything.
UpdateTrip(t, row) ==
  /\ t \in DOMAIN trips
  /\ \E columns \in SUBSET {"status", "capacity", "bus", "leaders"} :
       trips' = [trips EXCEPT ![t] =
         [status |-> IF "status" \in columns THEN row.status ELSE @.status,
          capacity |-> IF "capacity" \in columns THEN row.capacity ELSE @.capacity,
          bus |-> IF "bus" \in columns THEN row.bus ELSE @.bus,
          leaders |-> IF "leaders" \in columns THEN row.leaders ELSE @.leaders]]
  /\ UNCHANGED <<reservations, users, tripCalls>>

\* DriverService.departTrip, by the trip's driver.
DepartTrip(t) ==
  /\ t \in DOMAIN trips
  /\ trips' = [trips EXCEPT ![t].status = "ONGOING"]
  /\ UNCHANGED <<reservations, users, tripCalls>>

----------------------------------------------------------------------------

DropTripCalls ==
  /\ finishes' = Dropped(finishes)
  /\ relocations' = Dropped(relocations)

ReceiveTripCall ==
  \/ \E f \in Finishes, request \in FinishRequests : ReceiveFinish(f, request)
  \/ \E r \in Relocations, request \in RelocationRequests :
       ReceiveRelocation(r, request)

TripCallStep ==
  \/ \E f \in Finishes : FinishStep(f)
  \/ \E r \in Relocations : RelocationStep(r)

TripWrite ==
  \E t \in StaffTrips :
    \/ DepartTrip(t)
    \/ \E row \in TripRows : CreateTrip(t, row) \/ RescheduleTrip(t, row) \/ UpdateTrip(t, row)

TripsStep == ReceiveTripCall \/ TripCallStep \/ TripWrite

TripsRestart == DropTripCalls /\ UNCHANGED tables

TripsNext == TripsStep \/ TripsRestart

TripsInit == TablesInit /\ TripCallsInit

\* As for reservations: the handlers wait for nothing but the database.
TripsFairness ==
  /\ \A f \in Finishes : WF_tripVars(FinishStep(f))
  /\ \A r \in Relocations : WF_tripVars(RelocationStep(r))

TripsSpec == TripsInit /\ [][TripsNext]_tripVars /\ TripsFairness

----------------------------------------------------------------------------
(* Properties *)

TripsTypeOK == TablesTypeOK /\ TripCallsTypeOK

(***************************************************************************)
(* The penalty loop leaves nobody out: a user whose reservation it has     *)
(* marked absent, and whose turn is over, has the seat block and a level   *)
(* beyond the first, whatever other calls wrote to that user meanwhile;    *)
(* once the call has answered 200 that is every user of its snapshot.      *)
(***************************************************************************)
Punished(u) == users[u].blocked /\ users[u].level >= 2

PenaltiesApplied ==
  \A f \in DOMAIN finishes :
    LET call == finishes[f]
        pending == {a.user : a \in call.todo}
                   \cup IF call.pc \in {"level", "penalise"} THEN {call.victim} ELSE {}
    IN
    /\ call.pc # "lost" =>
         \A a \in call.snapshot : a.user \in pending \/ Punished(a.user)
    /\ call.answer = "200" => \A a \in call.snapshot : Punished(a.user)

(***************************************************************************)
(* A relocation leaves nobody of its snapshot behind: a passenger it has   *)
(* handled is on the destination trip, or has cancelled, or was taken on   *)
(* by another relocation that read the same row.                           *)
(***************************************************************************)
RelocatedTogether ==
  \A r \in DOMAIN relocations :
    \A p \in relocations[r].snapshot \ relocations[r].todo :
      \/ p.id \notin Live
      \/ reservations[p.id].trip = relocations[r].request.destination
      \/ \E q \in DOMAIN relocations \ {r} :
           \E other \in relocations[q].snapshot : other.id = p.id

(***************************************************************************)
(* A completed relocation fills the destination from the front: below the  *)
(* seat of a passenger it moved no seat was left empty, until another      *)
(* relocation comes.  (A trip relocated to itself, which nothing refuses,  *)
(* is shifted back instead: its own seats count as occupied.)              *)
(***************************************************************************)
FilledFromFront ==
  \A r \in DOMAIN relocations :
    LET call == relocations[r] IN
    /\ call.answer = "200" /\ call.request.destination # call.request.trip
    /\ DOMAIN relocations = {r}
    => \A p \in call.snapshot : p.seated =>
        \A s \in 1..(reservations[p.id].seat - 1) :
          s \in SeatsOf(call.request.destination)

AbsencesOf(u) ==
  {i \in Live : reservations[i].user = u /\ reservations[i].status = "ABSENT"}

\* The level after n absences of a user who registered with level start: 1 (holder),
\* 2 or 3 (riders), or none (0).
LevelAfter(start, n) ==
  LET first == IF start = 0 THEN 1 ELSE start
  IN  IF n = 0 THEN start ELSE IF first + n > 3 THEN 3 ELSE first + n

\* Between the ABSENT and the penalty of user u.
OwedBy(call, u) == call.pc \in {"level", "penalise"} /\ call.victim = u

Owed(u) == \E f \in DOMAIN finishes : OwedBy(finishes[f], u)

\* The call has user u before it: in a row its loop is to reach, or under its hands.
InHand(call, u) ==
  \/ call.pc \in {"loop", "level", "penalise"} /\ \E a \in call.todo : a.user = u
  \/ OwedBy(call, u)

\* No two finishes have u in hand at once, and no restart dropped one that read a row
\* of u.
OneAtATime(u) ==
  /\ \A f, g \in DOMAIN finishes :
       InHand(finishes[f], u) /\ InHand(finishes[g], u) => f = g
  /\ \A f \in DOMAIN finishes :
       finishes[f].pc = "lost" => \A a \in finishes[f].snapshot : a.user # u

\* What LevelCountsAbsences says of user u who starts with this row.
LevelFrom(u, row) ==
  users[u] = row /\ []OneAtATime(u) =>
    [](Owed(u) \/ users[u].level = LevelAfter(row.level, Cardinality(AbsencesOf(u))))

(***************************************************************************)
(* A student's priority level goes up by one, and never past 3, for each   *)
(* trip missed (trips.service.ts:532), from the level the student          *)
(* registered with: no absence is charged twice when a trip is finished    *)
(* again, reopened or not, or another finish works on other students at    *)
(* the same time, and none is forgotten.  Where two finishes have the same *)
(* student in hand an increment can be lost or charged twice, and a        *)
(* restart can drop one; the property is about everybody else.             *)
(***************************************************************************)
LevelCountsAbsences == \A u \in Students, row \in UserRows : LevelFrom(u, row)

(***************************************************************************)
(* 'Absences confirmed and penalties applied' (trips.service.ts:551): when *)
(* a call has answered that for a trip, whoever is absent on it is blocked.*)
(***************************************************************************)
AbsentArePunished ==
  \A f \in DOMAIN finishes :
    finishes[f].answer = "200" =>
      \A i \in OfTrip(finishes[f].request.trip) :
        reservations[i].status = "ABSENT" => users[reservations[i].user].blocked

(***************************************************************************)
(* Every finish and relocation is answered, or dropped by a restart: both  *)
(* loops come to an end.                                                   *)
(***************************************************************************)
EveryTripCallAnswered ==
  /\ \A f \in Finishes :
       f \in DOMAIN finishes ~> f \in DOMAIN finishes /\ finishes[f].pc \in {"done", "lost"}
  /\ \A r \in Relocations :
       r \in DOMAIN relocations ~>
         r \in DOMAIN relocations /\ relocations[r].pc \in {"done", "lost"}
============================================================================
