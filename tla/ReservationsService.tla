------------------------ MODULE ReservationsService ------------------------
(***************************************************************************)
(* ReservationsService: create, update and remove, as the calls students   *)
(* make through ReservationsController (POST, PATCH and DELETE reserve).   *)
(* A call is a record whose pc names the statement it sends next; between  *)
(* two of its statements any other call may run.  A call is "done" when    *)
(* its last statement has run and its answer is known (whether the client  *)
(* still receives it is not modelled) and "lost" when a restart dropped it *)
(* before.  It is made once and keeps its record, so properties can look   *)
(* back at it.                                                             *)
(*                                                                         *)
(* The row a create call inserts has the call's own name as its id: the id *)
(* is a fresh UUID and one call inserts at most one row.                   *)
(***************************************************************************)
EXTENDS BookingTables

CONSTANTS
  Creates,        \* POST calls
  Edits,          \* PATCH and DELETE calls
  Posts,          \* POST requests students may send, see PostRequest
  Changes,        \* PATCH and DELETE requests students may send
  RegistrationChanges \* statuses users.service and the crons may set meanwhile

KeepSeat == -1        \* a PATCH body without seatNumber
KeepStatus == "KEEP"  \* a PATCH body without status

\* The pickupPointId of a body is absent, a stop of the trip's route, or not.
PickupPoint == {"absent", "stop", "elsewhere"}

PostRequest ==
  [user: Students, trip: Trips, seat: Seats \cup {NoSeat}, point: PickupPoint]

\* The DTO asks of a seat only that it is at least 1.  Both fields are optional,
\* and so null passes for either: @IsOptional skips the other validators then.
ChangeRequest ==
  [op: {"update", "remove"}, user: Students, id: ResIds,
   seat: Seats \cup {NoSeat, KeepSeat},
   status: ReservationStatus \cup {NoStatus, KeepStatus}]

ASSUME ReservationsAssumption ==
  /\ ResIds = Booked \cup Creates
  /\ Booked \cap Creates = {}
  /\ Posts \subseteq PostRequest
  /\ Changes \subseteq ChangeRequest
  /\ RegistrationChanges \subseteq RegistrationStatus

VARIABLES
  creates,  \* create call -> record, for the calls received so far
  edits     \* update or remove call -> record

reservationCalls == <<creates, edits>>
reservationVars == <<tables, reservationCalls>>

----------------------------------------------------------------------------

Answers == {"none", "200", "201", "400", "403", "404", "409", "500"}

CreateCall ==
  [pc: {"account", "duplicate", "trip", "count", "insert", "done", "lost"},
   request: PostRequest, capacity: Nat, answer: Answers]

EditCall ==
  [pc: {"find", "write", "done", "lost"}, request: ChangeRequest, answer: Answers]

ReservationCallsTypeOK ==
  /\ DOMAIN creates \subseteq Creates
  /\ \A c \in DOMAIN creates : creates[c] \in CreateCall
  /\ DOMAIN edits \subseteq Edits
  /\ \A e \in DOMAIN edits : edits[e] \in EditCall

ReservationCallsInit ==
  /\ creates = [c \in {} |-> c]
  /\ edits = [e \in {} |-> e]

----------------------------------------------------------------------------
(* POST reserve *)

CreateGoto(c, pc) == creates' = [creates EXCEPT ![c].pc = pc]

CreateAnswer(c, code) ==
  creates' = [creates EXCEPT ![c].pc = "done", ![c].answer = code]

ReceiveCreate(c, request) ==
  /\ c \notin DOMAIN creates
  /\ creates' = With(creates, c,
       [pc |-> "account", request |-> request, capacity |-> 0, answer |-> "none"])
  /\ UNCHANGED <<tables, edits>>

\* 1. The account: a suspended or inactive student is turned away.
CheckAccount(c) ==
  /\ creates[c].pc = "account"
  /\ IF users[creates[c].request.user].registration \in {"SUSPENDED", "INACTIVE"}
       THEN CreateAnswer(c, "403")
       ELSE CreateGoto(c, "duplicate")
  /\ UNCHANGED <<tables, edits>>

\* Mutant of HasActiveReservation: excess reservations are forgotten.
HasConfirmedReservation(u, t) ==
  \E i \in OfTrip(t) :
    reservations[i].user = u /\ reservations[i].status = "CONFIRMED"

HasActiveReservation(u, t) ==
  \E i \in OfTrip(t) : reservations[i].user = u /\ Active(i)

\* 1b. One active reservation per trip, as far as Active sees it.
CheckDuplicate(c) ==
  /\ creates[c].pc = "duplicate"
  /\ IF HasActiveReservation(creates[c].request.user, creates[c].request.trip)
       THEN CreateAnswer(c, "409")
       ELSE CreateGoto(c, "trip")
  /\ UNCHANGED <<tables, edits>>

WheelchairFits(u, bus) == u \in Wheelchair => bus \in Elevator

\* An inbound trip needs a dropoff point of its route; an outbound one takes the
\* pickup point named, or the user's default when none is.
PointAccepted(u, t, p) ==
  \/ p = "stop"
  \/ p = "absent" /\ t \in Outbound /\ <<u, t>> \in HomeStop

\* A seat must be a SEAT cell of the layout; a bus without one has no such seat.
SeatAccepted(s, bus) == s = NoSeat \/ s \in SeatCells[bus]

\* 2-5. The trip, and the rows it leads to that bookings never change: bus,
\* stops, layout.
ReadTrip(c) ==
  LET request == creates[c].request
      trip == trips[request.trip]
      accepted == /\ WheelchairFits(request.user, trip.bus)
                  /\ PointAccepted(request.user, request.trip, request.point)
                  /\ SeatAccepted(request.seat, trip.bus)
  IN
  /\ creates[c].pc = "trip"
  /\ \/ /\ request.trip \notin DOMAIN trips
        /\ CreateAnswer(c, "404")
     \/ /\ request.trip \in DOMAIN trips /\ ~ accepted
        /\ CreateAnswer(c, "400")
     \/ /\ request.trip \in DOMAIN trips /\ accepted
        /\ creates' = [creates EXCEPT
             ![c].pc = IF request.seat = NoSeat THEN "count" ELSE "insert",
             ![c].capacity = trip.capacity]
  /\ UNCHANGED <<tables, edits>>

\* An excess reservation needs every seat of the capacity read before taken.
CountSeats(c) ==
  /\ creates[c].pc = "count"
  /\ IF Cardinality(SeatedOn(creates[c].request.trip)) < creates[c].capacity
       THEN CreateAnswer(c, "400")
       ELSE CreateGoto(c, "insert")
  /\ UNCHANGED <<tables, edits>>

NewReservation(request) ==
  [trip |-> request.trip, user |-> request.user, seat |-> request.seat,
   status |-> IF request.seat = NoSeat THEN "EXCESS" ELSE "CONFIRMED"]

\* Mutant of InsertRow: nothing answers a call whose seat was taken.
InsertRowFree(c) ==
  LET request == creates[c].request IN
  /\ creates[c].pc = "insert"
  /\ ~ SeatTaken(request.trip, request.seat, c)
  /\ InsertReservation(c, NewReservation(request))
  /\ CreateAnswer(c, "201")
  /\ UNCHANGED <<trips, users, edits>>

\* The INSERT, which alone decides who gets a seat two students ask for.  After it
\* create only returns the row, so that the answer is part of the step.
InsertRow(c) ==
  LET request == creates[c].request IN
  /\ creates[c].pc = "insert"
  /\ \/ /\ SeatTaken(request.trip, request.seat, c)
        /\ CreateAnswer(c, "409")
        /\ UNCHANGED reservations
     \/ /\ ~ SeatTaken(request.trip, request.seat, c)
        /\ InsertReservation(c, NewReservation(request))
        /\ CreateAnswer(c, "201")
  /\ UNCHANGED <<trips, users, edits>>

CreateStep(c) ==
  /\ c \in DOMAIN creates
  /\ \/ CheckAccount(c)
     \/ CheckDuplicate(c)
     \/ ReadTrip(c)
     \/ CountSeats(c)
     \/ InsertRow(c)

----------------------------------------------------------------------------
(* PATCH and DELETE reserve *)

EditAnswer(e, code) ==
  edits' = [edits EXCEPT ![e].pc = "done", ![e].answer = code]

ReceiveEdit(e, request) ==
  /\ e \notin DOMAIN edits
  /\ edits' = With(edits, e, [pc |-> "find", request |-> request, answer |-> "none"])
  /\ UNCHANGED <<tables, creates>>

\* Mutant of Owns: no ownership check.
OwnsAnything(request) == TRUE

Owns(request) == reservations[request.id].user = request.user

\* The row must exist and belong to the caller.
FindOwn(e) ==
  LET request == edits[e].request IN
  /\ edits[e].pc = "find"
  /\ \/ request.id \notin Live /\ EditAnswer(e, "404")
     \/ request.id \in Live /\ ~ Owns(request) /\ EditAnswer(e, "403")
     \/ /\ request.id \in Live /\ Owns(request)
        /\ edits' = [edits EXCEPT ![e].pc = "write"]
  /\ UNCHANGED <<tables, creates>>

\* Mutant of Patched: an absent seatNumber is written too.
PatchedAlways(row, request) ==
  [row EXCEPT !.seat = request.seat,
              !.status = IF request.status = KeepStatus THEN @ ELSE request.status]

\* The row after the SET clause of a PATCH, whatever trip it is on by now.
Patched(row, request) ==
  [row EXCEPT !.seat = IF request.seat = KeepSeat THEN @ ELSE request.seat,
              !.status = IF request.status = KeepStatus THEN @ ELSE request.status]

\* UPDATE ... WHERE id: a row removed meanwhile is no error; an empty SET clause
\* and a seat already taken are, and nothing catches them.
WriteUpdate(e) ==
  LET request == edits[e].request
      row == Patched(reservations[request.id], request)
      emptySet == request.seat = KeepSeat /\ request.status = KeepStatus
      refused == \/ emptySet
                 \/ request.id \in Live /\ SeatTaken(row.trip, row.seat, request.id)
  IN
  /\ edits[e].pc = "write" /\ request.op = "update"
  /\ \/ refused /\ EditAnswer(e, "500") /\ UNCHANGED reservations
     \/ /\ ~ refused /\ request.id \notin Live
        /\ EditAnswer(e, "200")
        /\ UNCHANGED reservations
     \/ /\ ~ refused /\ request.id \in Live
        /\ UpdateReservation(request.id, row)
        /\ EditAnswer(e, "200")
  /\ UNCHANGED <<trips, users, creates>>

\* DELETE ... WHERE id: the seat is free again.
WriteRemove(e) ==
  /\ edits[e].pc = "write" /\ edits[e].request.op = "remove"
  /\ DeleteReservation(edits[e].request.id)
  /\ EditAnswer(e, "200")
  /\ UNCHANGED <<trips, users, creates>>

EditStep(e) ==
  /\ e \in DOMAIN edits
  /\ FindOwn(e) \/ WriteUpdate(e) \/ WriteRemove(e)

----------------------------------------------------------------------------

\* users.service and the cron jobs move a student's registration at any time.
MoveRegistration(u, r) ==
  /\ users' = [users EXCEPT ![u].registration = r]
  /\ UNCHANGED <<reservations, trips, reservationCalls>>

DropReservationCalls ==
  /\ creates' = Dropped(creates)
  /\ edits' = Dropped(edits)

ReceiveReservationCall ==
  \/ \E c \in Creates, request \in Posts : ReceiveCreate(c, request)
  \/ \E e \in Edits, request \in Changes : ReceiveEdit(e, request)

ReservationsStep ==
  \/ ReceiveReservationCall
  \/ \E c \in Creates : CreateStep(c)
  \/ \E e \in Edits : EditStep(e)
  \/ \E u \in Users, r \in RegistrationChanges : MoveRegistration(u, r)

ReservationsRestart == DropReservationCalls /\ UNCHANGED tables

ReservationsNext == ReservationsStep \/ ReservationsRestart

ReservationsInit == TablesInit /\ ReservationCallsInit

\* Node keeps running every handler it has started: no step of a call waits for
\* anything but the database.
CreateRuns(c) == WF_reservationVars(CreateStep(c))
EditRuns(e) == WF_reservationVars(EditStep(e))

ReservationsFairness ==
  /\ \A c \in Creates : CreateRuns(c)
  /\ \A e \in Edits : EditRuns(e)

ReservationsSpec ==
  ReservationsInit /\ [][ReservationsNext]_reservationVars /\ ReservationsFairness

----------------------------------------------------------------------------
(* Properties *)

ReservationsTypeOK == TablesTypeOK /\ ReservationCallsTypeOK

(***************************************************************************)
(* What a POST was answered agrees with the table ever after: a call that  *)
(* was refused, was dropped before its INSERT or is still running has no   *)
(* row, and the row of a call answered 201 is there unless its owner's own *)
(* DELETE took it away.  A restart between the INSERT and the answer is    *)
(* outside the property: the two are one step here, so such a call counts  *)
(* as answered.                                                            *)
(***************************************************************************)
AnswersMatchTable ==
  \A c \in DOMAIN creates :
    IF creates[c].answer = "201"
      THEN \/ c \in Live /\ reservations[c].user = creates[c].request.user
           \/ \E e \in DOMAIN edits :
                /\ edits[e].request.op = "remove" /\ edits[e].answer = "200"
                /\ edits[e].request.id = c
                /\ edits[e].request.user = creates[c].request.user
      ELSE c \notin Live

\* What makes AnswersMatchTable inductive.  Only a finished call has an answer; a
\* call that has a row has answered 201; a PATCH or DELETE about to write was sent by
\* the owner of its row, and a call whose row it has seen has answered.
AnsweredWhenDone ==
  /\ \A c \in DOMAIN creates : creates[c].pc # "done" => creates[c].answer = "none"
  /\ \A e \in DOMAIN edits : edits[e].pc # "done" => edits[e].answer = "none"

Created(c) == c \in DOMAIN creates /\ creates[c].answer = "201"

RowsAreCreated == \A c \in Creates : c \in Live => Created(c)

WritersOwn ==
  \A e \in DOMAIN edits :
    edits[e].pc = "write" =>
      LET id == edits[e].request.id IN
      /\ id \in Live => reservations[id].user = edits[e].request.user
      /\ id \in Creates => Created(id)

AnswersInv == AnsweredWhenDone /\ RowsAreCreated /\ WritersOwn /\ AnswersMatchTable

\* The step writes excess reservation c while every seat of its trip is taken.
WrittenWhenFull(c) ==
  LET t == reservations'[c].trip
      seated == {i \in OfTrip(t) : reservations[i].seat # NoSeat}
  IN  Cardinality(seated) >= trips[t].capacity

\* Some student has changed or removed a reservation.
GivenBack == \E e \in DOMAIN edits : edits[e].answer = "200"

(***************************************************************************)
(* 'Excess voting only opens when capacity is full'                        *)
(* (reservations.service.ts:179): until some student changes or removes a  *)
(* reservation the count taken before an INSERT cannot go stale, whatever  *)
(* other students book between the two statements, and an excess           *)
(* reservation is written only when every seat of the trip is taken.       *)
(***************************************************************************)
ExcessOnlyAfterFull ==
  [][\A c \in Live' \ Live :
       reservations'[c].seat = NoSeat => WrittenWhenFull(c) \/ GivenBack
    ]_reservationVars

\* A PATCH with status: null has written NULL into the status of reservation i.
StatusErased(i) ==
  \E e \in DOMAIN edits :
    /\ edits[e].request.op = "update" /\ edits[e].answer = "200"
    /\ edits[e].request.id = i /\ edits[e].request.status = NoStatus

\* Not cancelled, and with the status it was given or a later one.
Standing(i) == reservations[i].status # "CANCELLED_BY_SYSTEM" /\ ~ StatusErased(i)

(***************************************************************************)
(* A student who holds a reservation for a trip gets no second one         *)
(* (reservations.service.ts:56) - with two exceptions the code makes.  The *)
(* check passes over a reservation whose owner has PATCHed its status to   *)
(* null: such a student does hold two, and the property leaves that pair   *)
(* out (Standing).  And POST alone checks, so this is about days without a *)
(* PATCH that takes a cancelled reservation up again after its owner has   *)
(* made another.                                                           *)
(***************************************************************************)
OneActivePerTrip ==
  \A i, j \in Live :
    /\ reservations[i].user = reservations[j].user
    /\ reservations[i].trip = reservations[j].trip
    /\ Standing(i) /\ Standing(j)
    => i = j

\* Each student waits for an answer before sending the next POST.  A dropped call
\* is over: whatever it was going to write is never written.
Waiting(u) ==
  {c \in DOMAIN creates :
     creates[c].request.user = u /\ creates[c].pc \notin {"done", "lost"}}

PatientSpec ==
  /\ ReservationsInit
  /\ [][ReservationsNext /\ \A u \in Users : Cardinality(Waiting(u)') <= 1
      ]_reservationVars
  /\ ReservationsFairness

CreateOver(c) == c \in DOMAIN creates /\ creates[c].pc \in {"done", "lost"}
EditOver(e) == e \in DOMAIN edits /\ edits[e].pc \in {"done", "lost"}

(***************************************************************************)
(* None of the early returns and error paths leaves a call without a next  *)
(* statement, and no statement waits for another call: what is not over    *)
(* can always go on.  This follows from the shape of the actions, which    *)
(* have a branch for every case; it is no property of its own but what the *)
(* proof that every call is answered starts from.                          *)
(***************************************************************************)
CallsProceed ==
  /\ \A c \in DOMAIN creates :
       CreateOver(c) \/ ENABLED <<CreateStep(c)>>_reservationVars
  /\ \A e \in DOMAIN edits :
       EditOver(e) \/ ENABLED <<EditStep(e)>>_reservationVars

CreateAnswered(c) == c \in DOMAIN creates ~> CreateOver(c)
EditAnswered(e) == e \in DOMAIN edits ~> EditOver(e)

(***************************************************************************)
(* Every call received is answered, or dropped by a restart.               *)
(***************************************************************************)
EveryCallAnswered ==
  /\ \A c \in Creates : CreateAnswered(c)
  /\ \A e \in Edits : EditAnswered(e)
============================================================================
