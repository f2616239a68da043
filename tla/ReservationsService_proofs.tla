--------------------- MODULE ReservationsService_proofs ---------------------
(***************************************************************************)
(* Type correctness, seat uniqueness, the refinement of SeatAllocation,    *)
(* the agreement of answers and rows, excess reservations, one active      *)
(* reservation per trip, and the answer to every call in                   *)
(* ReservationsService, for any students, trips and seats and any number   *)
(* of calls.                                                               *)
(***************************************************************************)
EXTENDS ReservationsService, BookingTables_proofs

\* Every step of a student's call, or of an account, is a lawful statement.
LEMMA ReservationsLawful ==
  ASSUME TablesTypeOK, ReservationCallsTypeOK, ReservationsStep
  PROVE  LawfulStatement
<1>1. ASSUME NEW c \in DOMAIN creates, InsertRow(c)
      PROVE  LawfulStatement
  <2> DEFINE request == creates[c].request
             row == NewReservation(request)
  <2>1. c \in ResIds /\ request \in PostRequest
    BY ReservationsAssumption DEF ReservationCallsTypeOK, CreateCall
  <2>2. row \in Reservation /\ row.trip = request.trip /\ row.seat = request.seat
    BY <2>1, TablesAssumption
       DEF NewReservation, PostRequest, Reservation, ReservationStatus
  <2>3. CASE UNCHANGED reservations
    BY <2>3 DEF LawfulStatement
  <2>4. CASE ~ SeatTaken(request.trip, request.seat, c) /\ InsertReservation(c, row)
    BY <2>1, <2>2, <2>4 DEF LawfulStatement, Writes
  <2>5. QED
    BY <1>1, <2>3, <2>4 DEF InsertRow
<1>2. ASSUME NEW e \in DOMAIN edits, WriteUpdate(e)
      PROVE  LawfulStatement
  <2> DEFINE request == edits[e].request
             row == Patched(reservations[request.id], request)
  <2>1. request \in ChangeRequest
    BY DEF ReservationCallsTypeOK, EditCall
  <2>2. CASE UNCHANGED reservations
    BY <2>2 DEF LawfulStatement
  <2>3. CASE /\ request.id \in Live
             /\ ~ SeatTaken(row.trip, row.seat, request.id)
             /\ UpdateReservation(request.id, row)
    <3>1. reservations[request.id] \in Reservation
      BY <2>3 DEF TablesTypeOK, Live
    <3>2. row \in Reservation /\ request.id \in ResIds
      BY <2>1, <3>1 DEF Patched, ChangeRequest, Reservation, KeepSeat, KeepStatus
    <3>3. QED
      BY <2>3, <3>2 DEF LawfulStatement, Writes
  <2>4. QED
    BY <1>2, <2>2, <2>3 DEF WriteUpdate
<1>3. ASSUME NEW e \in DOMAIN edits, WriteRemove(e)
      PROVE  LawfulStatement
  <2>1. edits[e].request.id \in ResIds
    BY DEF ReservationCallsTypeOK, EditCall, ChangeRequest
  <2>2. QED
    BY <1>3, <2>1 DEF WriteRemove, LawfulStatement
<1>4. ASSUME UNCHANGED reservations
      PROVE  LawfulStatement
  BY <1>4 DEF LawfulStatement
<1>5. QED
  BY <1>1, <1>2, <1>3, <1>4
     DEF ReservationsStep, ReceiveReservationCall, ReceiveCreate, ReceiveEdit,
         CreateStep, CheckAccount, CheckDuplicate, ReadTrip, CountSeats,
         EditStep, FindOwn, MoveRegistration, tables

LEMMA CreateCallsTyped ==
  ASSUME TablesTypeOK, ReservationCallsTypeOK, NEW c \in Creates, CreateStep(c)
  PROVE  ReservationCallsTypeOK' /\ UNCHANGED <<trips, users>>
<1>1. c \in DOMAIN creates /\ creates[c] \in CreateCall /\ edits' = edits
  BY DEF ReservationCallsTypeOK, CreateStep, CheckAccount, CheckDuplicate, ReadTrip,
         CountSeats, InsertRow
<1>2. PICK call \in CreateCall : creates' = [creates EXCEPT ![c] = call]
  <2>1. ASSUME NEW code \in Answers, CreateAnswer(c, code)
        PROVE  \E call \in CreateCall : creates' = [creates EXCEPT ![c] = call]
    BY <1>1, <2>1 DEF CreateAnswer, CreateCall
  <2>2. ASSUME NEW pc \in {"duplicate", "trip", "insert"}, CreateGoto(c, pc)
        PROVE  \E call \in CreateCall : creates' = [creates EXCEPT ![c] = call]
    BY <1>1, <2>2 DEF CreateGoto, CreateCall
  <2>3. CASE CheckAccount(c)
    <3>1. CreateAnswer(c, "403") \/ CreateGoto(c, "duplicate")
      BY <2>3 DEF CheckAccount
    <3>2. QED
      BY <2>1, <2>2, <3>1 DEF Answers
  <2>4. CASE CheckDuplicate(c)
    <3>1. CreateAnswer(c, "409") \/ CreateGoto(c, "trip")
      BY <2>4 DEF CheckDuplicate
    <3>2. QED
      BY <2>1, <2>2, <3>1 DEF Answers
  <2>5. CASE ReadTrip(c)
    BY <1>1, <2>5 DEF ReadTrip, CreateAnswer, CreateCall, Answers, TablesTypeOK, Trip
  <2>6. CASE CountSeats(c)
    <3>1. CreateAnswer(c, "400") \/ CreateGoto(c, "insert")
      BY <2>6 DEF CountSeats
    <3>2. QED
      BY <2>1, <2>2, <3>1 DEF Answers
  <2>7. CASE InsertRow(c)
    <3>1. CreateAnswer(c, "409") \/ CreateAnswer(c, "201")
      BY <2>7 DEF InsertRow
    <3>2. QED
      BY <2>1, <3>1 DEF Answers
  <2>8. QED
    BY <2>3, <2>4, <2>5, <2>6, <2>7 DEF CreateStep
<1>3. UNCHANGED <<trips, users>>
  BY DEF CreateStep, CheckAccount, CheckDuplicate, ReadTrip, CountSeats, InsertRow, tables
<1>4. QED
  BY <1>1, <1>2, <1>3 DEF ReservationCallsTypeOK

LEMMA EditCallsTyped ==
  ASSUME ReservationCallsTypeOK, NEW e \in Edits, EditStep(e)
  PROVE  ReservationCallsTypeOK' /\ UNCHANGED <<trips, users>>
<1>1. e \in DOMAIN edits /\ edits[e] \in EditCall /\ creates' = creates
  BY DEF ReservationCallsTypeOK, EditStep, FindOwn, WriteUpdate, WriteRemove
<1>2. PICK call \in EditCall : edits' = [edits EXCEPT ![e] = call]
  BY <1>1 DEF EditStep, FindOwn, WriteUpdate, WriteRemove, EditAnswer, EditCall, Answers
<1>3. UNCHANGED <<trips, users>>
  BY DEF EditStep, FindOwn, WriteUpdate, WriteRemove, tables
<1>4. QED
  BY <1>1, <1>2, <1>3 DEF ReservationCallsTypeOK

LEMMA ReservationsTyped ==
  ASSUME TablesTypeOK, ReservationCallsTypeOK, ReservationsStep
  PROVE  TablesTypeOK' /\ ReservationCallsTypeOK'
<1>1. RowsTypeOK'
  BY ReservationsLawful, LawfulKeepsRows DEF TablesTypeOK, RowsTypeOK
<1>2. ASSUME NEW c \in Creates, NEW request \in Posts, ReceiveCreate(c, request)
      PROVE  ReservationCallsTypeOK' /\ UNCHANGED <<trips, users>>
  BY <1>2, ReservationsAssumption
     DEF ReceiveCreate, ReservationCallsTypeOK, CreateCall, Answers, With, tables
<1>3. ASSUME NEW e \in Edits, NEW request \in Changes, ReceiveEdit(e, request)
      PROVE  ReservationCallsTypeOK' /\ UNCHANGED <<trips, users>>
  BY <1>3, ReservationsAssumption
     DEF ReceiveEdit, ReservationCallsTypeOK, EditCall, Answers, With, tables
<1>4. ASSUME NEW u \in Users, NEW r \in RegistrationChanges, MoveRegistration(u, r)
      PROVE  ReservationCallsTypeOK' /\ UNCHANGED trips /\ users' \in [Users -> User]
  BY <1>4, ReservationsAssumption
     DEF MoveRegistration, ReservationCallsTypeOK, reservationCalls, TablesTypeOK, User
<1>5. ReservationCallsTypeOK' /\ UNCHANGED trips /\ users' \in [Users -> User]
  BY <1>2, <1>3, <1>4, CreateCallsTyped, EditCallsTyped
     DEF ReservationsStep, ReceiveReservationCall, TablesTypeOK
<1>6. QED
  BY <1>1, <1>5 DEF TablesTypeOK, RowsTypeOK

\* Dropping calls changes their pc only.
LEMMA ReservationsDropTyped ==
  ASSUME ReservationCallsTypeOK, DropReservationCalls
  PROVE  ReservationCallsTypeOK'
<1>1. \A c \in DOMAIN creates : [creates[c] EXCEPT !.pc = "lost"] \in CreateCall
  BY DEF ReservationCallsTypeOK, CreateCall
<1>2. \A e \in DOMAIN edits : [edits[e] EXCEPT !.pc = "lost"] \in EditCall
  BY DEF ReservationCallsTypeOK, EditCall
<1>3. QED
  BY <1>1, <1>2 DEF ReservationCallsTypeOK, DropReservationCalls, Dropped

\* For both specifications of ReservationsService.
LEMMA ReservationsStepsTyped ==
  ReservationsInit /\ [][ReservationsNext]_reservationVars => []ReservationsTypeOK
<1>1. ReservationsInit => ReservationsTypeOK
  BY TablesStart
     DEF ReservationsInit, ReservationsTypeOK, ReservationCallsInit, ReservationCallsTypeOK
<1>2. ReservationsTypeOK /\ [ReservationsNext]_reservationVars => ReservationsTypeOK'
  <2> SUFFICES ASSUME ReservationsTypeOK, [ReservationsNext]_reservationVars
               PROVE  ReservationsTypeOK'
    OBVIOUS
  <2>1. CASE ReservationsStep
    BY <2>1, ReservationsTyped DEF ReservationsTypeOK
  <2>2. CASE ReservationsRestart
    BY <2>2, ReservationsDropTyped
       DEF ReservationsTypeOK, ReservationsRestart, TablesTypeOK, tables
  <2>3. CASE UNCHANGED reservationVars
    BY <2>3 DEF ReservationsTypeOK, ReservationCallsTypeOK, TablesTypeOK,
                reservationVars, reservationCalls, tables
  <2>4. QED
    BY <2>1, <2>2, <2>3 DEF ReservationsNext
<1>3. QED
  BY <1>1, <1>2, PTL

(***************************************************************************)
(* The tables and the calls in flight keep their types, whatever students  *)
(* send and however their calls interleave.                                *)
(***************************************************************************)
THEOREM ReservationsTypeCorrect == ReservationsSpec => []ReservationsTypeOK
  BY ReservationsStepsTyped, PTL DEF ReservationsSpec

(***************************************************************************)
(* No seat of a trip is ever given twice, for any number of students       *)
(* booking, changing and cancelling at once.                               *)
(***************************************************************************)
THEOREM ReservationsSeatUnique == ReservationsSpec => []SeatUnique
<1>1. ReservationsInit => SeatUnique
  BY TablesStart DEF ReservationsInit
<1>2. ReservationsTypeOK /\ SeatUnique /\ [ReservationsNext]_reservationVars => SeatUnique'
  <2> SUFFICES ASSUME ReservationsTypeOK, SeatUnique, [ReservationsNext]_reservationVars
               PROVE  SeatUnique'
    OBVIOUS
  <2>1. CASE ReservationsStep
    BY <2>1, ReservationsLawful, LawfulKeepsSeatUnique DEF ReservationsTypeOK
  <2>2. CASE UNCHANGED reservations
    BY <2>2, UnchangedKeepsSeatUnique
  <2>3. QED
    BY <2>1, <2>2
       DEF ReservationsNext, ReservationsRestart, reservationVars, tables
<1>3. QED
  BY <1>1, <1>2, ReservationsTypeCorrect, PTL DEF ReservationsSpec

(***************************************************************************)
(* Booking, changing and cancelling by any number of students implement    *)
(* SeatAllocation: a call of several statements moves seats in one step,   *)
(* and one that fails or is dropped on the way moves none.                 *)
(***************************************************************************)
THEOREM ReservationsAllocatesSeats == ReservationsSpec => AllocatesSeats
<1>1. ReservationsInit /\ ReservationsTypeOK /\ SeatUnique => Allocation!Init
  BY AllocationStart DEF ReservationsTypeOK
<1>2. ReservationsTypeOK /\ [ReservationsNext]_reservationVars => [Allocation!Next]_Claims
  <2> SUFFICES ASSUME ReservationsTypeOK, [ReservationsNext]_reservationVars
               PROVE  Allocation!Next \/ Claims' = Claims
    OBVIOUS
  <2>1. CASE ReservationsStep
    BY <2>1, ReservationsLawful, LawfulAllocates DEF ReservationsTypeOK
  <2>2. CASE UNCHANGED reservations
    BY <2>2 DEF Claims, Live
  <2>3. QED
    BY <2>1, <2>2
       DEF ReservationsNext, ReservationsRestart, reservationVars, tables
<1>3. QED
  BY <1>1, <1>2, ReservationsTypeCorrect, ReservationsSeatUnique, PTL
     DEF ReservationsSpec, AllocatesSeats, Allocation!Spec

----------------------------------------------------------------------------
(* Answers and rows *)

\* A step of a create call that writes no row, or the receipt of one.
CreateMoves(c) ==
  /\ c \notin DOMAIN creates \/ creates[c].pc # "done"
  /\ DOMAIN creates' = DOMAIN creates \cup {c}
  /\ \A d \in DOMAIN creates \ {c} : creates'[d] = creates[d]
  /\ creates'[c].answer # "201"
  /\ creates'[c].pc # "done" => creates'[c].answer = "none"
  /\ UNCHANGED <<reservations, edits>>

LEMMA CreateMovesKeepsAnswers ==
  ASSUME AnswersInv, NEW c \in Creates, CreateMoves(c)
  PROVE  AnswersInv'
<1>1. \A d : Created(d) => d # c /\ Created(d)'
  BY DEF CreateMoves, Created, AnswersInv, AnsweredWhenDone
<1>2. AnsweredWhenDone'
  BY DEF CreateMoves, AnswersInv, AnsweredWhenDone
<1>3. RowsAreCreated'
  BY <1>1 DEF CreateMoves, AnswersInv, RowsAreCreated, Live
<1>4. WritersOwn'
  BY <1>1 DEF CreateMoves, AnswersInv, WritersOwn, Live
<1>5. AnswersMatchTable'
  <2>1. c \notin Live
    BY DEF CreateMoves, AnswersInv, AnsweredWhenDone, RowsAreCreated, Created
  <2>2. QED
    BY <2>1 DEF CreateMoves, AnswersInv, AnswersMatchTable, Live
<1>6. QED
  BY <1>2, <1>3, <1>4, <1>5 DEF AnswersInv

\* The INSERT gives a call its row and its 201 in one step.
LEMMA InsertKeepsAnswers ==
  ASSUME ReservationCallsTypeOK, AnswersInv, NEW c \in Creates, c \in DOMAIN creates,
         creates[c].pc = "insert",
         InsertReservation(c, NewReservation(creates[c].request)),
         CreateAnswer(c, "201"), UNCHANGED edits
  PROVE  AnswersInv'
<1> DEFINE row == NewReservation(creates[c].request)
<1>1. /\ Live' = Live \cup {c}
      /\ reservations'[c] = row
      /\ \A j \in Live \ {c} : reservations'[j] = reservations[j]
  BY WrittenRow DEF Writes
<1>2. /\ DOMAIN creates' = DOMAIN creates
      /\ creates'[c].pc = "done" /\ creates'[c].answer = "201"
      /\ creates'[c].request = creates[c].request
      /\ \A d \in DOMAIN creates \ {c} : creates'[d] = creates[d]
  BY DEF CreateAnswer, ReservationCallsTypeOK, CreateCall
<1>3. c \notin Live /\ ~ Created(c)
  BY DEF AnswersInv, AnsweredWhenDone, RowsAreCreated, Created
<1>4. Created(c)' /\ \A d : Created(d) => d # c /\ Created(d)'
  BY <1>2, <1>3 DEF Created
<1>5. AnsweredWhenDone'
  BY <1>2 DEF AnswersInv, AnsweredWhenDone
<1>6. RowsAreCreated'
  BY <1>1, <1>4 DEF AnswersInv, RowsAreCreated
<1>7. WritersOwn'
  BY <1>1, <1>3, <1>4 DEF AnswersInv, WritersOwn
<1>8. AnswersMatchTable'
  <2>1. reservations'[c].user = creates[c].request.user
    BY <1>1 DEF NewReservation
  <2>2. QED
    BY <1>1, <1>2, <2>1 DEF AnswersInv, AnswersMatchTable
<1>9. QED
  BY <1>5, <1>6, <1>7, <1>8 DEF AnswersInv

\* A step of a PATCH or DELETE, or the receipt of one: it may write its own row, not
\* the owner in it, and a DELETE that removes the row is answered 200 in that step.
EditMoves(e) ==
  /\ e \notin DOMAIN edits \/ edits[e].pc # "done"
  /\ DOMAIN edits' = DOMAIN edits \cup {e}
  /\ \A d \in DOMAIN edits \ {e} : edits'[d] = edits[d]
  /\ e \in DOMAIN edits => edits'[e].request = edits[e].request
  /\ edits'[e].pc # "done" => edits'[e].answer = "none"
  /\ edits'[e].pc = "write" =>
       edits'[e].request.id \in Live /\ Owns(edits'[e].request)
  /\ Live' \subseteq Live
  /\ \A i \in Live' : reservations'[i].user = reservations[i].user
  /\ \A i \in Live \ Live' :
       /\ e \in DOMAIN edits /\ edits[e].pc = "write" /\ edits[e].request.id = i
       /\ edits'[e].answer = "200" /\ edits[e].request.op = "remove"
  /\ UNCHANGED creates

LEMMA EditMovesKeepsAnswers ==
  ASSUME AnswersInv, DOMAIN edits \subseteq Edits, NEW e \in Edits, EditMoves(e)
  PROVE  AnswersInv'
<1>1. \A d : Created(d) <=> Created(d)'
  BY DEF EditMoves, Created
<1>2. AnsweredWhenDone'
  BY DEF EditMoves, AnswersInv, AnsweredWhenDone
<1>3. RowsAreCreated'
  BY <1>1 DEF EditMoves, AnswersInv, RowsAreCreated
<1>4. WritersOwn'
  <2>1. ASSUME NEW d \in DOMAIN edits', edits'[d].pc = "write",
               edits'[d].request.id \in Live'
        PROVE  reservations'[edits'[d].request.id].user = edits'[d].request.user
    BY <2>1 DEF EditMoves, Owns, AnswersInv, WritersOwn
  <2>2. ASSUME NEW d \in DOMAIN edits', edits'[d].pc = "write",
               edits'[d].request.id \in Creates
        PROVE  Created(edits'[d].request.id)
    BY <2>2 DEF EditMoves, AnswersInv, WritersOwn, RowsAreCreated
  <2>3. QED
    BY <1>1, <2>1, <2>2 DEF WritersOwn, Created
<1>5. AnswersMatchTable'
  <2>1. SUFFICES ASSUME NEW c \in DOMAIN creates
                 PROVE  IF creates[c].answer = "201"
                          THEN \/ c \in Live' /\ reservations'[c].user = creates[c].request.user
                               \/ \E d \in DOMAIN edits' :
                                    /\ edits'[d].request.op = "remove"
                                    /\ edits'[d].answer = "200"
                                    /\ edits'[d].request.id = c
                                    /\ edits'[d].request.user = creates[c].request.user
                          ELSE c \notin Live'
    BY DEF EditMoves, AnswersMatchTable
  <2>2. CASE creates[c].answer # "201"
    BY <2>2 DEF EditMoves, AnswersInv, AnswersMatchTable
  <2>3. CASE creates[c].answer = "201" /\ c \in Live'
    <3>1. CASE reservations[c].user = creates[c].request.user
      BY <2>3, <3>1 DEF EditMoves
    <3>2. CASE reservations[c].user # creates[c].request.user
      <4>1. PICK d \in DOMAIN edits :
              /\ edits[d].request.op = "remove" /\ edits[d].answer = "200"
              /\ edits[d].request.id = c
              /\ edits[d].request.user = creates[c].request.user
        BY <2>3, <3>2 DEF AnswersInv, AnswersMatchTable
      <4>2. d # e
        BY <4>1 DEF EditMoves, AnswersInv, AnsweredWhenDone
      <4>3. QED
        BY <2>3, <4>1, <4>2 DEF EditMoves
    <3>3. QED
      BY <3>1, <3>2
  <2>4. CASE creates[c].answer = "201" /\ c \notin Live'
    <3>1. CASE c \in Live /\ reservations[c].user = creates[c].request.user
      BY <2>4, <3>1 DEF EditMoves, AnswersInv, WritersOwn
    <3>2. CASE ~ (c \in Live /\ reservations[c].user = creates[c].request.user)
      <4>1. PICK d \in DOMAIN edits :
              /\ edits[d].request.op = "remove" /\ edits[d].answer = "200"
              /\ edits[d].request.id = c
              /\ edits[d].request.user = creates[c].request.user
        BY <2>4, <3>2 DEF AnswersInv, AnswersMatchTable
      <4>2. d # e
        BY <4>1 DEF EditMoves, AnswersInv, AnsweredWhenDone
      <4>3. QED
        BY <2>4, <4>1, <4>2 DEF EditMoves
    <3>3. QED
      BY <3>1, <3>2
  <2>5. QED
    BY <2>2, <2>3, <2>4
<1>6. QED
  BY <1>2, <1>3, <1>4, <1>5 DEF AnswersInv

\* Other writers may change rows, as long as none appears, goes or changes hands.
LEMMA OthersKeepAnswers ==
  ASSUME AnswersInv, UNCHANGED reservationCalls, Live' = Live,
         \A i \in Live : reservations'[i].user = reservations[i].user
  PROVE  AnswersInv'
<1>1. creates' = creates /\ edits' = edits
  BY DEF reservationCalls
<1>2. QED
  BY <1>1 DEF AnswersInv, AnsweredWhenDone, RowsAreCreated, WritersOwn, AnswersMatchTable,
              Created

LEMMA DropKeepsAnswers ==
  ASSUME AnswersInv, DropReservationCalls, UNCHANGED reservations
  PROVE  AnswersInv'
  BY DEF AnswersInv, AnsweredWhenDone, RowsAreCreated, WritersOwn, AnswersMatchTable,
         Created, DropReservationCalls, Dropped, Live

LEMMA CreateStepsKeepAnswers ==
  ASSUME ReservationCallsTypeOK, AnswersInv, NEW c \in Creates, CreateStep(c)
  PROVE  AnswersInv'
<1>1. c \in DOMAIN creates /\ creates[c] \in CreateCall
  BY DEF ReservationCallsTypeOK, CreateStep
<1>2. ASSUME NEW code, code # "201", creates[c].pc # "done", CreateAnswer(c, code),
             UNCHANGED <<reservations, edits>>
      PROVE  CreateMoves(c)
  BY <1>1, <1>2 DEF CreateMoves, CreateAnswer, CreateCall
<1>3. ASSUME NEW pc, creates[c].pc # "done", CreateGoto(c, pc), UNCHANGED <<reservations, edits>>
      PROVE  CreateMoves(c)
  BY <1>1, <1>3 DEF CreateMoves, CreateGoto, CreateCall, AnswersInv, AnsweredWhenDone
<1>4. CASE CheckAccount(c)
  <2>1. /\ CreateAnswer(c, "403") \/ CreateGoto(c, "duplicate")
        /\ creates[c].pc # "done" /\ UNCHANGED <<reservations, edits>>
    BY <1>4 DEF CheckAccount, tables
  <2>2. QED
    BY <1>2, <1>3, <2>1, CreateMovesKeepsAnswers
<1>5. CASE CheckDuplicate(c)
  <2>1. /\ CreateAnswer(c, "409") \/ CreateGoto(c, "trip")
        /\ creates[c].pc # "done" /\ UNCHANGED <<reservations, edits>>
    BY <1>5 DEF CheckDuplicate, tables
  <2>2. QED
    BY <1>2, <1>3, <2>1, CreateMovesKeepsAnswers
<1>6. CASE ReadTrip(c)
  <2>1. creates[c].pc = "trip" /\ UNCHANGED <<reservations, edits>>
    BY <1>6 DEF ReadTrip, tables
  <2>2. CASE CreateAnswer(c, "404") \/ CreateAnswer(c, "400")
    BY <1>2, <2>1, <2>2, CreateMovesKeepsAnswers
  <2>3. CASE \E pc, n : creates' = [creates EXCEPT ![c].pc = pc, ![c].capacity = n]
    <3>1. PICK pc, n : creates' = [creates EXCEPT ![c].pc = pc, ![c].capacity = n]
      BY <2>3
    <3>2. /\ DOMAIN creates' = DOMAIN creates
          /\ \A d \in DOMAIN creates \ {c} : creates'[d] = creates[d]
          /\ creates'[c].answer = creates[c].answer
      BY <1>1, <3>1 DEF CreateCall
    <3>3. creates[c].answer = "none"
      BY <1>1, <2>1 DEF AnswersInv, AnsweredWhenDone
    <3>4. CreateMoves(c)
      BY <1>1, <2>1, <3>2, <3>3 DEF CreateMoves
    <3>5. QED
      BY <3>4, CreateMovesKeepsAnswers
  <2>4. QED
    BY <1>6, <2>2, <2>3 DEF ReadTrip
<1>7. CASE CountSeats(c)
  <2>1. /\ CreateAnswer(c, "400") \/ CreateGoto(c, "insert")
        /\ creates[c].pc # "done" /\ UNCHANGED <<reservations, edits>>
    BY <1>7 DEF CountSeats, tables
  <2>2. QED
    BY <1>2, <1>3, <2>1, CreateMovesKeepsAnswers
<1>8. CASE InsertRow(c)
  <2>1. CASE CreateAnswer(c, "409") /\ UNCHANGED reservations
    <3>1. creates[c].pc # "done" /\ UNCHANGED edits
      BY <1>8 DEF InsertRow
    <3>2. QED
      BY <1>2, <2>1, <3>1, CreateMovesKeepsAnswers
  <2>2. CASE /\ InsertReservation(c, NewReservation(creates[c].request))
             /\ CreateAnswer(c, "201")
    <3>1. creates[c].pc = "insert" /\ UNCHANGED edits
      BY <1>8 DEF InsertRow
    <3>2. QED
      BY <1>1, <2>2, <3>1, InsertKeepsAnswers
  <2>3. QED
    BY <1>8, <2>1, <2>2 DEF InsertRow
<1>9. QED
  BY <1>4, <1>5, <1>6, <1>7, <1>8 DEF CreateStep

LEMMA EditStepsKeepAnswers ==
  ASSUME ReservationCallsTypeOK, AnswersInv, NEW e \in Edits, EditStep(e)
  PROVE  AnswersInv'
<1>1. /\ e \in DOMAIN edits /\ edits[e] \in EditCall /\ edits[e].pc # "done"
      /\ DOMAIN edits \subseteq Edits
  BY DEF ReservationCallsTypeOK, EditStep, FindOwn, WriteUpdate, WriteRemove
<1>2. SUFFICES EditMoves(e)
  BY <1>1, EditMovesKeepsAnswers
<1>3. ASSUME NEW code, EditAnswer(e, code)
      PROVE  /\ DOMAIN edits' = DOMAIN edits
             /\ \A d \in DOMAIN edits \ {e} : edits'[d] = edits[d]
             /\ edits'[e].request = edits[e].request
             /\ edits'[e].pc = "done" /\ edits'[e].answer = code
  BY <1>1, <1>3 DEF EditAnswer, EditCall
<1>4. CASE FindOwn(e)
  <2>1. UNCHANGED <<reservations, creates>>
    BY <1>4 DEF FindOwn, tables
  <2>2. CASE EditAnswer(e, "404") \/ EditAnswer(e, "403")
    BY <1>1, <1>3, <2>1, <2>2 DEF EditMoves, Live
  <2>3. CASE /\ edits[e].request.id \in Live /\ Owns(edits[e].request)
             /\ edits' = [edits EXCEPT ![e].pc = "write"]
    <3>1. /\ DOMAIN edits' = DOMAIN edits
          /\ \A d \in DOMAIN edits \ {e} : edits'[d] = edits[d]
          /\ edits'[e].request = edits[e].request
          /\ edits'[e].answer = edits[e].answer
      BY <1>1, <2>3 DEF EditCall
    <3>2. edits[e].answer = "none"
      BY <1>1 DEF AnswersInv, AnsweredWhenDone
    <3>3. QED
      BY <1>1, <2>1, <2>3, <3>1, <3>2 DEF EditMoves, Live
  <2>4. QED
    BY <1>4, <2>2, <2>3 DEF FindOwn
<1>5. CASE WriteUpdate(e)
  <2> DEFINE request == edits[e].request
             row == Patched(reservations[request.id], request)
  <2>1. UNCHANGED creates /\ (EditAnswer(e, "500") \/ EditAnswer(e, "200"))
    BY <1>5 DEF WriteUpdate
  <2>2. CASE UNCHANGED reservations
    BY <1>1, <1>3, <2>1, <2>2 DEF EditMoves, Live
  <2>3. CASE request.id \in Live /\ UpdateReservation(request.id, row)
    <3>1. /\ Live' = Live \cup {request.id}
          /\ reservations'[request.id] = row
          /\ \A j \in Live \ {request.id} : reservations'[j] = reservations[j]
      BY <2>3, WrittenRow DEF Writes
    <3>2. row.user = reservations[request.id].user
      BY DEF Patched
    <3>3. QED
      BY <1>1, <1>3, <2>1, <2>3, <3>1, <3>2 DEF EditMoves
  <2>4. QED
    BY <1>5, <2>2, <2>3 DEF WriteUpdate
<1>6. CASE WriteRemove(e)
  <2>1. /\ edits[e].pc = "write" /\ edits[e].request.op = "remove"
        /\ EditAnswer(e, "200") /\ UNCHANGED creates
    BY <1>6 DEF WriteRemove
  <2>2. /\ Live' = Live \ {edits[e].request.id}
        /\ \A j \in Live' : reservations'[j] = reservations[j]
    BY <1>6, DeletedRow DEF WriteRemove
  <2>3. QED
    BY <1>1, <1>3, <2>1, <2>2 DEF EditMoves
<1>7. QED
  BY <1>4, <1>5, <1>6 DEF EditStep

LEMMA ReservationsKeepAnswers ==
  ASSUME ReservationCallsTypeOK, AnswersInv, ReservationsStep
  PROVE  AnswersInv'
<1>1. ASSUME NEW c \in Creates, NEW request \in Posts, ReceiveCreate(c, request)
      PROVE  AnswersInv'
  <2>1. CreateMoves(c)
    BY <1>1 DEF ReceiveCreate, CreateMoves, With, tables
  <2>2. QED
    BY <2>1, CreateMovesKeepsAnswers
<1>2. ASSUME NEW e \in Edits, NEW request \in Changes, ReceiveEdit(e, request)
      PROVE  AnswersInv'
  <2>1. EditMoves(e)
    BY <1>2 DEF ReceiveEdit, EditMoves, With, tables, Live
  <2>2. QED
    BY <2>1, EditMovesKeepsAnswers DEF ReservationCallsTypeOK
<1>3. ASSUME NEW u \in Users, NEW r \in RegistrationChanges, MoveRegistration(u, r)
      PROVE  AnswersInv'
  BY <1>3, OthersKeepAnswers DEF MoveRegistration, Live
<1>4. QED
  BY <1>1, <1>2, <1>3, CreateStepsKeepAnswers, EditStepsKeepAnswers
     DEF ReservationsStep, ReceiveReservationCall

LEMMA AnswersStart ==
  ASSUME TablesInit, ReservationCallsInit
  PROVE  AnswersInv
  BY ReservationsAssumption
     DEF TablesInit, ReservationCallsInit, AnswersInv, AnsweredWhenDone, RowsAreCreated,
         WritersOwn, AnswersMatchTable, Live

LEMMA ReservationsAnswersInv == ReservationsSpec => []AnswersInv
<1>1. ReservationsInit => AnswersInv
  BY AnswersStart DEF ReservationsInit
<1>2. ReservationsTypeOK /\ AnswersInv /\ [ReservationsNext]_reservationVars => AnswersInv'
  <2> SUFFICES ASSUME ReservationsTypeOK, AnswersInv, [ReservationsNext]_reservationVars
               PROVE  AnswersInv'
    OBVIOUS
  <2>1. CASE ReservationsStep
    BY <2>1, ReservationsKeepAnswers DEF ReservationsTypeOK
  <2>2. CASE ReservationsRestart
    BY <2>2, DropKeepsAnswers DEF ReservationsRestart, tables
  <2>3. CASE UNCHANGED reservationVars
    BY <2>3, OthersKeepAnswers DEF reservationVars, tables, Live
  <2>4. QED
    BY <2>1, <2>2, <2>3 DEF ReservationsNext
<1>3. QED
  BY <1>1, <1>2, ReservationsTypeCorrect, PTL DEF ReservationsSpec

(***************************************************************************)
(* What a POST was answered agrees with the table ever after, for any      *)
(* number of calls and across restarts: no refused or dropped call leaves  *)
(* a row, and no row answered 201 goes but by its owner's DELETE.          *)
(***************************************************************************)
THEOREM ReservationsAnswersMatch == ReservationsSpec => []AnswersMatchTable
<1>1. AnswersInv => AnswersMatchTable
  BY DEF AnswersInv
<1>2. QED
  BY <1>1, ReservationsAnswersInv, PTL


----------------------------------------------------------------------------
(* Excess reservations *)

\* Once counted as full, the trip of an excess call that has not inserted stays full.
CountedFull(c) ==
  LET request == creates[c].request IN
  creates[c].pc = "insert" /\ request.seat = NoSeat =>
    Cardinality(SeatedOn(request.trip)) >= trips[request.trip].capacity

CapacityRead(c) ==
  creates[c].pc \in {"count", "insert"} =>
    creates[c].capacity = trips[creates[c].request.trip].capacity

ExcessInv ==
  /\ IsFiniteSet(Live)
  /\ \A c \in DOMAIN creates : CapacityRead(c)
  /\ GivenBack \/ \A c \in DOMAIN creates : CountedFull(c)

\* Every row stays as it is; c, if anything, is new.
RowsGrow(c) ==
  Live \subseteq Live' /\ Live' \subseteq Live \cup {c} /\ \A i \in Live : reservations'[i] = reservations[i]

\* What a POST's step does: its row, if it gets one, is new, and as requested.
LEMMA CreateEffect ==
  ASSUME ReservationCallsTypeOK, AnswersInv, NEW c \in Creates, CreateStep(c)
  PROVE  /\ c \in DOMAIN creates /\ creates[c] \in CreateCall
         /\ DOMAIN creates' = DOMAIN creates
         /\ \A d \in DOMAIN creates \ {c} : creates'[d] = creates[d]
         /\ creates'[c].request = creates[c].request
         /\ UNCHANGED <<trips, edits>>
         /\ \/ UNCHANGED reservations
            \/ /\ creates[c].pc = "insert" /\ c \notin Live /\ RowsGrow(c)
               /\ reservations'[c] = NewReservation(creates[c].request)
         /\ creates'[c].pc = "count" => creates[c].pc = "trip"
         /\ creates'[c].pc = "insert" =>
              \/ creates[c].pc = "trip" /\ creates[c].request.seat # NoSeat
              \/ CountSeats(c)
         /\ CountSeats(c) => creates'[c].capacity = creates[c].capacity
         /\ creates'[c].pc \in {"count", "insert"} /\ ~ CountSeats(c) =>
              creates'[c].capacity = trips[creates[c].request.trip].capacity
<1>1. c \in DOMAIN creates /\ creates[c] \in CreateCall
  BY DEF ReservationCallsTypeOK, CreateStep
<1>2. ASSUME NEW code, CreateAnswer(c, code)
      PROVE  /\ DOMAIN creates' = DOMAIN creates
             /\ \A d \in DOMAIN creates \ {c} : creates'[d] = creates[d]
             /\ creates'[c].request = creates[c].request
             /\ creates'[c].pc = "done" /\ creates'[c].capacity = creates[c].capacity
  BY <1>1, <1>2 DEF CreateAnswer, CreateCall
<1>3. ASSUME NEW pc, CreateGoto(c, pc)
      PROVE  /\ DOMAIN creates' = DOMAIN creates
             /\ \A d \in DOMAIN creates \ {c} : creates'[d] = creates[d]
             /\ creates'[c].request = creates[c].request
             /\ creates'[c].pc = pc /\ creates'[c].capacity = creates[c].capacity
  BY <1>1, <1>3 DEF CreateGoto, CreateCall
<1>4. CASE CheckAccount(c)
  <2>1. CreateAnswer(c, "403") \/ CreateGoto(c, "duplicate")
    BY <1>4 DEF CheckAccount
  <2>2. ~ CountSeats(c) /\ UNCHANGED <<reservations, trips, edits>>
    BY <1>4 DEF CheckAccount, CountSeats, tables
  <2>3. QED
    BY <1>1, <1>2, <1>3, <2>1, <2>2
<1>5. CASE CheckDuplicate(c)
  <2>1. CreateAnswer(c, "409") \/ CreateGoto(c, "trip")
    BY <1>5 DEF CheckDuplicate
  <2>2. ~ CountSeats(c) /\ UNCHANGED <<reservations, trips, edits>>
    BY <1>5 DEF CheckDuplicate, CountSeats, tables
  <2>3. QED
    BY <1>1, <1>2, <1>3, <2>1, <2>2
<1>6. CASE ReadTrip(c)
  <2>1. creates[c].pc = "trip" /\ ~ CountSeats(c) /\ UNCHANGED <<reservations, trips, edits>>
    BY <1>6 DEF ReadTrip, CountSeats, tables
  <2>2. CASE CreateAnswer(c, "404") \/ CreateAnswer(c, "400")
    BY <1>1, <1>2, <2>1, <2>2
  <2>3. CASE creates' = [creates EXCEPT
               ![c].pc = IF creates[c].request.seat = NoSeat THEN "count" ELSE "insert",
               ![c].capacity = trips[creates[c].request.trip].capacity]
    <3>1. /\ DOMAIN creates' = DOMAIN creates
          /\ \A d \in DOMAIN creates \ {c} : creates'[d] = creates[d]
          /\ creates'[c].request = creates[c].request
          /\ creates'[c].pc = IF creates[c].request.seat = NoSeat THEN "count" ELSE "insert"
          /\ creates'[c].capacity = trips[creates[c].request.trip].capacity
      BY <1>1, <2>3 DEF CreateCall
    <3>2. QED
      BY <1>1, <2>1, <3>1
  <2>4. QED
    BY <1>6, <2>2, <2>3 DEF ReadTrip
<1>7. CASE CountSeats(c)
  <2>1. CreateAnswer(c, "400") \/ CreateGoto(c, "insert")
    BY <1>7 DEF CountSeats
  <2>2. UNCHANGED <<reservations, trips, edits>>
    BY <1>7 DEF CountSeats, tables
  <2>3. QED
    BY <1>1, <1>2, <1>3, <1>7, <2>1, <2>2
<1>8. CASE InsertRow(c)
  <2>1. /\ creates[c].pc = "insert" /\ ~ CountSeats(c) /\ UNCHANGED <<trips, edits>>
        /\ CreateAnswer(c, "409") \/ CreateAnswer(c, "201")
    BY <1>8 DEF InsertRow, CountSeats
  <2>2. CASE UNCHANGED reservations
    BY <1>1, <1>2, <2>1, <2>2
  <2>3. CASE InsertReservation(c, NewReservation(creates[c].request))
    <3>1. c \notin Live
      BY <1>1, <2>1 DEF AnswersInv, AnsweredWhenDone, RowsAreCreated, Created
    <3>2. RowsGrow(c) /\ reservations'[c] = NewReservation(creates[c].request)
      BY <2>3, <3>1, WrittenRow DEF Writes, RowsGrow
    <3>3. QED
      BY <1>1, <1>2, <2>1, <3>1, <3>2
  <2>4. QED
    BY <1>8, <2>2, <2>3 DEF InsertRow
<1>9. QED
  BY <1>4, <1>5, <1>6, <1>7, <1>8 DEF CreateStep

\* A row changes or goes only by a PATCH or a DELETE that is answered 200.
LEMMA EditEffect ==
  ASSUME ReservationCallsTypeOK, AnswersInv, NEW e \in Edits, EditStep(e)
  PROVE  /\ UNCHANGED <<trips, creates>> /\ Live' \subseteq Live
         /\ GivenBack => GivenBack'
         /\ GivenBack' \/ UNCHANGED reservations
<1>1. e \in DOMAIN edits /\ edits[e] \in EditCall /\ edits[e].answer # "200"
  BY DEF EditStep, ReservationCallsTypeOK, FindOwn, WriteUpdate, WriteRemove, AnswersInv,
         AnsweredWhenDone
<1>2. DOMAIN edits' = DOMAIN edits /\ \A d \in DOMAIN edits \ {e} : edits'[d] = edits[d]
  BY DEF EditStep, FindOwn, WriteUpdate, WriteRemove, EditAnswer
<1>3. GivenBack => GivenBack'
  BY <1>1, <1>2 DEF GivenBack
<1>4. UNCHANGED <<trips, creates>>
  BY DEF EditStep, FindOwn, WriteUpdate, WriteRemove, tables
<1>5. UNCHANGED reservations \/ EditAnswer(e, "200")
  BY DEF EditStep, FindOwn, WriteUpdate, WriteRemove, tables
<1>6. EditAnswer(e, "200") => GivenBack'
  BY <1>1 DEF EditAnswer, GivenBack, EditCall
<1>7. Live' \subseteq Live
  <2>1. CASE WriteRemove(e)
    BY <2>1, DeletedRow DEF WriteRemove
  <2>2. CASE UNCHANGED reservations
    BY <2>2 DEF Live
  <2>3. CASE WriteUpdate(e)
    BY <2>3 DEF WriteUpdate, UpdateReservation, Live
  <2>4. QED
    BY <2>1, <2>2, <2>3 DEF EditStep, FindOwn, tables
<1>8. QED
  BY <1>3, <1>4, <1>5, <1>6, <1>7

\* More rows, more seats taken.
LEMMA SeatsTakenGrow ==
  ASSUME NEW c, RowsGrow(c), IsFiniteSet(Live), NEW t
  PROVE  /\ IsFiniteSet(Live')
         /\ Cardinality(SeatedOn(t)) \in Nat /\ Cardinality(SeatedOn(t)') \in Nat
         /\ Cardinality(SeatedOn(t)') >= Cardinality(SeatedOn(t))
<1>1. Live' = Live \/ Live' = Live \cup {c}
  BY DEF RowsGrow
<1>2. IsFiniteSet(Live')
  BY <1>1, FS_AddElement
<1>3. SeatedOn(t)' \in SUBSET Live'
  BY DEF SeatedOn, OfTrip
<1>4. SeatedOn(t) \in SUBSET SeatedOn(t)'
  BY DEF SeatedOn, OfTrip, RowsGrow
<1>5. IsFiniteSet(SeatedOn(t)')
  BY <1>2, <1>3, FS_Subset
<1>6. IsFiniteSet(SeatedOn(t)) /\ Cardinality(SeatedOn(t)) <= Cardinality(SeatedOn(t)')
  BY <1>4, <1>5, FS_Subset
<1>7. QED
  BY <1>2, <1>5, <1>6, FS_CardinalityType

LEMMA FullStays ==
  ASSUME ReservationCallsTypeOK, NEW c \in DOMAIN creates, CapacityRead(c), CountedFull(c),
         IsFiniteSet(Live), NEW d, RowsGrow(d), UNCHANGED trips, creates'[c] = creates[c]
  PROVE  CountedFull(c)'
<1> SUFFICES ASSUME creates[c].pc = "insert", creates[c].request.seat = NoSeat
             PROVE  Cardinality(SeatedOn(creates[c].request.trip)') >=
                      trips[creates[c].request.trip].capacity
  BY DEF CountedFull
<1>1. trips[creates[c].request.trip].capacity \in Nat
  BY DEF CapacityRead, ReservationCallsTypeOK, CreateCall
<1>2. QED
  BY <1>1, SeatsTakenGrow DEF CountedFull


LEMMA CreatesKeepExcess ==
  ASSUME ReservationsTypeOK, AnswersInv, ExcessInv, NEW c \in Creates, CreateStep(c)
  PROVE  ExcessInv'
<1> DEFINE request == creates[c].request
<1>1. ReservationCallsTypeOK
  BY DEF ReservationsTypeOK
<1>2. RowsGrow(c) /\ UNCHANGED <<trips, edits>>
  BY <1>1, CreateEffect DEF RowsGrow, Live
<1>3. /\ c \in DOMAIN creates /\ DOMAIN creates' = DOMAIN creates
      /\ \A d \in DOMAIN creates \ {c} : creates'[d] = creates[d]
      /\ creates'[c].request = request
  BY <1>1, CreateEffect
<1>4. IsFiniteSet(Live')
  BY <1>2, SeatsTakenGrow DEF ExcessInv
<1>5. CapacityRead(c)'
  <2>1. CASE CountSeats(c)
    BY <1>1, <1>2, <1>3, <2>1, CreateEffect DEF ExcessInv, CapacityRead, CountSeats
  <2>2. CASE ~ CountSeats(c)
    BY <1>1, <1>2, <1>3, <2>2, CreateEffect DEF CapacityRead
  <2>3. QED
    BY <2>1, <2>2
<1>6. \A d \in DOMAIN creates \ {c} : CapacityRead(d)'
  BY <1>2, <1>3 DEF ExcessInv, CapacityRead
<1>7. GivenBack' <=> GivenBack
  BY <1>2 DEF GivenBack
<1>8. ASSUME \A d \in DOMAIN creates : CountedFull(d)
      PROVE  \A d \in DOMAIN creates : CountedFull(d)'
  <2>1. \A d \in DOMAIN creates \ {c} : CountedFull(d)'
    BY <1>1, <1>2, <1>3, <1>8, FullStays DEF ExcessInv
  <2>2. ASSUME CountSeats(c), creates'[c].pc = "insert"
        PROVE  CountedFull(c)'
    <3>1. ~ (Cardinality(SeatedOn(request.trip)) < creates[c].capacity)
      BY <1>1, <1>3, <2>2 DEF CountSeats, CreateAnswer, ReservationCallsTypeOK, CreateCall
    <3>2. /\ creates[c].capacity \in Nat
          /\ creates[c].capacity = trips[request.trip].capacity
      BY <1>1, <1>3, <2>2 DEF ReservationCallsTypeOK, CreateCall, ExcessInv, CapacityRead,
                              CountSeats
    <3>3. UNCHANGED <<reservations, trips>>
      BY <2>2 DEF CountSeats, tables
    <3>4. Cardinality(SeatedOn(request.trip)) \in Nat
      BY <1>2, SeatsTakenGrow DEF ExcessInv
    <3>5. \A t : SeatedOn(t)' = SeatedOn(t)
      BY <3>3 DEF SeatedOn, OfTrip, Live
    <3>6. QED
      BY <1>3, <3>1, <3>2, <3>3, <3>4, <3>5 DEF CountedFull
  <2>3. ASSUME ~ (CountSeats(c) /\ creates'[c].pc = "insert")
        PROVE  CountedFull(c)'
    BY <1>1, <1>3, <2>3, CreateEffect DEF CountedFull
  <2>4. QED
    BY <2>1, <2>2, <2>3
<1>9. QED
  BY <1>3, <1>4, <1>5, <1>6, <1>7, <1>8 DEF ExcessInv

\* A call that arrives or is dropped has nothing counted; the others stay as they were.
LEMMA OthersKeepExcess ==
  ASSUME ExcessInv, UNCHANGED <<reservations, trips>>, GivenBack => GivenBack',
         \A c \in DOMAIN creates' :
           \/ c \in DOMAIN creates /\ creates'[c] = creates[c]
           \/ creates'[c].pc \notin {"count", "insert"}
  PROVE  ExcessInv'
<1>1. \A t : SeatedOn(t)' = SeatedOn(t)
  BY DEF SeatedOn, OfTrip, Live
<1>2. \A c \in DOMAIN creates' : CapacityRead(c)'
  BY DEF ExcessInv, CapacityRead
<1>3. (\A c \in DOMAIN creates : CountedFull(c)) => \A c \in DOMAIN creates' : CountedFull(c)'
  BY <1>1 DEF CountedFull
<1>4. QED
  BY <1>2, <1>3 DEF ExcessInv, Live

LEMMA ReservationsKeepExcess ==
  ASSUME ReservationsTypeOK, AnswersInv, ExcessInv, ReservationsStep
  PROVE  ExcessInv'
<1>1. ASSUME NEW c \in Creates, NEW request, ReceiveCreate(c, request)
      PROVE  ExcessInv'
  <2>1. /\ UNCHANGED <<reservations, trips, edits>>
        /\ \A d \in DOMAIN creates' :
             \/ d \in DOMAIN creates /\ creates'[d] = creates[d]
             \/ creates'[d].pc \notin {"count", "insert"}
    BY <1>1 DEF ReceiveCreate, With, tables
  <2>2. QED
    BY <2>1, OthersKeepExcess DEF GivenBack
<1>2. ASSUME NEW e \in Edits, NEW request, ReceiveEdit(e, request)
      PROVE  ExcessInv'
  <2>1. UNCHANGED <<reservations, trips, creates>> /\ (GivenBack => GivenBack')
    BY <1>2 DEF ReceiveEdit, With, GivenBack, tables
  <2>2. QED
    BY <2>1, OthersKeepExcess
<1>3. ASSUME NEW e \in Edits, EditStep(e)
      PROVE  ExcessInv'
  <2>1. /\ UNCHANGED <<trips, creates>> /\ Live' \subseteq Live
        /\ GivenBack => GivenBack'
        /\ GivenBack' \/ UNCHANGED reservations
    BY <1>3, EditEffect DEF ReservationsTypeOK
  <2>2. CASE UNCHANGED reservations
    BY <2>1, <2>2, OthersKeepExcess
  <2>3. CASE GivenBack'
    <3>1. IsFiniteSet(Live')
      BY <2>1, FS_Subset DEF ExcessInv
    <3>2. QED
      BY <2>1, <2>3, <3>1 DEF ExcessInv, CapacityRead
  <2>4. QED
    BY <2>1, <2>2, <2>3
<1>4. ASSUME NEW u \in Users, NEW r, MoveRegistration(u, r)
      PROVE  ExcessInv'
  BY <1>4, OthersKeepExcess DEF MoveRegistration, reservationCalls, GivenBack
<1>5. QED
  BY <1>1, <1>2, <1>3, <1>4, CreatesKeepExcess DEF ReservationsStep, ReceiveReservationCall

LEMMA ReservationsExcessInv == ReservationsSpec => []ExcessInv
<1>1. ReservationsInit => ExcessInv
  BY TablesAssumption
     DEF ReservationsInit, TablesInit, ReservationCallsInit, ExcessInv, Live
<1>2. ReservationsTypeOK /\ AnswersInv /\ ExcessInv /\ [ReservationsNext]_reservationVars
        => ExcessInv'
  <2> SUFFICES ASSUME ReservationsTypeOK, AnswersInv, ExcessInv,
                      [ReservationsNext]_reservationVars
               PROVE  ExcessInv'
    OBVIOUS
  <2>1. CASE ReservationsStep
    BY <2>1, ReservationsKeepExcess
  <2>2. CASE ReservationsRestart
    <3>1. /\ UNCHANGED <<reservations, trips>>
          /\ \A c \in DOMAIN creates' :
               \/ c \in DOMAIN creates /\ creates'[c] = creates[c]
               \/ creates'[c].pc \notin {"count", "insert"}
      BY <2>2 DEF ReservationsRestart, DropReservationCalls, Dropped, tables,
                  ReservationsTypeOK, ReservationCallsTypeOK, CreateCall
    <3>2. GivenBack => GivenBack'
      BY <2>2 DEF ReservationsRestart, DropReservationCalls, Dropped, GivenBack,
                  ReservationsTypeOK, ReservationCallsTypeOK, EditCall
    <3>3. QED
      BY <3>1, <3>2, OthersKeepExcess
  <2>3. CASE UNCHANGED reservationVars
    BY <2>3, OthersKeepExcess DEF reservationVars, reservationCalls, tables, GivenBack
  <2>4. QED
    BY <2>1, <2>2, <2>3 DEF ReservationsNext
<1>3. QED
  BY <1>1, <1>2, ReservationsTypeCorrect, ReservationsAnswersInv, PTL DEF ReservationsSpec

(***************************************************************************)
(* As long as nobody has changed or removed a reservation, the count a     *)
(* POST takes before its INSERT cannot go stale, for any number of         *)
(* students, seats and calls: an excess reservation is written only when   *)
(* every seat of the trip is taken.                                        *)
(***************************************************************************)
THEOREM ReservationsExcessOnlyAfterFull == ReservationsSpec => ExcessOnlyAfterFull
<1>1. ReservationsTypeOK /\ AnswersInv /\ ExcessInv /\ [ReservationsNext]_reservationVars
        => [\A c \in Live' \ Live :
              reservations'[c].seat = NoSeat => WrittenWhenFull(c) \/ GivenBack
           ]_reservationVars
  <2> SUFFICES ASSUME ReservationsTypeOK, AnswersInv, ExcessInv, ReservationsNext,
                      NEW i \in Live' \ Live, reservations'[i].seat = NoSeat, ~ GivenBack
               PROVE  WrittenWhenFull(i)
    OBVIOUS
  <2>1. ASSUME NEW c \in Creates, CreateStep(c)
        PROVE  WrittenWhenFull(i)
    <3> DEFINE request == creates[c].request
    <3>1. /\ c \in DOMAIN creates /\ creates[c].pc = "insert" /\ RowsGrow(c)
          /\ reservations'[c] = NewReservation(request)
      BY <2>1, CreateEffect DEF ReservationsTypeOK, Live
    <3>2. i = c
      BY <3>1 DEF RowsGrow
    <3>3. request.seat = NoSeat /\ reservations'[i].trip = request.trip
      BY <3>1, <3>2 DEF NewReservation
    <3>4. Cardinality(SeatedOn(request.trip)) >= trips[request.trip].capacity
      BY <3>1, <3>3 DEF ExcessInv, CountedFull
    <3>5. QED
      BY <3>3, <3>4 DEF WrittenWhenFull, SeatedOn
  <2>2. ASSUME NEW e \in Edits, EditStep(e)
        PROVE  FALSE
    BY <2>2, EditEffect DEF ReservationsTypeOK
  <2>3. ASSUME UNCHANGED reservations
        PROVE  FALSE
    BY <2>3 DEF Live
  <2>4. QED
    BY <2>1, <2>2, <2>3
       DEF ReservationsNext, ReservationsRestart, ReservationsStep, ReceiveReservationCall,
           ReceiveCreate, ReceiveEdit, MoveRegistration, tables
<1>2. QED
  BY <1>1, ReservationsTypeCorrect, ReservationsAnswersInv, ReservationsExcessInv, PTL
     DEF ReservationsSpec, ExcessOnlyAfterFull


----------------------------------------------------------------------------
(* One active reservation per trip, for students who wait for their answers *)

HasStanding(u, t) == \E i \in OfTrip(t) : reservations[i].user = u /\ Standing(i)

\* Past the duplicate check a call's user has no standing reservation on its trip.
StillFirst(c) ==
  creates[c].pc \in {"trip", "count", "insert"} =>
    ~ HasStanding(creates[c].request.user, creates[c].request.trip)

OneWaiting == \A u \in Users : \A c, d \in Waiting(u) : c = d

\* Only a PATCH leaves a row without a status, so what the duplicate check passes
\* over is cancelled or erased.
NullErased == \A i \in Live : reservations[i].status = NoStatus => StatusErased(i)

EditsUnanswered == \A e \in DOMAIN edits : edits[e].pc # "done" => edits[e].answer = "none"

PatientInv ==
  /\ IsFiniteSet(DOMAIN creates)
  /\ EditsUnanswered
  /\ NullErased
  /\ OneWaiting
  /\ \A c \in DOMAIN creates : StillFirst(c)
  /\ OneActivePerTrip

\* No PATCH takes a cancelled reservation up again.
StayCancelled ==
  \A i \in Live \cap Live' :
    reservations[i].status = "CANCELLED_BY_SYSTEM" =>
      reservations'[i].status = "CANCELLED_BY_SYSTEM"

NoneTakenUpAgain == [][StayCancelled]_reservationVars

\* What was answered stays answered.
ErasedStay == \A i : StatusErased(i) => StatusErased(i)'

LEMMA EditsStayAnswered ==
  ASSUME ReservationsTypeOK, EditsUnanswered, [ReservationsNext]_reservationVars
  PROVE  EditsUnanswered' /\ ErasedStay
<1> DEFINE Kept ==
      \A e \in DOMAIN edits : edits[e].answer = "200" =>
        e \in DOMAIN edits' /\ edits'[e].request = edits[e].request /\ edits'[e].answer = "200"
<1>1. SUFFICES EditsUnanswered' /\ Kept
  BY DEF ErasedStay, StatusErased
<1>2. CASE UNCHANGED edits
  BY <1>2 DEF EditsUnanswered
<1>3. ASSUME NEW e \in Edits, NEW request, ReceiveEdit(e, request)
      PROVE  EditsUnanswered' /\ Kept
  BY <1>3 DEF ReceiveEdit, With, EditsUnanswered
<1>4. ASSUME NEW e \in Edits, EditStep(e)
      PROVE  EditsUnanswered' /\ Kept
  <2>1. e \in DOMAIN edits /\ edits[e] \in EditCall /\ edits[e].answer = "none"
    BY <1>4 DEF EditStep, FindOwn, WriteUpdate, WriteRemove, EditsUnanswered,
                ReservationsTypeOK, ReservationCallsTypeOK
  <2>2. /\ DOMAIN edits' = DOMAIN edits
        /\ \A d \in DOMAIN edits \ {e} : edits'[d] = edits[d]
        /\ edits'[e].pc # "done" => edits'[e].answer = "none"
    BY <1>4, <2>1 DEF EditStep, FindOwn, WriteUpdate, WriteRemove, EditAnswer, EditCall
  <2>3. QED
    BY <2>1, <2>2 DEF EditsUnanswered
<1>5. CASE ReservationsRestart
  BY <1>5 DEF ReservationsRestart, DropReservationCalls, Dropped, EditsUnanswered,
              ReservationsTypeOK, ReservationCallsTypeOK, EditCall
<1>6. QED
  BY <1>2, <1>3, <1>4, <1>5
     DEF ReservationsNext, ReservationsStep, ReceiveReservationCall, ReceiveCreate, CreateStep,
         CheckAccount, CheckDuplicate, ReadTrip, CountSeats, InsertRow, MoveRegistration,
         reservationCalls, reservationVars

\* The standing reservations after the step were there before, on the same trips.
StandingShrink ==
  \A i \in Live' : Standing(i)' =>
    /\ i \in Live /\ Standing(i)
    /\ reservations'[i].user = reservations[i].user
    /\ reservations'[i].trip = reservations[i].trip

LEMMA ShrinkKeepsOneActive ==
  ASSUME OneActivePerTrip, StandingShrink
  PROVE  /\ OneActivePerTrip'
         /\ \A u, t : HasStanding(u, t)' => HasStanding(u, t)
  BY DEF OneActivePerTrip, StandingShrink, HasStanding, OfTrip

\* Rows that stay as they are: nothing takes back an erased status.
LEMMA SameRowsShrink ==
  ASSUME ErasedStay, UNCHANGED reservations
  PROVE  StandingShrink /\ (NullErased => NullErased')
  BY DEF ErasedStay, StandingShrink, Standing, NullErased, Live

\* The steps other than a POST's: calls arrive, are dropped, and edits write.
LEMMA OthersKeepPatient ==
  ASSUME PatientInv, OneWaiting', IsFiniteSet(DOMAIN creates'),
         EditsUnanswered', NullErased', StandingShrink,
         \A c \in DOMAIN creates' :
           \/ c \in DOMAIN creates /\ creates'[c] = creates[c]
           \/ creates'[c].pc \notin {"trip", "count", "insert"}
  PROVE  PatientInv'
<1>1. /\ OneActivePerTrip'
      /\ \A u, t : HasStanding(u, t)' => HasStanding(u, t)
  BY ShrinkKeepsOneActive DEF PatientInv
<1>2. \A c \in DOMAIN creates' : StillFirst(c)'
  BY <1>1 DEF PatientInv, StillFirst
<1>3. QED
  BY <1>1, <1>2 DEF PatientInv

LEMMA EditsShrink ==
  ASSUME StayCancelled, ReservationsTypeOK, ErasedStay, NullErased,
         NEW e \in Edits, EditStep(e)
  PROVE  StandingShrink /\ NullErased' /\ UNCHANGED creates
<1>1. UNCHANGED creates
  BY DEF EditStep, FindOwn, WriteUpdate, WriteRemove
<1>2. CASE UNCHANGED reservations
  BY <1>1, <1>2, SameRowsShrink
<1>3. CASE WriteRemove(e)
  BY <1>1, <1>3, DeletedRow DEF WriteRemove, StandingShrink, Standing, ErasedStay, NullErased
<1>4. CASE WriteUpdate(e) /\ reservations' # reservations
  <2> DEFINE request == edits[e].request
             row == Patched(reservations[request.id], request)
  <2>1. request.id \in Live /\ UpdateReservation(request.id, row) /\ EditAnswer(e, "200")
    BY <1>4 DEF WriteUpdate
  <2>2. reservations[request.id] \in Reservation
    BY <2>1 DEF ReservationsTypeOK, TablesTypeOK, Live
  <2>3. /\ row.user = reservations[request.id].user
        /\ row.trip = reservations[request.id].trip
        /\ row.status \in {reservations[request.id].status, request.status}
    BY <2>2 DEF Patched, Reservation
  <2>4. /\ Live' = Live /\ reservations'[request.id] = row
        /\ \A j \in Live \ {request.id} : reservations'[j] = reservations[j]
    BY <2>1 DEF UpdateReservation, Live
  <2>5. StandingShrink
    BY <2>1, <2>3, <2>4 DEF StandingShrink, StayCancelled, Standing, ErasedStay
  <2>6. ASSUME NEW i, i = request.id, request.status = NoStatus
        PROVE  StatusErased(i)'
    BY <1>4, <2>1, <2>6
       DEF StatusErased, EditAnswer, EditStep, WriteUpdate, EditCall, ReservationsTypeOK,
           ReservationCallsTypeOK
  <2>7. NullErased'
    BY <2>1, <2>3, <2>4, <2>6 DEF NullErased, ErasedStay
  <2>8. QED
    BY <1>1, <2>5, <2>7
<1>5. QED
  BY <1>2, <1>3, <1>4 DEF EditStep, FindOwn, tables

\* The duplicate check finds none; then, with one call waiting, the INSERT is the
\* first standing reservation of its user on the trip.
LEMMA CreatesKeepPatient ==
  ASSUME ReservationsTypeOK, PatientInv, NEW c \in Creates, CreateStep(c)
  PROVE  PatientInv'
<1> DEFINE request == creates[c].request
           u == request.user
           t == request.trip
<1>1. c \in DOMAIN creates /\ creates[c] \in CreateCall
  BY DEF CreateStep, ReservationsTypeOK, ReservationCallsTypeOK
<1>2. u \in Users
  BY <1>1, TablesAssumption DEF CreateCall, PostRequest
<1>3. /\ DOMAIN creates' = DOMAIN creates
      /\ \A d \in DOMAIN creates \ {c} : creates'[d] = creates[d]
      /\ creates'[c].request = request
      /\ creates[c].pc \notin {"done", "lost"}
  BY <1>1 DEF CreateStep, CheckAccount, CheckDuplicate, ReadTrip, CountSeats, InsertRow,
              CreateAnswer, CreateGoto, CreateCall
<1>4. OneWaiting'
  <2>1. \A v : Waiting(v)' \subseteq Waiting(v)
    BY <1>1, <1>3 DEF Waiting
  <2>2. QED
    BY <2>1 DEF OneWaiting, PatientInv
<1>5. UNCHANGED edits /\ EditsUnanswered' /\ \A i : StatusErased(i)' <=> StatusErased(i)
  BY DEF CreateStep, CheckAccount, CheckDuplicate, ReadTrip, CountSeats, InsertRow,
         StatusErased, PatientInv, EditsUnanswered
<1>6. CASE UNCHANGED reservations
  <2>1. \A v, s : HasStanding(v, s)' <=> HasStanding(v, s)
    BY <1>5, <1>6 DEF HasStanding, OfTrip, Live, Standing
  <2>2. ~ HasActiveReservation(u, t) => ~ HasStanding(u, t)
    BY DEF PatientInv, NullErased, HasActiveReservation, HasStanding, Active, Standing, OfTrip
  <2>3. creates'[c].pc \in {"trip", "count", "insert"} =>
          \/ creates[c].pc \in {"trip", "count", "insert"}
          \/ ~ HasStanding(u, t)
    BY <1>1, <2>2 DEF CreateStep, CheckAccount, CheckDuplicate, ReadTrip, CountSeats, InsertRow,
                CreateAnswer, CreateGoto, CreateCall
  <2>4. \A d \in DOMAIN creates : StillFirst(d)'
    BY <1>1, <1>3, <2>1, <2>3 DEF PatientInv, StillFirst
  <2>5. OneActivePerTrip'
    BY <1>5, <1>6 DEF PatientInv, OneActivePerTrip, Live, Standing
  <2>6. NullErased'
    BY <1>5, <1>6 DEF PatientInv, NullErased, Live
  <2>7. QED
    BY <1>3, <1>4, <1>5, <2>4, <2>5, <2>6 DEF PatientInv
<1>7. CASE InsertRow(c) /\ InsertReservation(c, NewReservation(request))
  <2>1. /\ Live' = Live \cup {c}
        /\ reservations'[c] = NewReservation(request)
        /\ \A j \in Live \ {c} : reservations'[j] = reservations[j]
    BY <1>7, WrittenRow DEF Writes
  <2>2. /\ reservations'[c].user = u /\ reservations'[c].trip = t
        /\ creates[c].pc = "insert" /\ creates'[c].pc = "done"
    BY <1>1, <1>7, <2>1 DEF NewReservation, InsertRow, CreateAnswer, CreateCall
  <2>3. ~ HasStanding(u, t)
    BY <1>1, <2>2 DEF PatientInv, StillFirst
  <2>4. OneActivePerTrip'
    <3> SUFFICES ASSUME NEW i \in Live', NEW j \in Live',
                        reservations'[i].user = reservations'[j].user,
                        reservations'[i].trip = reservations'[j].trip,
                        Standing(i)', Standing(j)'
                 PROVE  i = j
      BY DEF OneActivePerTrip
    <3>1. CASE i # c /\ j # c
      BY <1>5, <2>1, <3>1 DEF PatientInv, OneActivePerTrip, Standing
    <3>2. \A k \in Live : reservations[k].user = u /\ reservations[k].trip = t => ~ Standing(k)
      BY <2>3 DEF HasStanding, OfTrip
    <3>3. CASE i = c \/ j = c
      BY <1>5, <2>1, <2>2, <3>2, <3>3 DEF Standing
    <3>4. QED
      BY <3>1, <3>3
  <2>5. ASSUME NEW d \in DOMAIN creates \ {c}
        PROVE  StillFirst(d)'
    <3> SUFFICES ASSUME creates[d].pc \in {"trip", "count", "insert"},
                        HasStanding(creates[d].request.user, creates[d].request.trip)'
                 PROVE  FALSE
      BY <1>3 DEF StillFirst
    <3>1. creates'[d] = creates[d] /\ ~ HasStanding(creates[d].request.user, creates[d].request.trip)
      BY <1>3 DEF PatientInv, StillFirst
    <3>2. creates[d].request.user # u
      BY <1>1, <1>2, <1>3 DEF PatientInv, OneWaiting, Waiting
    <3>3. QED
      BY <1>5, <2>1, <2>2, <3>1, <3>2 DEF HasStanding, OfTrip, Standing
  <2>6. StillFirst(c)'
    BY <2>2 DEF StillFirst
  <2>7. NullErased'
    BY <1>5, <2>1 DEF PatientInv, NullErased, NewReservation, NoStatus
  <2>8. QED
    BY <1>3, <1>4, <1>5, <2>4, <2>5, <2>6, <2>7 DEF PatientInv
<1>8. QED
  BY <1>6, <1>7 DEF CreateStep, CheckAccount, CheckDuplicate, ReadTrip, CountSeats, InsertRow,
                    tables

(***************************************************************************)
(* Students who send a POST when the last one is answered get no second    *)
(* reservation for a trip, for any number of students, trips and calls and *)
(* across restarts, as long as no PATCH takes a cancelled one up again -   *)
(* except beside one whose status the student's own PATCH has set to null. *)
(***************************************************************************)
THEOREM ReservationsOneActivePerTrip ==
  PatientSpec /\ NoneTakenUpAgain => []OneActivePerTrip
<1> DEFINE PatientNext ==
      ReservationsNext /\ \A u \in Users : Cardinality(Waiting(u)') <= 1
<1>1. ReservationsInit => PatientInv
  <2>1. ReservationsInit => NullErased
    BY DEF ReservationsInit, TablesInit, BookedRow, NullErased, Live, NoStatus
  <2>2. QED
    BY <2>1, FS_EmptySet
       DEF ReservationsInit, TablesInit, ReservationCallsInit, PatientInv, EditsUnanswered,
           OneWaiting, Waiting, OneActivePerTrip, Live
<1>2. /\ ReservationsTypeOK /\ PatientInv
      /\ [PatientNext]_reservationVars /\ [StayCancelled]_reservationVars
      => PatientInv'
  <2> SUFFICES ASSUME ReservationsTypeOK, PatientInv,
                      [PatientNext]_reservationVars, [StayCancelled]_reservationVars
               PROVE  PatientInv'
    OBVIOUS
  <2>1. ASSUME NEW c \in Creates, CreateStep(c)
        PROVE  PatientInv'
    BY <2>1, CreatesKeepPatient
  <2>2. EditsUnanswered' /\ ErasedStay
    BY EditsStayAnswered DEF PatientInv
  <2>3. ASSUME UNCHANGED reservations
        PROVE  StandingShrink /\ NullErased'
    BY <2>3, <2>2, SameRowsShrink DEF PatientInv
  <2>4. ASSUME UNCHANGED creates, StandingShrink, NullErased'
        PROVE  PatientInv'
    <3>1. OneWaiting'
      BY <2>4 DEF PatientInv, OneWaiting, Waiting
    <3>2. QED
      BY <2>4, <2>2, <3>1, OthersKeepPatient DEF PatientInv
  <2>5. ASSUME NEW c \in Creates, NEW request, ReceiveCreate(c, request), PatientNext
        PROVE  PatientInv'
    <3>1. /\ DOMAIN creates' = DOMAIN creates \cup {c}
          /\ \A d \in DOMAIN creates' :
               \/ d \in DOMAIN creates /\ creates'[d] = creates[d]
               \/ creates'[d].pc = "account"
          /\ UNCHANGED reservations
      BY <2>5 DEF ReceiveCreate, With, tables
    <3>2. IsFiniteSet(DOMAIN creates')
      BY <3>1, FS_AddElement DEF PatientInv
    <3>3. OneWaiting'
      <4>1. ASSUME NEW v \in Users
            PROVE  \A x, y \in Waiting(v)' : x = y
        <5>1. Waiting(v)' \in SUBSET DOMAIN creates'
          BY DEF Waiting
        <5>2. IsFiniteSet(Waiting(v)')
          BY <3>2, <5>1, FS_Subset
        <5>3. QED
          BY <2>5, <5>2, AtMostOne DEF PatientNext
      <4>2. QED
        BY <4>1 DEF OneWaiting
    <3>4. QED
      BY <2>3, <2>2, <3>1, <3>2, <3>3, OthersKeepPatient
  <2>6. CASE ReservationsRestart
    <3>1. /\ DOMAIN creates' = DOMAIN creates /\ UNCHANGED reservations
          /\ \A d \in DOMAIN creates' :
               \/ creates'[d] = creates[d]
               \/ creates'[d].pc = "lost"
      BY <2>6 DEF ReservationsRestart, DropReservationCalls, Dropped, tables,
                  ReservationsTypeOK, ReservationCallsTypeOK, CreateCall
    <3>2. OneWaiting'
      BY <3>1 DEF PatientInv, OneWaiting, Waiting
    <3>3. QED
      BY <2>3, <2>2, <3>1, <3>2, OthersKeepPatient DEF PatientInv
  <2>7. ASSUME NEW e \in Edits, EditStep(e)
        PROVE  PatientInv'
    <3>1. CASE StayCancelled
      BY <2>4, <2>7, <2>2, <3>1, EditsShrink DEF PatientInv
    <3>2. CASE UNCHANGED <<reservations, creates>>
      BY <2>3, <2>4, <3>2
    <3>3. QED
      BY <3>1, <3>2 DEF reservationVars, reservationCalls, tables
  <2>8. CASE UNCHANGED <<reservations, creates>>
    BY <2>3, <2>4, <2>8
  <2>9. QED
    BY <2>1, <2>5, <2>6, <2>7, <2>8
       DEF PatientNext, ReservationsNext, ReservationsStep, ReceiveReservationCall,
           ReceiveEdit, MoveRegistration, reservationCalls, reservationVars, tables
<1>3. [PatientNext]_reservationVars => [ReservationsNext]_reservationVars
  OBVIOUS
<1>4. PatientInv => OneActivePerTrip
  BY DEF PatientInv
<1>5. QED
  BY <1>1, <1>2, <1>3, <1>4, ReservationsStepsTyped, PTL DEF PatientSpec, NoneTakenUpAgain
----------------------------------------------------------------------------
(* Every call is answered *)

(***************************************************************************)
(* How far a call has come.  A create call may skip the count, and any     *)
(* refusal or restart takes a call to its end: the stage only grows.       *)
(***************************************************************************)
CreateStage(pc) ==
  CASE pc = "account" -> 0 [] pc = "duplicate" -> 1 [] pc = "trip" -> 2
    [] pc = "count" -> 3 [] pc = "insert" -> 4 [] OTHER -> 5

EditStage(pc) == CASE pc = "find" -> 0 [] pc = "write" -> 1 [] OTHER -> 2

CreateAt(c, k) == c \in DOMAIN creates /\ CreateStage(creates[c].pc) = k
CreatePast(c, k) == c \in DOMAIN creates /\ CreateStage(creates[c].pc) > k
CreateGoes(c, k) == CreateAt(c, k) ~> CreatePast(c, k)

EditAt(e, k) == e \in DOMAIN edits /\ EditStage(edits[e].pc) = k
EditPast(e, k) == e \in DOMAIN edits /\ EditStage(edits[e].pc) > k
EditGoes(e, k) == EditAt(e, k) ~> EditPast(e, k)

\* What the two specifications have in common, and the hypothesis of the theorems.
CallsRun ==
  /\ ReservationsInit /\ [][ReservationsNext]_reservationVars /\ ReservationsFairness
  /\ []CallsProceed

LEMMA CreateStepAdvances ==
  ASSUME ReservationsTypeOK, NEW c \in Creates, CreateStep(c), NEW k \in 0..4, CreateAt(c, k)
  PROVE  CreatePast(c, k)'
<1>1. c \in DOMAIN creates /\ creates[c] \in CreateCall
  BY DEF CreateAt, ReservationsTypeOK, ReservationCallsTypeOK
<1>2. CASE CheckAccount(c)
  BY <1>1, <1>2 DEF CheckAccount, CreateAnswer, CreateGoto, CreateAt, CreatePast, CreateStage,
              CreateCall
<1>3. CASE CheckDuplicate(c)
  BY <1>1, <1>3 DEF CheckDuplicate, CreateAnswer, CreateGoto, CreateAt, CreatePast, CreateStage,
              CreateCall
<1>4. CASE ReadTrip(c)
  BY <1>1, <1>4 DEF ReadTrip, CreateAnswer, CreateAt, CreatePast, CreateStage, CreateCall
<1>5. CASE CountSeats(c)
  BY <1>1, <1>5 DEF CountSeats, CreateAnswer, CreateGoto, CreateAt, CreatePast, CreateStage,
              CreateCall
<1>6. CASE InsertRow(c)
  BY <1>1, <1>6 DEF InsertRow, CreateAnswer, CreateAt, CreatePast, CreateStage,
              CreateCall
<1>7. QED
  BY <1>2, <1>3, <1>4, <1>5, <1>6 DEF CreateStep

LEMMA EditStepAdvances ==
  ASSUME ReservationsTypeOK, NEW e \in Edits, EditStep(e), NEW k \in 0..1, EditAt(e, k)
  PROVE  EditPast(e, k)'
<1>1. e \in DOMAIN edits /\ edits[e] \in EditCall
  BY DEF EditAt, ReservationsTypeOK, ReservationCallsTypeOK
<1>2. CASE FindOwn(e)
  BY <1>1, <1>2 DEF FindOwn, EditAnswer, EditAt, EditPast, EditStage, EditCall
<1>3. CASE WriteUpdate(e)
  BY <1>1, <1>3 DEF WriteUpdate, EditAnswer, EditAt, EditPast, EditStage, EditCall
<1>4. CASE WriteRemove(e)
  BY <1>1, <1>4 DEF WriteRemove, EditAnswer, EditAt, EditPast, EditStage, EditCall
<1>5. QED
  BY <1>2, <1>3, <1>4 DEF EditStep

\* What the other steps do to a call: nothing, or a restart ends it.
LEMMA OthersLeaveCreate ==
  ASSUME ReservationsTypeOK, [ReservationsNext]_reservationVars,
         NEW c \in DOMAIN creates, ~ CreateStep(c)
  PROVE  /\ c \in DOMAIN creates'
         /\ creates'[c] = creates[c] \/ creates'[c].pc \in {"done", "lost"}
<1>1. creates[c] \in CreateCall
  BY DEF ReservationsTypeOK, ReservationCallsTypeOK
<1>2. ASSUME NEW d \in Creates, NEW request, ReceiveCreate(d, request)
      PROVE  c \in DOMAIN creates' /\ creates'[c] = creates[c]
  BY <1>2 DEF ReceiveCreate, With
<1>3. ASSUME NEW d \in Creates, CreateStep(d)
      PROVE  c \in DOMAIN creates' /\ creates'[c] = creates[c]
  BY <1>3 DEF CreateStep, CheckAccount, CheckDuplicate, ReadTrip, CountSeats, InsertRow,
              CreateAnswer, CreateGoto
<1>4. CASE DropReservationCalls
  BY <1>1, <1>4 DEF DropReservationCalls, Dropped, CreateCall
<1>5. CASE UNCHANGED creates
  BY <1>5
<1>6. ASSUME NEW e \in Edits, EditStep(e)
      PROVE  UNCHANGED creates
  BY <1>6 DEF EditStep, FindOwn, WriteUpdate, WriteRemove
<1>7. QED
  BY <1>2, <1>3, <1>4, <1>5, <1>6
     DEF ReservationsNext, ReservationsRestart, ReservationsStep, ReceiveReservationCall,
         ReceiveEdit, MoveRegistration, reservationVars, reservationCalls

LEMMA OthersLeaveEdit ==
  ASSUME ReservationsTypeOK, [ReservationsNext]_reservationVars,
         NEW e \in DOMAIN edits, ~ EditStep(e)
  PROVE  /\ e \in DOMAIN edits'
         /\ edits'[e] = edits[e] \/ edits'[e].pc \in {"done", "lost"}
<1>1. edits[e] \in EditCall
  BY DEF ReservationsTypeOK, ReservationCallsTypeOK
<1>2. ASSUME NEW d \in Edits, NEW request, ReceiveEdit(d, request)
      PROVE  e \in DOMAIN edits' /\ edits'[e] = edits[e]
  BY <1>2 DEF ReceiveEdit, With
<1>3. ASSUME NEW d \in Edits, EditStep(d)
      PROVE  e \in DOMAIN edits' /\ edits'[e] = edits[e]
  BY <1>3 DEF EditStep, FindOwn, WriteUpdate, WriteRemove, EditAnswer
<1>4. CASE DropReservationCalls
  BY <1>1, <1>4 DEF DropReservationCalls, Dropped, EditCall
<1>5. CASE UNCHANGED edits
  BY <1>5
<1>6. ASSUME NEW c \in Creates, CreateStep(c)
      PROVE  UNCHANGED edits
  BY <1>6 DEF CreateStep, CheckAccount, CheckDuplicate, ReadTrip, CountSeats, InsertRow
<1>7. QED
  BY <1>2, <1>3, <1>4, <1>5, <1>6
     DEF ReservationsNext, ReservationsRestart, ReservationsStep, ReceiveReservationCall,
         ReceiveCreate, MoveRegistration, reservationVars, reservationCalls

\* Fairness takes a call that can go on past every stage, one after the other.
LEMMA CreateLeavesStage ==
  ASSUME NEW c \in Creates, NEW k \in 0..4
  PROVE  CallsRun => CreateGoes(c, k)
<1>1. ReservationsTypeOK /\ CreateAt(c, k) /\ [ReservationsNext]_reservationVars
      => CreateAt(c, k)' \/ CreatePast(c, k)'
  <2> SUFFICES ASSUME ReservationsTypeOK, CreateAt(c, k),
                      [ReservationsNext]_reservationVars, ~ CreateStep(c)
               PROVE  CreateAt(c, k)' \/ CreatePast(c, k)'
    BY CreateStepAdvances
  <2>1. /\ c \in DOMAIN creates'
        /\ creates'[c] = creates[c] \/ creates'[c].pc \in {"done", "lost"}
    BY OthersLeaveCreate DEF CreateAt
  <2>2. QED
    BY <2>1 DEF CreateAt, CreatePast, CreateStage
<1>2. ReservationsTypeOK /\ CreateAt(c, k) /\ <<CreateStep(c)>>_reservationVars
      => CreatePast(c, k)'
  BY CreateStepAdvances
<1>3. CallsProceed /\ CreateAt(c, k) => ENABLED <<CreateStep(c)>>_reservationVars
  BY DEF CallsProceed, CreateOver, CreateAt, CreateStage
<1>4. ReservationsFairness => CreateRuns(c)
  BY DEF ReservationsFairness
<1>5. QED
  BY <1>1, <1>2, <1>3, <1>4, ReservationsStepsTyped, PTL DEF CreateRuns, CallsRun, CreateGoes

LEMMA EditLeavesStage ==
  ASSUME NEW e \in Edits, NEW k \in 0..1
  PROVE  CallsRun => EditGoes(e, k)
<1>1. ReservationsTypeOK /\ EditAt(e, k) /\ [ReservationsNext]_reservationVars
      => EditAt(e, k)' \/ EditPast(e, k)'
  <2> SUFFICES ASSUME ReservationsTypeOK, EditAt(e, k),
                      [ReservationsNext]_reservationVars, ~ EditStep(e)
               PROVE  EditAt(e, k)' \/ EditPast(e, k)'
    BY EditStepAdvances
  <2>1. /\ e \in DOMAIN edits'
        /\ edits'[e] = edits[e] \/ edits'[e].pc \in {"done", "lost"}
    BY OthersLeaveEdit DEF EditAt
  <2>2. QED
    BY <2>1 DEF EditAt, EditPast, EditStage
<1>2. ReservationsTypeOK /\ EditAt(e, k) /\ <<EditStep(e)>>_reservationVars
      => EditPast(e, k)'
  BY EditStepAdvances
<1>3. CallsProceed /\ EditAt(e, k) => ENABLED <<EditStep(e)>>_reservationVars
  BY DEF CallsProceed, EditOver, EditAt, EditStage
<1>4. ReservationsFairness => EditRuns(e)
  BY DEF ReservationsFairness
<1>5. QED
  BY <1>1, <1>2, <1>3, <1>4, ReservationsStepsTyped, PTL DEF EditRuns, CallsRun, EditGoes

LEMMA CallsRunAnswered == CallsRun => EveryCallAnswered
<1>1. ASSUME NEW c \in Creates
      PROVE  CallsRun => CreateAnswered(c)
  <2>1. CallsRun => CreateGoes(c, 0)
    BY CreateLeavesStage
  <2>2. CallsRun => CreateGoes(c, 1)
    BY CreateLeavesStage
  <2>3. CallsRun => CreateGoes(c, 2)
    BY CreateLeavesStage
  <2>4. CallsRun => CreateGoes(c, 3)
    BY CreateLeavesStage
  <2>5. CallsRun => CreateGoes(c, 4)
    BY CreateLeavesStage
  <2>6. /\ ReservationsTypeOK /\ c \in DOMAIN creates => CreateAt(c, 0) \/ CreatePast(c, 0)
        /\ ReservationsTypeOK /\ CreatePast(c, 0) => CreateAt(c, 1) \/ CreatePast(c, 1)
        /\ ReservationsTypeOK /\ CreatePast(c, 1) => CreateAt(c, 2) \/ CreatePast(c, 2)
        /\ ReservationsTypeOK /\ CreatePast(c, 2) => CreateAt(c, 3) \/ CreatePast(c, 3)
        /\ ReservationsTypeOK /\ CreatePast(c, 3) => CreateAt(c, 4) \/ CreatePast(c, 4)
        /\ ReservationsTypeOK /\ CreatePast(c, 4) => CreateOver(c)
    BY DEF ReservationsTypeOK, ReservationCallsTypeOK, CreateCall,
           CreateAt, CreatePast, CreateOver, CreateStage
  <2>7. QED
    BY <2>1, <2>2, <2>3, <2>4, <2>5, <2>6, ReservationsStepsTyped, PTL
       DEF CallsRun, CreateGoes, CreateAnswered
<1>2. ASSUME NEW e \in Edits
      PROVE  CallsRun => EditAnswered(e)
  <2>1. CallsRun => EditGoes(e, 0)
    BY EditLeavesStage
  <2>2. CallsRun => EditGoes(e, 1)
    BY EditLeavesStage
  <2>3. /\ ReservationsTypeOK /\ e \in DOMAIN edits => EditAt(e, 0) \/ EditPast(e, 0)
        /\ ReservationsTypeOK /\ EditPast(e, 0) => EditAt(e, 1) \/ EditPast(e, 1)
        /\ ReservationsTypeOK /\ EditPast(e, 1) => EditOver(e)
    BY DEF ReservationsTypeOK, ReservationCallsTypeOK, EditCall,
           EditAt, EditPast, EditOver, EditStage
  <2>4. QED
    BY <2>1, <2>2, <2>3, ReservationsStepsTyped, PTL DEF CallsRun, EditGoes, EditAnswered
<1>3. QED
  BY <1>1, <1>2 DEF EveryCallAnswered

(***************************************************************************)
(* Every POST, PATCH and DELETE of a reservation is answered, or dropped   *)
(* by a restart, whatever the other calls write between its statements:    *)
(* its stage only grows, nothing but its own end or a restart stops it.    *)
(* That a call which is not over can go on, CallsProceed, is a hypothesis, *)
(* since the provers do not handle ENABLED: each action of a call has a    *)
(* branch for every case.                                                  *)
(***************************************************************************)
THEOREM ReservationsCallsAnswered ==
  ReservationsSpec /\ []CallsProceed => EveryCallAnswered
  BY CallsRunAnswered, PTL DEF ReservationsSpec, CallsRun

(***************************************************************************)
(* The same for students who send one POST at a time.                      *)
(***************************************************************************)
THEOREM PatientCallsAnswered == PatientSpec /\ []CallsProceed => EveryCallAnswered
<1>1. [ReservationsNext /\ \A u \in Users : Cardinality(Waiting(u)') <= 1]_reservationVars
      => [ReservationsNext]_reservationVars
  OBVIOUS
<1>2. QED
  BY <1>1, CallsRunAnswered, PTL DEF PatientSpec, CallsRun
=============================================================================
