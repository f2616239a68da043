--------------------------- MODULE TripDay_proofs ---------------------------
(***************************************************************************)
(* What leaders do, for any trips, leaders and passengers and any number   *)
(* of calls: first TripsService by itself, then the day of a trip, on      *)
(* which students' calls come in between.  Each service's steps keep what  *)
(* it owns, leave the other's calls alone, and are lawful statements on    *)
(* the table they share, so that its theorems hold of both together.       *)
(***************************************************************************)
EXTENDS TripDay, ReservationsService_proofs

\* Every step of a finish or a relocation, and every write to a trip, is a lawful
\* statement.
LEMMA TripsLawful ==
  ASSUME TablesTypeOK, TripCallsTypeOK, TripsStep
  PROVE  LawfulStatement
<1>1. ASSUME NEW f \in DOMAIN finishes, NEW a \in finishes[f].todo, MarkAbsent(f, a)
      PROVE  LawfulStatement
  <2> DEFINE row == [reservations[a.id] EXCEPT !.status = "ABSENT"]
  <2>1. CASE UNCHANGED reservations
    BY <2>1 DEF LawfulStatement
  <2>2. CASE a.id \in Live /\ UpdateReservation(a.id, row)
    <3>1. a.id \in ResIds /\ reservations[a.id] \in Reservation
      BY <2>2 DEF TablesTypeOK, Live
    <3>2. row \in Reservation /\ KeepsSeat(a.id, row)
      BY <2>2, <3>1 DEF Reservation, ReservationStatus, KeepsSeat
    <3>3. Writes(a.id, row)
      BY <2>2 DEF Writes
    <3>4. QED
      BY <3>1, <3>2, <3>3 DEF LawfulStatement
  <2>3. QED
    BY <1>1, <2>1, <2>2 DEF MarkAbsent
<1>2. ASSUME NEW r \in DOMAIN relocations, NEW p \in relocations[r].todo, MoveRow(r, p)
      PROVE  LawfulStatement
  <2> DEFINE call == relocations[r]
             t == call.request.destination
  <2>1. PICK s \in SeatFor(call, p) :
          \/ UNCHANGED reservations
          \/ /\ p.id \in Live /\ ~ SeatTaken(t, s, p.id)
             /\ UpdateReservation(p.id, Moved(reservations[p.id], t, s))
    BY <1>2 DEF MoveRow
  <2>2. t \in Trips /\ s \in Seats \cup {NoSeat}
    BY DEF TripCallsTypeOK, RelocationCall, RelocationRequest, SeatFor
  <2>3. CASE UNCHANGED reservations
    BY <2>3 DEF LawfulStatement
  <2>4. CASE /\ p.id \in Live /\ ~ SeatTaken(t, s, p.id)
             /\ UpdateReservation(p.id, Moved(reservations[p.id], t, s))
    <3> DEFINE row == Moved(reservations[p.id], t, s)
    <3>1. p.id \in ResIds /\ reservations[p.id] \in Reservation
      BY <2>4 DEF TablesTypeOK, Live
    <3>2. row \in Reservation /\ row.trip = t /\ row.seat = s
      BY <2>2, <3>1 DEF Moved, Reservation
    <3>3. Writes(p.id, row)
      BY <2>4 DEF Writes
    <3>4. QED
      BY <2>4, <3>1, <3>2, <3>3 DEF LawfulStatement
  <2>5. QED
    BY <2>1, <2>3, <2>4
<1>3. ASSUME UNCHANGED reservations
      PROVE  LawfulStatement
  BY <1>3 DEF LawfulStatement
<1>4. QED
  BY <1>1, <1>2, <1>3
     DEF TripsStep, ReceiveTripCall, ReceiveFinish, ReceiveRelocation, TripCallStep,
         FinishStep, CheckFinish, ReadAbsentees, ReadLevel, Penalise, FinishTrip,
         RelocationStep, ReadOrigin, ReadDestination, ReadPassengers, ReadOccupied, CancelOrigin,
         TripWrite, CreateTrip, RescheduleTrip, UpdateTrip, DepartTrip, tables

\* Finishing and relocating trips change rows, but none appears, goes or changes hands.
LEMMA TripsKeepOwners ==
  ASSUME TablesTypeOK, TripsStep
  PROVE  Live' = Live /\ \A i \in Live : reservations'[i].user = reservations[i].user
<1>1. ASSUME NEW f, NEW a, MarkAbsent(f, a)
      PROVE  Live' = Live /\ \A i \in Live : reservations'[i].user = reservations[i].user
  <2>1. CASE UNCHANGED reservations
    BY <2>1 DEF Live
  <2>2. CASE /\ a.id \in Live
             /\ UpdateReservation(a.id, [reservations[a.id] EXCEPT !.status = "ABSENT"])
    <3>1. reservations[a.id] \in Reservation
      BY <2>2 DEF TablesTypeOK, Live
    <3>2. [reservations[a.id] EXCEPT !.status = "ABSENT"].user = reservations[a.id].user
      BY <3>1 DEF Reservation
    <3>3. QED
      BY <2>2, <3>2 DEF UpdateReservation, Live
  <2>3. QED
    BY <1>1, <2>1, <2>2 DEF MarkAbsent
<1>2. ASSUME NEW r, NEW p, MoveRow(r, p)
      PROVE  Live' = Live /\ \A i \in Live : reservations'[i].user = reservations[i].user
  <2>1. CASE UNCHANGED reservations
    BY <2>1 DEF Live
  <2>2. CASE \E t, s : UpdateReservation(p.id, Moved(reservations[p.id], t, s))
    BY <2>2 DEF UpdateReservation, Moved, Live
  <2>3. QED
    BY <1>2, <2>1, <2>2 DEF MoveRow
<1>3. CASE UNCHANGED reservations
  BY <1>3 DEF Live
<1>4. QED
  BY <1>1, <1>2, <1>3
     DEF TripsStep, ReceiveTripCall, ReceiveFinish, ReceiveRelocation, TripCallStep,
         FinishStep, CheckFinish, ReadAbsentees, ReadLevel, Penalise, FinishTrip,
         RelocationStep, ReadOrigin, ReadDestination, ReadPassengers, ReadOccupied,
         CancelOrigin, TripWrite, CreateTrip, RescheduleTrip, UpdateTrip, DepartTrip, tables

\* What the two loops read from the tables has the type their records promise.
LEMMA AbsenteesTyped ==
  ASSUME TablesTypeOK, NEW t
  PROVE  Absentees(t) \in SUBSET Absentee
  BY DEF TablesTypeOK, Absentees, Absentee, OfTrip, Live, Reservation

LEMMA PassengersTyped ==
  ASSUME TablesTypeOK, NEW t
  PROVE  Passengers(t) \in SUBSET Passenger
<1>1. SUFFICES ASSUME NEW i \in OfTrip(t)
               PROVE  [id |-> i, seated |-> reservations[i].seat # NoSeat] \in Passenger
  BY DEF Passengers
<1>2. i \in ResIds
  BY DEF OfTrip, Live, TablesTypeOK
<1>3. (reservations[i].seat # NoSeat) \in BOOLEAN
  OBVIOUS
<1>4. QED
  BY <1>2, <1>3, Zenon DEF Passenger

LEMMA FinishCallsTyped ==
  ASSUME TablesTypeOK, TripCallsTypeOK, NEW f \in Finishes, FinishStep(f)
  PROVE  /\ TripCallsTypeOK'
         /\ DOMAIN trips' = DOMAIN trips
         /\ \A t \in DOMAIN trips : trips'[t] \in Trip
         /\ users' \in [Users -> User]
<1>1. f \in DOMAIN finishes /\ finishes[f] \in FinishCall /\ relocations' = relocations
  BY DEF TripCallsTypeOK, FinishStep, CheckFinish, ReadAbsentees, MarkAbsent, ReadLevel,
         Penalise, FinishTrip
<1>2. PICK call \in FinishCall : finishes' = [finishes EXCEPT ![f] = call]
  <2>1. CASE CheckFinish(f)
    BY <1>1, <2>1 DEF CheckFinish, FinishAnswer, FinishCall, TripAnswers
  <2>2. CASE ReadAbsentees(f)
    BY <1>1, <2>2, AbsenteesTyped DEF ReadAbsentees, FinishCall
  <2>3. ASSUME NEW a \in finishes[f].todo, MarkAbsent(f, a)
        PROVE  \E call \in FinishCall : finishes' = [finishes EXCEPT ![f] = call]
    BY <1>1, <2>3 DEF MarkAbsent, FinishCall, Absentee
  <2>4. CASE ReadLevel(f)
    BY <1>1, <2>4 DEF ReadLevel, FinishCall, TablesTypeOK, User
  <2>5. CASE Penalise(f)
    BY <1>1, <2>5 DEF Penalise, FinishCall
  <2>6. CASE FinishTrip(f)
    BY <1>1, <2>6 DEF FinishTrip, FinishAnswer, FinishCall, TripAnswers
  <2>7. QED
    BY <2>1, <2>2, <2>3, <2>4, <2>5, <2>6 DEF FinishStep
<1>3. users' \in [Users -> User]
  <2>1. CASE Penalise(f)
    <3>1. NextLevel(finishes[f].level) \in 0..3
      BY <1>1 DEF FinishCall, NextLevel
    <3>2. QED
      BY <1>1, <2>1, <3>1 DEF Penalise, TablesTypeOK, User
  <2>2. CASE UNCHANGED users
    BY <2>2 DEF TablesTypeOK
  <2>3. QED
    BY <2>1, <2>2 DEF FinishStep, CheckFinish, ReadAbsentees, MarkAbsent, ReadLevel,
                      FinishTrip, tables
<1>4. DOMAIN trips' = DOMAIN trips /\ \A t \in DOMAIN trips : trips'[t] \in Trip
  <2>1. CASE FinishTrip(f)
    BY <2>1 DEF FinishTrip, TablesTypeOK, Trip, TripStatus
  <2>2. CASE UNCHANGED trips
    BY <2>2 DEF TablesTypeOK
  <2>3. QED
    BY <2>1, <2>2 DEF FinishStep, CheckFinish, ReadAbsentees, MarkAbsent, ReadLevel,
                      Penalise, tables
<1>5. QED
  BY <1>1, <1>2, <1>3, <1>4 DEF TripCallsTypeOK

LEMMA RelocationCallsTyped ==
  ASSUME TablesTypeOK, TripCallsTypeOK, NEW r \in Relocations, RelocationStep(r)
  PROVE  /\ TripCallsTypeOK'
         /\ DOMAIN trips' = DOMAIN trips
         /\ \A t \in DOMAIN trips : trips'[t] \in Trip
         /\ users' = users
<1>1. /\ r \in DOMAIN relocations /\ relocations[r] \in RelocationCall
      /\ finishes' = finishes /\ users' = users
  BY DEF TripCallsTypeOK, RelocationStep, ReadOrigin, ReadDestination, ReadPassengers, ReadOccupied,
         MoveRow, CancelOrigin, tables
<1>2. PICK call \in RelocationCall : relocations' = [relocations EXCEPT ![r] = call]
  <2>1. CASE ReadOrigin(r)
    <3>1. MayLead(relocations[r].request.user, relocations[r].request.trip) \in BOOLEAN
      BY DEF MayLead
    <3>2. QED
      BY <1>1, <2>1, <3>1 DEF ReadOrigin, RelocationAnswer, RelocationCall, TripAnswers
  <2>7. CASE ReadDestination(r)
    BY <1>1, <2>7 DEF ReadDestination, RelocationAnswer, RelocationCall, TripAnswers
  <2>2. CASE ReadPassengers(r)
    BY <1>1, <2>2, PassengersTyped DEF ReadPassengers, RelocationCall
  <2>3. CASE ReadOccupied(r)
    <3>1. SeatsOf(relocations[r].request.destination) \in SUBSET Seats
      BY DEF SeatsOf, SeatedOn, OfTrip, Live, TablesTypeOK, Reservation
    <3>2. QED
      BY <1>1, <2>3, <3>1 DEF ReadOccupied, RelocationCall
  <2>4. ASSUME NEW p \in relocations[r].todo, MoveRow(r, p)
        PROVE  \E call \in RelocationCall : relocations' = [relocations EXCEPT ![r] = call]
    <3>1. PICK s \in SeatFor(relocations[r], p) :
            \/ RelocationAnswer(r, "500")
            \/ relocations' = [relocations EXCEPT
                 ![r].todo = @ \ {p},
                 ![r].occupied = IF p.seated THEN @ \cup {s} ELSE @,
                 ![r].seat = IF p.seated THEN s ELSE @]
      BY <2>4 DEF MoveRow
    <3>2. p.seated => s \in Seats /\ s \in Nat
      BY TablesAssumption DEF SeatFor
    <3>3. QED
      BY <1>1, <3>1, <3>2 DEF RelocationAnswer, RelocationCall, TripAnswers
  <2>5. CASE CancelOrigin(r)
    BY <1>1, <2>5 DEF CancelOrigin, RelocationAnswer, RelocationCall, TripAnswers
  <2>6. QED
    BY <2>1, <2>2, <2>3, <2>4, <2>5, <2>7 DEF RelocationStep
<1>3. DOMAIN trips' = DOMAIN trips /\ \A t \in DOMAIN trips : trips'[t] \in Trip
  <2>1. CASE CancelOrigin(r)
    BY <2>1 DEF CancelOrigin, TablesTypeOK, Trip, TripStatus
  <2>2. CASE UNCHANGED trips
    BY <2>2 DEF TablesTypeOK
  <2>3. QED
    BY <2>1, <2>2 DEF RelocationStep, ReadOrigin, ReadDestination, ReadPassengers, ReadOccupied,
                      MoveRow, tables
<1>4. QED
  BY <1>1, <1>2, <1>3 DEF TripCallsTypeOK

\* The staff's writes put rows of TripRows, or a status, into trips.
LEMMA TripWritesTyped ==
  ASSUME TablesTypeOK, TripWrite
  PROVE  /\ UNCHANGED <<users, tripCalls>>
         /\ DOMAIN trips' \subseteq Trips
         /\ \A t \in DOMAIN trips' : trips'[t] \in Trip
<1>1. PICK t \in Trips :
        \/ DepartTrip(t)
        \/ \E row \in Trip : CreateTrip(t, row) \/ RescheduleTrip(t, row) \/ UpdateTrip(t, row)
  BY TripsAssumption, TablesAssumption DEF TripWrite
<1>2. CASE DepartTrip(t)
  BY <1>2 DEF DepartTrip, TablesTypeOK, Trip, TripStatus
<1>3. ASSUME NEW row \in Trip, CreateTrip(t, row)
      PROVE  /\ UNCHANGED <<users, tripCalls>>
             /\ DOMAIN trips' \subseteq Trips
             /\ \A x \in DOMAIN trips' : trips'[x] \in Trip
  BY <1>3 DEF CreateTrip, With, TablesTypeOK
<1>4. ASSUME NEW row \in Trip, RescheduleTrip(t, row)
      PROVE  /\ UNCHANGED <<users, tripCalls>>
             /\ DOMAIN trips' \subseteq Trips
             /\ \A x \in DOMAIN trips' : trips'[x] \in Trip
  BY <1>4 DEF RescheduleTrip, TablesTypeOK, Trip, TripStatus
<1>5. ASSUME NEW row \in Trip, UpdateTrip(t, row)
      PROVE  /\ UNCHANGED <<users, tripCalls>>
             /\ DOMAIN trips' \subseteq Trips
             /\ \A x \in DOMAIN trips' : trips'[x] \in Trip
  <2>1. t \in DOMAIN trips /\ trips[t] \in Trip
    BY <1>5 DEF UpdateTrip, TablesTypeOK
  <2>2. PICK new \in Trip : trips' = [trips EXCEPT ![t] = new]
    BY <1>5, <2>1 DEF UpdateTrip, Trip
  <2>3. QED
    BY <1>5, <2>1, <2>2 DEF UpdateTrip, TablesTypeOK
<1>6. QED
  BY <1>1, <1>2, <1>3, <1>4, <1>5

LEMMA TripsTyped ==
  ASSUME TablesTypeOK, TripCallsTypeOK, TripsStep
  PROVE  TablesTypeOK' /\ TripCallsTypeOK'
<1>1. RowsTypeOK'
  BY TripsLawful, LawfulKeepsRows DEF TablesTypeOK, RowsTypeOK
<1>2. ASSUME NEW f \in Finishes, NEW request \in FinishRequests, ReceiveFinish(f, request)
      PROVE  TripCallsTypeOK' /\ UNCHANGED <<trips, users>>
  BY <1>2, TripsAssumption
     DEF ReceiveFinish, TripCallsTypeOK, FinishCall, FinishRequest, TripAnswers, With, tables
<1>3. ASSUME NEW r \in Relocations, NEW request \in RelocationRequests,
             ReceiveRelocation(r, request)
      PROVE  TripCallsTypeOK' /\ UNCHANGED <<trips, users>>
  BY <1>3, TripsAssumption
     DEF ReceiveRelocation, TripCallsTypeOK, RelocationCall, TripAnswers, With, tables
<1>4. CASE TripWrite
  BY <1>1, <1>4, TripWritesTyped DEF TablesTypeOK, RowsTypeOK, TripCallsTypeOK, tripCalls
<1>5. CASE ReceiveTripCall
  BY <1>1, <1>2, <1>3, <1>5 DEF ReceiveTripCall, TablesTypeOK, RowsTypeOK
<1>6. CASE TripCallStep
  BY <1>1, <1>6, FinishCallsTyped, RelocationCallsTyped
     DEF TripCallStep, TablesTypeOK, RowsTypeOK
<1>7. QED
  BY <1>4, <1>5, <1>6 DEF TripsStep

\* Dropping calls changes their pc only.
LEMMA TripsDropTyped ==
  ASSUME TripCallsTypeOK, DropTripCalls
  PROVE  TripCallsTypeOK'
<1>1. \A f \in DOMAIN finishes : [finishes[f] EXCEPT !.pc = "lost"] \in FinishCall
  BY DEF TripCallsTypeOK, FinishCall
<1>2. \A r \in DOMAIN relocations : [relocations[r] EXCEPT !.pc = "lost"] \in RelocationCall
  BY DEF TripCallsTypeOK, RelocationCall
<1>3. QED
  BY <1>1, <1>2 DEF TripCallsTypeOK, DropTripCalls, Dropped

\* The steps alone, without fairness.
LEMMA TripsStepsTyped == TripsInit /\ [][TripsNext]_tripVars => []TripsTypeOK
<1>1. TripsInit => TripsTypeOK
  BY TablesStart DEF TripsInit, TripsTypeOK, TripCallsInit, TripCallsTypeOK
<1>2. TripsTypeOK /\ [TripsNext]_tripVars => TripsTypeOK'
  <2> SUFFICES ASSUME TripsTypeOK, [TripsNext]_tripVars
               PROVE  TripsTypeOK'
    OBVIOUS
  <2>1. CASE TripsStep
    BY <2>1, TripsTyped DEF TripsTypeOK
  <2>2. CASE TripsRestart
    BY <2>2, TripsDropTyped DEF TripsTypeOK, TripsRestart, TablesTypeOK, tables
  <2>3. CASE UNCHANGED tripVars
    BY <2>3 DEF TripsTypeOK, TripCallsTypeOK, TablesTypeOK, tripVars, tripCalls, tables
  <2>4. QED
    BY <2>1, <2>2, <2>3 DEF TripsNext
<1>3. QED
  BY <1>1, <1>2, PTL

(***************************************************************************)
(* The tables and the calls in flight keep their types, whatever leaders   *)
(* and staff do and however their calls interleave: no level leaves 1..3   *)
(* (0 for null), no seat counter finds a seat that does not exist.         *)
(***************************************************************************)
THEOREM TripsTypeCorrect == TripsSpec => []TripsTypeOK
  BY TripsStepsTyped, PTL DEF TripsSpec

(***************************************************************************)
(* No seat of a trip is ever given twice by finishing and relocating trips *)
(* in any order, two relocations to one trip at once included.             *)
(***************************************************************************)
THEOREM TripsSeatUnique == TripsSpec => []SeatUnique
<1>1. TripsInit => SeatUnique
  BY TablesStart DEF TripsInit
<1>2. TripsTypeOK /\ SeatUnique /\ [TripsNext]_tripVars => SeatUnique'
  <2> SUFFICES ASSUME TripsTypeOK, SeatUnique, [TripsNext]_tripVars
               PROVE  SeatUnique'
    OBVIOUS
  <2>1. CASE TripsStep
    BY <2>1, TripsLawful, LawfulKeepsSeatUnique DEF TripsTypeOK
  <2>2. CASE UNCHANGED reservations
    BY <2>2, UnchangedKeepsSeatUnique
  <2>3. QED
    BY <2>1, <2>2 DEF TripsNext, TripsRestart, tripVars, tables
<1>3. QED
  BY <1>1, <1>2, TripsTypeCorrect, PTL DEF TripsSpec

(***************************************************************************)
(* Relocating trips, in whatever order passengers are moved and wherever   *)
(* it stops, implements SeatAllocation: every passenger moves by one step, *)
(* and finishing a trip moves nobody.                                      *)
(***************************************************************************)
THEOREM TripsAllocatesSeats == TripsSpec => AllocatesSeats
<1>1. TripsInit /\ TripsTypeOK /\ SeatUnique => Allocation!Init
  BY AllocationStart DEF TripsTypeOK
<1>2. TripsTypeOK /\ [TripsNext]_tripVars => [Allocation!Next]_Claims
  <2> SUFFICES ASSUME TripsTypeOK, [TripsNext]_tripVars
               PROVE  Allocation!Next \/ Claims' = Claims
    OBVIOUS
  <2>1. CASE TripsStep
    BY <2>1, TripsLawful, LawfulAllocates DEF TripsTypeOK
  <2>2. CASE UNCHANGED reservations
    BY <2>2 DEF Claims, Live
  <2>3. QED
    BY <2>1, <2>2
       DEF TripsNext, TripsRestart, tripVars, tables
<1>3. QED
  BY <1>1, <1>2, TripsTypeCorrect, TripsSeatUnique, PTL
     DEF TripsSpec, AllocatesSeats, Allocation!Spec

----------------------------------------------------------------------------
(* The penalties of a finished trip *)

\* Whom the loop has yet to penalise.
Pending(call) ==
  {a.user : a \in call.todo}
    \cup IF call.pc \in {"level", "penalise"} THEN {call.victim} ELSE {}

\* What PenaltiesApplied says of one call, and that a call answered 200 is over.
PenaltiesOf(call) ==
  /\ call.pc # "lost" =>
       \A a \in call.snapshot : a.user \in Pending(call) \/ Punished(a.user)
  /\ call.answer = "200" => call.pc = "done" /\ \A a \in call.snapshot : Punished(a.user)

PenaltiesInv == \A f \in DOMAIN finishes : PenaltiesOf(finishes[f])

\* A week's block and a level beyond the first stay: every write to a user's level
\* is Penalise's.
PunishedStay == \A u \in Users : Punished(u) => Punished(u)'

LEMMA TripsStepPunishes ==
  ASSUME TablesTypeOK, TripCallsTypeOK, TripsStep
  PROVE  PunishedStay
<1>1. ASSUME NEW f, f \in DOMAIN finishes, Penalise(f)
      PROVE  PunishedStay
  <2>1. NextLevel(finishes[f].level) >= 2 /\ users \in [Users -> User]
    BY <1>1 DEF TablesTypeOK, TripCallsTypeOK, FinishCall, NextLevel
  <2>2. QED
    BY <1>1, <2>1 DEF Penalise, PunishedStay, Punished, User
<1>2. CASE UNCHANGED users
  BY <1>2 DEF PunishedStay, Punished
<1>3. QED
  BY <1>1, <1>2
     DEF TripsStep, ReceiveTripCall, ReceiveFinish, ReceiveRelocation, TripCallStep,
         FinishStep, CheckFinish, ReadAbsentees, MarkAbsent, ReadLevel, FinishTrip,
         RelocationStep, ReadOrigin, ReadDestination, ReadPassengers, ReadOccupied, MoveRow,
         CancelOrigin, TripWrite, CreateTrip, RescheduleTrip, UpdateTrip, DepartTrip, tables

\* Calls that do not move keep what they have, as long as users stay punished.
LEMMA OtherPenaltiesStay ==
  ASSUME TripCallsTypeOK, PunishedStay, NEW f \in DOMAIN finishes, PenaltiesOf(finishes[f]),
         finishes'[f] = finishes[f]
  PROVE  PenaltiesOf(finishes[f])'
<1>1. \A a \in finishes[f].snapshot : a.user \in Users
  BY DEF TripCallsTypeOK, FinishCall, Absentee
<1>2. QED
  BY <1>1 DEF PenaltiesOf, PunishedStay, Pending

LEMMA FinishStepPenalises ==
  ASSUME TablesTypeOK, TripCallsTypeOK, PenaltiesInv, PunishedStay,
         NEW f \in Finishes, FinishStep(f)
  PROVE  PenaltiesInv'
<1> DEFINE call == finishes[f]
           next == finishes'[f]
<1>1. f \in DOMAIN finishes /\ call \in FinishCall
  BY DEF FinishStep, TripCallsTypeOK
<1>2. DOMAIN finishes' = DOMAIN finishes /\ \A g \in DOMAIN finishes \ {f} : finishes'[g] = finishes[g]
  BY DEF FinishStep, CheckFinish, FinishAnswer, ReadAbsentees, MarkAbsent, ReadLevel, Penalise,
         FinishTrip
<1>3. call.pc \notin {"done", "lost"} /\ call.answer # "200"
  BY <1>1 DEF FinishStep, CheckFinish, ReadAbsentees, MarkAbsent, ReadLevel, Penalise,
              FinishTrip, PenaltiesInv, PenaltiesOf
<1>4. \A a \in call.snapshot :
        a.user \in Users /\ (a.user \in Pending(call) \/ Punished(a.user))
  BY <1>1, <1>3 DEF PenaltiesInv, PenaltiesOf, FinishCall, Absentee
<1>5. PenaltiesOf(finishes[f])'
  <2>1. CASE CheckFinish(f)
    BY <1>1, <1>3, <1>4, <2>1
       DEF CheckFinish, FinishAnswer, FinishCall, PenaltiesOf, Pending, PunishedStay
  <2>2. CASE ReadAbsentees(f)
    BY <1>1, <1>3, <2>2 DEF ReadAbsentees, FinishCall, PenaltiesOf, Pending
  <2>3. ASSUME NEW a \in call.todo, MarkAbsent(f, a)
        PROVE  PenaltiesOf(finishes[f])'
    BY <1>1, <1>3, <1>4, <2>3 DEF MarkAbsent, FinishCall, PenaltiesOf, Pending, PunishedStay
  <2>4. CASE ReadLevel(f)
    BY <1>1, <1>3, <1>4, <2>4 DEF ReadLevel, FinishCall, PenaltiesOf, Pending, PunishedStay
  <2>5. CASE Penalise(f)
    <3>1. users'[call.victim].blocked /\ users'[call.victim].level >= 2
      <4>1. call.victim \in Users /\ users[call.victim] \in User /\ NextLevel(call.level) >= 2
        BY <1>1 DEF FinishCall, TablesTypeOK, NextLevel
      <4>2. QED
        BY <2>5, <4>1 DEF Penalise, TablesTypeOK, User
    <3>2. Pending(next) = {a.user : a \in call.todo}
      BY <1>1, <2>5 DEF Penalise, FinishCall, Pending
    <3>3. next.snapshot = call.snapshot /\ next.answer = call.answer
      BY <1>1, <2>5 DEF Penalise, FinishCall
    <3>4. QED
      BY <1>3, <1>4, <3>1, <3>2, <3>3 DEF PenaltiesOf, Pending, PunishedStay, Punished
  <2>6. CASE FinishTrip(f)
    <3>1. Pending(call) = {}
      BY <2>6 DEF FinishTrip, Pending
    <3>2. next.snapshot = call.snapshot /\ next.pc = "done"
      BY <1>1, <2>6 DEF FinishTrip, FinishAnswer, FinishCall
    <3>3. QED
      BY <1>4, <3>1, <3>2 DEF PenaltiesOf, PunishedStay
  <2>7. QED
    BY <2>1, <2>2, <2>3, <2>4, <2>5, <2>6 DEF FinishStep
<1>6. QED
  BY <1>2, <1>5, OtherPenaltiesStay DEF PenaltiesInv

LEMMA TripsStepKeepsPenalties ==
  ASSUME TablesTypeOK, TripCallsTypeOK, PenaltiesInv, TripsStep
  PROVE  PenaltiesInv'
<1>1. PunishedStay
  BY TripsStepPunishes
<1>2. ASSUME NEW f \in Finishes, NEW request, ReceiveFinish(f, request)
      PROVE  PenaltiesInv'
  <2>1. /\ DOMAIN finishes' = DOMAIN finishes \cup {f} /\ f \notin DOMAIN finishes
        /\ \A g \in DOMAIN finishes : finishes'[g] = finishes[g]
        /\ finishes'[f].snapshot = {} /\ finishes'[f].answer = "none"
    BY <1>2 DEF ReceiveFinish, With
  <2>2. PenaltiesOf(finishes[f])'
    BY <2>1 DEF PenaltiesOf
  <2>3. QED
    BY <1>1, <2>1, <2>2, OtherPenaltiesStay DEF PenaltiesInv
<1>3. CASE UNCHANGED finishes
  BY <1>1, <1>3, OtherPenaltiesStay DEF PenaltiesInv
<1>4. QED
  BY <1>1, <1>2, <1>3, FinishStepPenalises
     DEF TripsStep, ReceiveTripCall, ReceiveRelocation, TripCallStep,
         RelocationStep, ReadOrigin, ReadDestination, ReadPassengers, ReadOccupied, MoveRow,
         CancelOrigin, TripWrite, CreateTrip, RescheduleTrip, UpdateTrip, DepartTrip, tripCalls

\* A dropped call owes nothing, and one that was over stays so.
LEMMA DropKeepsPenalties ==
  ASSUME TripCallsTypeOK, PenaltiesInv, DropTripCalls, UNCHANGED users
  PROVE  PenaltiesInv'
<1> SUFFICES ASSUME NEW f \in DOMAIN finishes'
             PROVE  PenaltiesOf(finishes[f])'
  BY DEF PenaltiesInv
<1>1. f \in DOMAIN finishes /\ finishes[f] \in FinishCall
  BY DEF DropTripCalls, Dropped, TripCallsTypeOK
<1>2. \A u : Punished(u)' <=> Punished(u)
  BY DEF Punished
<1>3. CASE finishes[f].pc = "done"
  BY <1>1, <1>2, <1>3 DEF DropTripCalls, Dropped, PenaltiesInv, PenaltiesOf, Pending
<1>4. CASE finishes[f].pc # "done"
  BY <1>1, <1>4 DEF DropTripCalls, Dropped, PenaltiesInv, PenaltiesOf, FinishCall
<1>5. QED
  BY <1>3, <1>4

LEMMA PenaltiesStart ==
  TripCallsInit => PenaltiesInv
  BY DEF TripCallsInit, PenaltiesInv

LEMMA PenaltiesFollow ==
  PenaltiesInv => PenaltiesApplied
  BY DEF PenaltiesInv, PenaltiesOf, Pending, PenaltiesApplied

(***************************************************************************)
(* Nobody whom a finish has marked absent escapes the penalty, whatever    *)
(* leaders finish and relocate at once.                                    *)
(***************************************************************************)
THEOREM TripsPenaltiesApplied == TripsSpec => []PenaltiesApplied
<1>1. TripsInit => PenaltiesInv
  BY PenaltiesStart DEF TripsInit
<1>2. TripsTypeOK /\ PenaltiesInv /\ [TripsNext]_tripVars => PenaltiesInv'
  <2> SUFFICES ASSUME TripsTypeOK, PenaltiesInv, [TripsNext]_tripVars
               PROVE  PenaltiesInv'
    OBVIOUS
  <2>1. CASE TripsStep
    BY <2>1, TripsStepKeepsPenalties DEF TripsTypeOK
  <2>2. CASE TripsRestart
    BY <2>2, DropKeepsPenalties DEF TripsTypeOK, TripsRestart, tables
  <2>3. CASE UNCHANGED tripVars
    BY <2>3, OtherPenaltiesStay
       DEF PenaltiesInv, tripVars, tripCalls, tables, TripsTypeOK, PunishedStay, Punished
  <2>4. QED
    BY <2>1, <2>2, <2>3 DEF TripsNext
<1>3. QED
  BY <1>1, <1>2, TripsTypeCorrect, PenaltiesFollow, PTL DEF TripsSpec

----------------------------------------------------------------------------
(* Relocations *)

\* Every reservation keeps its trip and its seat.
PlacesStay ==
  /\ Live' = Live
  /\ \A i \in Live : /\ reservations'[i].trip = reservations[i].trip
                     /\ reservations'[i].seat = reservations[i].seat

\* The loop of r takes up p: its row, if there is one, has moved to the seat found,
\* and the call's record says so.
PassengerMoved(r, p) ==
  LET call == relocations[r]
      t == call.request.destination
      next == relocations'[r]
  IN
  /\ call.pc = "loop" /\ p \in call.todo
  /\ Live' = Live
  /\ \A i \in Live \ {p.id} : reservations'[i] = reservations[i]
  /\ \E s \in SeatFor(call, p) :
       /\ p.id \in Live => /\ reservations'[p.id].trip = t
                           /\ reservations'[p.id].seat = s
       /\ next.occupied = IF p.seated THEN call.occupied \cup {s} ELSE call.occupied
       /\ next.seat = IF p.seated THEN s ELSE call.seat
  /\ next.request = call.request /\ next.snapshot = call.snapshot
  /\ next.todo = call.todo \ {p} /\ next.pc = "loop" /\ next.answer = call.answer

\* Call r gets on without moving anybody.
RelocationMoves(r) ==
  LET call == relocations[r] next == relocations'[r] IN
  /\ next.request = call.request
  /\ next.occupied = call.occupied /\ next.seat = call.seat
  /\ next.snapshot = call.snapshot /\ next.todo = call.todo
  /\ call.pc = "origin" => next.pc \in {"destination", "done"}
  /\ call.pc = "destination" => next.pc \in {"read", "done"}
  /\ call.pc = "loop" => next.pc = "done"
  /\ call.pc \in {"origin", "destination", "loop"}
  /\ \/ next.answer \in {"403", "404", "500"} \/ next.answer = call.answer
     \/ next.answer = "200" /\ call.pc = "loop" /\ call.todo = {} /\ next.pc = "done"

LEMMA RelocationEffect ==
  ASSUME TablesTypeOK, TripCallsTypeOK, NEW r \in Relocations, RelocationStep(r)
  PROVE  /\ r \in DOMAIN relocations /\ relocations[r] \in RelocationCall
         /\ DOMAIN relocations' = DOMAIN relocations
         /\ \A q \in DOMAIN relocations \ {r} : relocations'[q] = relocations[q]
         /\ \/ PlacesStay /\ (RelocationMoves(r) \/ ReadPassengers(r) \/ ReadOccupied(r))
            \/ \E p \in relocations[r].todo : PassengerMoved(r, p)
<1> DEFINE call == relocations[r]
<1>1. r \in DOMAIN relocations /\ call \in RelocationCall
  BY DEF RelocationStep, TripCallsTypeOK
<1>2. /\ DOMAIN relocations' = DOMAIN relocations
      /\ \A q \in DOMAIN relocations \ {r} : relocations'[q] = relocations[q]
  BY DEF RelocationStep, ReadOrigin, ReadDestination, RelocationAnswer,
         ReadPassengers, ReadOccupied, MoveRow, CancelOrigin
<1>3. ASSUME UNCHANGED reservations
      PROVE  PlacesStay
  BY <1>3 DEF PlacesStay, Live
<1>4. CASE ReadOrigin(r)
  BY <1>1, <1>3, <1>4 DEF ReadOrigin, RelocationAnswer, RelocationCall, RelocationMoves, tables
<1>5. CASE ReadDestination(r)
  BY <1>1, <1>3, <1>5
     DEF ReadDestination, RelocationAnswer, RelocationCall, RelocationMoves, tables
<1>6. CASE CancelOrigin(r)
  BY <1>1, <1>3, <1>6 DEF CancelOrigin, RelocationAnswer, RelocationCall, RelocationMoves
<1>7. ASSUME NEW p \in call.todo, MoveRow(r, p)
      PROVE  (PlacesStay /\ RelocationMoves(r)) \/ PassengerMoved(r, p)
  <2> DEFINE t == call.request.destination
  <2>1. PICK s \in SeatFor(call, p) :
          \/ RelocationAnswer(r, "500") /\ UNCHANGED reservations
          \/ /\ IF p.id \in Live
                  THEN UpdateReservation(p.id, Moved(reservations[p.id], t, s))
                  ELSE UNCHANGED reservations
             /\ relocations' = [relocations EXCEPT
                  ![r].todo = @ \ {p},
                  ![r].occupied = IF p.seated THEN @ \cup {s} ELSE @,
                  ![r].seat = IF p.seated THEN s ELSE @]
    BY <1>7 DEF MoveRow
  <2>2. call.pc = "loop"
    BY <1>7 DEF MoveRow
  <2>3. CASE RelocationAnswer(r, "500") /\ UNCHANGED reservations
    BY <1>1, <1>3, <2>2, <2>3 DEF RelocationAnswer, RelocationCall, RelocationMoves
  <2>4. CASE ~ (RelocationAnswer(r, "500") /\ UNCHANGED reservations)
    <3>1. /\ relocations'[r].request = call.request
          /\ relocations'[r].snapshot = call.snapshot
          /\ relocations'[r].todo = call.todo \ {p}
          /\ relocations'[r].pc = "loop" /\ relocations'[r].answer = call.answer
          /\ relocations'[r].occupied = IF p.seated THEN call.occupied \cup {s} ELSE call.occupied
          /\ relocations'[r].seat = IF p.seated THEN s ELSE call.seat
      <4>1. relocations'[r] = [call EXCEPT
              !.todo = call.todo \ {p},
              !.occupied = IF p.seated THEN call.occupied \cup {s} ELSE call.occupied,
              !.seat = IF p.seated THEN s ELSE call.seat]
        BY <1>1, <2>1, <2>4
      <4>2. QED
        BY <1>1, <2>2, <4>1 DEF RelocationCall
    <3>2. /\ Live' = Live
          /\ \A i \in Live \ {p.id} : reservations'[i] = reservations[i]
          /\ p.id \in Live => reservations'[p.id] = Moved(reservations[p.id], t, s)
      BY <2>1, <2>4 DEF UpdateReservation, Live
    <3>3. p.id \in Live => /\ reservations'[p.id].trip = t
                           /\ reservations'[p.id].seat = s
      BY <3>2 DEF Moved, TablesTypeOK, Live, Reservation
    <3>4. QED
      BY <2>1, <2>2, <3>1, <3>2, <3>3 DEF PassengerMoved
  <2>5. QED
    BY <2>3, <2>4
<1>8. QED
  BY <1>1, <1>2, <1>3, <1>4, <1>5, <1>6, <1>7
     DEF RelocationStep, ReadPassengers, ReadOccupied, tables

\* Nothing else in TripsService moves a reservation.
LEMMA OthersLeavePlaces ==
  ASSUME TablesTypeOK, TripsStep, \A r \in Relocations : ~ RelocationStep(r)
  PROVE  PlacesStay
<1>1. ASSUME NEW f, NEW a, MarkAbsent(f, a)
      PROVE  PlacesStay
  BY <1>1 DEF MarkAbsent, UpdateReservation, PlacesStay, Live, TablesTypeOK, Reservation
<1>2. CASE UNCHANGED reservations
  BY <1>2 DEF PlacesStay, Live
<1>3. QED
  BY <1>1, <1>2
     DEF TripsStep, ReceiveTripCall, ReceiveFinish, ReceiveRelocation, TripCallStep,
         FinishStep, CheckFinish, ReadAbsentees, ReadLevel, Penalise, FinishTrip,
         TripWrite, CreateTrip, RescheduleTrip, UpdateTrip, DepartTrip, tables

\* Nor touches a relocation, but to start one.
LEMMA OthersLeaveRelocations ==
  ASSUME TripsStep, \A r \in Relocations : ~ RelocationStep(r)
  PROVE  \/ UNCHANGED relocations
         \/ \E r \in Relocations, request \in RelocationRequests : ReceiveRelocation(r, request)
  BY DEF TripsStep, ReceiveTripCall, ReceiveFinish, TripCallStep,
         FinishStep, CheckFinish, ReadAbsentees, MarkAbsent, ReadLevel, Penalise, FinishTrip,
         TripWrite, CreateTrip, RescheduleTrip, UpdateTrip, DepartTrip, tripCalls

\* Nobody is in a call's hands before it has read them.
Orderly(call) ==
  /\ call.todo \subseteq call.snapshot
  /\ call.pc \in {"origin", "destination", "read"} => call.snapshot = {}

\* What RelocatedTogether says of one passenger of call r that it has handled.
TakenAlong(r, p) ==
  \/ p.id \notin Live
  \/ reservations[p.id].trip = relocations[r].request.destination
  \/ \E q \in DOMAIN relocations \ {r} :
       \E other \in relocations[q].snapshot : other.id = p.id

RelocatedInv ==
  /\ \A r \in DOMAIN relocations : Orderly(relocations[r])
  /\ \A r \in DOMAIN relocations : \A p \in relocations[r].snapshot \ relocations[r].todo :
       TakenAlong(r, p)

LEMMA RelocatedFollows == RelocatedInv <=>
  RelocatedTogether /\ \A r \in DOMAIN relocations : Orderly(relocations[r])
  BY DEF RelocatedInv, RelocatedTogether, TakenAlong

\* A row read by a relocation stays on its trip, or goes for good.
ReadRowsStay ==
  \A r \in DOMAIN relocations : \A p \in relocations[r].snapshot :
    p.id \in Live' =>
      p.id \in Live /\ reservations'[p.id].trip = reservations[p.id].trip

LEMMA OthersKeepRelocated ==
  ASSUME RelocatedInv, ReadRowsStay,
         \/ UNCHANGED relocations
         \/ \E r \in Relocations : \E request : ReceiveRelocation(r, request)
         \/ DropTripCalls /\ TripCallsTypeOK
  PROVE  RelocatedInv'
<1>1. CASE UNCHANGED relocations
  BY <1>1 DEF RelocatedInv, ReadRowsStay, TakenAlong
<1>2. ASSUME NEW r \in Relocations, NEW request, ReceiveRelocation(r, request)
      PROVE  RelocatedInv'
  <2>1. /\ r \notin DOMAIN relocations
        /\ DOMAIN relocations' = DOMAIN relocations \cup {r}
        /\ \A q \in DOMAIN relocations : relocations'[q] = relocations[q]
        /\ relocations'[r].snapshot = {} /\ relocations'[r].todo = {}
    BY <1>2 DEF ReceiveRelocation, With
  <2>2. \A q \in DOMAIN relocations' : Orderly(relocations[q])'
    BY <2>1 DEF RelocatedInv, Orderly
  <2>3. ASSUME NEW q \in DOMAIN relocations, NEW p \in relocations[q].snapshot \ relocations[q].todo
        PROVE  TakenAlong(q, p)'
    BY <2>1, <2>3 DEF RelocatedInv, ReadRowsStay, TakenAlong
  <2>4. QED
    BY <2>1, <2>2, <2>3 DEF RelocatedInv
<1>3. CASE DropTripCalls /\ TripCallsTypeOK
  <2>1. /\ DOMAIN relocations' = DOMAIN relocations
        /\ \A q \in DOMAIN relocations :
             /\ relocations'[q].request = relocations[q].request
             /\ relocations'[q].snapshot = relocations[q].snapshot
             /\ relocations'[q].todo = relocations[q].todo
             /\ relocations'[q].pc \in {relocations[q].pc, "lost"}
    BY <1>3 DEF DropTripCalls, Dropped, TripCallsTypeOK, RelocationCall
  <2>2. \A q \in DOMAIN relocations' : Orderly(relocations[q])'
    BY <2>1 DEF RelocatedInv, Orderly
  <2>3. ASSUME NEW q \in DOMAIN relocations, NEW p \in relocations[q].snapshot \ relocations[q].todo
        PROVE  TakenAlong(q, p)'
    BY <2>1, <2>3 DEF RelocatedInv, ReadRowsStay, TakenAlong
  <2>4. QED
    BY <2>1, <2>2, <2>3 DEF RelocatedInv
<1>4. QED
  BY <1>1, <1>2, <1>3

LEMMA RelocationStepKeepsRelocated ==
  ASSUME TablesTypeOK, TripCallsTypeOK, RelocatedInv, NEW r \in Relocations, RelocationStep(r)
  PROVE  RelocatedInv'
<1> DEFINE call == relocations[r]
<1>1. /\ r \in DOMAIN relocations /\ call \in RelocationCall
      /\ DOMAIN relocations' = DOMAIN relocations
      /\ \A q \in DOMAIN relocations \ {r} : relocations'[q] = relocations[q]
  BY RelocationEffect
<1>2. CASE PlacesStay /\ (RelocationMoves(r) \/ ReadPassengers(r) \/ ReadOccupied(r))
  <2>1. \/ /\ relocations'[r].snapshot = call.snapshot /\ relocations'[r].todo = call.todo
           /\ relocations'[r].pc \in {"origin", "destination", "read"} =>
                call.pc \in {"origin", "destination", "read"}
        \/ /\ relocations'[r].snapshot = relocations'[r].todo /\ call.snapshot = {}
           /\ relocations'[r].pc = "occupied"
    <3>1. CASE RelocationMoves(r)
      BY <3>1 DEF RelocationMoves
    <3>2. CASE ReadPassengers(r)
      BY <1>1, <3>2 DEF ReadPassengers, RelocationCall, RelocatedInv, Orderly
    <3>3. CASE ReadOccupied(r)
      BY <1>1, <3>3 DEF ReadOccupied, RelocationCall
    <3>4. QED
      BY <1>2, <3>1, <3>2, <3>3
  <2>2. relocations'[r].request = call.request
    BY <1>1, <1>2 DEF RelocationMoves, ReadPassengers, ReadOccupied, RelocationCall
  <2>3. \A q \in DOMAIN relocations : relocations[q].snapshot \subseteq relocations'[q].snapshot
    BY <1>1, <2>1
  <2>4. \A q \in DOMAIN relocations : Orderly(relocations[q])'
    BY <1>1, <2>1 DEF RelocatedInv, Orderly
  <2>5. ASSUME NEW q \in DOMAIN relocations,
               NEW p \in relocations'[q].snapshot \ relocations'[q].todo
        PROVE  TakenAlong(q, p)'
    <3>1. p \in relocations[q].snapshot \ relocations[q].todo
      BY <1>1, <2>1
    <3>2. relocations'[q].request = relocations[q].request
      BY <1>1, <2>2
    <3>3. QED
      BY <1>1, <1>2, <2>3, <3>1, <3>2 DEF RelocatedInv, TakenAlong, PlacesStay
  <2>6. QED
    BY <1>1, <2>4, <2>5 DEF RelocatedInv
<1>3. ASSUME NEW m \in call.todo, PassengerMoved(r, m)
      PROVE  RelocatedInv'
  <2>1. /\ relocations'[r].snapshot = call.snapshot /\ relocations'[r].request = call.request
        /\ relocations'[r].todo = call.todo \ {m} /\ relocations'[r].pc = "loop"
        /\ Live' = Live
        /\ \A i \in Live \ {m.id} : reservations'[i] = reservations[i]
        /\ m.id \in Live => reservations'[m.id].trip = call.request.destination
    BY <1>3 DEF PassengerMoved
  <2>2. \A q \in DOMAIN relocations :
          /\ relocations'[q].snapshot = relocations[q].snapshot
          /\ relocations'[q].request = relocations[q].request
    BY <1>1, <2>1
  <2>3. \A q \in DOMAIN relocations : Orderly(relocations[q])'
    BY <1>1, <2>1 DEF RelocatedInv, Orderly
  <2>4. ASSUME NEW q \in DOMAIN relocations,
               NEW p \in relocations'[q].snapshot \ relocations'[q].todo
        PROVE  TakenAlong(q, p)'
    <3>1. CASE p.id = m.id
      <4>1. CASE q = r
        BY <1>1, <2>1, <3>1, <4>1 DEF TakenAlong
      <4>2. CASE q # r
        <5>1. m \in relocations'[r].snapshot
          BY <1>1, <2>1 DEF RelocatedInv, Orderly
        <5>2. QED
          BY <1>1, <3>1, <4>2, <5>1 DEF TakenAlong
      <4>3. QED
        BY <4>1, <4>2
    <3>2. CASE p.id # m.id
      <4>1. p \in relocations[q].snapshot \ relocations[q].todo
        BY <1>1, <2>1, <2>2, <3>2
      <4>2. QED
        BY <1>1, <2>1, <2>2, <3>2, <4>1 DEF RelocatedInv, TakenAlong
    <3>3. QED
      BY <3>1, <3>2
  <2>5. QED
    BY <1>1, <2>3, <2>4 DEF RelocatedInv
<1>4. QED
  BY <1>2, <1>3, RelocationEffect

LEMMA TripsStepKeepsRelocated ==
  ASSUME TablesTypeOK, TripCallsTypeOK, RelocatedInv, TripsStep
  PROVE  RelocatedInv'
<1>1. ASSUME NEW r \in Relocations, RelocationStep(r)
      PROVE  RelocatedInv'
  BY <1>1, RelocationStepKeepsRelocated
<1>2. CASE \A r \in Relocations : ~ RelocationStep(r)
  <2>1. PlacesStay
    BY <1>2, OthersLeavePlaces
  <2>2. ReadRowsStay
    BY <2>1 DEF PlacesStay, ReadRowsStay
  <2>3. QED
    BY <1>2, <2>2, OthersLeaveRelocations, OthersKeepRelocated
<1>3. QED
  BY <1>1, <1>2

LEMMA RelocatedStart ==
  TripCallsInit => RelocatedInv
  BY DEF TripCallsInit, RelocatedInv

(***************************************************************************)
(* Relocations, however many at once and wherever they stop, leave nobody  *)
(* behind whom they have handled.                                          *)
(***************************************************************************)
THEOREM TripsRelocatedTogether == TripsSpec => []RelocatedTogether
<1>1. TripsInit => RelocatedInv
  BY RelocatedStart DEF TripsInit
<1>2. TripsTypeOK /\ RelocatedInv /\ [TripsNext]_tripVars => RelocatedInv'
  <2> SUFFICES ASSUME TripsTypeOK, RelocatedInv, [TripsNext]_tripVars
               PROVE  RelocatedInv'
    OBVIOUS
  <2>1. CASE TripsStep
    BY <2>1, TripsStepKeepsRelocated DEF TripsTypeOK
  <2>2. CASE UNCHANGED reservations /\ (UNCHANGED relocations \/ DropTripCalls)
    <3>1. ReadRowsStay
      BY <2>2 DEF ReadRowsStay, Live
    <3>2. QED
      BY <2>2, <3>1, OthersKeepRelocated DEF TripsTypeOK
  <2>3. QED
    BY <2>1, <2>2 DEF TripsNext, TripsRestart, tables, tripVars, tripCalls
<1>3. QED
  BY <1>1, <1>2, TripsTypeCorrect, RelocatedFollows, PTL DEF TripsSpec

----------------------------------------------------------------------------
(* A relocation fills the destination from the front *)

\* What a call has in hand is fresh until the loop starts, and it is over when it has
\* answered 200.
FreshInHand(call) ==
  /\ call.pc \in {"origin", "destination", "read", "occupied"} =>
       call.seat = 1 /\ call.occupied = {} /\ call.snapshot = call.todo
  /\ call.answer = "200" => call.todo = {} /\ call.pc = "done"

\* A snapshot has each passenger once, and nobody cancels in TripsService.
SnapshotKept(call) ==
  \A p \in call.snapshot :
    p.id \in Live /\ \A other \in call.snapshot : other.id = p.id => other = p

\* The only relocation so far, and not of a trip to itself.
Alone(r) ==
  /\ DOMAIN relocations = {r}
  /\ relocations[r].request.destination # relocations[r].request.trip

\* Those it has yet to move are on the origin; the seats it takes for occupied are, and
\* up to its counter, and to the seat of each passenger it has moved, all are.
FrontFilled(call) ==
  /\ \A p \in call.todo : reservations[p.id].trip = call.request.trip
  /\ call.occupied \subseteq SeatsOf(call.request.destination)
  /\ \A x \in 1..(call.seat - 1) : x \in call.occupied
  /\ \A p \in call.snapshot \ call.todo :
       p.seated => \A x \in 1..(reservations[p.id].seat - 1) : x \in call.occupied

FilledInv ==
  \A r \in DOMAIN relocations :
    /\ Orderly(relocations[r]) /\ FreshInHand(relocations[r]) /\ SnapshotKept(relocations[r])
    /\ Alone(r) => FrontFilled(relocations[r])

LEMMA FilledFollows == FilledInv => FilledFromFront
<1> SUFFICES ASSUME FilledInv, NEW r \in DOMAIN relocations,
                    relocations[r].answer = "200",
                    relocations[r].request.destination # relocations[r].request.trip,
                    DOMAIN relocations = {r},
                    NEW p \in relocations[r].snapshot, p.seated,
                    NEW s \in 1..(reservations[p.id].seat - 1)
             PROVE  s \in SeatsOf(relocations[r].request.destination)
  BY DEF FilledFromFront
<1>1. FrontFilled(relocations[r]) /\ relocations[r].todo = {}
  BY DEF FilledInv, Alone, FreshInHand
<1>2. QED
  BY <1>1 DEF FrontFilled

LEMMA SeatsStay ==
  ASSUME PlacesStay, NEW t
  PROVE  SeatsOf(t)' = SeatsOf(t)
  BY DEF PlacesStay, SeatsOf, SeatedOn, OfTrip

\* A SELECT returns each row of the trip once.
LEMMA PassengersOnce ==
  ASSUME NEW t, NEW p \in Passengers(t)
  PROVE  /\ p.id \in Live /\ reservations[p.id].trip = t
         /\ \A other \in Passengers(t) : other.id = p.id => other = p
<1> DEFINE P(i) == [id |-> i, seated |-> reservations[i].seat # NoSeat]
<1>1. \A q \in Passengers(t) : \E i \in OfTrip(t) : q = P(i)
  BY DEF Passengers
<1>2. \A i : P(i).id = i
  OBVIOUS
<1> HIDE DEF P
<1>3. \A i \in OfTrip(t) : i \in Live /\ reservations[i].trip = t
  BY DEF OfTrip
<1>4. QED
  BY <1>1, <1>2, <1>3

\* Where no place changes, a call with the same hand has it as it was.
LEMMA SameHandFilled ==
  ASSUME TripCallsTypeOK, PlacesStay, NEW r \in DOMAIN relocations, r \in DOMAIN relocations',
         SnapshotKept(relocations[r]), Orderly(relocations[r]),
         relocations'[r].request = relocations[r].request,
         relocations'[r].snapshot = relocations[r].snapshot,
         relocations'[r].todo = relocations[r].todo,
         relocations'[r].occupied = relocations[r].occupied,
         relocations'[r].seat = relocations[r].seat
  PROVE  /\ SnapshotKept(relocations[r])'
         /\ FrontFilled(relocations[r]) => FrontFilled(relocations[r])'
<1>1. \A p \in relocations[r].snapshot : p.id \in Live
  BY DEF SnapshotKept
<1>2. \A p \in relocations[r].todo : p.id \in Live
  BY <1>1 DEF Orderly
<1>3. SeatsOf(relocations[r].request.destination)' = SeatsOf(relocations[r].request.destination)
  <2>1. \A t : SeatsOf(t)' = SeatsOf(t)
    BY SeatsStay
  <2>2. QED
    BY <2>1
<1>4. QED
  BY <1>1, <1>2, <1>3 DEF SnapshotKept, FrontFilled, PlacesStay

LEMMA OthersKeepFilled ==
  ASSUME TripCallsTypeOK, FilledInv, PlacesStay,
         \/ UNCHANGED relocations
         \/ \E r \in Relocations : \E request : ReceiveRelocation(r, request)
         \/ DropTripCalls
  PROVE  FilledInv'
<1>1. CASE UNCHANGED relocations
  BY <1>1, SameHandFilled DEF FilledInv, Alone, Orderly, FreshInHand
<1>2. ASSUME NEW r \in Relocations, NEW request, ReceiveRelocation(r, request)
      PROVE  FilledInv'
  <2>1. /\ r \notin DOMAIN relocations
        /\ DOMAIN relocations' = DOMAIN relocations \cup {r}
        /\ \A q \in DOMAIN relocations : relocations'[q] = relocations[q]
        /\ relocations'[r].snapshot = {} /\ relocations'[r].todo = {}
        /\ relocations'[r].occupied = {} /\ relocations'[r].seat = 1
        /\ relocations'[r].answer = "none"
    BY <1>2 DEF ReceiveRelocation, With
  <2>2. \A q \in DOMAIN relocations : ~ Alone(q)'
    BY <2>1 DEF Alone
  <2>3. \A q \in DOMAIN relocations :
          Orderly(relocations[q])' /\ FreshInHand(relocations[q])' /\ SnapshotKept(relocations[q])'
    BY <2>1, SameHandFilled DEF FilledInv, Orderly, FreshInHand
  <2>4. /\ Orderly(relocations[r])' /\ FreshInHand(relocations[r])'
        /\ SnapshotKept(relocations[r])' /\ FrontFilled(relocations[r])'
    BY <2>1 DEF Orderly, FreshInHand, SnapshotKept, FrontFilled
  <2>5. QED
    BY <2>1, <2>2, <2>3, <2>4 DEF FilledInv
<1>3. CASE DropTripCalls
  <2>1. /\ DOMAIN relocations' = DOMAIN relocations
        /\ \A q \in DOMAIN relocations :
             /\ relocations'[q].request = relocations[q].request
             /\ relocations'[q].snapshot = relocations[q].snapshot
             /\ relocations'[q].todo = relocations[q].todo
             /\ relocations'[q].occupied = relocations[q].occupied
             /\ relocations'[q].seat = relocations[q].seat
             /\ relocations'[q].answer = relocations[q].answer
             /\ relocations'[q].pc = IF relocations[q].pc = "done" THEN "done" ELSE "lost"
    BY <1>3 DEF DropTripCalls, Dropped, TripCallsTypeOK, RelocationCall
  <2>2. \A q \in DOMAIN relocations : Orderly(relocations[q])' /\ FreshInHand(relocations[q])'
    BY <2>1 DEF FilledInv, Orderly, FreshInHand
  <2>3. \A q \in DOMAIN relocations : Alone(q)' <=> Alone(q)
    BY <2>1 DEF Alone
  <2>4. QED
    BY <2>1, <2>2, <2>3, SameHandFilled DEF FilledInv
<1>4. QED
  BY <1>1, <1>2, <1>3

\* The step of the loop, where the relocation is the only one.
LEMMA MoveFills ==
  ASSUME TablesTypeOK, TripCallsTypeOK, FilledInv, NEW r \in DOMAIN relocations,
         relocations[r] \in RelocationCall, Alone(r),
         NEW m \in relocations[r].todo, PassengerMoved(r, m)
  PROVE  FrontFilled(relocations[r])'
<1> DEFINE call == relocations[r]
           next == relocations'[r]
           t == call.request.destination
<1>1. PICK s \in SeatFor(call, m) :
        /\ m.id \in Live => reservations'[m.id].trip = t /\ reservations'[m.id].seat = s
        /\ next.occupied = IF m.seated THEN call.occupied \cup {s} ELSE call.occupied
        /\ next.seat = IF m.seated THEN s ELSE call.seat
  BY DEF PassengerMoved
<1>2. /\ next.request = call.request /\ next.snapshot = call.snapshot
      /\ next.todo = call.todo \ {m} /\ Live' = Live
      /\ \A i \in Live \ {m.id} : reservations'[i] = reservations[i]
  BY DEF PassengerMoved
<1>3. FrontFilled(call) /\ Orderly(call) /\ SnapshotKept(call)
  BY DEF FilledInv
<1>4. m.id \in Live /\ reservations[m.id].trip = call.request.trip /\ t # call.request.trip
  BY <1>3 DEF FrontFilled, Orderly, SnapshotKept, Alone
<1>5. \A p \in call.snapshot \ {m} :
        p.id \in Live /\ p.id # m.id /\ reservations'[p.id] = reservations[p.id]
  BY <1>2, <1>3 DEF Orderly, SnapshotKept
<1>6. m.seated => /\ s \in Seats /\ s \in Nat /\ s # NoSeat
                  /\ \A x \in 1..(s - 1) : x \in call.occupied
  <2>1. m.seated => s \in Seats /\ NextFree(call.occupied, call.seat, s)
    BY DEF SeatFor
  <2>2. call.seat \in Nat
    BY DEF RelocationCall
  <2>3. m.seated => s \in Nat /\ s # NoSeat
    BY <2>1, TablesAssumption
  <2>4. ASSUME m.seated, NEW x \in 1..(s - 1)
        PROVE  x \in call.occupied
    <3>1. x \in 1..(call.seat - 1) \/ x \in call.seat..(s - 1)
      BY <2>2, <2>3, <2>4
    <3>2. \A y \in call.seat..(s - 1) : y \in call.occupied
      BY <2>1, <2>4 DEF NextFree
    <3>3. \A y \in 1..(call.seat - 1) : y \in call.occupied
      BY <1>3 DEF FrontFilled
    <3>4. QED
      BY <3>1, <3>2, <3>3
  <2>5. QED
    BY <2>1, <2>3, <2>4
<1>7. \A p \in next.todo : reservations'[p.id].trip = next.request.trip
  BY <1>2, <1>3, <1>5 DEF FrontFilled, Orderly
<1>8. \A x \in next.occupied : \E i \in Live' :
        reservations'[i].trip = t /\ reservations'[i].seat = x /\ x # NoSeat
  <2>1. ASSUME NEW x \in call.occupied
        PROVE  \E i \in Live' :
                 reservations'[i].trip = t /\ reservations'[i].seat = x /\ x # NoSeat
    <3>1. PICK i \in Live : reservations[i].trip = t /\ reservations[i].seat = x /\ x # NoSeat
      BY <1>3 DEF FrontFilled, SeatsOf, SeatedOn, OfTrip
    <3>2. i # m.id
      BY <1>4, <3>1
    <3>3. QED
      BY <1>2, <3>1, <3>2
  <2>2. m.seated => \E i \in Live' :
          reservations'[i].trip = t /\ reservations'[i].seat = s /\ s # NoSeat
    BY <1>1, <1>2, <1>4, <1>6
  <2>3. QED
    BY <1>1, <2>1, <2>2
<1>9. relocations'[r].occupied \subseteq SeatsOf(relocations[r].request.destination)'
  <2>1. \A x \in next.occupied : x \in {reservations'[i].seat : i \in
            {j \in {k \in Live' : reservations'[k].trip = t} : reservations'[j].seat # NoSeat}}
    BY <1>8
  <2>2. QED
    BY <1>2, <2>1 DEF SeatsOf, SeatedOn, OfTrip
<1>10. \A x \in 1..(next.seat - 1) : x \in next.occupied
  <2>1. \A x \in 1..(call.seat - 1) : x \in call.occupied
    BY <1>3 DEF FrontFilled
  <2>2. CASE m.seated
    BY <1>1, <1>6, <2>2
  <2>3. CASE ~ m.seated
    BY <1>1, <2>1, <2>3
  <2>4. QED
    BY <2>2, <2>3
<1>11. \A p \in next.snapshot \ next.todo :
         p.seated => \A x \in 1..(reservations'[p.id].seat - 1) : x \in next.occupied
  BY <1>1, <1>2, <1>3, <1>4, <1>5, <1>6 DEF FrontFilled
<1>12. QED
  <2>1. \A p \in relocations'[r].todo : reservations'[p.id].trip = relocations'[r].request.trip
    BY <1>7
  <2>2. QED
    BY <1>9, <1>10, <1>11, <2>1 DEF FrontFilled

LEMMA RelocationStepKeepsFilled ==
  ASSUME TablesTypeOK, TripCallsTypeOK, FilledInv, NEW r \in Relocations, RelocationStep(r)
  PROVE  FilledInv'
<1> DEFINE call == relocations[r]
<1>1. /\ r \in DOMAIN relocations /\ call \in RelocationCall
      /\ DOMAIN relocations' = DOMAIN relocations
      /\ \A q \in DOMAIN relocations \ {r} : relocations'[q] = relocations[q]
  BY RelocationEffect
<1>2. \A q \in DOMAIN relocations \ {r} :
        Orderly(relocations[q])' /\ FreshInHand(relocations[q])' /\ ~ Alone(q)'
  <2> SUFFICES ASSUME NEW q \in DOMAIN relocations \ {r}
               PROVE  Orderly(relocations[q])' /\ FreshInHand(relocations[q])' /\ ~ Alone(q)'
    OBVIOUS
  <2>1. relocations'[q] = relocations[q] /\ Orderly(relocations[q]) /\ FreshInHand(relocations[q])
    BY <1>1 DEF FilledInv
  <2>2. ~ Alone(q)'
    BY <1>1 DEF Alone
  <2>3. QED
    BY <2>1, <2>2 DEF Orderly, FreshInHand
<1>3. Live' = Live
  BY RelocationEffect DEF PlacesStay, PassengerMoved
<1>4. \A q \in DOMAIN relocations \ {r} : SnapshotKept(relocations[q])'
  BY <1>1, <1>3 DEF FilledInv, SnapshotKept
<1>5. Orderly(call) /\ FreshInHand(call) /\ SnapshotKept(call) /\ (Alone(r) => FrontFilled(call))
  BY <1>1 DEF FilledInv
<1>6. CASE PlacesStay /\ RelocationMoves(r)
  <2>1. /\ relocations'[r].request = call.request
        /\ relocations'[r].occupied = call.occupied /\ relocations'[r].seat = call.seat
        /\ relocations'[r].snapshot = call.snapshot /\ relocations'[r].todo = call.todo
    BY <1>6 DEF RelocationMoves
  <2>2. Orderly(relocations[r])' /\ FreshInHand(relocations[r])'
    BY <1>5, <1>6, <2>1 DEF RelocationMoves, Orderly, FreshInHand
  <2>3. Alone(r)' => Alone(r)
    BY <1>1, <2>1 DEF Alone
  <2>4. SnapshotKept(relocations[r])' /\ (Alone(r)' => FrontFilled(relocations[r])')
    BY <1>1, <1>5, <1>6, <2>1, <2>3, SameHandFilled
  <2>5. QED
    BY <1>1, <1>2, <1>4, <2>2, <2>4 DEF FilledInv
<1>7. CASE PlacesStay /\ ReadPassengers(r)
  <2>1. /\ relocations'[r] = [call EXCEPT !.pc = "occupied",
             !.snapshot = Passengers(call.request.trip), !.todo = Passengers(call.request.trip)]
        /\ call.pc = "read"
    BY <1>1, <1>7 DEF ReadPassengers
  <2>2. /\ relocations'[r].request = call.request /\ relocations'[r].pc = "occupied"
        /\ relocations'[r].snapshot = Passengers(call.request.trip)
        /\ relocations'[r].todo = Passengers(call.request.trip)
        /\ relocations'[r].occupied = {} /\ relocations'[r].seat = 1
        /\ relocations'[r].answer # "200"
    BY <1>1, <1>5, <2>1 DEF FreshInHand, RelocationCall
  <2>3. Orderly(relocations[r])' /\ FreshInHand(relocations[r])'
    BY <2>2 DEF Orderly, FreshInHand
  <2>4. \A p \in Passengers(call.request.trip) :
          /\ p.id \in Live /\ reservations[p.id].trip = call.request.trip
          /\ \A other \in Passengers(call.request.trip) : other.id = p.id => other = p
    BY PassengersOnce
  <2>5. SnapshotKept(relocations[r])'
    BY <1>3, <2>2, <2>4 DEF SnapshotKept
  <2>6. FrontFilled(relocations[r])'
    BY <1>7, <2>2, <2>4 DEF FrontFilled, PlacesStay
  <2>7. QED
    BY <1>1, <1>2, <1>4, <2>3, <2>5, <2>6 DEF FilledInv
<1>8. CASE PlacesStay /\ ReadOccupied(r)
  <2>1. /\ relocations'[r] = [call EXCEPT !.pc = "loop",
             !.occupied = SeatsOf(call.request.destination)]
        /\ call.pc = "occupied"
    BY <1>1, <1>8 DEF ReadOccupied
  <2>2. /\ relocations'[r].request = call.request /\ relocations'[r].pc = "loop"
        /\ relocations'[r].snapshot = call.snapshot
        /\ relocations'[r].todo = call.snapshot
        /\ relocations'[r].occupied = SeatsOf(call.request.destination)
        /\ relocations'[r].seat = 1
        /\ relocations'[r].answer # "200"
    BY <1>1, <1>5, <2>1 DEF FreshInHand, RelocationCall
  <2>3. Orderly(relocations[r])' /\ FreshInHand(relocations[r])'
    BY <2>2 DEF Orderly, FreshInHand
  <2>4. SnapshotKept(relocations[r])'
    BY <1>3, <1>5, <2>2 DEF SnapshotKept
  <2>5. ASSUME Alone(r)'
        PROVE  FrontFilled(relocations[r])'
    <3>1. FrontFilled(call)
      BY <1>1, <1>5, <2>2, <2>5 DEF Alone
    <3>2. \A p \in call.snapshot :
            p.id \in Live /\ reservations[p.id].trip = call.request.trip
      BY <1>5, <2>1, <3>1 DEF FrontFilled, SnapshotKept, FreshInHand
    <3>3. \A t : SeatsOf(t)' = SeatsOf(t)
      BY <1>8, SeatsStay
    <3>4. SeatsOf(relocations[r].request.destination)' = SeatsOf(call.request.destination)
      BY <2>2, <3>3
    <3>5. QED
      BY <1>8, <2>2, <3>2, <3>4 DEF FrontFilled, PlacesStay
  <2>6. QED
    BY <1>1, <1>2, <1>4, <2>3, <2>4, <2>5 DEF FilledInv
<1>9. ASSUME NEW m \in call.todo, PassengerMoved(r, m)
      PROVE  FilledInv'
  <2>1. /\ relocations'[r].snapshot = call.snapshot /\ relocations'[r].request = call.request
        /\ relocations'[r].todo = call.todo \ {m} /\ relocations'[r].pc = "loop"
        /\ call.pc = "loop" /\ relocations'[r].answer = call.answer
    BY <1>9 DEF PassengerMoved
  <2>2. Orderly(relocations[r])' /\ FreshInHand(relocations[r])'
    BY <1>5, <2>1 DEF Orderly, FreshInHand
  <2>3. SnapshotKept(relocations[r])'
    BY <1>3, <1>5, <2>1 DEF SnapshotKept
  <2>4. Alone(r)' => FrontFilled(relocations[r])'
    BY <1>1, <1>9, <2>1, MoveFills DEF Alone
  <2>5. QED
    BY <1>1, <1>2, <1>4, <2>2, <2>3, <2>4 DEF FilledInv
<1>10. QED
  BY <1>6, <1>7, <1>8, <1>9, RelocationEffect

(***************************************************************************)
(* A relocation that is the only one fills the destination from the front, *)
(* for any number of passengers, seats and trips finished meanwhile.       *)
(***************************************************************************)
THEOREM TripsFilledFromFront == TripsSpec => []FilledFromFront
<1>1. TripsInit => FilledInv
  BY DEF TripsInit, TripCallsInit, FilledInv
<1>2. TripsTypeOK /\ FilledInv /\ [TripsNext]_tripVars => FilledInv'
  <2> SUFFICES ASSUME TripsTypeOK, FilledInv, [TripsNext]_tripVars
               PROVE  FilledInv'
    OBVIOUS
  <2>1. ASSUME NEW r \in Relocations, RelocationStep(r)
        PROVE  FilledInv'
    BY <2>1, RelocationStepKeepsFilled DEF TripsTypeOK
  <2>2. CASE TripsStep /\ \A r \in Relocations : ~ RelocationStep(r)
    BY <2>2, OthersLeavePlaces, OthersLeaveRelocations, OthersKeepFilled DEF TripsTypeOK
  <2>3. CASE UNCHANGED reservations /\ (UNCHANGED relocations \/ DropTripCalls)
    <3>1. PlacesStay
      BY <2>3 DEF PlacesStay, Live
    <3>2. QED
      BY <2>3, <3>1, OthersKeepFilled DEF TripsTypeOK
  <2>4. QED
    BY <2>1, <2>2, <2>3 DEF TripsNext, TripsRestart, tables, tripVars, tripCalls
<1>3. QED
  BY <1>1, <1>2, TripsTypeCorrect, FilledFollows, PTL DEF TripsSpec

----------------------------------------------------------------------------
(* Priority levels, of a user whom no two finishes have in hand at once *)

\* The absences already paid for: between an absence and its penalty one is owed.
Counted(u) == Cardinality(AbsencesOf(u)) - (IF Owed(u) THEN 1 ELSE 0)

\* The rows the loop has not reached are of the users it read, and u's still CONFIRMED.
TodoKept(call, u) ==
  call.pc \in {"loop", "level", "penalise"} =>
    \A a \in call.todo :
      /\ a.id \in Live /\ reservations[a.id].user = a.user
      /\ a.user = u => reservations[a.id].status = "CONFIRMED"

LevelRead(call, u) == call.pc = "penalise" /\ call.victim = u => call.level = users[u].level

\* Whom a call has in hand was in its snapshot, so a restart that drops it is seen.
HeldFromSnapshot(call, u) ==
  /\ call.pc \in {"loop", "level", "penalise"} => call.todo \subseteq call.snapshot
  /\ OwedBy(call, u) => \E a \in call.snapshot : a.user = u

LevelCall(call, u) == TodoKept(call, u) /\ LevelRead(call, u) /\ HeldFromSnapshot(call, u)

LevelRight(u, start) ==
  Counted(u) \in Nat /\ users[u].level = LevelAfter(start, Counted(u))

LevelsInv(u, start) ==
  /\ IsFiniteSet(Live)
  /\ \A f \in DOMAIN finishes : LevelCall(finishes[f], u)
  /\ LevelRight(u, start)

\* Every reservation keeps its user and its status.
StatusesStay ==
  /\ Live' = Live
  /\ \A i \in Live : /\ reservations'[i].user = reservations[i].user
                     /\ reservations'[i].status = reservations[i].status

LEMMA AbsencesFinite ==
  ASSUME IsFiniteSet(Live), NEW u
  PROVE  IsFiniteSet(AbsencesOf(u)) /\ Cardinality(AbsencesOf(u)) \in Nat
<1>1. AbsencesOf(u) \in SUBSET Live
  BY DEF AbsencesOf
<1>2. QED
  BY <1>1, FS_Subset, FS_CardinalityType

LEMMA LevelsFollow ==
  ASSUME NEW u, NEW start, LevelsInv(u, start)
  PROVE  Owed(u) \/ users[u].level = LevelAfter(start, Cardinality(AbsencesOf(u)))
<1> SUFFICES ASSUME ~ Owed(u)
             PROVE  users[u].level = LevelAfter(start, Cardinality(AbsencesOf(u)))
  OBVIOUS
<1>1. Cardinality(AbsencesOf(u)) \in Nat
  BY AbsencesFinite DEF LevelsInv
<1>2. Counted(u) = Cardinality(AbsencesOf(u))
  BY <1>1 DEF Counted
<1>3. QED
  BY <1>2 DEF LevelsInv, LevelRight

LEMMA LevelsStart ==
  ASSUME NEW u \in Users, TripsInit
  PROVE  LevelsInv(u, users[u].level)
<1>1. /\ Live = Booked /\ DOMAIN finishes = {}
      /\ \A i \in Live : reservations[i].status \in {"EXCESS", "CONFIRMED"}
  BY DEF TripsInit, TablesInit, TripCallsInit, BookedRow, Live
<1>2. IsFiniteSet(Live)
  BY <1>1, TablesAssumption
<1>3. AbsencesOf(u) = {} /\ ~ Owed(u)
  BY <1>1 DEF AbsencesOf, Owed
<1>4. Counted(u) = 0
  BY <1>3, FS_EmptySet DEF Counted
<1>5. QED
  BY <1>1, <1>2, <1>4 DEF LevelsInv, LevelRight, LevelAfter

\* The calls other than finishes leave users, and what makes up an absence, alone.
LEMMA OthersLeaveStatuses ==
  ASSUME TablesTypeOK, TripsStep, \A f \in Finishes : ~ FinishStep(f)
  PROVE  /\ StatusesStay /\ UNCHANGED users
         /\ \/ UNCHANGED finishes
            \/ \E f \in Finishes, request \in FinishRequests : ReceiveFinish(f, request)
<1>1. ASSUME NEW r, NEW p, MoveRow(r, p)
      PROVE  StatusesStay /\ UNCHANGED <<users, finishes>>
  <2>1. CASE UNCHANGED reservations
    BY <1>1, <2>1 DEF MoveRow, StatusesStay, Live
  <2>2. CASE \E t, s : UpdateReservation(p.id, Moved(reservations[p.id], t, s))
    BY <1>1, <2>2 DEF MoveRow, UpdateReservation, Moved, StatusesStay, Live, TablesTypeOK,
                      Reservation
  <2>3. QED
    BY <1>1, <2>1, <2>2 DEF MoveRow
<1>2. CASE UNCHANGED <<reservations, users>>
  BY <1>2 DEF StatusesStay, Live, TripsStep, ReceiveTripCall, ReceiveRelocation, TripCallStep,
         RelocationStep, ReadOrigin, ReadDestination, ReadPassengers, ReadOccupied, MoveRow,
         CancelOrigin, TripWrite, CreateTrip, RescheduleTrip, UpdateTrip, DepartTrip, tripCalls
<1>3. QED
  BY <1>1, <1>2
     DEF TripsStep, ReceiveTripCall, ReceiveFinish, ReceiveRelocation, TripCallStep,
         RelocationStep, ReadOrigin, ReadDestination, ReadPassengers, ReadOccupied,
         CancelOrigin, TripWrite, CreateTrip, RescheduleTrip, UpdateTrip, DepartTrip, tables

LEMMA SameAbsences ==
  ASSUME StatusesStay, NEW u
  PROVE  AbsencesOf(u)' = AbsencesOf(u)
  BY DEF StatusesStay, AbsencesOf

\* Steps that write neither statuses nor users: finishes arrive or are dropped.
LEMMA OthersKeepLevels ==
  ASSUME NEW u \in Users, NEW start, LevelsInv(u, start), StatusesStay, UNCHANGED users,
         \A f \in DOMAIN finishes' :
           \/ f \in DOMAIN finishes /\ finishes'[f] = finishes[f]
           \/ finishes'[f].pc \notin {"loop", "level", "penalise"},
         Owed(u)' <=> Owed(u)
  PROVE  LevelsInv(u, start)'
<1>1. Counted(u)' = Counted(u)
  BY SameAbsences DEF Counted
<1>2. ASSUME NEW f \in DOMAIN finishes'
      PROVE  LevelCall(finishes[f], u)'
  <2>1. CASE finishes'[f].pc \notin {"loop", "level", "penalise"}
    BY <2>1 DEF LevelCall, TodoKept, LevelRead, HeldFromSnapshot, OwedBy
  <2>2. CASE f \in DOMAIN finishes /\ finishes'[f] = finishes[f]
    BY <2>2 DEF LevelsInv, LevelCall, TodoKept, LevelRead, HeldFromSnapshot, OwedBy, StatusesStay
  <2>3. QED
    BY <2>1, <2>2
<1>3. IsFiniteSet(Live)' /\ LevelRight(u, start)'
  BY <1>1 DEF LevelsInv, LevelRight, StatusesStay
<1>4. QED
  BY <1>2, <1>3 DEF LevelsInv

\* A restart drops no call that owes u a level, for it would have been seen (OneAtATime).
LEMMA DropKeepsLevels ==
  ASSUME NEW u \in Users, NEW start, TripCallsTypeOK, LevelsInv(u, start),
         DropTripCalls, UNCHANGED tables, OneAtATime(u)'
  PROVE  LevelsInv(u, start)'
<1>1. DOMAIN finishes' = DOMAIN finishes
  BY DEF DropTripCalls, Dropped
<1>2. ASSUME NEW f \in DOMAIN finishes
      PROVE  /\ finishes'[f] = finishes[f] \/ finishes'[f].pc = "lost"
             /\ OwedBy(finishes[f], u)' <=> OwedBy(finishes[f], u)
  <2>1. finishes[f] \in FinishCall
    BY DEF TripCallsTypeOK
  <2>2. CASE finishes[f].pc = "done"
    BY <2>2 DEF DropTripCalls, Dropped
  <2>3. CASE finishes[f].pc # "done"
    <3>1. finishes'[f].pc = "lost" /\ finishes'[f].snapshot = finishes[f].snapshot
      BY <2>1, <2>3 DEF DropTripCalls, Dropped, FinishCall
    <3>2. ~ OwedBy(finishes[f], u)
      BY <1>1, <3>1 DEF OneAtATime, LevelsInv, LevelCall, HeldFromSnapshot
    <3>3. QED
      BY <3>1, <3>2 DEF OwedBy
  <2>4. QED
    BY <2>2, <2>3
<1>3. Owed(u)' <=> Owed(u)
  BY <1>1, <1>2 DEF Owed
<1>4. StatusesStay /\ UNCHANGED users
  BY DEF StatusesStay, Live, tables
<1>5. QED
  BY <1>1, <1>2, <1>3, <1>4, OthersKeepLevels

LEMMA NextLevelAfter ==
  ASSUME NEW n \in Nat, NEW start \in 0..3
  PROVE  NextLevel(LevelAfter(start, n)) = LevelAfter(start, n + 1)
  BY DEF NextLevel, LevelAfter

\* Nobody else has u in hand while the call that marks or penalises u is at it.
LEMMA FinishStepKeepsLevels ==
  ASSUME NEW u \in Users, NEW start \in 0..3, TablesTypeOK, TripCallsTypeOK,
         LevelsInv(u, start), OneAtATime(u), NEW f \in Finishes, FinishStep(f)
  PROVE  LevelsInv(u, start)'
<1> DEFINE call == finishes[f]
           next == finishes'[f]
<1>1. f \in DOMAIN finishes /\ call \in FinishCall
  BY DEF FinishStep, TripCallsTypeOK
<1>2. /\ DOMAIN finishes' = DOMAIN finishes
      /\ \A g \in DOMAIN finishes \ {f} : finishes'[g] = finishes[g]
  BY DEF FinishStep, CheckFinish, FinishAnswer, ReadAbsentees, MarkAbsent, ReadLevel, Penalise,
         FinishTrip
<1>3. LevelCall(call, u) /\ LevelRight(u, start)
  BY <1>1 DEF LevelsInv
<1>4. \A g \in DOMAIN finishes \ {f} :
        /\ LevelCall(finishes[g], u)
        /\ InHand(call, u) => ~ InHand(finishes[g], u)
  BY <1>1 DEF LevelsInv, OneAtATime
<1>5. Cardinality(AbsencesOf(u)) \in Nat /\ IsFiniteSet(AbsencesOf(u))
  BY AbsencesFinite DEF LevelsInv
<1>6. ASSUME StatusesStay, UNCHANGED users, OwedBy(next, u) <=> OwedBy(call, u),
             LevelCall(finishes[f], u)'
      PROVE  LevelsInv(u, start)'
  <2>1. Owed(u)' <=> Owed(u)
    BY <1>1, <1>2, <1>6 DEF Owed, OwedBy
  <2>2. Counted(u)' = Counted(u)
    BY <1>6, <2>1, SameAbsences DEF Counted
  <2>3. \A g \in DOMAIN finishes \ {f} : LevelCall(finishes[g], u)'
    BY <1>2, <1>4, <1>6 DEF LevelCall, TodoKept, LevelRead, HeldFromSnapshot, OwedBy, StatusesStay
  <2>4. QED
    BY <1>2, <1>3, <1>6, <2>2, <2>3 DEF LevelsInv, LevelRight, StatusesStay
<1>7. ASSUME UNCHANGED reservations
      PROVE  StatusesStay
  BY <1>7 DEF StatusesStay, Live
<1>8. CASE CheckFinish(f)
  <2>1. /\ next.pc \in {"read", "done"} /\ call.pc = "check"
        /\ UNCHANGED <<reservations, users>>
    BY <1>1, <1>8 DEF CheckFinish, FinishAnswer, FinishCall, tables
  <2>2. QED
    BY <1>6, <1>7, <2>1 DEF LevelCall, TodoKept, LevelRead, HeldFromSnapshot, OwedBy
<1>9. CASE ReadAbsentees(f)
  <2>1. /\ next.pc = "loop" /\ call.pc = "read" /\ next.todo = Absentees(call.request.trip)
        /\ next.snapshot = next.todo /\ UNCHANGED <<reservations, users>>
    BY <1>1, <1>9 DEF ReadAbsentees, FinishCall, tables
  <2>2. LevelCall(finishes[f], u)'
    BY <2>1 DEF LevelCall, TodoKept, LevelRead, HeldFromSnapshot, OwedBy, Absentees, OfTrip, Live,
                Punishable
  <2>3. QED
    BY <1>6, <1>7, <2>1, <2>2 DEF OwedBy
<1>10. CASE ReadLevel(f)
  <2>1. /\ next.pc = "penalise" /\ call.pc = "level" /\ next.todo = call.todo
        /\ next.snapshot = call.snapshot /\ next.victim = call.victim
        /\ next.level = users[call.victim].level /\ UNCHANGED <<reservations, users>>
    BY <1>1, <1>10 DEF ReadLevel, FinishCall, tables
  <2>2. LevelCall(finishes[f], u)'
    BY <1>3, <2>1 DEF LevelCall, TodoKept, LevelRead, HeldFromSnapshot, OwedBy, Live
  <2>3. QED
    BY <1>6, <1>7, <2>1, <2>2 DEF OwedBy
<1>11. CASE FinishTrip(f)
  <2>1. /\ next.pc = "done" /\ call.pc = "loop" /\ UNCHANGED <<reservations, users>>
    BY <1>1, <1>11 DEF FinishTrip, FinishAnswer, FinishCall
  <2>2. QED
    BY <1>6, <1>7, <2>1 DEF LevelCall, TodoKept, LevelRead, HeldFromSnapshot, OwedBy
<1>12. ASSUME NEW a \in call.todo, MarkAbsent(f, a)
       PROVE  LevelsInv(u, start)'
  <2>1. /\ next.pc = "level" /\ call.pc = "loop" /\ next.todo = call.todo \ {a}
        /\ next.snapshot = call.snapshot /\ next.victim = a.user /\ UNCHANGED users
    BY <1>1, <1>12 DEF MarkAbsent, FinishCall
  <2>2. /\ a.id \in Live /\ reservations[a.id].user = a.user
        /\ a.user = u => reservations[a.id].status = "CONFIRMED"
    BY <1>3, <2>1 DEF LevelCall, TodoKept
  <2>3. /\ Live' = Live
        /\ reservations'[a.id].status = "ABSENT" /\ reservations'[a.id].user = a.user
        /\ \A i \in Live \ {a.id} : reservations'[i] = reservations[i]
    BY <1>12, <2>2 DEF MarkAbsent, UpdateReservation, Live, TablesTypeOK, Reservation
  <2>4. \A b \in next.todo : b.id # a.id
    BY <1>1, <1>3, <2>1, <2>2 DEF LevelCall, TodoKept, FinishCall, Absentee
  <2>5. LevelCall(finishes[f], u)'
    BY <1>3, <2>1, <2>3, <2>4 DEF LevelCall, TodoKept, LevelRead, HeldFromSnapshot, OwedBy
  <2>6. ASSUME NEW g \in DOMAIN finishes \ {f}
        PROVE  LevelCall(finishes[g], u)'
    <3>1. /\ finishes'[g] = finishes[g] /\ LevelCall(finishes[g], u)
          /\ a.user = u => ~ InHand(finishes[g], u)
      BY <1>2, <1>4, <2>1, <2>6 DEF InHand
    <3>2. TodoKept(finishes[g], u)'
      BY <2>2, <2>3, <3>1 DEF LevelCall, TodoKept, InHand
    <3>3. QED
      BY <2>1, <3>1, <3>2 DEF LevelCall, LevelRead, HeldFromSnapshot, OwedBy
  <2>7. Counted(u)' = Counted(u)
    <3>1. CASE u = a.user
      <4>1. AbsencesOf(u)' = AbsencesOf(u) \cup {a.id} /\ a.id \notin AbsencesOf(u)
        BY <2>2, <2>3, <3>1 DEF AbsencesOf
      <4>2. Cardinality(AbsencesOf(u))' = Cardinality(AbsencesOf(u)) + 1
        BY <1>5, <4>1, FS_AddElement
      <4>3. InHand(call, u) /\ ~ OwedBy(call, u)
        BY <2>1, <3>1 DEF InHand, OwedBy
      <4>4. ~ Owed(u)
        BY <1>4, <4>3 DEF Owed, InHand
      <4>5. Owed(u)'
        BY <1>1, <1>2, <2>1, <3>1 DEF Owed, OwedBy
      <4>6. QED
        BY <1>5, <4>2, <4>4, <4>5 DEF Counted
    <3>2. CASE u # a.user
      <4>1. AbsencesOf(u)' = AbsencesOf(u)
        BY <2>2, <2>3, <3>2 DEF AbsencesOf
      <4>2. Owed(u)' <=> Owed(u)
        BY <1>1, <1>2, <2>1, <3>2 DEF Owed, OwedBy
      <4>3. QED
        BY <4>1, <4>2 DEF Counted
    <3>3. QED
      BY <3>1, <3>2
  <2>8. LevelRight(u, start)'
    BY <1>3, <2>1, <2>7 DEF LevelRight
  <2>9. IsFiniteSet(Live)'
    BY <2>3 DEF LevelsInv
  <2>10. QED
    BY <1>2, <2>5, <2>6, <2>8, <2>9 DEF LevelsInv
<1>13. CASE Penalise(f)
  <2>1. /\ next.pc = "loop" /\ call.pc = "penalise" /\ next.todo = call.todo
        /\ next.snapshot = call.snapshot /\ UNCHANGED reservations
        /\ users'[call.victim].level = NextLevel(call.level)
        /\ \A v \in Users \ {call.victim} : users'[v] = users[v]
        /\ call.victim \in Users
    BY <1>1, <1>13 DEF Penalise, FinishCall, TablesTypeOK, User
  <2>2. LevelCall(finishes[f], u)'
    BY <1>3, <2>1 DEF LevelCall, TodoKept, LevelRead, HeldFromSnapshot, OwedBy, Live
  <2>3. AbsencesOf(u)' = AbsencesOf(u) /\ IsFiniteSet(Live)'
    BY <1>7, <2>1, SameAbsences DEF LevelsInv, Live
  <2>4. CASE u = call.victim
    <3>1. InHand(call, u) /\ OwedBy(call, u) /\ ~ OwedBy(next, u)
      BY <2>1, <2>4 DEF InHand, OwedBy
    <3>2. Owed(u) /\ ~ Owed(u)'
      BY <1>1, <1>2, <1>4, <3>1 DEF Owed, InHand, OwedBy
    <3>3. Counted(u)' = Counted(u) + 1
      BY <1>5, <2>3, <3>2 DEF Counted
    <3>4. Counted(u) \in Nat /\ call.level = LevelAfter(start, Counted(u))
      BY <1>3, <2>1, <2>4 DEF LevelCall, LevelRead, LevelRight
    <3>5. NextLevel(LevelAfter(start, Counted(u))) = LevelAfter(start, Counted(u) + 1)
      BY <3>4, NextLevelAfter
    <3>6. LevelRight(u, start)'
      BY <2>1, <2>4, <3>3, <3>4, <3>5 DEF LevelRight
    <3>7. \A g \in DOMAIN finishes \ {f} : LevelCall(finishes[g], u)'
      BY <1>2, <1>4, <2>1, <3>1
         DEF LevelCall, TodoKept, LevelRead, HeldFromSnapshot, OwedBy, InHand, Live
    <3>8. QED
      BY <1>2, <2>2, <2>3, <3>6, <3>7 DEF LevelsInv
  <2>5. CASE u # call.victim
    <3>1. Owed(u)' <=> Owed(u)
      BY <1>1, <1>2, <2>1, <2>5 DEF Owed, OwedBy
    <3>2. Counted(u)' = Counted(u) /\ users'[u] = users[u]
      BY <2>1, <2>3, <2>5, <3>1 DEF Counted
    <3>3. \A g \in DOMAIN finishes \ {f} : LevelCall(finishes[g], u)'
      BY <1>2, <1>4, <2>1, <3>2
         DEF LevelCall, TodoKept, LevelRead, HeldFromSnapshot, OwedBy, Live
    <3>4. QED
      BY <1>2, <1>3, <2>2, <2>3, <3>2, <3>3 DEF LevelsInv, LevelRight
  <2>6. QED
    BY <2>4, <2>5
<1>14. QED
  BY <1>8, <1>9, <1>10, <1>11, <1>12, <1>13 DEF FinishStep

LEMMA TripsStepKeepsLevels ==
  ASSUME NEW u \in Users, NEW start \in 0..3, TripsTypeOK, LevelsInv(u, start),
         OneAtATime(u), OneAtATime(u)', [TripsNext]_tripVars
  PROVE  LevelsInv(u, start)'
<1>1. ASSUME NEW f \in Finishes, FinishStep(f)
      PROVE  LevelsInv(u, start)'
  BY <1>1, FinishStepKeepsLevels DEF TripsTypeOK
<1>2. CASE TripsStep /\ \A f \in Finishes : ~ FinishStep(f)
  <2>1. /\ StatusesStay /\ UNCHANGED users
        /\ \/ UNCHANGED finishes
           \/ \E f \in Finishes, request \in FinishRequests : ReceiveFinish(f, request)
    BY <1>2, OthersLeaveStatuses DEF TripsTypeOK
  <2>2. \E f :
          /\ DOMAIN finishes' = DOMAIN finishes \/ DOMAIN finishes' = DOMAIN finishes \cup {f}
          /\ \A g \in DOMAIN finishes : finishes'[g] = finishes[g]
          /\ \A g \in DOMAIN finishes' \ DOMAIN finishes : finishes'[g].pc = "check"
    <3>1. CASE UNCHANGED finishes
      BY <3>1
    <3>2. ASSUME NEW f \in Finishes, NEW request \in FinishRequests, ReceiveFinish(f, request)
          PROVE  /\ DOMAIN finishes' = DOMAIN finishes \cup {f}
                 /\ \A g \in DOMAIN finishes : finishes'[g] = finishes[g]
                 /\ finishes'[f].pc = "check"
      BY <3>2 DEF ReceiveFinish, With
    <3>3. QED
      BY <2>1, <3>1, <3>2
  <2>3. Owed(u)' <=> Owed(u)
    BY <2>2 DEF Owed, OwedBy
  <2>4. QED
    BY <2>1, <2>2, <2>3, OthersKeepLevels
<1>3. CASE TripsRestart
  BY <1>3, DropKeepsLevels DEF TripsRestart, TripsTypeOK
<1>4. CASE UNCHANGED tripVars
  <2>1. StatusesStay /\ UNCHANGED <<users, finishes>>
    BY <1>4 DEF StatusesStay, Live, tripVars, tripCalls, tables
  <2>2. Owed(u)' <=> Owed(u)
    BY <2>1 DEF Owed
  <2>3. QED
    BY <2>1, <2>2, OthersKeepLevels
<1>5. QED
  BY <1>1, <1>2, <1>3, <1>4 DEF TripsNext

(***************************************************************************)
(* From any level a user registers with, and among any other calls, the    *)
(* level counts the trips missed, for a user whom no two finishes had in   *)
(* hand at once and no restart dropped: for any users, trips and bookings, *)
(* whatever is finished again, reopened or relocated meanwhile.            *)
(***************************************************************************)
THEOREM TripsLevelCountsAbsences == TripsSpec => LevelCountsAbsences
<1>1. ASSUME NEW u \in Students, NEW row \in UserRows
      PROVE  TripsSpec => LevelFrom(u, row)
  <2>1. u \in Users /\ row.level \in 0..3
    BY TablesAssumption DEF User
  <2>2. TripsInit /\ users[u] = row => LevelsInv(u, row.level)
    BY <2>1, LevelsStart
  <2>3. /\ TripsTypeOK /\ LevelsInv(u, row.level) /\ OneAtATime(u) /\ OneAtATime(u)'
        /\ [TripsNext]_tripVars
        => LevelsInv(u, row.level)'
    BY <2>1, TripsStepKeepsLevels
  <2>4. LevelsInv(u, row.level)
        => Owed(u) \/ users[u].level = LevelAfter(row.level, Cardinality(AbsencesOf(u)))
    BY LevelsFollow
  <2>5. QED
    BY <2>2, <2>3, <2>4, TripsStepsTyped, PTL DEF TripsSpec, LevelFrom
<1>2. QED
  BY <1>1 DEF LevelCountsAbsences
----------------------------------------------------------------------------
(* The day of a trip: students and leaders together *)

(***************************************************************************)
(* Students' and leaders' calls, interleaved statement by statement, keep  *)
(* every row and every call in flight well typed.                          *)
(***************************************************************************)
THEOREM TripDayTypeCorrect == TripDaySpec => []TripDayTypeOK
<1>1. TripDayInit => TripDayTypeOK
  BY TablesStart
     DEF TripDayInit, TripDayTypeOK, ReservationCallsInit, ReservationCallsTypeOK,
         TripCallsInit, TripCallsTypeOK
<1>2. TripDayTypeOK /\ [TripDayNext]_tripDayVars => TripDayTypeOK'
  <2> SUFFICES ASSUME TripDayTypeOK, [TripDayNext]_tripDayVars
               PROVE  TripDayTypeOK'
    OBVIOUS
  <2>1. CASE ReservationsStep /\ UNCHANGED tripCalls
    BY <2>1, ReservationsTyped DEF TripDayTypeOK, TripCallsTypeOK, tripCalls
  <2>2. CASE TripsStep /\ UNCHANGED reservationCalls
    BY <2>2, TripsTyped DEF TripDayTypeOK, ReservationCallsTypeOK, reservationCalls
  <2>3. CASE Restart
    BY <2>3, ReservationsDropTyped, TripsDropTyped
       DEF TripDayTypeOK, Restart, TablesTypeOK, tables
  <2>4. CASE UNCHANGED tripDayVars
    BY <2>4 DEF TripDayTypeOK, TablesTypeOK, ReservationCallsTypeOK, TripCallsTypeOK,
                tripDayVars, tables, reservationCalls, tripCalls
  <2>5. QED
    BY <2>1, <2>2, <2>3, <2>4 DEF TripDayNext
<1>3. QED
  BY <1>1, <1>2, PTL DEF TripDaySpec

(***************************************************************************)
(* Whatever the services do at once - a student picks a seat while a       *)
(* relocation hands out the seats it read as free - no seat is given twice.*)
(***************************************************************************)
THEOREM TripDaySeatUnique == TripDaySpec => []SeatUnique
<1>1. TripDayInit => SeatUnique
  BY TablesStart DEF TripDayInit
<1>2. TripDayTypeOK /\ SeatUnique /\ [TripDayNext]_tripDayVars => SeatUnique'
  <2> SUFFICES ASSUME TripDayTypeOK, SeatUnique, [TripDayNext]_tripDayVars
               PROVE  SeatUnique'
    OBVIOUS
  <2>1. CASE ReservationsStep
    BY <2>1, ReservationsLawful, LawfulKeepsSeatUnique DEF TripDayTypeOK
  <2>2. CASE TripsStep
    BY <2>2, TripsLawful, LawfulKeepsSeatUnique DEF TripDayTypeOK
  <2>3. CASE UNCHANGED reservations
    BY <2>3, UnchangedKeepsSeatUnique
  <2>4. QED
    BY <2>1, <2>2, <2>3 DEF TripDayNext, Restart, tripDayVars, tables
<1>3. QED
  BY <1>1, <1>2, TripDayTypeCorrect, PTL DEF TripDaySpec

(***************************************************************************)
(* The two services together implement SeatAllocation.                     *)
(***************************************************************************)
THEOREM TripDayAllocatesSeats == TripDaySpec => AllocatesSeats
<1>1. TripDayInit /\ TripDayTypeOK /\ SeatUnique => Allocation!Init
  BY AllocationStart DEF TripDayTypeOK
<1>2. TripDayTypeOK /\ [TripDayNext]_tripDayVars => [Allocation!Next]_Claims
  <2> SUFFICES ASSUME TripDayTypeOK, [TripDayNext]_tripDayVars
               PROVE  Allocation!Next \/ Claims' = Claims
    OBVIOUS
  <2>1. CASE ReservationsStep
    BY <2>1, ReservationsLawful, LawfulAllocates DEF TripDayTypeOK
  <2>2. CASE TripsStep
    BY <2>2, TripsLawful, LawfulAllocates DEF TripDayTypeOK
  <2>3. CASE UNCHANGED reservations
    BY <2>3 DEF Claims, Live
  <2>4. QED
    BY <2>1, <2>2, <2>3
       DEF TripDayNext, Restart, tripDayVars, tables
<1>3. QED
  BY <1>1, <1>2, TripDayTypeCorrect, TripDaySeatUnique, PTL
     DEF TripDaySpec, AllocatesSeats, Allocation!Spec

\* Leaders' calls keep what carries the answers over.
LEMMA TripDayAnswersInv == TripDaySpec => []AnswersInv
<1>1. TripDayInit => AnswersInv
  BY AnswersStart DEF TripDayInit
<1>2. TripDayTypeOK /\ AnswersInv /\ [TripDayNext]_tripDayVars => AnswersInv'
  <2> SUFFICES ASSUME TripDayTypeOK, AnswersInv, [TripDayNext]_tripDayVars
               PROVE  AnswersInv'
    OBVIOUS
  <2>1. CASE ReservationsStep
    BY <2>1, ReservationsKeepAnswers DEF TripDayTypeOK
  <2>2. CASE TripsStep /\ UNCHANGED reservationCalls
    BY <2>2, TripsKeepOwners, OthersKeepAnswers DEF TripDayTypeOK
  <2>3. CASE Restart
    BY <2>3, DropKeepsAnswers DEF Restart, tables
  <2>4. CASE UNCHANGED tripDayVars
    BY <2>4, OthersKeepAnswers DEF tripDayVars, tables, Live
  <2>5. QED
    BY <2>1, <2>2, <2>3, <2>4 DEF TripDayNext
<1>3. QED
  BY <1>1, <1>2, TripDayTypeCorrect, PTL DEF TripDaySpec

(***************************************************************************)
(* Leaders' calls do not come between a student and the answer given: the  *)
(* rows POSTs were answered 201 for stay, on whatever trip they are now.   *)
(***************************************************************************)
THEOREM TripDayAnswersMatch == TripDaySpec => []AnswersMatchTable
<1>1. AnswersInv => AnswersMatchTable
  BY DEF AnswersInv
<1>2. QED
  BY <1>1, TripDayAnswersInv, PTL

\* Of users, a student's day changes the registration alone.
LEMMA ReservationsKeepPunished ==
  ASSUME TablesTypeOK, ReservationCallsTypeOK, ReservationsStep
  PROVE  PunishedStay
<1>1. ASSUME NEW u, NEW r, MoveRegistration(u, r)
      PROVE  PunishedStay
  BY <1>1 DEF MoveRegistration, PunishedStay, Punished, TablesTypeOK, User
<1>2. CASE UNCHANGED users
  BY <1>2 DEF PunishedStay, Punished
<1>3. QED
  BY <1>1, <1>2, CreateCallsTyped, EditCallsTyped
     DEF ReservationsStep, ReceiveReservationCall, ReceiveCreate, ReceiveEdit, tables

(***************************************************************************)
(* The penalties of a finished trip reach everybody in its snapshot, also  *)
(* while students book, change and cancel and jobs move registrations.     *)
(***************************************************************************)
THEOREM TripDayPenaltiesApplied == TripDaySpec => []PenaltiesApplied
<1>1. TripDayInit => PenaltiesInv
  BY PenaltiesStart DEF TripDayInit
<1>2. TripDayTypeOK /\ PenaltiesInv /\ [TripDayNext]_tripDayVars => PenaltiesInv'
  <2> SUFFICES ASSUME TripDayTypeOK, PenaltiesInv, [TripDayNext]_tripDayVars
               PROVE  PenaltiesInv'
    OBVIOUS
  <2>1. CASE ReservationsStep /\ UNCHANGED tripCalls
    <3>1. PunishedStay
      BY <2>1, ReservationsKeepPunished DEF TripDayTypeOK
    <3>2. QED
      BY <2>1, <3>1, OtherPenaltiesStay DEF PenaltiesInv, tripCalls, TripDayTypeOK
  <2>2. CASE TripsStep
    BY <2>2, TripsStepKeepsPenalties DEF TripDayTypeOK
  <2>3. CASE Restart
    BY <2>3, DropKeepsPenalties DEF TripDayTypeOK, Restart, tables
  <2>4. CASE UNCHANGED tripDayVars
    BY <2>4, OtherPenaltiesStay
       DEF PenaltiesInv, tripDayVars, tripCalls, tables, TripDayTypeOK, PunishedStay, Punished
  <2>5. QED
    BY <2>1, <2>2, <2>3, <2>4 DEF TripDayNext
<1>3. QED
  BY <1>1, <1>2, TripDayTypeCorrect, PenaltiesFollow, PTL DEF TripDaySpec

----------------------------------------------------------------------------
(* Who writes a reservation *)

\* The step leaves the leaders of every trip as they are.
LeadersStay ==
  \A t \in DOMAIN trips : t \in DOMAIN trips' /\ trips'[t].leaders = trips[t].leaders

SteadyLeaders == [][LeadersStay]_tripDayVars

LeadsTrip(request) ==
  request.trip \in DOMAIN trips /\ Leads(request.user, request.trip)

\* A call that is past its check has been sent by somebody who leads the trip.
FinishersLead ==
  \A f \in DOMAIN finishes :
    finishes[f].pc \in {"read", "loop", "level", "penalise"} => LeadsTrip(finishes[f].request)

RelocatorsLead ==
  \A r \in DOMAIN relocations :
    /\ relocations[r].pc \in {"read", "occupied", "loop"} => relocations[r].leads
    /\ relocations[r].leads => LeadsTrip(relocations[r].request)

LeadersInv == FinishersLead /\ RelocatorsLead

LEMMA LeadingStays ==
  ASSUME LeadersStay, NEW request, LeadsTrip(request)
  PROVE  LeadsTrip(request)'
  BY DEF LeadersStay, LeadsTrip, Leads

LEMMA TripsStepKeepsLeaders ==
  ASSUME TablesTypeOK, TripCallsTypeOK, LeadersInv, LeadersStay, TripsStep
  PROVE  LeadersInv'
<1>1. FinishersLead'
  <2>1. ASSUME NEW f \in Finishes, NEW request, ReceiveFinish(f, request)
        PROVE  FinishersLead'
    <3>1. \A g \in DOMAIN finishes' : g = f \/ (g \in DOMAIN finishes /\ finishes'[g] = finishes[g])
      BY <2>1 DEF ReceiveFinish, With
    <3>2. finishes'[f].pc = "check"
      BY <2>1 DEF ReceiveFinish, With
    <3>3. QED
      BY <3>1, <3>2, LeadingStays DEF FinishersLead, LeadersInv
  <2>2. ASSUME NEW f \in Finishes, FinishStep(f)
        PROVE  FinishersLead'
    <3> DEFINE call == finishes[f]
    <3>1. f \in DOMAIN finishes /\ call \in FinishCall
      BY <2>2 DEF FinishStep, TripCallsTypeOK
    <3>2. /\ DOMAIN finishes' = DOMAIN finishes
          /\ \A g \in DOMAIN finishes \ {f} : finishes'[g] = finishes[g]
      BY <2>2 DEF FinishStep, CheckFinish, FinishAnswer, ReadAbsentees, MarkAbsent, ReadLevel,
                  Penalise, FinishTrip
    <3>3. /\ finishes'[f].request = call.request
          /\ \/ finishes'[f].pc = "done"
             \/ LeadsTrip(call.request)
      <4>1. CASE CheckFinish(f)
        BY <3>1, <4>1 DEF CheckFinish, FinishAnswer, FinishCall, LeadsTrip, Leads, MayLead
      <4>2. CASE ReadAbsentees(f) \/ ReadLevel(f) \/ Penalise(f) \/ FinishTrip(f)
        BY <3>1, <4>2 DEF ReadAbsentees, ReadLevel, Penalise, FinishTrip, FinishAnswer,
                          FinishCall, LeadersInv, FinishersLead
      <4>3. ASSUME NEW a \in call.todo, MarkAbsent(f, a)
            PROVE  finishes'[f].request = call.request /\ LeadsTrip(call.request)
        BY <3>1, <4>3 DEF MarkAbsent, FinishCall, LeadersInv, FinishersLead
      <4>4. QED
        BY <2>2, <4>1, <4>2, <4>3 DEF FinishStep
    <3>4. QED
      BY <3>2, <3>3, LeadingStays DEF FinishersLead, LeadersInv
  <2>3. CASE UNCHANGED finishes
    BY <2>3, LeadingStays DEF FinishersLead, LeadersInv
  <2>4. QED
    BY <2>1, <2>2, <2>3
       DEF TripsStep, ReceiveTripCall, ReceiveRelocation, TripCallStep,
           RelocationStep, ReadOrigin, ReadDestination, ReadPassengers, ReadOccupied, MoveRow,
           CancelOrigin, TripWrite, CreateTrip, RescheduleTrip, UpdateTrip, DepartTrip, tripCalls
<1>2. RelocatorsLead'
  <2>1. ASSUME NEW r \in Relocations, NEW request, ReceiveRelocation(r, request)
        PROVE  RelocatorsLead'
    <3>1. \A q \in DOMAIN relocations' :
            q = r \/ (q \in DOMAIN relocations /\ relocations'[q] = relocations[q])
      BY <2>1 DEF ReceiveRelocation, With
    <3>2. relocations'[r].pc = "origin" /\ ~ relocations'[r].leads
      BY <2>1 DEF ReceiveRelocation, With
    <3>3. QED
      BY <3>1, <3>2, LeadingStays DEF RelocatorsLead, LeadersInv
  <2>2. ASSUME NEW r \in Relocations, RelocationStep(r)
        PROVE  RelocatorsLead'
    <3> DEFINE call == relocations[r]
    <3>1. r \in DOMAIN relocations /\ call \in RelocationCall
      BY <2>2 DEF RelocationStep, TripCallsTypeOK
    <3>2. /\ DOMAIN relocations' = DOMAIN relocations
          /\ \A q \in DOMAIN relocations \ {r} : relocations'[q] = relocations[q]
      BY <2>2 DEF RelocationStep, ReadOrigin, ReadDestination, RelocationAnswer,
                  ReadPassengers, ReadOccupied, MoveRow, CancelOrigin
    <3>3. /\ relocations'[r].request = call.request
          /\ relocations'[r].pc \in {"read", "occupied", "loop"} => relocations'[r].leads
          /\ relocations'[r].leads => LeadsTrip(call.request)
      <4>1. CASE ReadOrigin(r)
        BY <3>1, <4>1 DEF ReadOrigin, RelocationAnswer, RelocationCall, LeadsTrip, Leads, MayLead,
                          LeadersInv, RelocatorsLead
      <4>2. CASE ReadDestination(r)
        BY <3>1, <4>2 DEF ReadDestination, RelocationAnswer, RelocationCall,
                          LeadersInv, RelocatorsLead
      <4>3. CASE ReadPassengers(r) \/ ReadOccupied(r) \/ CancelOrigin(r)
        BY <3>1, <4>3 DEF ReadPassengers, ReadOccupied, CancelOrigin, RelocationAnswer,
                          RelocationCall, LeadersInv, RelocatorsLead
      <4>4. ASSUME NEW p \in call.todo, MoveRow(r, p)
            PROVE  /\ relocations'[r].request = call.request
                   /\ relocations'[r].leads = call.leads
                   /\ call.leads
        BY <3>1, <4>4 DEF MoveRow, RelocationAnswer, RelocationCall, LeadersInv, RelocatorsLead
      <4>5. QED
        BY <2>2, <3>1, <4>1, <4>2, <4>3, <4>4 DEF RelocationStep, LeadersInv, RelocatorsLead
    <3>4. QED
      BY <3>2, <3>3, LeadingStays DEF RelocatorsLead, LeadersInv
  <2>3. CASE UNCHANGED relocations
    BY <2>3, LeadingStays DEF RelocatorsLead, LeadersInv
  <2>4. QED
    BY <2>1, <2>2, <2>3
       DEF TripsStep, ReceiveTripCall, ReceiveFinish, TripCallStep,
           FinishStep, CheckFinish, ReadAbsentees, MarkAbsent, ReadLevel, Penalise, FinishTrip,
           TripWrite, CreateTrip, RescheduleTrip, UpdateTrip, DepartTrip, tripCalls
<1>3. QED
  BY <1>1, <1>2 DEF LeadersInv

\* Whatever leaves the calls alone, or drops them.
LEMMA OthersKeepLeaders ==
  ASSUME TripCallsTypeOK, LeadersInv, LeadersStay, UNCHANGED tripCalls \/ DropTripCalls
  PROVE  LeadersInv'
<1>1. CASE UNCHANGED tripCalls
  BY <1>1, LeadingStays DEF LeadersInv, FinishersLead, RelocatorsLead, tripCalls
<1>2. CASE DropTripCalls
  <2>1. \A f \in DOMAIN finishes' :
          /\ f \in DOMAIN finishes
          /\ finishes'[f] = finishes[f] \/ finishes'[f].pc = "lost"
    BY <1>2 DEF DropTripCalls, Dropped, TripCallsTypeOK, FinishCall
  <2>2. \A r \in DOMAIN relocations' :
          /\ r \in DOMAIN relocations
          /\ relocations'[r].request = relocations[r].request
          /\ relocations'[r].leads = relocations[r].leads
          /\ relocations'[r].pc \in {relocations[r].pc, "lost"}
    BY <1>2 DEF DropTripCalls, Dropped, TripCallsTypeOK, RelocationCall
  <2>3. QED
    BY <2>1, <2>2, LeadingStays DEF LeadersInv, FinishersLead, RelocatorsLead
<1>3. QED
  BY <1>1, <1>2

\* The row is another after the step, or gone.
Disturbed(i) == IF i \in Live' THEN reservations'[i] # reservations[i] ELSE TRUE

LEMMA StudentsDisturbOwn ==
  ASSUME ReservationCallsTypeOK, AnswersInv, ReservationsStep,
         NEW i \in Live, Disturbed(i)
  PROVE  OwnerWrites(i)
<1>1. ASSUME NEW c \in DOMAIN creates, InsertRow(c)
      PROVE  FALSE
  <2>1. c \notin Live
    BY <1>1 DEF InsertRow, AnswersInv, AnsweredWhenDone, RowsAreCreated, Created,
                ReservationCallsTypeOK
  <2>2. QED
    BY <1>1, <2>1 DEF InsertRow, InsertReservation, With, Live, Disturbed
<1>2. ASSUME NEW e \in DOMAIN edits, WriteUpdate(e) \/ WriteRemove(e)
      PROVE  OwnerWrites(i)
  <2>1. edits[e].pc = "write" /\ edits'[e].pc = "done"
    BY <1>2 DEF WriteUpdate, WriteRemove, EditAnswer, ReservationCallsTypeOK, EditCall
  <2>2. edits[e].request.id = i
    BY <1>2 DEF WriteUpdate, WriteRemove, UpdateReservation, DeleteReservation, Restrict, Live,
                Disturbed
  <2>3. edits[e].request.user = reservations[i].user
    BY <2>1, <2>2 DEF AnswersInv, WritersOwn
  <2>4. QED
    BY <2>1, <2>2, <2>3 DEF OwnerWrites
<1>3. CASE UNCHANGED reservations
  BY <1>3 DEF Disturbed, Live
<1>4. QED
  BY <1>1, <1>2, <1>3
     DEF ReservationsStep, ReceiveReservationCall, ReceiveCreate, ReceiveEdit, CreateStep,
         CheckAccount, CheckDuplicate, ReadTrip, CountSeats, EditStep, FindOwn,
         MoveRegistration, tables

LEMMA LeadersDisturb ==
  ASSUME TablesTypeOK, TripCallsTypeOK, LeadersInv, TripsStep,
         NEW i \in Live, Disturbed(i)
  PROVE  LeaderWrites(i)
<1>1. ASSUME NEW f \in DOMAIN finishes, NEW a \in finishes[f].todo, MarkAbsent(f, a)
      PROVE  LeaderWrites(i)
  <2>1. a.id = i
    BY <1>1 DEF MarkAbsent, UpdateReservation, Live, Disturbed
  <2>2. a \in finishes[f].todo \ finishes'[f].todo
    BY <1>1 DEF MarkAbsent, TripCallsTypeOK, FinishCall
  <2>3. Leads(finishes[f].request.user, finishes[f].request.trip)
    BY <1>1 DEF MarkAbsent, LeadersInv, FinishersLead, LeadsTrip
  <2>4. QED
    BY <2>1, <2>2, <2>3 DEF LeaderWrites
<1>2. ASSUME NEW r \in DOMAIN relocations, NEW p \in relocations[r].todo, MoveRow(r, p)
      PROVE  LeaderWrites(i)
  <2>1. ~ UNCHANGED reservations
    BY DEF Disturbed, Live
  <2>2. p.id = i
    BY <1>2, <2>1 DEF MoveRow, UpdateReservation, Live, Disturbed
  <2>3. p \in relocations[r].todo \ relocations'[r].todo
    BY <1>2, <2>1 DEF MoveRow, TripCallsTypeOK, RelocationCall
  <2>4. Leads(relocations[r].request.user, relocations[r].request.trip)
    BY <1>2 DEF MoveRow, LeadersInv, RelocatorsLead, LeadsTrip
  <2>5. QED
    BY <2>2, <2>3, <2>4 DEF LeaderWrites
<1>3. CASE UNCHANGED reservations
  BY <1>3 DEF Disturbed, Live
<1>4. QED
  BY <1>1, <1>2, <1>3
     DEF TripsStep, ReceiveTripCall, ReceiveFinish, ReceiveRelocation, TripCallStep,
         FinishStep, CheckFinish, ReadAbsentees, ReadLevel, Penalise, FinishTrip,
         RelocationStep, ReadOrigin, ReadDestination, ReadPassengers, ReadOccupied, CancelOrigin,
         TripWrite, CreateTrip, RescheduleTrip, UpdateTrip, DepartTrip, tables

(***************************************************************************)
(* While the leaders of trips stay the same, nobody but its owner and the  *)
(* leaders of the trip it was read on changes or removes a reservation     *)
(* (reservations.service.ts:381 and 406, trips.service.ts:512 and 584),    *)
(* whatever runs at once.                                                  *)
(***************************************************************************)
THEOREM TripDayWritersAllowed == TripDaySpec /\ SteadyLeaders => OwnerOrLeaderWrites
<1>1. TripDayInit => LeadersInv
  BY DEF TripDayInit, TripCallsInit, LeadersInv, FinishersLead, RelocatorsLead
<1>2. TripDayTypeOK /\ LeadersInv /\ [TripDayNext]_tripDayVars /\ [LeadersStay]_tripDayVars
        => LeadersInv'
  <2> SUFFICES ASSUME TripDayTypeOK, LeadersInv, [TripDayNext]_tripDayVars,
                      [LeadersStay]_tripDayVars
               PROVE  LeadersInv'
    OBVIOUS
  <2>1. LeadersStay
    BY DEF LeadersStay, tripDayVars, tables
  <2>2. CASE TripsStep
    BY <2>1, <2>2, TripsStepKeepsLeaders DEF TripDayTypeOK
  <2>3. CASE UNCHANGED tripCalls \/ DropTripCalls
    BY <2>1, <2>3, OthersKeepLeaders DEF TripDayTypeOK
  <2>4. QED
    BY <2>2, <2>3 DEF TripDayNext, Restart, tripDayVars
<1>3. TripDayTypeOK /\ LeadersInv /\ AnswersInv /\ [TripDayNext]_tripDayVars =>
        [\A i \in Live :
           (IF i \in Live' THEN reservations'[i] # reservations[i] ELSE TRUE) =>
             OwnerWrites(i) \/ LeaderWrites(i)]_tripDayVars
  <2> SUFFICES ASSUME TripDayTypeOK, LeadersInv, AnswersInv, [TripDayNext]_tripDayVars,
                      NEW i \in Live, Disturbed(i)
               PROVE  OwnerWrites(i) \/ LeaderWrites(i)
    BY DEF Disturbed
  <2>1. CASE ReservationsStep
    BY <2>1, StudentsDisturbOwn DEF TripDayTypeOK
  <2>2. CASE TripsStep
    BY <2>2, LeadersDisturb DEF TripDayTypeOK
  <2>3. CASE UNCHANGED reservations
    BY <2>3 DEF Disturbed, Live
  <2>4. QED
    BY <2>1, <2>2, <2>3 DEF TripDayNext, Restart, tripDayVars, tables
<1>4. QED
  BY <1>1, <1>2, <1>3, TripDayTypeCorrect, TripDayAnswersInv, PTL
     DEF TripDaySpec, SteadyLeaders, OwnerOrLeaderWrites

----------------------------------------------------------------------------
(* Relocations while students book and cancel *)

\* A row that a relocation has read was made before the day, or by a POST that is over.
ReadRowsCreated ==
  \A r \in DOMAIN relocations : \A p \in relocations[r].snapshot :
    p.id \in Creates => Created(p.id)

DayRelocatedInv == RelocatedInv /\ ReadRowsCreated

LEMMA CreatedStays ==
  ASSUME AnswersInv, ReservationsStep \/ DropReservationCalls, NEW c, Created(c)
  PROVE  Created(c)'
<1>1. c \in DOMAIN creates /\ creates[c].pc = "done"
  BY DEF Created, AnswersInv, AnsweredWhenDone
<1>2. c \in DOMAIN creates' /\ creates'[c] = creates[c]
  <2>1. ASSUME NEW d \in Creates, CreateStep(d)
        PROVE  c \in DOMAIN creates' /\ creates'[c] = creates[c]
    <3>1. c # d
      BY <1>1, <2>1 DEF CreateStep, CheckAccount, CheckDuplicate, ReadTrip, CountSeats, InsertRow
    <3>2. QED
      BY <1>1, <2>1, <3>1
         DEF CreateStep, CheckAccount, CheckDuplicate, ReadTrip, CountSeats, InsertRow,
             CreateAnswer, CreateGoto
  <2>2. ASSUME NEW d \in Creates, NEW request, ReceiveCreate(d, request)
        PROVE  c \in DOMAIN creates' /\ creates'[c] = creates[c]
    BY <1>1, <2>2 DEF ReceiveCreate, With
  <2>3. CASE DropReservationCalls
    BY <1>1, <2>3 DEF DropReservationCalls, Dropped
  <2>4. CASE UNCHANGED creates
    BY <1>1, <2>4
  <2>5. QED
    BY <2>1, <2>2, <2>3, <2>4
       DEF ReservationsStep, ReceiveReservationCall, ReceiveEdit, EditStep, FindOwn,
           WriteUpdate, WriteRemove, MoveRegistration, reservationCalls
<1>3. QED
  BY <1>2 DEF Created

\* A booking adds a row nobody has read, a PATCH leaves the trip alone.
LEMMA StudentsLeaveReadRows ==
  ASSUME TablesTypeOK, ReservationCallsTypeOK, AnswersInv, ReadRowsCreated, ReservationsStep
  PROVE  ReadRowsStay
<1>1. ASSUME NEW c \in DOMAIN creates, InsertRow(c)
      PROVE  ReadRowsStay
  <2>1. c \in Creates /\ ~ Created(c)
    BY <1>1 DEF InsertRow, AnswersInv, AnsweredWhenDone, Created, ReservationCallsTypeOK
  <2>2. \A i \in Live' \ {c} : i \in Live /\ reservations'[i] = reservations[i]
    BY <1>1 DEF InsertRow, InsertReservation, With, Live
  <2>3. QED
    BY <2>1, <2>2 DEF ReadRowsStay, ReadRowsCreated
<1>2. ASSUME NEW e \in DOMAIN edits, WriteUpdate(e)
      PROVE  ReadRowsStay
  <2>1. \A i \in Live : \A request : Patched(reservations[i], request).trip = reservations[i].trip
    BY DEF Patched, TablesTypeOK, Live, Reservation
  <2>2. QED
    BY <1>2, <2>1 DEF WriteUpdate, UpdateReservation, Live, ReadRowsStay
<1>3. ASSUME NEW e \in DOMAIN edits, WriteRemove(e)
      PROVE  ReadRowsStay
  BY <1>3 DEF WriteRemove, DeleteReservation, Restrict, Live, ReadRowsStay
<1>4. CASE UNCHANGED reservations
  BY <1>4 DEF ReadRowsStay, Live
<1>5. QED
  BY <1>1, <1>2, <1>3, <1>4
     DEF ReservationsStep, ReceiveReservationCall, ReceiveCreate, ReceiveEdit, CreateStep,
         CheckAccount, CheckDuplicate, ReadTrip, CountSeats, EditStep, FindOwn,
         MoveRegistration, tables

LEMMA TripsStepReadsCreated ==
  ASSUME TablesTypeOK, TripCallsTypeOK, RowsAreCreated, ReadRowsCreated, TripsStep,
         UNCHANGED reservationCalls
  PROVE  ReadRowsCreated'
<1>1. \A c : Created(c) => Created(c)'
  BY DEF Created, reservationCalls
<1>2. ASSUME NEW r \in DOMAIN relocations', NEW p \in relocations'[r].snapshot, p.id \in Creates
      PROVE  Created(p.id)
  <2>1. CASE r \in DOMAIN relocations /\ p \in relocations[r].snapshot
    BY <1>2, <2>1 DEF ReadRowsCreated
  <2>2. ASSUME NEW q \in Relocations, RelocationStep(q)
        PROVE  Created(p.id)
    <3>1. /\ q \in DOMAIN relocations /\ relocations[q] \in RelocationCall
          /\ DOMAIN relocations' = DOMAIN relocations
          /\ \A x \in DOMAIN relocations \ {q} : relocations'[x] = relocations[x]
      BY <2>2, RelocationEffect
    <3>2. CASE relocations'[q].snapshot = relocations[q].snapshot
      BY <2>1, <3>1, <3>2
    <3>3. CASE ReadPassengers(q)
      <4>1. relocations'[q].snapshot = Passengers(relocations[q].request.trip)
        BY <3>1, <3>3 DEF ReadPassengers, RelocationCall
      <4>2. \A x \in Passengers(relocations[q].request.trip) : x.id \in Live
        BY PassengersOnce
      <4>3. \A x \in relocations'[q].snapshot : x.id \in Live
        BY <4>1, <4>2
      <4>4. QED
        BY <1>2, <2>1, <3>1, <4>3 DEF RowsAreCreated
    <3>4. QED
      <4>1. ReadOccupied(q) => relocations'[q].snapshot = relocations[q].snapshot
        BY <3>1 DEF ReadOccupied, RelocationCall
      <4>2. QED
        BY <2>2, <3>2, <3>3, <4>1, RelocationEffect DEF RelocationMoves, PassengerMoved
  <2>3. CASE \A q \in Relocations : ~ RelocationStep(q)
    <3>1. CASE UNCHANGED relocations
      BY <1>2, <2>1, <3>1
    <3>2. ASSUME NEW q \in Relocations, NEW request, ReceiveRelocation(q, request)
          PROVE  Created(p.id)
      <4>1. /\ relocations'[q].snapshot = {}
            /\ \A x \in DOMAIN relocations' \ {q} :
                 x \in DOMAIN relocations /\ relocations'[x] = relocations[x]
        BY <3>2 DEF ReceiveRelocation, With
      <4>2. QED
        BY <1>2, <2>1, <4>1
    <3>3. QED
      BY <2>3, <3>1, <3>2, OthersLeaveRelocations
  <2>4. QED
    BY <2>2, <2>3
<1>3. QED
  BY <1>1, <1>2 DEF ReadRowsCreated

(***************************************************************************)
(* The same with students who book, change and cancel meanwhile: a row a   *)
(* relocation has read is never there again once its owner has removed it. *)
(***************************************************************************)
THEOREM TripDayRelocatedTogether == TripDaySpec => []RelocatedTogether
<1>1. TripDayInit => DayRelocatedInv
  BY RelocatedStart DEF TripDayInit, TripCallsInit, DayRelocatedInv, ReadRowsCreated
<1>2. TripDayTypeOK /\ AnswersInv /\ DayRelocatedInv /\ [TripDayNext]_tripDayVars
        => DayRelocatedInv'
  <2> SUFFICES ASSUME TripDayTypeOK, AnswersInv, DayRelocatedInv, [TripDayNext]_tripDayVars
               PROVE  DayRelocatedInv'
    OBVIOUS
  <2>1. CASE ReservationsStep /\ UNCHANGED tripCalls
    <3>1. RelocatedInv'
      BY <2>1, StudentsLeaveReadRows, OthersKeepRelocated
         DEF TripDayTypeOK, DayRelocatedInv, tripCalls
    <3>2. ReadRowsCreated'
      BY <2>1, CreatedStays DEF DayRelocatedInv, ReadRowsCreated, tripCalls
    <3>3. QED
      BY <3>1, <3>2 DEF DayRelocatedInv
  <2>2. CASE TripsStep /\ UNCHANGED reservationCalls
    BY <2>2, TripsStepKeepsRelocated, TripsStepReadsCreated
       DEF TripDayTypeOK, DayRelocatedInv, AnswersInv
  <2>3. CASE Restart
    <3>1. ReadRowsStay
      BY <2>3 DEF Restart, tables, ReadRowsStay, Live
    <3>2. RelocatedInv'
      BY <2>3, <3>1, OthersKeepRelocated DEF Restart, TripDayTypeOK, DayRelocatedInv
    <3>3. /\ DOMAIN relocations' = DOMAIN relocations
          /\ \A r \in DOMAIN relocations : relocations'[r].snapshot = relocations[r].snapshot
      BY <2>3 DEF Restart, DropTripCalls, Dropped, TripDayTypeOK, TripCallsTypeOK, RelocationCall
    <3>4. ReadRowsCreated'
      BY <2>3, <3>3, CreatedStays DEF Restart, DayRelocatedInv, ReadRowsCreated
    <3>5. QED
      BY <3>2, <3>4 DEF DayRelocatedInv
  <2>4. CASE UNCHANGED tripDayVars
    BY <2>4 DEF tripDayVars, tables, tripCalls, reservationCalls, DayRelocatedInv, RelocatedInv,
                Orderly, TakenAlong, ReadRowsCreated, Created, Live
  <2>5. QED
    BY <2>1, <2>2, <2>3, <2>4 DEF TripDayNext
<1>3. DayRelocatedInv => RelocatedTogether
  BY RelocatedFollows DEF DayRelocatedInv
<1>4. QED
  BY <1>1, <1>2, <1>3, TripDayTypeCorrect, TripDayAnswersInv, PTL DEF TripDaySpec

----------------------------------------------------------------------------
(* The loops of leaders' calls come to an end *)

\* How far a finish has got, and what its loop still has to do: three statements
\* for each reservation not reached, less those the current one has behind it.
FinishPhase(call) ==
  IF call.pc = "check" THEN 0 ELSE IF call.pc = "read" THEN 1
  ELSE IF call.pc \in {"loop", "level", "penalise"} THEN 2 ELSE 3

FinishWork(call) ==
  3 * Cardinality(call.todo)
    + IF call.pc = "level" THEN 2 ELSE IF call.pc = "penalise" THEN 1 ELSE 0

FinishNearer(next, call) ==
  \/ FinishPhase(next) > FinishPhase(call)
  \/ FinishPhase(next) = FinishPhase(call) /\ FinishWork(next) < FinishWork(call)

\* The same of a relocation, whose loop sends one statement for each passenger.
RelocationPhase(call) ==
  IF call.pc = "origin" THEN 0 ELSE IF call.pc = "destination" THEN 1
  ELSE IF call.pc = "read" THEN 2 ELSE IF call.pc = "occupied" THEN 3
  ELSE IF call.pc = "loop" THEN 4 ELSE 5

RelocationNearer(next, call) ==
  \/ RelocationPhase(next) > RelocationPhase(call)
  \/ /\ RelocationPhase(next) = RelocationPhase(call)
     /\ Cardinality(next.todo) < Cardinality(call.todo)

FinishesAdvance ==
  \A f \in DOMAIN finishes :
    /\ f \in DOMAIN finishes'
    /\ finishes'[f] = finishes[f] \/ FinishNearer(finishes'[f], finishes[f])

RelocationsAdvance ==
  \A r \in DOMAIN relocations :
    /\ r \in DOMAIN relocations'
    /\ relocations'[r] = relocations[r] \/ RelocationNearer(relocations'[r], relocations[r])

\* What the loops have left is finite, and the counter of a relocation is a seat.
LoopsInv ==
  /\ IsFiniteSet(Live)
  /\ \A f \in DOMAIN finishes : IsFiniteSet(finishes[f].todo)
  /\ \A r \in DOMAIN relocations :
       /\ IsFiniteSet(relocations[r].todo) /\ IsFiniteSet(relocations[r].occupied)
       /\ relocations[r].seat >= 1

LEMMA ReadsFinite ==
  ASSUME IsFiniteSet(Live), NEW t
  PROVE  /\ IsFiniteSet(Absentees(t)) /\ IsFiniteSet(Passengers(t))
         /\ IsFiniteSet(SeatsOf(t))
<1>1. IsFiniteSet(OfTrip(t)) /\ IsFiniteSet(SeatedOn(t))
  BY FS_Subset DEF OfTrip, SeatedOn
<1>2. ASSUME NEW S, NEW T, NEW g \in Surjection(S, T), IsFiniteSet(S)
      PROVE  IsFiniteSet(T)
  BY <1>2, FS_Surjection
<1>3. IsFiniteSet(Absentees(t))
  <2> DEFINE S == {j \in OfTrip(t) : Punishable(reservations[j])}
             g == [i \in S |-> [id |-> i, user |-> reservations[i].user]]
  <2>1. IsFiniteSet(S)
    BY <1>1, FS_Subset
  <2>2. g \in Surjection(S, Absentees(t))
    BY DEF Absentees, Surjection
  <2>3. QED
    BY <1>2, <2>1, <2>2
<1>4. IsFiniteSet(Passengers(t))
  <2> DEFINE g == [i \in OfTrip(t) |-> [id |-> i, seated |-> reservations[i].seat # NoSeat]]
  <2>1. g \in Surjection(OfTrip(t), Passengers(t))
    BY DEF Passengers, Surjection
  <2>2. QED
    BY <1>1, <1>2, <2>1
<1>5. IsFiniteSet(SeatsOf(t))
  <2> DEFINE g == [i \in SeatedOn(t) |-> reservations[i].seat]
  <2>1. g \in Surjection(SeatedOn(t), SeatsOf(t))
    BY DEF SeatsOf, Surjection
  <2>2. QED
    BY <1>1, <1>2, <2>1
<1>6. QED
  BY <1>3, <1>4, <1>5

\* Taking one out of a finite set leaves one less.
LEMMA OneLess ==
  ASSUME NEW S, IsFiniteSet(S), NEW x \in S
  PROVE  /\ IsFiniteSet(S \ {x})
         /\ Cardinality(S) \in Nat /\ Cardinality(S \ {x}) = Cardinality(S) - 1
  BY FS_RemoveElement, FS_CardinalityType

LEMMA FinishAdvances ==
  ASSUME TablesTypeOK, TripCallsTypeOK, LoopsInv, NEW f \in Finishes, FinishStep(f)
  PROVE  /\ DOMAIN finishes' = DOMAIN finishes /\ f \in DOMAIN finishes
         /\ \A g \in DOMAIN finishes \ {f} : finishes'[g] = finishes[g]
         /\ relocations' = relocations
         /\ IsFiniteSet(finishes'[f].todo)
         /\ FinishNearer(finishes'[f], finishes[f])
<1> DEFINE call == finishes[f]
           next == finishes'[f]
<1>1. f \in DOMAIN finishes /\ call \in FinishCall /\ IsFiniteSet(call.todo)
  BY DEF FinishStep, TripCallsTypeOK, LoopsInv
<1>2. /\ DOMAIN finishes' = DOMAIN finishes /\ relocations' = relocations
      /\ \A g \in DOMAIN finishes \ {f} : finishes'[g] = finishes[g]
  BY DEF FinishStep, CheckFinish, FinishAnswer, ReadAbsentees, MarkAbsent, ReadLevel,
         Penalise, FinishTrip
<1>3. Cardinality(call.todo) \in Nat
  BY <1>1, FS_CardinalityType
<1>4. CASE CheckFinish(f)
  <2>1. call.pc = "check" /\ next.pc \in {"done", "read"} /\ next.todo = call.todo
    BY <1>1, <1>4 DEF CheckFinish, FinishAnswer, FinishCall
  <2>2. QED
    BY <1>1, <1>2, <2>1 DEF FinishNearer, FinishPhase
<1>5. CASE ReadAbsentees(f)
  <2>1. /\ call.pc = "read" /\ next.pc = "loop"
        /\ next.todo = Absentees(call.request.trip)
    BY <1>1, <1>5 DEF ReadAbsentees, FinishCall
  <2>2. IsFiniteSet(next.todo)
    BY <2>1, ReadsFinite DEF LoopsInv
  <2>3. QED
    BY <1>1, <1>2, <2>1, <2>2 DEF FinishNearer, FinishPhase
<1>6. ASSUME NEW a \in call.todo, MarkAbsent(f, a)
      PROVE  IsFiniteSet(next.todo) /\ FinishNearer(next, call)
  <2>1. call.pc = "loop" /\ next.pc = "level" /\ next.todo = call.todo \ {a}
    BY <1>1, <1>6 DEF MarkAbsent, FinishCall
  <2>2. IsFiniteSet(next.todo) /\ Cardinality(next.todo) = Cardinality(call.todo) - 1
    <3>1. /\ IsFiniteSet(call.todo \ {a})
          /\ Cardinality(call.todo \ {a}) = Cardinality(call.todo) - 1
      BY <1>1, OneLess
    <3>2. QED
      BY <2>1, <3>1, Zenon
  <2>3. FinishPhase(next) = FinishPhase(call)
    BY <2>1 DEF FinishPhase
  <2>4. FinishWork(next) < FinishWork(call)
    BY <1>3, <2>1, <2>2 DEF FinishWork
  <2>5. QED
    BY <2>2, <2>3, <2>4 DEF FinishNearer
<1>7. CASE ReadLevel(f) \/ Penalise(f)
  <2>1. /\ next.todo = call.todo
        /\ \/ call.pc = "level" /\ next.pc = "penalise"
           \/ call.pc = "penalise" /\ next.pc = "loop"
    BY <1>1, <1>7 DEF ReadLevel, Penalise, FinishCall
  <2>2. FinishPhase(next) = FinishPhase(call)
    BY <2>1 DEF FinishPhase
  <2>3. FinishWork(next) < FinishWork(call)
    BY <1>3, <2>1 DEF FinishWork
  <2>4. QED
    BY <1>1, <1>2, <2>1, <2>2, <2>3 DEF FinishNearer
<1>8. CASE FinishTrip(f)
  <2>1. call.pc = "loop" /\ next.pc = "done" /\ next.todo = call.todo
    BY <1>1, <1>8 DEF FinishTrip, FinishAnswer, FinishCall
  <2>2. QED
    BY <1>1, <1>2, <2>1 DEF FinishNearer, FinishPhase
<1>9. QED
  BY <1>1, <1>2, <1>4, <1>5, <1>6, <1>7, <1>8 DEF FinishStep

LEMMA RelocationAdvances ==
  ASSUME TablesTypeOK, TripCallsTypeOK, LoopsInv, NEW r \in Relocations, RelocationStep(r)
  PROVE  /\ DOMAIN relocations' = DOMAIN relocations /\ r \in DOMAIN relocations
         /\ \A q \in DOMAIN relocations \ {r} : relocations'[q] = relocations[q]
         /\ finishes' = finishes
         /\ IsFiniteSet(relocations'[r].todo) /\ IsFiniteSet(relocations'[r].occupied)
         /\ relocations'[r].seat >= 1
         /\ RelocationNearer(relocations'[r], relocations[r])
<1> DEFINE call == relocations[r]
           next == relocations'[r]
<1>1. /\ r \in DOMAIN relocations /\ call \in RelocationCall
      /\ IsFiniteSet(call.todo) /\ IsFiniteSet(call.occupied) /\ call.seat >= 1
  BY DEF RelocationStep, TripCallsTypeOK, LoopsInv
<1>2. /\ DOMAIN relocations' = DOMAIN relocations
      /\ \A q \in DOMAIN relocations \ {r} : relocations'[q] = relocations[q]
      /\ \/ RelocationMoves(r) \/ ReadPassengers(r) \/ ReadOccupied(r)
         \/ \E p \in call.todo : PassengerMoved(r, p)
  BY RelocationEffect
<1>3. finishes' = finishes
  BY DEF RelocationStep, ReadOrigin, ReadDestination, ReadPassengers, ReadOccupied, MoveRow,
         CancelOrigin
<1>4. CASE RelocationMoves(r)
  BY <1>1, <1>2, <1>3, <1>4 DEF RelocationMoves, RelocationNearer, RelocationPhase
<1>5. CASE ReadPassengers(r)
  <2>1. /\ call.pc = "read" /\ next.pc = "occupied"
        /\ next.todo = Passengers(call.request.trip)
        /\ next.occupied = call.occupied /\ next.seat = call.seat
    BY <1>1, <1>5 DEF ReadPassengers, RelocationCall
  <2>2. IsFiniteSet(next.todo)
    BY <2>1, ReadsFinite DEF LoopsInv
  <2>3. QED
    BY <1>1, <1>2, <1>3, <2>1, <2>2 DEF RelocationNearer, RelocationPhase
<1>6. CASE ReadOccupied(r)
  <2>1. /\ call.pc = "occupied" /\ next.pc = "loop" /\ next.todo = call.todo
        /\ next.occupied = SeatsOf(call.request.destination) /\ next.seat = call.seat
    BY <1>1, <1>6 DEF ReadOccupied, RelocationCall
  <2>2. IsFiniteSet(next.occupied)
    BY <2>1, ReadsFinite DEF LoopsInv
  <2>3. QED
    BY <1>1, <1>2, <1>3, <2>1, <2>2 DEF RelocationNearer, RelocationPhase
<1>7. ASSUME NEW p \in call.todo, PassengerMoved(r, p)
      PROVE  /\ IsFiniteSet(next.todo) /\ IsFiniteSet(next.occupied) /\ next.seat >= 1
             /\ RelocationNearer(next, call)
  <2>1. PICK s \in SeatFor(call, p) :
          /\ next.occupied = IF p.seated THEN call.occupied \cup {s} ELSE call.occupied
          /\ next.seat = IF p.seated THEN s ELSE call.seat
    BY <1>7 DEF PassengerMoved
  <2>2. call.pc = "loop" /\ next.pc = "loop" /\ next.todo = call.todo \ {p}
    BY <1>7 DEF PassengerMoved
  <2>3. /\ IsFiniteSet(next.todo)
        /\ Cardinality(call.todo) \in Nat /\ Cardinality(next.todo) = Cardinality(call.todo) - 1
    <3>1. /\ IsFiniteSet(call.todo \ {p})
          /\ Cardinality(call.todo) \in Nat
          /\ Cardinality(call.todo \ {p}) = Cardinality(call.todo) - 1
      BY <1>1, OneLess
    <3>2. QED
      BY <2>2, <3>1, Zenon
  <2>4. Cardinality(next.todo) < Cardinality(call.todo)
    BY <2>3
  <2>5. IsFiniteSet(next.occupied)
    <3>1. IsFiniteSet(call.occupied \cup {s})
      BY <1>1, FS_AddElement
    <3>2. QED
      BY <1>1, <2>1, <3>1
  <2>6. p.seated => s \in Nat /\ s >= call.seat
    BY <2>1, TablesAssumption DEF SeatFor, NextFree
  <2>7. next.seat >= 1
    BY <1>1, <2>1, <2>6 DEF RelocationCall
  <2>8. QED
    BY <2>2, <2>3, <2>4, <2>5, <2>7 DEF RelocationNearer, RelocationPhase
<1>8. QED
  BY <1>1, <1>2, <1>3, <1>4, <1>5, <1>6, <1>7

\* Whatever else happens leaves the calls that have started where they are.
LEMMA OthersAdvance ==
  ASSUME TripsStep, \A f \in Finishes : ~ FinishStep(f), \A r \in Relocations : ~ RelocationStep(r)
  PROVE  /\ \A f \in DOMAIN finishes : f \in DOMAIN finishes' /\ finishes'[f] = finishes[f]
         /\ \A f \in DOMAIN finishes' \ DOMAIN finishes : finishes'[f].todo = {}
         /\ \A r \in DOMAIN relocations :
              r \in DOMAIN relocations' /\ relocations'[r] = relocations[r]
         /\ \A r \in DOMAIN relocations' \ DOMAIN relocations :
              /\ relocations'[r].todo = {} /\ relocations'[r].occupied = {}
              /\ relocations'[r].seat = 1
<1>1. ASSUME NEW f \in Finishes, NEW request, ReceiveFinish(f, request)
      PROVE  /\ \A g \in DOMAIN finishes : g \in DOMAIN finishes' /\ finishes'[g] = finishes[g]
             /\ \A g \in DOMAIN finishes' \ DOMAIN finishes : finishes'[g].todo = {}
             /\ relocations' = relocations
  BY <1>1 DEF ReceiveFinish, With
<1>2. ASSUME NEW r \in Relocations, NEW request, ReceiveRelocation(r, request)
      PROVE  /\ finishes' = finishes
             /\ \A q \in DOMAIN relocations :
                  q \in DOMAIN relocations' /\ relocations'[q] = relocations[q]
             /\ \A q \in DOMAIN relocations' \ DOMAIN relocations :
                  /\ relocations'[q].todo = {} /\ relocations'[q].occupied = {}
                  /\ relocations'[q].seat = 1
  BY <1>2 DEF ReceiveRelocation, With
<1>3. CASE TripWrite
  BY <1>3 DEF TripWrite, CreateTrip, RescheduleTrip, UpdateTrip, DepartTrip, tripCalls
<1>4. QED
  BY <1>1, <1>2, <1>3 DEF TripsStep, ReceiveTripCall, TripCallStep

LEMMA TripsStepAdvances ==
  ASSUME TablesTypeOK, TripCallsTypeOK, LoopsInv, TripsStep
  PROVE  LoopsInv' /\ FinishesAdvance /\ RelocationsAdvance
<1>1. IsFiniteSet(Live')
  BY TripsKeepOwners DEF LoopsInv
<1>2. ASSUME NEW f \in Finishes, FinishStep(f)
      PROVE  LoopsInv' /\ FinishesAdvance /\ RelocationsAdvance
  <2>1. /\ DOMAIN finishes' = DOMAIN finishes
        /\ \A g \in DOMAIN finishes \ {f} : finishes'[g] = finishes[g]
        /\ relocations' = relocations
        /\ IsFiniteSet(finishes'[f].todo)
        /\ FinishNearer(finishes'[f], finishes[f])
    BY <1>2, FinishAdvances
  <2>2. LoopsInv'
    BY <1>1, <2>1 DEF LoopsInv
  <2>3. QED
    BY <2>1, <2>2 DEF FinishesAdvance, RelocationsAdvance
<1>3. ASSUME NEW r \in Relocations, RelocationStep(r)
      PROVE  LoopsInv' /\ FinishesAdvance /\ RelocationsAdvance
  <2>1. /\ DOMAIN relocations' = DOMAIN relocations
        /\ \A q \in DOMAIN relocations \ {r} : relocations'[q] = relocations[q]
        /\ finishes' = finishes
        /\ IsFiniteSet(relocations'[r].todo) /\ IsFiniteSet(relocations'[r].occupied)
        /\ relocations'[r].seat >= 1
        /\ RelocationNearer(relocations'[r], relocations[r])
    BY <1>3, RelocationAdvances
  <2>2. LoopsInv'
    BY <1>1, <2>1 DEF LoopsInv
  <2>3. QED
    BY <2>1, <2>2 DEF FinishesAdvance, RelocationsAdvance
<1>4. CASE /\ \A f \in Finishes : ~ FinishStep(f)
           /\ \A r \in Relocations : ~ RelocationStep(r)
  <2>1. /\ \A f \in DOMAIN finishes : f \in DOMAIN finishes' /\ finishes'[f] = finishes[f]
        /\ \A f \in DOMAIN finishes' \ DOMAIN finishes : finishes'[f].todo = {}
        /\ \A r \in DOMAIN relocations :
             r \in DOMAIN relocations' /\ relocations'[r] = relocations[r]
        /\ \A r \in DOMAIN relocations' \ DOMAIN relocations :
             /\ relocations'[r].todo = {} /\ relocations'[r].occupied = {}
             /\ relocations'[r].seat = 1
    BY <1>4, OthersAdvance
  <2>2. IsFiniteSet({})
    BY FS_EmptySet
  <2>3. \A f \in DOMAIN finishes' : IsFiniteSet(finishes'[f].todo)
    BY <2>1, <2>2 DEF LoopsInv
  <2>4. \A r \in DOMAIN relocations' :
          /\ IsFiniteSet(relocations'[r].todo) /\ IsFiniteSet(relocations'[r].occupied)
          /\ relocations'[r].seat >= 1
    <3>1. ASSUME NEW r \in DOMAIN relocations
          PROVE  /\ IsFiniteSet(relocations[r].todo) /\ IsFiniteSet(relocations[r].occupied)
                 /\ relocations[r].seat >= 1
      BY DEF LoopsInv
    <3>2. 1 >= 1
      OBVIOUS
    <3>3. QED
      BY <2>1, <2>2, <3>1, <3>2, Zenon
  <2>5. QED
    BY <1>1, <2>1, <2>3, <2>4 DEF LoopsInv, FinishesAdvance, RelocationsAdvance
<1>5. QED
  BY <1>2, <1>3, <1>4

\* A restart ends the calls that have not ended.
LEMMA DropAdvances ==
  ASSUME TripCallsTypeOK, LoopsInv, DropTripCalls, UNCHANGED reservations
  PROVE  LoopsInv' /\ FinishesAdvance /\ RelocationsAdvance
<1>1. /\ DOMAIN finishes' = DOMAIN finishes
      /\ \A f \in DOMAIN finishes :
           /\ finishes'[f].todo = finishes[f].todo
           /\ \/ finishes'[f] = finishes[f]
              \/ finishes[f].pc \notin {"done", "lost"} /\ finishes'[f].pc = "lost"
  BY DEF DropTripCalls, Dropped, TripCallsTypeOK, FinishCall
<1>2. /\ DOMAIN relocations' = DOMAIN relocations
      /\ \A r \in DOMAIN relocations :
           /\ relocations'[r].todo = relocations[r].todo
           /\ relocations'[r].occupied = relocations[r].occupied
           /\ relocations'[r].seat = relocations[r].seat
           /\ \/ relocations'[r] = relocations[r]
              \/ relocations[r].pc \notin {"done", "lost"} /\ relocations'[r].pc = "lost"
  BY DEF DropTripCalls, Dropped, TripCallsTypeOK, RelocationCall
<1>3. LoopsInv'
  BY <1>1, <1>2 DEF LoopsInv, Live
<1>4. FinishesAdvance
  BY <1>1 DEF FinishesAdvance, FinishNearer, FinishPhase, TripCallsTypeOK, FinishCall
<1>5. RelocationsAdvance
  BY <1>2 DEF RelocationsAdvance, RelocationNearer, RelocationPhase, TripCallsTypeOK,
              RelocationCall
<1>6. QED
  BY <1>3, <1>4, <1>5

LEMMA LoopsStart ==
  ASSUME TripDayInit
  PROVE  LoopsInv
<1>1. Live = Booked /\ DOMAIN finishes = {} /\ DOMAIN relocations = {}
  BY DEF TripDayInit, TablesInit, TripCallsInit, Live
<1>2. QED
  BY <1>1, TablesAssumption DEF LoopsInv

\* Students book and cancel one row at a time.
LEMMA StudentsLeaveLoops ==
  ASSUME TablesTypeOK, ReservationCallsTypeOK, LoopsInv, ReservationsStep, UNCHANGED tripCalls
  PROVE  LoopsInv' /\ FinishesAdvance /\ RelocationsAdvance
<1>1. LawfulStatement
  BY ReservationsLawful
<1>2. \E i : Live' \subseteq Live \cup {i}
  <2>1. CASE UNCHANGED reservations
    BY <2>1 DEF Live
  <2>2. ASSUME NEW i, NEW row, Writes(i, row)
        PROVE  Live' \subseteq Live \cup {i}
    BY <2>2, WrittenRow
  <2>3. ASSUME NEW i, DeleteReservation(i)
        PROVE  Live' \subseteq Live
    BY <2>3, DeletedRow
  <2>4. QED
    BY <1>1, <2>1, <2>2, <2>3 DEF LawfulStatement
<1>3. IsFiniteSet(Live')
  BY <1>2, FS_AddElement, FS_Subset DEF LoopsInv
<1>4. QED
  BY <1>3 DEF LoopsInv, FinishesAdvance, RelocationsAdvance, tripCalls

LEMMA TripDayStepAdvances ==
  ASSUME TripDayTypeOK, LoopsInv, [TripDayNext]_tripDayVars
  PROVE  LoopsInv' /\ FinishesAdvance /\ RelocationsAdvance
<1>1. CASE ReservationsStep /\ UNCHANGED tripCalls
  BY <1>1, StudentsLeaveLoops DEF TripDayTypeOK
<1>2. CASE TripsStep
  BY <1>2, TripsStepAdvances DEF TripDayTypeOK
<1>3. CASE Restart
  BY <1>3, DropAdvances DEF TripDayTypeOK, Restart, tables
<1>4. CASE UNCHANGED tripDayVars
  BY <1>4 DEF tripDayVars, tables, tripCalls, LoopsInv, Live, FinishesAdvance, RelocationsAdvance
<1>5. QED
  BY <1>1, <1>2, <1>3, <1>4 DEF TripDayNext

LEMMA TripDayLoops == TripDaySpec => []LoopsInv
<1>1. TripDayInit => LoopsInv
  BY LoopsStart
<1>2. TripDayTypeOK /\ LoopsInv /\ [TripDayNext]_tripDayVars => LoopsInv'
  BY TripDayStepAdvances
<1>3. QED
  BY <1>1, <1>2, TripDayTypeCorrect, PTL DEF TripDaySpec

\* No step takes a finish or a relocation back, or leaves its loop as much to do.
TripCallsAdvance == [][FinishesAdvance /\ RelocationsAdvance]_tripDayVars

\* What a call has left to do is a natural number: it cannot shrink for ever.
WorkCounted ==
  /\ \A f \in DOMAIN finishes : FinishWork(finishes[f]) \in Nat
  /\ \A r \in DOMAIN relocations : Cardinality(relocations[r].todo) \in Nat

(***************************************************************************)
(* No loop of a leader's call runs on: whatever students and other leaders *)
(* do meanwhile, each step leaves a finish or a relocation as it is,       *)
(* brings it to a later phase, or leaves its loop less to do, a natural    *)
(* number each time.  So a call takes finitely many steps.                 *)
(***************************************************************************)
THEOREM TripLoopsAdvance == TripDaySpec => TripCallsAdvance /\ []WorkCounted
<1>1. TripDayTypeOK /\ LoopsInv /\ [TripDayNext]_tripDayVars
        => [FinishesAdvance /\ RelocationsAdvance]_tripDayVars
  BY TripDayStepAdvances
<1>2. LoopsInv => WorkCounted
  <2> SUFFICES ASSUME LoopsInv
               PROVE  WorkCounted
    OBVIOUS
  <2>1. ASSUME NEW f \in DOMAIN finishes
        PROVE  FinishWork(finishes[f]) \in Nat
    <3>1. Cardinality(finishes[f].todo) \in Nat
      BY FS_CardinalityType DEF LoopsInv
    <3>2. QED
      BY <3>1 DEF FinishWork
  <2>2. ASSUME NEW r \in DOMAIN relocations
        PROVE  Cardinality(relocations[r].todo) \in Nat
    BY FS_CardinalityType DEF LoopsInv
  <2>3. QED
    BY <2>1, <2>2 DEF WorkCounted
<1>3. TripDaySpec => TripCallsAdvance
  BY <1>1, TripDayTypeCorrect, TripDayLoops, PTL DEF TripDaySpec, TripCallsAdvance
<1>4. TripDaySpec => []WorkCounted
  BY <1>2, TripDayLoops, PTL
<1>5. QED
  BY <1>3, <1>4

\* Beyond the seats taken there is always another, and a first one.
LEMMA NextFreeExists ==
  ASSUME NEW occupied, IsFiniteSet(occupied), NEW from \in Nat
  PROVE  \E s \in Nat : NextFree(occupied, from, s)
<1> DEFINE Free == {s \in Nat : s >= from /\ s \notin occupied}
           n == Cardinality(occupied)
           Below(s) == from..(s - 1)
           T == {Below(s) : s \in Free}
<1>1. Free # {}
  <2>1. n \in Nat
    BY FS_CardinalityType
  <2>2. SUFFICES ASSUME from..(from + n) \subseteq occupied
                 PROVE  FALSE
    BY <2>1
  <2>3. Cardinality(from..(from + n)) = n + 1
    BY <2>1, FS_Interval
  <2>4. Cardinality(from..(from + n)) <= n
    BY <2>2, FS_Subset
  <2>5. QED
    BY <2>1, <2>3, <2>4
<1>2. T \subseteq FiniteSubsetsOf(Nat) /\ T # {}
  <2>1. ASSUME NEW s \in Free
        PROVE  Below(s) \in SUBSET Nat /\ IsFiniteSet(Below(s))
    BY FS_Interval
  <2>2. QED
    BY <1>1, <2>1 DEF FiniteSubsetsOf
<1>3. PICK least \in T : \A other \in T : <<other, least>> \notin StrictSubsetOrdering(Nat)
  <2> HIDE DEF T
  <2>1. QED
    BY <1>2, FS_StrictSubsetOrderingWellFounded, WFMin
<1>4. PICK s \in Free : least = Below(s)
  OBVIOUS
<1>5. ASSUME NEW x \in from..(s - 1)
      PROVE  x \in occupied
  <2>1. SUFFICES ASSUME x \in Free
                 PROVE  FALSE
    BY <1>4
  <2>2. Below(x) \in T
    BY <2>1
  <2>3. Below(x) \in SUBSET Nat /\ Below(s) \in SUBSET Nat
    BY <1>4
  <2>4. Below(x) \subseteq Below(s) /\ Below(x) # Below(s)
    BY <1>4
  <2>5. <<Below(x), Below(s)>> \in StrictSubsetOrdering(Nat)
    BY <2>3, <2>4 DEF StrictSubsetOrdering
  <2>6. QED
    BY <1>3, <1>4, <2>2, <2>5
<1>6. QED
  BY <1>4, <1>5 DEF NextFree

\* A relocation has a seat to give to every passenger it has left.
SeatsFound ==
  \A r \in DOMAIN relocations :
    \A p \in relocations[r].todo : SeatFor(relocations[r], p) # {}

(***************************************************************************)
(* while (occupiedSet.has(seat)) seat++ (trips.service.ts) stops.  The     *)
(* counter is not compared with the layout or the capacity, so the seats   *)
(* here are all the numbers it may reach: however many are occupied, it    *)
(* comes to one that is not.                                               *)
(***************************************************************************)
THEOREM TripSeatsFound ==
  ASSUME Seats = Nat \ {NoSeat}
  PROVE  TripDaySpec => []SeatsFound
<1>1. TripDayTypeOK /\ LoopsInv => SeatsFound
  <2> SUFFICES ASSUME TripDayTypeOK, LoopsInv,
                      NEW r \in DOMAIN relocations, NEW p \in relocations[r].todo
               PROVE  SeatFor(relocations[r], p) # {}
    BY DEF SeatsFound
  <2> DEFINE call == relocations[r]
  <2>1. IsFiniteSet(call.occupied) /\ call.seat \in Nat /\ call.seat >= 1
    BY DEF LoopsInv, TripDayTypeOK, TripCallsTypeOK, RelocationCall
  <2>2. PICK s \in Nat : NextFree(call.occupied, call.seat, s)
    BY <2>1, NextFreeExists
  <2>3. s \in Seats
    BY <2>1, <2>2 DEF NextFree, NoSeat
  <2>4. QED
    BY <2>2, <2>3 DEF SeatFor
<1>2. QED
  BY <1>1, TripDayTypeCorrect, TripDayLoops, PTL
=============================================================================
