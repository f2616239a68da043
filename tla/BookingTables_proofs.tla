------------------------ MODULE BookingTables_proofs ------------------------
(***************************************************************************)
(* What one statement on the reservations table preserves.  The services'  *)
(* proofs cite these lemmas for every step that writes a reservation.      *)
(***************************************************************************)
EXTENDS BookingTables, FiniteSetTheorems, TLAPS

\* A set that counts at most one has at most one.
LEMMA AtMostOne ==
  ASSUME NEW S, IsFiniteSet(S), Cardinality(S) <= 1
  PROVE  \A x, y \in S : x = y
<1>1. Cardinality(S) = 0 \/ Cardinality(S) = 1
  BY FS_CardinalityType
<1>2. CASE Cardinality(S) = 0
  BY <1>2, FS_EmptySet
<1>3. CASE Cardinality(S) = 1
  BY <1>3, FS_Singleton
<1>4. QED
  BY <1>1, <1>2, <1>3

RowsTypeOK ==
  /\ DOMAIN reservations \subseteq ResIds
  /\ \A i \in DOMAIN reservations : reservations[i] \in Reservation

\* The statement gives reservation i the row, as an INSERT or as an UPDATE by
\* primary key.
Writes(i, row) ==
  \/ InsertReservation(i, row)
  \/ i \in Live /\ UpdateReservation(i, row)

\* Either statement touches one row.
LEMMA WrittenRow ==
  ASSUME NEW i, NEW row, Writes(i, row)
  PROVE  /\ Live' = Live \cup {i}
         /\ reservations'[i] = row
         /\ \A j \in Live \ {i} : reservations'[j] = reservations[j]
<1>1. CASE InsertReservation(i, row)
  BY <1>1 DEF InsertReservation, Live, With
<1>2. CASE i \in Live /\ UpdateReservation(i, row)
  BY <1>2 DEF UpdateReservation, Live
<1>3. QED
  BY <1>1, <1>2 DEF Writes

\* A DELETE by primary key leaves the other rows as they are.
LEMMA DeletedRow ==
  ASSUME NEW i, DeleteReservation(i)
  PROVE  /\ Live' = Live \ {i}
         /\ \A j \in Live' : reservations'[j] = reservations[j]
  BY DEF DeleteReservation, Live, Restrict

\* Rows of the right type stay so when the row written has it.
LEMMA WriteKeepsType ==
  ASSUME RowsTypeOK, NEW i \in ResIds, NEW row \in Reservation, Writes(i, row)
  PROVE  RowsTypeOK'
<1>1. /\ Live' = Live \cup {i}
      /\ reservations'[i] = row
      /\ \A j \in Live \ {i} : reservations'[j] = reservations[j]
  BY WrittenRow
<1>2. QED
  BY <1>1 DEF RowsTypeOK, Live

LEMMA DeleteKeepsType ==
  ASSUME RowsTypeOK, NEW i, DeleteReservation(i)
  PROVE  RowsTypeOK'
<1>1. Live' = Live \ {i} /\ \A j \in Live' : reservations'[j] = reservations[j]
  BY DeletedRow
<1>2. QED
  BY <1>1 DEF RowsTypeOK, Live

\* The UNIQUE constraint keeps seats unique: a write it lets through gives the row a
\* seat no other row of the trip has.
LEMMA WriteKeepsSeatUnique ==
  ASSUME SeatUnique, NEW i, NEW row, ~ SeatTaken(row.trip, row.seat, i),
         Writes(i, row)
  PROVE  SeatUnique'
<1>1. /\ Live' = Live \cup {i}
      /\ reservations'[i] = row
      /\ \A j \in Live \ {i} : reservations'[j] = reservations[j]
  BY WrittenRow
<1>2. SUFFICES ASSUME NEW j \in Live', NEW k \in Live',
                      reservations'[j].trip = reservations'[k].trip,
                      reservations'[j].seat = reservations'[k].seat,
                      reservations'[j].seat # NoSeat
               PROVE  j = k
  BY DEF SeatUnique
<1>3. CASE j # i /\ k # i
  BY <1>1, <1>2, <1>3 DEF SeatUnique
<1>4. CASE j = i \/ k = i
  BY <1>1, <1>2, <1>4 DEF SeatTaken
<1>5. QED
  BY <1>3, <1>4

\* A DELETE only gives seats back.
LEMMA DeleteKeepsSeatUnique ==
  ASSUME SeatUnique, NEW i, DeleteReservation(i)
  PROVE  SeatUnique'
<1>1. Live' = Live \ {i} /\ \A j \in Live' : reservations'[j] = reservations[j]
  BY DeletedRow
<1>2. QED
  BY <1>1 DEF SeatUnique

LEMMA UnchangedKeepsSeatUnique ==
  ASSUME SeatUnique, UNCHANGED reservations
  PROVE  SeatUnique'
  BY DEF SeatUnique, Live

----------------------------------------------------------------------------

\* The row leaves reservation i on its trip and seat.
KeepsSeat(i, row) ==
  i \in Live /\ row.trip = reservations[i].trip /\ row.seat = reservations[i].seat

\* What every step of both services does to the table: nothing, or one statement
\* that the UNIQUE constraint lets through, or one DELETE.
LawfulStatement ==
  \/ UNCHANGED reservations
  \/ \E i \in ResIds, row \in Reservation :
       /\ Writes(i, row)
       /\ KeepsSeat(i, row) \/ ~ SeatTaken(row.trip, row.seat, i)
  \/ \E i \in ResIds : DeleteReservation(i)

LEMMA LawfulKeepsRows ==
  ASSUME RowsTypeOK, LawfulStatement
  PROVE  RowsTypeOK'
<1>1. CASE UNCHANGED reservations
  BY <1>1 DEF RowsTypeOK
<1>2. ASSUME NEW i \in ResIds, NEW row \in Reservation, Writes(i, row)
      PROVE  RowsTypeOK'
  BY <1>2, WriteKeepsType
<1>3. ASSUME NEW i \in ResIds, DeleteReservation(i)
      PROVE  RowsTypeOK'
  BY <1>3, DeleteKeepsType
<1>4. QED
  BY <1>1, <1>2, <1>3 DEF LawfulStatement

LEMMA LawfulKeepsSeatUnique ==
  ASSUME SeatUnique, LawfulStatement
  PROVE  SeatUnique'
<1>1. CASE UNCHANGED reservations
  BY <1>1, UnchangedKeepsSeatUnique
<1>2. ASSUME NEW i \in ResIds, NEW row \in Reservation, Writes(i, row),
             KeepsSeat(i, row) \/ ~ SeatTaken(row.trip, row.seat, i)
      PROVE  SeatUnique'
  <2>1. ~ SeatTaken(row.trip, row.seat, i)
    BY <1>2 DEF KeepsSeat, SeatTaken, SeatUnique, Live
  <2>2. QED
    BY <1>2, <2>1, WriteKeepsSeatUnique
<1>3. ASSUME NEW i \in ResIds, DeleteReservation(i)
      PROVE  SeatUnique'
  BY <1>3, DeleteKeepsSeatUnique
<1>4. QED
  BY <1>1, <1>2, <1>3 DEF LawfulStatement

----------------------------------------------------------------------------
(* Seats as claims: every lawful statement is a step of SeatAllocation. *)

ClaimOf(i) ==
  [trip |-> reservations[i].trip, seat |-> reservations[i].seat, holder |-> i]

\* A claim is the claim of a seated row, and of no other.
LEMMA ClaimsMembers ==
  ASSUME NEW x
  PROVE  x \in Claims <=>
           \E i \in Live : reservations[i].seat # NoSeat /\ x = ClaimOf(i)
  BY DEF Claims, ClaimOf

LEMMA ClaimsMembersNext ==
  ASSUME NEW x
  PROVE  x \in Claims' <=>
           \E i \in Live' : reservations'[i].seat # NoSeat /\ x = ClaimOf(i)'
  BY DEF Claims, ClaimOf

\* The seat a reservation holds is the one of its row, if it has one.
LEMMA HeldClaims ==
  ASSUME NEW i
  PROVE  Allocation!HeldBy(i) =
           IF i \in Live /\ reservations[i].seat # NoSeat THEN {ClaimOf(i)} ELSE {}
<1>1. \A j : ClaimOf(j).holder = j
  BY DEF ClaimOf
<1>2. \A x : x \in Allocation!HeldBy(i) <=> x \in Claims /\ x.holder = i
  BY DEF Allocation!HeldBy
<1>3. QED
  BY <1>1, <1>2, ClaimsMembers

\* A seat the UNIQUE constraint would give to reservation i is free, or held by i.
LEMMA FreeSeat ==
  ASSUME NEW i, NEW t, NEW s, s # NoSeat, ~ SeatTaken(t, s, i),
         i \in Live => ~ (reservations[i].trip = t /\ reservations[i].seat = s)
  PROVE  Allocation!Free(t, s)
<1>1. SUFFICES ASSUME NEW x \in Claims, x.trip = t, x.seat = s
               PROVE  FALSE
  BY DEF Allocation!Free
<1>2. PICK j \in Live : x = ClaimOf(j)
  BY ClaimsMembers
<1>3. reservations[j].trip = t /\ reservations[j].seat = s
  BY <1>1, <1>2 DEF ClaimOf
<1>4. QED
  BY <1>3 DEF SeatTaken

\* A row written replaces the claim of its reservation, if there was one.
LEMMA WrittenClaims ==
  ASSUME NEW i, NEW row, Writes(i, row)
  PROVE  Claims' = (Claims \ Allocation!HeldBy(i)) \cup
           IF row.seat = NoSeat THEN {}
             ELSE {[trip |-> row.trip, seat |-> row.seat, holder |-> i]}
<1>1. /\ Live' = Live \cup {i}
      /\ reservations'[i] = row
      /\ \A j \in Live \ {i} : reservations'[j] = reservations[j]
  BY WrittenRow
<1>2. \A j \in Live \ {i} : ClaimOf(j)' = ClaimOf(j)
  BY <1>1 DEF ClaimOf
<1>3. ClaimOf(i)' = [trip |-> row.trip, seat |-> row.seat, holder |-> i]
  BY <1>1 DEF ClaimOf
<1>4. \A j : ClaimOf(j).holder = j
  BY DEF ClaimOf
<1>5. ASSUME NEW x
      PROVE  x \in Claims' <=>
               \/ x \in Claims \ Allocation!HeldBy(i)
               \/ row.seat # NoSeat /\ x = ClaimOf(i)'
  <2>1. x \in Claims \ Allocation!HeldBy(i) <=>
          \E j \in Live \ {i} : reservations[j].seat # NoSeat /\ x = ClaimOf(j)
    BY <1>4, ClaimsMembers DEF Allocation!HeldBy
  <2>2. x \in Claims' <=>
          \E j \in Live' : reservations'[j].seat # NoSeat /\ x = ClaimOf(j)'
    BY ClaimsMembersNext
  <2>3. QED
    BY <1>1, <1>2, <2>1, <2>2
<1>6. QED
  BY <1>3, <1>5

LEMMA DeletedClaims ==
  ASSUME NEW i, DeleteReservation(i)
  PROVE  Claims' = Claims \ Allocation!HeldBy(i)
<1>1. Live' = Live \ {i} /\ \A j \in Live' : reservations'[j] = reservations[j]
  BY DeletedRow
<1>2. \A j \in Live \ {i} : ClaimOf(j)' = ClaimOf(j)
  BY <1>1 DEF ClaimOf
<1>3. \A j : ClaimOf(j).holder = j
  BY DEF ClaimOf
<1>4. ASSUME NEW x
      PROVE  x \in Claims' <=> x \in Claims \ Allocation!HeldBy(i)
  <2>1. x \in Claims \ Allocation!HeldBy(i) <=>
          \E j \in Live \ {i} : reservations[j].seat # NoSeat /\ x = ClaimOf(j)
    BY <1>3, ClaimsMembers DEF Allocation!HeldBy
  <2>2. x \in Claims' <=>
          \E j \in Live' : reservations'[j].seat # NoSeat /\ x = ClaimOf(j)'
    BY ClaimsMembersNext
  <2>3. QED
    BY <1>1, <1>2, <2>1, <2>2
<1>5. QED
  BY <1>4

\* An INSERT or UPDATE the constraint lets through takes a seat, moves to one, gives
\* one back, or leaves the seats alone.
LEMMA WriteAllocates ==
  ASSUME NEW i \in ResIds, NEW row \in Reservation, Writes(i, row),
         KeepsSeat(i, row) \/ ~ SeatTaken(row.trip, row.seat, i)
  PROVE  Allocation!Next \/ Claims' = Claims
<1> DEFINE held == Allocation!HeldBy(i)
           claim == [trip |-> row.trip, seat |-> row.seat, holder |-> i]
<1>1. Claims' = (Claims \ held) \cup IF row.seat = NoSeat THEN {} ELSE {claim}
  BY WrittenClaims
<1>2. held = IF i \in Live /\ reservations[i].seat # NoSeat THEN {ClaimOf(i)} ELSE {}
  BY HeldClaims
<1>3. held \subseteq Claims
  BY DEF Allocation!HeldBy
<1>4. row.trip \in Trips /\ row.seat \in Seats \cup {NoSeat}
  BY DEF Reservation
<1>5. CASE row.seat = NoSeat
  <2>1. CASE held = {}
    BY <1>1, <1>5, <2>1
  <2>2. CASE held # {}
    <3>1. Allocation!Release(i)
      BY <1>1, <1>5, <2>2 DEF Allocation!Release
    <3>2. QED
      BY <3>1 DEF Allocation!Next
  <2>3. QED
    BY <2>1, <2>2
<1>6. CASE row.seat # NoSeat /\ i \in Live /\ reservations[i].trip = row.trip
           /\ reservations[i].seat = row.seat
  <2>1. held = {claim}
    BY <1>2, <1>6 DEF ClaimOf
  <2>2. QED
    BY <1>1, <1>3, <1>6, <2>1
<1>7. CASE row.seat # NoSeat
           /\ (i \in Live => ~ (reservations[i].trip = row.trip /\ reservations[i].seat = row.seat))
  <2>1. Allocation!Free(row.trip, row.seat)
    BY <1>7, FreeSeat DEF KeepsSeat
  <2>2. CASE held = {}
    <3>1. Allocation!Take(i, row.trip, row.seat)
      BY <1>1, <1>7, <2>1, <2>2 DEF Allocation!Take
    <3>2. QED
      BY <1>4, <1>7, <3>1 DEF Allocation!Next
  <2>3. CASE held # {}
    <3>1. Allocation!Move(i, row.trip, row.seat)
      BY <1>1, <1>7, <2>1, <2>3 DEF Allocation!Move
    <3>2. QED
      BY <1>4, <1>7, <3>1 DEF Allocation!Next
  <2>4. QED
    BY <2>2, <2>3
<1>8. QED
  BY <1>5, <1>6, <1>7

LEMMA LawfulAllocates ==
  ASSUME LawfulStatement
  PROVE  Allocation!Next \/ Claims' = Claims
<1>1. CASE UNCHANGED reservations
  BY <1>1 DEF Claims, Live
<1>2. ASSUME NEW i \in ResIds, NEW row \in Reservation, Writes(i, row),
             KeepsSeat(i, row) \/ ~ SeatTaken(row.trip, row.seat, i)
      PROVE  Allocation!Next \/ Claims' = Claims
  BY <1>2, WriteAllocates
<1>3. ASSUME NEW i \in ResIds, DeleteReservation(i)
      PROVE  Allocation!Next \/ Claims' = Claims
  <2>1. Claims' = Claims \ Allocation!HeldBy(i)
    BY <1>3, DeletedClaims
  <2>2. CASE Allocation!HeldBy(i) = {}
    BY <2>1, <2>2
  <2>3. CASE Allocation!HeldBy(i) # {}
    BY <2>1, <2>3 DEF Allocation!Release, Allocation!Next
  <2>4. QED
    BY <2>2, <2>3
<1>4. QED
  BY <1>1, <1>2, <1>3 DEF LawfulStatement

\* Unique seats are consistent claims.
LEMMA AllocationStart ==
  ASSUME TablesTypeOK, SeatUnique
  PROVE  Allocation!Init
<1>1. \A x \in Claims : \E i \in Live : reservations[i].seat # NoSeat /\ x = ClaimOf(i)
  BY ClaimsMembers
<1>2. ASSUME NEW i \in Live, reservations[i].seat # NoSeat
      PROVE  ClaimOf(i) \in Allocation!Claim
  BY <1>2 DEF ClaimOf, Allocation!Claim, TablesTypeOK, Live, Reservation
<1>3. Allocation!Consistent
  <2>1. SUFFICES ASSUME NEW x \in Claims, NEW y \in Claims,
                        x.holder = y.holder \/ (x.trip = y.trip /\ x.seat = y.seat)
                 PROVE  x = y
    BY DEF Allocation!Consistent
  <2>2. PICK i \in Live : reservations[i].seat # NoSeat /\ x = ClaimOf(i)
    BY <1>1
  <2>3. PICK j \in Live : reservations[j].seat # NoSeat /\ y = ClaimOf(j)
    BY <1>1
  <2>4. i = j
    BY <2>1, <2>2, <2>3 DEF ClaimOf, SeatUnique
  <2>5. QED
    BY <2>2, <2>3, <2>4
<1>4. QED
  BY <1>1, <1>2, <1>3 DEF Allocation!Init

----------------------------------------------------------------------------

LEMMA TablesStart ==
  ASSUME TablesInit
  PROVE  TablesTypeOK /\ SeatUnique
<1>1. DOMAIN reservations = Booked /\ \A i \in Booked : reservations[i] \in Reservation
  BY DEF TablesInit
<1>2. TablesTypeOK
  BY <1>1, TablesAssumption DEF TablesInit, TablesTypeOK
<1>3. SeatUnique
  BY <1>1 DEF TablesInit, SeatUnique, Live
<1>4. QED
  BY <1>2, <1>3
============================================================================
