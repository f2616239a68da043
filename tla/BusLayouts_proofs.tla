------------------------- MODULE BusLayouts_proofs -------------------------
(***************************************************************************)
(* Proofs about BusLayouts: that what passes the validation is a layout    *)
(* with numbered seats, and what races between createBus, updateBus and    *)
(* updateBusLayout leave of that, for any buses, layouts and calls.        *)
(***************************************************************************)
EXTENDS BusLayouts, FiniteSetTheorems, TLAPS

(* Onto a set as large as its domain, a function is one-to-one. *)
LEMMA OntoOneToOne ==
  ASSUME NEW S, IsFiniteSet(S), NEW T, Cardinality(S) = Cardinality(T), NEW f \in [S -> T],
         \A t \in T : \E s \in S : f[s] = t
  PROVE  \A s, u \in S : f[s] = f[u] => s = u
<1>1. f \in Surjection(S, T)
  BY DEF Surjection
<1>2. f \in Injection(S, T)
  BY <1>1, FS_SurjSameCardinalityImpliesInj
<1>3. QED
  BY <1>2 DEF Injection, IsInjective

----------------------------------------------------------------------------
(* Layouts *)

(* Sanitizing changes nothing but numbers and marks of cells that are no seat. *)
LEMMA SanitizedSame ==
  ASSUME NEW l \in Layout
  PROVE  /\ Sanitized(l) \in Layout
         /\ Len(Sanitized(l).rows) = Len(l.rows)
         /\ \A r \in 1..Len(l.rows) : Len(Sanitized(l).rows[r]) = Len(l.rows[r])
         /\ \A r \in 1..Len(l.rows) : \A i \in 1..Len(l.rows[r]) :
              Sanitized(l).rows[r][i] = SanitizedCell(l.rows[r][i])
         /\ Sanitized(l).dpm = l.dpm /\ Sanitized(l).preferential = l.preferential
<1> DEFINE Row(r) == [i \in 1..Len(l.rows[r]) |-> SanitizedCell(l.rows[r][i])]
           rows == [r \in 1..Len(l.rows) |-> Row(r)]
<1>1. l.rows \in Seq(Seq(Cell))
  BY DEF Layout
<1>2. ASSUME NEW r \in 1..Len(l.rows)
      PROVE  /\ Row(r) \in Seq(Cell) /\ Len(Row(r)) = Len(l.rows[r])
  <2>1. l.rows[r] \in Seq(Cell) /\ Len(l.rows[r]) \in Nat
    BY <1>1
  <2>2. ASSUME NEW i \in 1..Len(l.rows[r])  PROVE SanitizedCell(l.rows[r][i]) \in Cell
    <3>1. l.rows[r][i] \in Cell
      BY <2>1
    <3>2. QED
      BY <3>1 DEF Cell, SanitizedCell, Number
  <2>3. QED
    BY <2>1, <2>2
<1>3. rows \in Seq(Seq(Cell)) /\ Len(rows) = Len(l.rows)
  <2>1. Len(l.rows) \in Nat
    BY <1>1
  <2> HIDE DEF Row
  <2>2. QED
    BY <1>2, <2>1
<1>4. Sanitized(l) = [l EXCEPT !.rows = rows]
  BY DEF Sanitized
<1>5. /\ Sanitized(l).rows = rows /\ Sanitized(l) \in Layout
      /\ Sanitized(l).dpm = l.dpm /\ Sanitized(l).preferential = l.preferential
  <2> HIDE DEF rows
  <2> QED
    BY <1>3, <1>4 DEF Layout
<1>6. \A r \in 1..Len(l.rows) : Sanitized(l).rows[r] = Row(r)
  <2> HIDE DEF Row
  <2> QED
    BY <1>5
<1>7. \A r \in 1..Len(l.rows) : Len(Sanitized(l).rows[r]) = Len(l.rows[r])
  <2> HIDE DEF Row
  <2> QED
    BY <1>2, <1>6
<1>8. \A r \in 1..Len(l.rows) : \A i \in 1..Len(l.rows[r]) :
        Sanitized(l).rows[r][i] = SanitizedCell(l.rows[r][i])
  BY <1>6
<1>9. Len(Sanitized(l).rows) = Len(l.rows)
  <2> HIDE DEF rows
  <2> QED
    BY <1>3, <1>5
<1>10. QED
  BY <1>5, <1>7, <1>8, <1>9

(* So the cells and the seats are where they were. *)
LEMMA SanitizedCells ==
  ASSUME NEW l \in Layout
  PROVE  /\ Cells(Sanitized(l)) = Cells(l) /\ Seats(Sanitized(l)) = Seats(l)
         /\ \A p \in Cells(l) : CellAt(Sanitized(l), p) = SanitizedCell(CellAt(l, p))
         /\ \A p \in Cells(l) : CellAt(l, p) \in Cell
<1> DEFINE s == Sanitized(l)
<1>1. Cells(s) = Cells(l)
  <2>1. UNION {{r} \X (1..Len(s.rows[r])) : r \in 1..Len(s.rows)}
          = UNION {{r} \X (1..Len(l.rows[r])) : r \in 1..Len(l.rows)}
    <3>1. /\ 1..Len(s.rows) = 1..Len(l.rows)
          /\ \A r \in 1..Len(l.rows) : {r} \X (1..Len(s.rows[r])) = {r} \X (1..Len(l.rows[r]))
      BY SanitizedSame
    <3> HIDE DEF s
    <3>2. QED
      BY <3>1
  <2>2. QED
    BY <2>1 DEF Cells
<1>2. ASSUME NEW p \in Cells(l)
      PROVE  /\ CellAt(s, p) = SanitizedCell(CellAt(l, p)) /\ CellAt(l, p) \in Cell
  <2>1. PICK r \in 1..Len(l.rows) : p \in {r} \X (1..Len(l.rows[r]))
    BY DEF Cells
  <2>2. p[1] = r /\ p[2] \in 1..Len(l.rows[r])
    BY <2>1
  <2>3. CellAt(s, p) = SanitizedCell(CellAt(l, p))
    BY <2>2, SanitizedSame DEF CellAt
  <2>4. l.rows \in Seq(Seq(Cell))
    BY DEF Layout
  <2>5. l.rows[r] \in Seq(Cell)
    BY <2>4
  <2>6. QED
    BY <2>2, <2>3, <2>5 DEF CellAt
<1>3. ASSUME NEW p \in Cells(l)
      PROVE  CellAt(s, p).type = "SEAT" <=> CellAt(l, p).type = "SEAT"
  BY <1>2 DEF SanitizedCell, Cell
<1>4. Seats(s) = Seats(l)
  BY <1>1, <1>3 DEF Seats
<1>5. QED
  BY <1>1, <1>2, <1>4


(* The numbers of the columns are one of each. *)
LEMMA CompleteRowsFull ==
  ASSUME NEW l \in Layout, RowsComplete(l)
  PROVE  RowsFull(l)
<1> USE LayoutsAssumption
<1>1. l.rows \in Seq(Seq(Cell)) /\ l.rows # <<>> /\ Len(l.rows) > 0
  BY DEF Layout, RowsComplete
<1>2. ASSUME NEW r \in 1..Len(l.rows)
      PROVE  /\ Len(l.rows[r]) = Columns
             /\ \A i \in 1..Columns : l.rows[r][i].col \in 1..Columns
             /\ \A k \in 1..Columns : \E i \in 1..Columns : l.rows[r][i].col = k
             /\ \A i, j \in 1..Columns : l.rows[r][i].col = l.rows[r][j].col => i = j
  <2> DEFINE f == [i \in 1..Columns |-> l.rows[r][i].col]
  <2>1. /\ Len(l.rows[r]) = Columns
        /\ {l.rows[r][i].col : i \in 1..Columns} = 1..Columns
    BY DEF RowsComplete
  <2>2. /\ \A i \in 1..Columns : l.rows[r][i].col \in 1..Columns
        /\ \A k \in 1..Columns : \E i \in 1..Columns : l.rows[r][i].col = k
    BY <2>1
  <2>3. f \in [1..Columns -> 1..Columns] /\ \A k \in 1..Columns : \E i \in 1..Columns : f[i] = k
    BY <2>2
  <2>4. IsFiniteSet(1..Columns)
    BY FS_Interval
  <2>5. \A i, j \in 1..Columns : f[i] = f[j] => i = j
    <3> DEFINE N == 1..Columns
    <3>1. f \in [N -> N] /\ (\A k \in N : \E i \in N : f[i] = k) /\ IsFiniteSet(N)
      BY <2>3, <2>4
    <3> HIDE DEF f, N
    <3>2. Cardinality(N) \in Nat
      BY <3>1, FS_CardinalityType
    <3>3. \A i, j \in N : f[i] = f[j] => i = j
      BY <3>1, <3>2, OntoOneToOne
    <3>4. QED
      BY <3>3 DEF N
  <2>6. QED
    BY <2>1, <2>2, <2>5
<1>3. ASSUME NEW r \in 1..Len(l.rows), NEW k \in 1..Columns
      PROVE  \E i \in 1..Len(l.rows[r]) :
               /\ l.rows[r][i].col = k
               /\ \A j \in 1..Len(l.rows[r]) : l.rows[r][j].col = k => j = i
  <2>1. PICK i \in 1..Columns : l.rows[r][i].col = k
    BY <1>2
  <2>2. \A j \in 1..Columns : l.rows[r][j].col = k => j = i
    BY <1>2, <2>1
  <2>3. 1..Len(l.rows[r]) = 1..Columns
    BY <1>2
  <2>4. QED
    BY <2>1, <2>2, <2>3
<1>4. ASSUME NEW p \in Cells(l)  PROVE CellAt(l, p).col \in 1..Columns
  <2>1. PICK r \in 1..Len(l.rows) : p \in {r} \X (1..Len(l.rows[r]))
    BY DEF Cells
  <2>2. p[1] = r /\ p[2] \in 1..Len(l.rows[r])
    BY <2>1
  <2>3. QED
    BY <1>2, <2>2 DEF CellAt
<1>5. QED
  BY <1>1, <1>3, <1>4 DEF RowsFull

(* A layout with complete rows has finitely many seats. *)
LEMMA FewSeats ==
  ASSUME NEW l \in Layout, RowsComplete(l)
  PROVE  IsFiniteSet(Cells(l)) /\ IsFiniteSet(Seats(l))
<1> DEFINE Grid == (1..Len(l.rows)) \X (1..Columns)
<1>1. IsFiniteSet(Grid)
  <2>1. Len(l.rows) \in Int /\ Columns \in Int
    BY LayoutsAssumption DEF Layout
  <2>2. IsFiniteSet(1..Len(l.rows)) /\ IsFiniteSet(1..Columns)
    BY <2>1, FS_Interval
  <2>3. QED
    BY <2>2, FS_Product
<1>2. Cells(l) \subseteq Grid
  BY DEF Cells, RowsComplete
<1>3. Seats(l) \subseteq Grid
  BY <1>2 DEF Seats
<1> HIDE DEF Grid
<1>4. QED
  BY <1>1, <1>2, <1>3, FS_Subset

(* As many numbers as seats, with 1 to n among them and n of them, are those. *)
LEMMA SequentialNumbers ==
  ASSUME NEW l \in Layout, NEW n \in Nat, RowsComplete(l),
         Cardinality(Seats(l)) = n, NumbersSequential(n, l)
  PROVE  SeatsNumbered(n, l) /\ Numbers(l) = 1..n
<1> DEFINE f == [p \in Seats(l) |-> CellAt(l, p).number]
<1>1. IsFiniteSet(Seats(l)) /\ Cardinality(Numbers(l)) = n /\ 1..n \subseteq Numbers(l)
  BY FewSeats DEF NumbersSequential
<1>2. f \in [Seats(l) -> Numbers(l)] /\ \A m \in Numbers(l) : \E p \in Seats(l) : f[p] = m
  BY DEF Numbers
<1>3. \A p, q \in Seats(l) : f[p] = f[q] => p = q
  <2> HIDE DEF f
  <2> QED
    BY <1>1, <1>2, OntoOneToOne
<1>4. f \in Surjection(Seats(l), Numbers(l))
  BY <1>2 DEF Surjection
<1>5. IsFiniteSet(Numbers(l))
  BY <1>1, <1>4, FS_Surjection
<1>6. Cardinality(1..n) = n
  BY FS_Interval
<1>7. Numbers(l) = 1..n
  BY <1>1, <1>5, <1>6, FS_Subset
<1>8. /\ \A p \in Seats(l) : CellAt(l, p).number \in 1..n
      /\ \A m \in 1..n : \E p \in Seats(l) : CellAt(l, p).number = m
  BY <1>7 DEF Numbers
<1>9. \A p, q \in Seats(l) : CellAt(l, p).number = CellAt(l, q).number => p = q
  BY <1>3
<1>10. QED
  BY <1>7, <1>8, <1>9 DEF SeatsNumbered

(* The one cell marked is the DPM seat. *)
LEMMA AcceptedDpmRight ==
  ASSUME NEW l \in Layout, RowsComplete(l), DpmAccepted(l)
  PROVE  DpmRight(l)
<1>1. CASE l.dpm = None
  <2>1. \A p \in Cells(l) : ~ CellAt(l, p).dpm
    BY <1>1 DEF DpmAccepted, DpmCells
  <2>2. QED
    BY <1>1, <2>1 DEF DpmRight
<1>2. CASE l.dpm # None
  <2>1. PICK p \in Seats(l) : CellAt(l, p).number = l.dpm /\ CellAt(l, p).dpm
    BY <1>2 DEF DpmAccepted
  <2>2. Cardinality(DpmCells(l)) = 1 /\ p \in DpmCells(l) /\ DpmCells(l) \subseteq Cells(l)
    BY <1>2, <2>1 DEF DpmAccepted, DpmCells, Seats
  <2>3. IsFiniteSet(DpmCells(l))
    BY <2>2, FewSeats, FS_Subset
  <2>4. PICK x : DpmCells(l) = {x}
    BY <2>2, <2>3, FS_Singleton
  <2>5. DpmCells(l) = {p}
    BY <2>2, <2>4
  <2>6. \A q \in Cells(l) : CellAt(l, q).dpm => q = p
    BY <2>5 DEF DpmCells
  <2>7. QED
    BY <2>1, <2>6 DEF DpmRight
<1>3. QED
  BY <1>1, <1>2

(***************************************************************************)
(* A layout that passes the checks of validateAndSanitizeLayout            *)
(* (fleet.service.ts:580) for n seats is, as it is then stored, well       *)
(* formed for n seats, whatever its rows and numbers.                      *)
(***************************************************************************)
THEOREM ValidationSound ==
  ASSUME NEW l \in Layout, NEW n \in Nat, Valid(n, l)
  PROVE  WellFormed(n, Sanitized(l))
<1> DEFINE s == Sanitized(l)
<1>1. /\ RowsComplete(l) /\ Cardinality(Seats(l)) = n /\ NumbersSequential(n, l)
      /\ DpmAccepted(l) /\ Preferential(l) \subseteq Numbers(l)
  BY DEF Valid, PreferentialAccepted
<1>2. RowsFull(l) /\ SeatsNumbered(n, l) /\ Numbers(l) = 1..n /\ DpmRight(l)
  BY <1>1, CompleteRowsFull, SequentialNumbers, AcceptedDpmRight
<1>3. /\ Cells(s) = Cells(l) /\ Seats(s) = Seats(l)
      /\ \A p \in Cells(l) : /\ CellAt(s, p) = SanitizedCell(CellAt(l, p))
                             /\ CellAt(l, p) \in Cell
      /\ s.dpm = l.dpm /\ s.preferential = l.preferential
  BY SanitizedCells, SanitizedSame
<1>4. \A p \in Cells(l) :
        /\ p \in Seats(l) => CellAt(s, p) = CellAt(l, p)
        /\ p \notin Seats(l) => ~ CellAt(s, p).dpm
        /\ CellAt(s, p).col = CellAt(l, p).col
  BY <1>3 DEF Seats, SanitizedCell, Cell
<1>5. Seats(l) \subseteq Cells(l)
  BY DEF Seats
<1>6. RowsFull(s)
  <2>1. RowsComplete(s)
    <3>1. l.rows \in Seq(Seq(Cell)) /\ Len(l.rows) > 0
      BY <1>1 DEF Layout, RowsComplete
    <3>2. s.rows \in Seq(Seq(Cell)) /\ Len(s.rows) = Len(l.rows)
      BY SanitizedSame DEF Layout
    <3>3. s.rows # <<>>
      BY <3>1, <3>2
    <3>4. ASSUME NEW r \in 1..Len(s.rows)
          PROVE  /\ Len(s.rows[r]) = Columns
                 /\ {s.rows[r][i].col : i \in 1..Columns} = 1..Columns
      <4>1. /\ r \in 1..Len(l.rows) /\ Len(l.rows[r]) = Columns
            /\ {l.rows[r][i].col : i \in 1..Columns} = 1..Columns
        BY <1>1, <3>2 DEF RowsComplete
      <4>2. Len(s.rows[r]) = Columns
        BY <4>1, SanitizedSame
      <4>3. ASSUME NEW i \in 1..Columns  PROVE s.rows[r][i].col = l.rows[r][i].col
        <5>1. s.rows[r][i] = SanitizedCell(l.rows[r][i])
          BY <4>1, SanitizedSame
        <5>2. l.rows[r] \in Seq(Cell)
          BY <3>1, <4>1
        <5>3. l.rows[r][i] \in Cell
          BY <4>1, <5>2
        <5>4. QED
          BY <5>1, <5>3 DEF SanitizedCell, Cell
      <4>4. {s.rows[r][i].col : i \in 1..Columns} = {l.rows[r][i].col : i \in 1..Columns}
        BY <4>3
      <4>5. QED
        BY <4>1, <4>2, <4>4
    <3>5. QED
      BY <3>3, <3>4 DEF RowsComplete
  <2>2. QED
    BY <2>1, CompleteRowsFull, SanitizedSame
<1>7. SeatsNumbered(n, s)
  BY <1>2, <1>3, <1>4, <1>5 DEF SeatsNumbered
<1>8. DpmRight(s)
  BY <1>2, <1>3, <1>4, <1>5 DEF DpmRight
<1>9. Preferential(s) \subseteq 1..n
  BY <1>1, <1>2, <1>3 DEF Preferential
<1>10. QED
  BY <1>6, <1>7, <1>8, <1>9 DEF WellFormed

(* n is how many seats there are. *)
LEMMA NumberedByCount ==
  ASSUME NEW l, NEW n \in Nat, SeatsNumbered(n, l)
  PROVE  Cardinality(Seats(l)) = n
<1> DEFINE f == [p \in Seats(l) |-> CellAt(l, p).number]
<1>1. f \in Injection(Seats(l), 1..n) /\ f \in Surjection(Seats(l), 1..n)
  BY DEF SeatsNumbered, Injection, IsInjective, Surjection
<1>2. IsFiniteSet(1..n) /\ Cardinality(1..n) = n
  BY FS_Interval
<1> HIDE DEF f
<1>3. QED
  BY <1>1, <1>2, FS_Injection


(***************************************************************************)
(* And the other way round: the checks of validateAndSanitizeLayout refuse *)
(* no layout that is well formed for n seats, if no cell other than a seat *)
(* is marked DPM.                                                          *)
(***************************************************************************)
THEOREM ValidationComplete ==
  ASSUME NEW l \in Layout, NEW n \in Nat, WellFormed(n, Sanitized(l)),
         DpmCells(l) \subseteq Seats(l)
  PROVE  Valid(n, l)
<1> DEFINE s == Sanitized(l)
<1>1. /\ Cells(s) = Cells(l) /\ Seats(s) = Seats(l)
      /\ \A p \in Cells(l) : /\ CellAt(s, p) = SanitizedCell(CellAt(l, p))
                             /\ CellAt(l, p) \in Cell
      /\ s.dpm = l.dpm /\ s.preferential = l.preferential
  BY SanitizedCells, SanitizedSame
<1>2. Seats(l) \subseteq Cells(l) /\ \A p \in Seats(l) : CellAt(s, p) = CellAt(l, p)
  BY <1>1 DEF Seats, SanitizedCell
<1>3. RowsFull(s) /\ SeatsNumbered(n, l) /\ DpmRight(s) /\ Preferential(l) \subseteq 1..n
  <2>1. RowsFull(s) /\ SeatsNumbered(n, s) /\ DpmRight(s) /\ Preferential(s) \subseteq 1..n
    BY DEF WellFormed
  <2>2. SeatsNumbered(n, l)
    BY <1>1, <1>2, <2>1 DEF SeatsNumbered
  <2>3. QED
    BY <1>1, <2>1, <2>2 DEF Preferential
<1>4. Cardinality(Seats(l)) = n /\ Numbers(l) = 1..n /\ Cardinality(Numbers(l)) = n
  <2>1. Numbers(l) = 1..n
    BY <1>3 DEF SeatsNumbered, Numbers
  <2>2. Cardinality(1..n) = n
    BY FS_Interval
  <2>3. QED
    BY <1>3, <2>1, <2>2, NumberedByCount
<1>5. NumbersSequential(n, l) /\ PreferentialAccepted(l)
  BY <1>3, <1>4 DEF NumbersSequential, PreferentialAccepted
<1>6. RowsComplete(l)
  <2>1. l.rows \in Seq(Seq(Cell)) /\ Len(s.rows) = Len(l.rows) /\ Len(l.rows) > 0
    BY <1>3, SanitizedSame DEF RowsFull, Layout
  <2>2. ASSUME NEW r \in 1..Len(l.rows)
        PROVE  /\ Len(l.rows[r]) = Columns
               /\ {l.rows[r][i].col : i \in 1..Columns} = 1..Columns
    <3> DEFINE len == Len(l.rows[r])
               f == [i \in 1..len |-> l.rows[r][i].col]
    <3>1. l.rows[r] \in Seq(Cell) /\ len \in Nat /\ Len(s.rows[r]) = len
      <4>1. l.rows[r] \in Seq(Cell) /\ len \in Nat
        BY <2>1
      <4>2. Len(s.rows[r]) = len
        BY SanitizedSame
      <4>3. QED
        BY <4>1, <4>2
    <3>2. ASSUME NEW i \in 1..len  PROVE s.rows[r][i].col = f[i]
      <4>1. s.rows[r][i] = SanitizedCell(l.rows[r][i])
        BY SanitizedSame
      <4>2. l.rows[r][i] \in Cell
        BY <3>1
      <4>3. QED
        BY <4>1, <4>2 DEF SanitizedCell, Cell
    <3>3. ASSUME NEW i \in 1..len  PROVE f[i] \in 1..Columns
      <4>1. <<r, i>> \in {r} \X (1..Len(s.rows[r])) /\ r \in 1..Len(s.rows)
        BY <2>1, <3>1
      <4>2. <<r, i>> \in Cells(s)
        BY <4>1 DEF Cells
      <4>3. CellAt(s, <<r, i>>).col \in 1..Columns
        BY <1>3, <4>2 DEF RowsFull
      <4>4. CellAt(s, <<r, i>>) = s.rows[r][i]
        BY DEF CellAt
      <4>5. QED
        BY <3>2, <4>3, <4>4
    <3>4. \A k \in 1..Columns : \E i \in 1..len :
            f[i] = k /\ \A j \in 1..len : f[j] = k => j = i
      <4>1. \A k \in 1..Columns : \E i \in 1..len :
              s.rows[r][i].col = k /\ \A j \in 1..len : s.rows[r][j].col = k => j = i
        <5>1. r \in 1..Len(s.rows)
          BY <2>1
        <5>2. \A k \in 1..Columns : \E i \in 1..Len(s.rows[r]) :
                s.rows[r][i].col = k
                /\ \A j \in 1..Len(s.rows[r]) : s.rows[r][j].col = k => j = i
          <6> HIDE DEF s
          <6> QED
            BY <1>3, <5>1 DEF RowsFull
        <5>3. Len(s.rows[r]) = len
          BY <3>1
        <5> HIDE DEF s, len
        <5>4. QED
          BY <5>2, <5>3
      <4> HIDE DEF f
      <4>2. ASSUME NEW k \in 1..Columns
            PROVE  \E i \in 1..len : f[i] = k /\ \A j \in 1..len : f[j] = k => j = i
        <5> HIDE DEF s, len
        <5>1. PICK i \in 1..len :
                s.rows[r][i].col = k /\ \A j \in 1..len : s.rows[r][j].col = k => j = i
          BY <4>1
        <5>2. QED
          BY <3>2, <5>1
      <4>3. QED
        BY <4>2
    <3>5. f \in [1..len -> 1..Columns]
      BY <3>3
    <3> HIDE DEF f
    <3>6. f \in Injection(1..len, 1..Columns) /\ f \in Surjection(1..len, 1..Columns)
      BY <3>3, <3>4, <3>5 DEF Injection, IsInjective, Surjection
    <3>7. /\ IsFiniteSet(1..Columns) /\ Cardinality(1..Columns) = Columns
          /\ Cardinality(1..len) = len
      <4> HIDE DEF len
      <4>1. Columns \in Int /\ 1 \in Int /\ 0 \in Int /\ Columns > 0
        BY LayoutsAssumption
      <4>2. len \in Int
        BY <3>1
      <4>3. /\ IsFiniteSet(1..Columns)
            /\ Cardinality(1..Columns) = IF 1 > Columns THEN 0 ELSE Columns - 1 + 1
        BY <4>1, FS_Interval
      <4>4. Cardinality(1..len) = IF 1 > len THEN 0 ELSE len - 1 + 1
        BY <4>1, <4>2, FS_Interval
      <4>5. Columns - 1 + 1 = Columns /\ ~(1 > Columns)
        BY <4>1
      <4>6. (IF 1 > len THEN 0 ELSE len - 1 + 1) = len
        BY <3>1
      <4>7. QED
        BY <4>3, <4>4, <4>5, <4>6
    <3>8. len = Columns
      BY <3>6, <3>7, FS_Injection
    <3>9. {f[i] : i \in 1..Columns} = 1..Columns
      <4>1. \A i \in 1..Columns : f[i] \in 1..Columns
        BY <3>3, <3>8
      <4>2. \A k \in 1..Columns : \E i \in 1..Columns : f[i] = k
        BY <3>4, <3>8
      <4>3. QED
        BY <4>1, <4>2
    <3>10. {l.rows[r][i].col : i \in 1..Columns} = {f[i] : i \in 1..Columns}
      BY <3>8 DEF f
    <3>11. QED
      BY <3>8, <3>9, <3>10
  <2>3. QED
    BY <2>1, <2>2 DEF RowsComplete
<1>7. DpmAccepted(l)
  <2>1. \A p \in DpmCells(l) : p \in Seats(l) /\ CellAt(l, p).number = l.dpm
    BY <1>1, <1>2, <1>3 DEF DpmRight, DpmCells
  <2>2. CASE l.dpm = None
    <3>1. \A p \in Seats(l) : CellAt(l, p).number # None
      BY <1>3, LayoutsAssumption DEF SeatsNumbered
    <3>2. QED
      BY <2>1, <2>2, <3>1 DEF DpmAccepted
  <2>3. CASE l.dpm # None
    <3>1. PICK p \in Seats(l) : CellAt(l, p).dpm /\ CellAt(l, p).number = l.dpm
      BY <1>1, <1>2, <1>3, <2>3 DEF DpmRight
    <3>2. DpmCells(l) = {p}
      BY <1>2, <1>3, <2>1, <3>1 DEF SeatsNumbered, DpmCells
    <3>3. Cardinality(DpmCells(l)) = 1
      BY <3>2, FS_Singleton
    <3>4. QED
      BY <2>3, <3>1, <3>3 DEF DpmAccepted
  <2>4. QED
    BY <2>2, <2>3
<1>8. QED
  BY <1>4, <1>5, <1>6, <1>7 DEF Valid

----------------------------------------------------------------------------
(* Types *)

(* What a request holds, by its operation. *)
LEMMA RequestType ==
  ASSUME NEW q \in Request
  PROVE  /\ q.op \in {"createBus", "updateBus", "updateBusLayout"}
         /\ q.bus \in Buses
         /\ q.by.id \in Staff /\ q.by.town \in Towns
         /\ q.op = "createBus" => /\ q.town \in Towns \cup {None} /\ q.plate \in Plates
                                  /\ q.capacity \in Nat
                                  /\ q.preferential \in SeatList \cup {None}
                                  /\ q.layout \in Layout \cup {None}
         /\ q.op = "updateBus" => /\ q.plate \in Plates \cup {None}
                                  /\ q.capacity \in Nat \cup {None}
                                  /\ q.preferential \in SeatList \cup {None}
         /\ q.op = "updateBusLayout" => q.layout \in Layout
  BY DEF Request, User

\* What a call has come to know, by the statement it has come to.
CallShape(call) ==
  LET q == call.request IN
  /\ call.pc # "done" => call.answer = "none"
  /\ call.pc = "insert" => q.op = "createBus"
  /\ call.pc = "guard" => q.op = "updateBus"
  /\ call.pc = "find" => q.op = "updateBusLayout"
  /\ call.pc = "bus" => q.op \in {"updateBus", "updateBusLayout"}
  /\ call.pc = "layout" /\ q.op = "updateBus" => q.preferential # None
  /\ call.pc = "layout" /\ q.op = "createBus" => q.layout # None
  /\ call.pc \in {"bus", "layout"} /\ q.op # "updateBus" =>
       call.capacity \in Nat /\ Valid(call.capacity, q.layout)

Shapes == \A c \in DOMAIN calls : CallShape(calls[c])

\* A call that is to write a layout, or the list before it, for a bus it has seen.
Laying(call) == call.pc \in {"bus", "layout"} /\ call.request.op # "updateBus"

\* Its bus is there: no handler deletes one.
BusesThere == \A c \in DOMAIN calls : Laying(calls[c]) => calls[c].request.bus \in DOMAIN buses

TypesInv == LayoutsTypeOK /\ Shapes /\ BusesThere

CallsTyped == IsTable(calls, Calls, Call) /\ Shapes

TablesTyped ==
  /\ IsTable(buses, Buses, Bus)
  /\ IsTable(layouts, Buses, Layout) /\ DOMAIN layouts \subseteq DOMAIN buses

\* One call moves on, keeping its request; the others stay as they are.
OneMoves(c) ==
  /\ c \in DOMAIN calls /\ DOMAIN calls' = DOMAIN calls
  /\ calls'[c].request = calls[c].request
  /\ \A d \in DOMAIN calls : d # c => calls'[d] = calls[d]

(* A row added or written over leaves a table. *)
LEMMA TableWith ==
  ASSUME NEW Keys, NEW Row, NEW f, IsTable(f, Keys, Row), NEW k \in Keys, NEW v \in Row
  PROVE  IsTable(With(f, k, v), Keys, Row)
  BY DEF IsTable, With

LEMMA TableExcept ==
  ASSUME NEW Keys, NEW Row, NEW f, IsTable(f, Keys, Row), NEW k,
         NEW v, k \in DOMAIN f => v \in Row
  PROVE  IsTable([f EXCEPT ![k] = v], Keys, Row)
  BY DEF IsTable

(* A record in place of another, with the same request, is one call moving. *)
LEMMA MovesTo ==
  ASSUME CallsTyped, NEW c \in DOMAIN calls, NEW call \in Call, CallShape(call),
         call.request = calls[c].request, calls' = [calls EXCEPT ![c] = call]
  PROVE  OneMoves(c) /\ CallsTyped' /\ calls'[c] = call
<1>1. OneMoves(c) /\ IsTable(calls', Calls, Call) /\ calls'[c] = call
  BY DEF CallsTyped, IsTable, OneMoves
<1>2. Shapes'
  BY <1>1 DEF CallsTyped, Shapes, OneMoves
<1>3. QED
  BY <1>1, <1>2 DEF CallsTyped

(* A call at a statement is a call, with a request. *)
LEMMA CallAt ==
  ASSUME TypesInv, NEW c \in DOMAIN calls
  PROVE  /\ c \in Calls /\ calls[c] \in Call /\ CallShape(calls[c]) /\ CallsTyped
         /\ calls[c].request \in Request
  BY DEF TypesInv, LayoutsTypeOK, IsTable, CallsTyped, Shapes, Call

(* Answering ends a call. *)
LEMMA AnswerMoves ==
  ASSUME TypesInv, NEW c \in DOMAIN calls, NEW code \in {"200", "201", "400", "403", "404", "500"},
         Answer(c, code)
  PROVE  OneMoves(c) /\ CallsTyped' /\ calls'[c] = [calls[c] EXCEPT !.pc = "done", !.answer = code]
<1> DEFINE call == [calls[c] EXCEPT !.pc = "done", !.answer = code]
<1>1. call \in Call /\ CallShape(call) /\ call.request = calls[c].request
  BY CallAt DEF Call, CallShape
<1>2. calls' = [calls EXCEPT ![c] = call]
  BY DEF Answer
<1>3. QED
  BY <1>1, <1>2, CallAt, MovesTo

(* Going on to the next statement. *)
LEMMA AdvanceMoves ==
  ASSUME TypesInv, NEW c \in DOMAIN calls, NEW pc \in {"bus", "layout"}, Advance(c, pc),
         CallShape([calls[c] EXCEPT !.pc = pc])
  PROVE  OneMoves(c) /\ CallsTyped' /\ calls'[c] = [calls[c] EXCEPT !.pc = pc]
<1> DEFINE call == [calls[c] EXCEPT !.pc = pc]
<1>1. call \in Call /\ call.request = calls[c].request
  BY CallAt DEF Call, Statements
<1>2. calls' = [calls EXCEPT ![c] = call]
  BY DEF Advance
<1>3. CallShape(call)
  OBVIOUS
<1> HIDE DEF call
<1>4. QED
  BY <1>1, <1>2, <1>3, CallAt, MovesTo DEF call


\* What each statement of a call keeps.
StepTyped(c) ==
  /\ OneMoves(c) /\ CallsTyped' /\ TablesTyped'
  /\ DOMAIN buses \subseteq DOMAIN buses'
  /\ Laying(calls'[c]) => calls[c].request.bus \in DOMAIN buses'

(* A refused call leaves everything. *)
LEMMA RefuseTyped ==
  ASSUME TypesInv, NEW c \in DOMAIN calls, NEW code \in {"403", "404", "500"}, Refuse(c, code)
  PROVE  StepTyped(c)
<1>1. /\ OneMoves(c) /\ CallsTyped'
      /\ calls'[c] = [calls[c] EXCEPT !.pc = "done", !.answer = code]
  BY AnswerMoves DEF Refuse
<1>2. ~ Laying(calls'[c])
  BY <1>1, CallAt DEF Laying, Call
<1>3. QED
  BY <1>1, <1>2 DEF Refuse, layoutTables, StepTyped, TypesInv, LayoutsTypeOK, TablesTyped

LEMMA InsertBusTyped ==
  ASSUME TypesInv, NEW c, InsertBus(c)
  PROVE  StepTyped(c)
<1> DEFINE q == calls[c].request
<1>1. c \in DOMAIN calls /\ q.op = "createBus" /\ calls[c].pc = "insert"
  BY DEF InsertBus, At
<1>2. /\ q \in Request /\ calls[c] \in Call /\ CallShape(calls[c]) /\ CallsTyped
      /\ q.bus \in Buses /\ NewBus(q) \in Bus /\ q.capacity \in Nat
  <2>1. q \in Request /\ calls[c] \in Call /\ CallShape(calls[c]) /\ CallsTyped
    BY <1>1, CallAt
  <2>2. /\ q.bus \in Buses /\ q.by.id \in Staff /\ TownOf(q) \in Towns /\ q.plate \in Plates
        /\ q.capacity \in Nat /\ q.preferential \in SeatList \cup {None}
        /\ q.layout \in Layout \cup {None}
    BY <1>1, <2>1, RequestType DEF TownOf
  <2>3. q.layout # None => q.layout.preferential \in SeatList
    BY <2>2 DEF Layout
  <2>4. QED
    BY <2>1, <2>2, <2>3 DEF NewBus, Bus
<1>3. CASE UNCHANGED buses /\ (Refuse(c, "403") \/ Refuse(c, "500"))
  BY <1>1, <1>3, RefuseTyped
<1>4. CASE /\ buses' = With(buses, q.bus, NewBus(q))
           /\ UNCHANGED layouts
           /\ IF q.layout = None THEN Answer(c, "201")
              ELSE IF Valid(q.capacity, q.layout) THEN Proceed(c, "layout", q.capacity)
              ELSE Answer(c, "400")
  <2>1. IsTable(buses', Buses, Bus) /\ DOMAIN buses' = DOMAIN buses \cup {q.bus}
    <3>1. IsTable(buses, Buses, Bus)
      BY DEF TypesInv, LayoutsTypeOK
    <3>2. QED
      BY <1>2, <1>4, <3>1, TableWith DEF With
  <2>2. TablesTyped' /\ DOMAIN buses \subseteq DOMAIN buses'
    BY <1>4, <2>1 DEF TypesInv, LayoutsTypeOK, TablesTyped
  <2>3. OneMoves(c) /\ CallsTyped'
    <3>1. CASE \E code \in {"201", "400"} : Answer(c, code)
      BY <1>1, <3>1, AnswerMoves
    <3>2. CASE q.layout # None /\ Valid(q.capacity, q.layout) /\ Proceed(c, "layout", q.capacity)
      <4> DEFINE call == [calls[c] EXCEPT !.pc = "layout", !.capacity = q.capacity]
      <4>1. call \in Call /\ call.request = q
        BY <1>2 DEF Call, Statements
      <4>2. CallShape(call)
        BY <1>1, <1>2, <3>2 DEF CallShape, Call
      <4>3. calls' = [calls EXCEPT ![c] = call]
        BY <3>2 DEF Proceed
      <4> HIDE DEF call
      <4>4. QED
        BY <1>1, <1>2, <4>1, <4>2, <4>3, MovesTo
    <3>3. QED
      BY <1>4, <3>1, <3>2
  <2>4. QED
    BY <2>1, <2>2, <2>3 DEF StepTyped
<1>5. QED
  BY <1>3, <1>4 DEF InsertBus, Refuse, layoutTables

LEMMA InsertLayoutTyped ==
  ASSUME TypesInv, NEW c, InsertLayout(c)
  PROVE  StepTyped(c)
<1> DEFINE q == calls[c].request
<1>1. c \in DOMAIN calls /\ q.op = "createBus" /\ calls[c].pc = "layout"
  BY DEF InsertLayout, At
<1>2. q \in Request /\ calls[c] \in Call /\ CallShape(calls[c])
  BY <1>1, CallAt
<1>3. CASE Refuse(c, "500")
  BY <1>1, <1>3, RefuseTyped
<1>4. CASE layouts' = With(layouts, q.bus, Sanitized(q.layout)) /\ Answer(c, "201") /\ UNCHANGED buses
  <2>1. q.bus \in Buses /\ q.layout \in Layout
    BY <1>1, <1>2, RequestType DEF CallShape
  <2>2. q.bus \in DOMAIN buses
    BY <1>1 DEF TypesInv, BusesThere, Laying
  <2>3. IsTable(layouts', Buses, Layout) /\ DOMAIN layouts' = DOMAIN layouts \cup {q.bus}
    <3>1. IsTable(layouts, Buses, Layout) /\ Sanitized(q.layout) \in Layout
      BY <2>1, SanitizedSame DEF TypesInv, LayoutsTypeOK
    <3>2. IsTable(layouts', Buses, Layout)
      BY <1>4, <2>1, <3>1, TableWith
    <3>3. DOMAIN layouts' = DOMAIN layouts \cup {q.bus}
      BY <1>4 DEF With
    <3>4. QED
      BY <3>2, <3>3
  <2>4. TablesTyped'
    BY <1>4, <2>2, <2>3 DEF TypesInv, LayoutsTypeOK, TablesTyped
  <2>5. OneMoves(c) /\ CallsTyped'
    BY <1>1, <1>4, AnswerMoves
  <2>6. QED
    BY <1>4, <2>2, <2>4, <2>5 DEF StepTyped
<1>5. QED
  BY <1>3, <1>4 DEF InsertLayout

LEMMA GuardPatchTyped ==
  ASSUME TypesInv, NEW c, GuardPatch(c)
  PROVE  StepTyped(c)
<1> DEFINE q == calls[c].request
<1>1. c \in DOMAIN calls /\ q.op = "updateBus" /\ calls[c].pc = "guard"
  BY DEF GuardPatch, At
<1>2. q \in Request /\ calls[c] \in Call /\ CallShape(calls[c])
  BY <1>1, CallAt
<1>3. CASE Answer(c, "403")
  BY <1>1, <1>3, RefuseTyped DEF GuardPatch, Refuse
<1>4. CASE Advance(c, IF q.preferential = None THEN "bus" ELSE "layout")
  <2> DEFINE pc == IF q.preferential = None THEN "bus" ELSE "layout"
  <2>1. CallShape([calls[c] EXCEPT !.pc = pc])
    BY <1>1, <1>2 DEF CallShape, Call
  <2>2. /\ OneMoves(c) /\ CallsTyped'
        /\ calls'[c] = [calls[c] EXCEPT !.pc = pc]
    BY <1>1, <1>4, <2>1, AdvanceMoves
  <2>3. ~ Laying(calls'[c])
    BY <1>1, <1>2, <2>2 DEF Laying, Call
  <2>4. QED
    BY <2>2, <2>3
       DEF GuardPatch, layoutTables, StepTyped, TypesInv, LayoutsTypeOK, TablesTyped
<1>5. QED
  BY <1>3, <1>4 DEF GuardPatch

LEMMA PatchLayoutTyped ==
  ASSUME TypesInv, NEW c, PatchLayout(c)
  PROVE  StepTyped(c)
<1> DEFINE q == calls[c].request
<1>1. c \in DOMAIN calls /\ q.op = "updateBus" /\ calls[c].pc = "layout"
  BY DEF PatchLayout, At
<1>2. q \in Request /\ calls[c] \in Call /\ CallShape(calls[c])
  BY <1>1, CallAt
<1>3. q.bus \in Buses /\ q.preferential \in SeatList
  BY <1>1, <1>2, RequestType DEF CallShape
<1>4. IsTable(layouts', Buses, Layout) /\ DOMAIN layouts' = DOMAIN layouts
  <2>1. IsTable(layouts, Buses, Layout)
    BY DEF TypesInv, LayoutsTypeOK
  <2>2. CASE q.bus \in DOMAIN layouts
    <3> DEFINE v == [layouts[q.bus] EXCEPT !.preferential = q.preferential]
    <3>1. v \in Layout
      BY <1>3, <2>1, <2>2 DEF IsTable, Layout
    <3>2. layouts' = [layouts EXCEPT ![q.bus] = v]
      BY <2>2 DEF PatchLayout
    <3> HIDE DEF v
    <3>3. QED
      BY <2>1, <3>1, <3>2, TableExcept
  <2>3. CASE q.bus \notin DOMAIN layouts
    BY <2>1, <2>3 DEF PatchLayout
  <2>4. QED
    BY <2>2, <2>3
<1>5. CallShape([calls[c] EXCEPT !.pc = "bus"])
  BY <1>1, <1>2 DEF CallShape, Call
<1>6. OneMoves(c) /\ CallsTyped' /\ calls'[c] = [calls[c] EXCEPT !.pc = "bus"]
  BY <1>1, <1>5, AdvanceMoves DEF PatchLayout
<1>7. ~ Laying(calls'[c])
  BY <1>1, <1>2, <1>6 DEF Laying, Call
<1>8. QED
  BY <1>4, <1>6, <1>7 DEF PatchLayout, StepTyped, TypesInv, LayoutsTypeOK, TablesTyped

LEMMA PatchBusTyped ==
  ASSUME TypesInv, NEW c, PatchBus(c)
  PROVE  StepTyped(c)
<1> DEFINE q == calls[c].request
<1>1. c \in DOMAIN calls /\ q.op = "updateBus" /\ calls[c].pc = "bus"
  BY DEF PatchBus, At
<1>2. q \in Request /\ calls[c] \in Call /\ CallShape(calls[c])
  BY <1>1, CallAt
<1>3. CASE Refuse(c, "404") \/ Refuse(c, "500")
  BY <1>1, <1>3, RefuseTyped
<1>4. CASE /\ q.bus \in DOMAIN buses /\ Answer(c, "200") /\ UNCHANGED layouts
           /\ buses' = [buses EXCEPT ![q.bus] = Patched(@, q)]
  <2>1. IsTable(buses, Buses, Bus)
    BY DEF TypesInv, LayoutsTypeOK
  <2>2. Patched(buses[q.bus], q) \in Bus
    <3>1. buses[q.bus] \in Bus
      BY <1>4, <2>1 DEF IsTable
    <3>2. /\ q.plate \in Plates \cup {None} /\ q.capacity \in Nat \cup {None}
          /\ q.preferential \in SeatList \cup {None}
      BY <1>1, <1>2, RequestType
    <3>3. QED
      BY <3>1, <3>2 DEF Patched, Bus
  <2>3. buses' = [buses EXCEPT ![q.bus] = Patched(buses[q.bus], q)]
    BY <1>4
  <2>4. IsTable(buses', Buses, Bus) /\ DOMAIN buses' = DOMAIN buses
    BY <2>1, <2>2, <2>3, TableExcept
  <2>5. /\ OneMoves(c) /\ CallsTyped'
        /\ calls'[c] = [calls[c] EXCEPT !.pc = "done", !.answer = "200"]
    BY <1>1, <1>4, AnswerMoves
  <2>6. ~ Laying(calls'[c])
    BY <1>2, <2>5 DEF Laying, Call
  <2>7. QED
    BY <1>4, <2>4, <2>5, <2>6 DEF StepTyped, TypesInv, LayoutsTypeOK, TablesTyped
<1>5. QED
  BY <1>3, <1>4 DEF PatchBus


LEMMA FindBusTyped ==
  ASSUME TypesInv, NEW c, FindBus(c)
  PROVE  StepTyped(c)
<1> DEFINE q == calls[c].request
           n == buses[q.bus].capacity
<1>1. c \in DOMAIN calls /\ q.op = "updateBusLayout" /\ calls[c].pc = "find"
  BY DEF FindBus, At
<1>2. q \in Request /\ calls[c] \in Call /\ CallShape(calls[c]) /\ CallsTyped
  BY <1>1, CallAt
<1>3. CASE Answer(c, "403") \/ Answer(c, "404")
  BY <1>1, <1>3, RefuseTyped DEF FindBus, Refuse
<1>4. CASE /\ Visible(q.bus, q.by)
           /\ calls' = [calls EXCEPT
                ![c].capacity = n,
                ![c].pc = IF Valid(n, q.layout) THEN "bus" ELSE "done",
                ![c].answer = IF Valid(n, q.layout) THEN @ ELSE "400"]
  <2> DEFINE call == [calls[c] EXCEPT !.capacity = n,
                        !.pc = IF Valid(n, q.layout) THEN "bus" ELSE "done",
                        !.answer = IF Valid(n, q.layout) THEN @ ELSE "400"]
  <2>1. q.bus \in DOMAIN buses /\ n \in Nat
    BY <1>4 DEF Visible, TypesInv, LayoutsTypeOK, IsTable, Bus
  <2>2. call \in Call /\ call.request = q
    BY <1>2, <2>1 DEF Call, Statements
  <2>3. CallShape(call)
    BY <1>1, <1>2, <2>1 DEF CallShape, Call
  <2>4. calls' = [calls EXCEPT ![c] = call]
    BY <1>4
  <2>5. OneMoves(c) /\ CallsTyped'
    <3> HIDE DEF call
    <3> QED
      BY <1>1, <1>2, <2>2, <2>3, <2>4, MovesTo
  <2>6. QED
    BY <2>1, <2>5 DEF FindBus, layoutTables, StepTyped, TypesInv, LayoutsTypeOK, TablesTyped
<1>5. QED
  BY <1>3, <1>4 DEF FindBus

LEMMA WriteBusTyped ==
  ASSUME TypesInv, NEW c, WriteBus(c)
  PROVE  StepTyped(c)
<1> DEFINE q == calls[c].request
<1>1. c \in DOMAIN calls /\ q.op = "updateBusLayout" /\ calls[c].pc = "bus"
  BY DEF WriteBus, At
<1>2. q \in Request /\ calls[c] \in Call /\ CallShape(calls[c])
  BY <1>1, CallAt
<1>3. q.bus \in DOMAIN buses
  BY <1>1 DEF TypesInv, BusesThere, Laying
<1>4. IsTable(buses', Buses, Bus) /\ DOMAIN buses' = DOMAIN buses
  <2> DEFINE v == [buses[q.bus] EXCEPT !.preferential = q.layout.preferential]
  <2>1. IsTable(buses, Buses, Bus)
    BY DEF TypesInv, LayoutsTypeOK
  <2>2. buses[q.bus] \in Bus /\ q.layout.preferential \in SeatList
    BY <1>1, <1>2, <1>3, <2>1, RequestType DEF IsTable, Layout
  <2>3. v \in Bus
    BY <2>2 DEF Bus
  <2>4. buses' = [buses EXCEPT ![q.bus] = v]
    BY DEF WriteBus
  <2> HIDE DEF v
  <2>5. QED
    BY <2>1, <2>3, <2>4, TableExcept
<1>5. CallShape([calls[c] EXCEPT !.pc = "layout"])
  BY <1>1, <1>2 DEF CallShape, Call
<1>6. OneMoves(c) /\ CallsTyped'
  BY <1>1, <1>5, AdvanceMoves DEF WriteBus
<1>7. QED
  BY <1>3, <1>4, <1>6 DEF WriteBus, StepTyped, TypesInv, LayoutsTypeOK, TablesTyped

LEMMA WriteLayoutTyped ==
  ASSUME TypesInv, NEW c, WriteLayout(c)
  PROVE  StepTyped(c)
<1> DEFINE q == calls[c].request
<1>1. c \in DOMAIN calls /\ q.op = "updateBusLayout" /\ calls[c].pc = "layout"
  BY DEF WriteLayout, At
<1>2. q \in Request /\ calls[c] \in Call /\ CallShape(calls[c])
  BY <1>1, CallAt
<1>3. q.bus \in DOMAIN buses /\ q.bus \in Buses /\ Sanitized(q.layout) \in Layout
  BY <1>1, <1>2, RequestType, SanitizedSame DEF TypesInv, BusesThere, Laying
<1>4. IsTable(layouts', Buses, Layout) /\ DOMAIN layouts' = DOMAIN layouts \cup {q.bus}
  <2>1. IsTable(layouts, Buses, Layout)
    BY DEF TypesInv, LayoutsTypeOK
  <2>2. QED
    BY <1>3, <2>1, TableWith DEF WriteLayout, Replaced, With
<1>5. OneMoves(c) /\ CallsTyped'
  BY <1>1, AnswerMoves DEF WriteLayout
<1>6. QED
  BY <1>3, <1>4, <1>5 DEF WriteLayout, StepTyped, TypesInv, LayoutsTypeOK, TablesTyped

(* Every statement of a call. *)
LEMMA CallStepTyped ==
  ASSUME TypesInv, NEW c, CallStep(c)
  PROVE  StepTyped(c)
  BY InsertBusTyped, InsertLayoutTyped, GuardPatchTyped, PatchLayoutTyped, PatchBusTyped,
     FindBusTyped, WriteBusTyped, WriteLayoutTyped DEF CallStep

\* A call that has just come in.
NewCall(q) ==
  [request |-> q, pc |-> FirstStatement(q), capacity |-> None, answer |-> "none"]

(* It takes a place that is free or done. *)
LEMMA ReceiveTyped ==
  ASSUME TypesInv, NEW c \in Calls, NEW q \in Requests, Receive(c, q)
  PROVE  /\ CallsTyped' /\ UNCHANGED layoutTables
         /\ DOMAIN calls' = DOMAIN calls \cup {c} /\ calls'[c] = NewCall(q)
         /\ \A d \in DOMAIN calls : d # c => calls'[d] = calls[d]
         /\ NewCall(q).pc \in {"insert", "guard", "find"}
         /\ q \in Request
<1>1. q \in Request
  BY LayoutsAssumption
<1>2. /\ NewCall(q) \in Call /\ CallShape(NewCall(q))
      /\ NewCall(q).pc \in {"insert", "guard", "find"}
  BY <1>1, RequestType DEF NewCall, Call, CallShape, FirstStatement, Statements
<1>3. calls' = With(calls, c, NewCall(q))
  BY DEF Receive, NewCall
<1>4. IsTable(calls', Calls, Call)
  BY <1>2, <1>3, TableWith DEF TypesInv, LayoutsTypeOK
<1>5. /\ DOMAIN calls' = DOMAIN calls \cup {c} /\ calls'[c] = NewCall(q)
      /\ \A d \in DOMAIN calls : d # c => calls'[d] = calls[d]
  BY <1>3 DEF With
<1>6. Shapes'
  BY <1>2, <1>5 DEF TypesInv, Shapes
<1>7. QED
  BY <1>1, <1>2, <1>4, <1>5, <1>6 DEF CallsTyped, Receive

(* A restart drops calls, and nothing else. *)
LEMMA RestartTyped ==
  ASSUME TypesInv, LayoutsRestart
  PROVE  /\ CallsTyped' /\ UNCHANGED layoutTables
         /\ DOMAIN calls' = {d \in DOMAIN calls : ~ Busy(d)}
         /\ \A d \in DOMAIN calls' : calls'[d] = calls[d]
<1>1. /\ DOMAIN calls' = {d \in DOMAIN calls : ~ Busy(d)}
      /\ \A d \in DOMAIN calls' : calls'[d] = calls[d]
  BY DEF LayoutsRestart
<1>2. IsTable(calls', Calls, Call)
  BY DEF LayoutsRestart, TypesInv, LayoutsTypeOK, IsTable
<1>3. Shapes'
  BY <1>1 DEF TypesInv, Shapes
<1>4. QED
  BY <1>1, <1>2, <1>3 DEF CallsTyped, LayoutsRestart

LEMMA InitTypes == LayoutsInit => TypesInv
  BY DEF LayoutsInit, TypesInv, LayoutsTypeOK, Shapes, BusesThere, IsTable

LEMMA NextTypes == TypesInv /\ [LayoutsNext]_layoutVars => TypesInv'
<1> SUFFICES ASSUME TypesInv, [LayoutsNext]_layoutVars  PROVE TypesInv'
  OBVIOUS
<1>1. CASE LayoutsNext
  <2>1. disturbed' \subseteq Calls /\ patched' \subseteq Buses /\ torn' \subseteq Buses
    BY <1>1 DEF LayoutsNext, Remember
  <2>2. CallsTyped' /\ TablesTyped' /\ BusesThere'
    <3>1. CASE \E c \in Calls, q \in Requests : Receive(c, q)
      <4>1. PICK c \in Calls, q \in Requests : Receive(c, q)
        BY <3>1
      <4>2. /\ CallsTyped' /\ UNCHANGED layoutTables
            /\ DOMAIN calls' = DOMAIN calls \cup {c} /\ calls'[c] = NewCall(q)
            /\ \A d \in DOMAIN calls : d # c => calls'[d] = calls[d]
            /\ NewCall(q).pc \in {"insert", "guard", "find"}
        BY <4>1, ReceiveTyped
      <4>3. BusesThere'
        BY <4>2 DEF TypesInv, BusesThere, Laying, layoutTables
      <4>4. QED
        BY <4>2, <4>3 DEF TypesInv, LayoutsTypeOK, TablesTyped, layoutTables
    <3>2. CASE \E c \in Calls : CallStep(c)
      <4>1. PICK c \in Calls : StepTyped(c)
        BY <3>2, CallStepTyped
      <4>2. BusesThere'
        BY <4>1 DEF StepTyped, OneMoves, TypesInv, BusesThere, Laying
      <4>3. QED
        BY <4>1, <4>2 DEF StepTyped
    <3>3. CASE LayoutsRestart
      BY <3>3, RestartTyped
         DEF TypesInv, LayoutsTypeOK, TablesTyped, layoutTables, BusesThere, Laying
    <3>4. QED
      BY <1>1, <3>1, <3>2, <3>3 DEF LayoutsNext, Step
  <2>3. QED
    BY <2>1, <2>2 DEF CallsTyped, TablesTyped, TypesInv, LayoutsTypeOK
<1>2. CASE UNCHANGED layoutVars
  BY <1>2 DEF layoutVars, layoutTables, TypesInv, LayoutsTypeOK, Shapes, BusesThere, Laying
<1>3. QED
  BY <1>1, <1>2

LEMMA TypesHold == LayoutsSpec => []TypesInv
<1>1. QED
  BY InitTypes, NextTypes, PTL DEF LayoutsSpec

(***************************************************************************)
(* Buses, layouts and calls keep their types: what a handler writes is     *)
(* what the DTO and the validation let through, and a layout has a bus.    *)
(***************************************************************************)
THEOREM LayoutsTypeCorrect == LayoutsSpec => []LayoutsTypeOK
<1>1. TypesInv => LayoutsTypeOK
  BY DEF TypesInv
<1>2. QED
  BY <1>1, TypesHold, PTL


(* A layout has finitely many cells, complete or not. *)
LEMMA FewCells ==
  ASSUME NEW l \in Layout
  PROVE  IsFiniteSet(Cells(l))
<1> DEFINE Row(r) == {r} \X (1..Len(l.rows[r]))
           rows == 1..Len(l.rows)
           f == [r \in rows |-> Row(r)]
           all == {Row(r) : r \in rows}
<1>1. l.rows \in Seq(Seq(Cell))
  BY DEF Layout
<1>2. IsFiniteSet(rows)
  <2>1. Len(l.rows) \in Int
    BY <1>1
  <2>2. QED
    BY <2>1, FS_Interval
<1>3. ASSUME NEW r \in rows  PROVE IsFiniteSet(Row(r))
  <2>1. Len(l.rows[r]) \in Int
    BY <1>1
  <2>2. IsFiniteSet(1..Len(l.rows[r]))
    BY <2>1, FS_Interval
  <2>3. IsFiniteSet({r})
    BY FS_Singleton
  <2>4. QED
    BY <2>2, <2>3, FS_Product
<1>4. f \in Surjection(rows, all)
  <2> HIDE DEF Row, rows
  <2> QED
    BY DEF Surjection
<1>5. IsFiniteSet(all)
  <2> HIDE DEF f, all, rows
  <2> QED
    BY <1>2, <1>4, FS_Surjection
<1>6. \A T \in all : IsFiniteSet(T)
  <2> HIDE DEF Row, rows
  <2> QED
    BY <1>3
<1>7. IsFiniteSet(UNION all)
  <2> HIDE DEF all
  <2> QED
    BY <1>5, <1>6, FS_UNION
<1>8. QED
  BY <1>7 DEF Cells

(***************************************************************************)
(* So the checks of validateAndSanitizeLayout (fleet.service.ts:580) are   *)
(* exact: for whatever layouts are drafted, and any capacity up to one     *)
(* more than there are cells.                                              *)
(***************************************************************************)
THEOREM ValidationIsExact == LayoutsSpec => []ValidationExact
<1>1. ASSUME NEW l \in Drafts, NEW n \in 0..(Cardinality(Cells(l)) + 1)
      PROVE  Valid(n, l) <=> WellFormed(n, Sanitized(l)) /\ MarkedSeatsOnly(l)
  <2>1. l \in Layout
    BY LayoutsAssumption
  <2>2. n \in Nat
    BY <2>1, FewCells, FS_CardinalityType
  <2>3. ASSUME Valid(n, l)  PROVE MarkedSeatsOnly(l)
    <3>1. DpmRight(l)
      BY <2>1, <2>3, AcceptedDpmRight DEF Valid
    <3>2. QED
      BY <3>1 DEF DpmRight, MarkedSeatsOnly, DpmCells
  <2>4. QED
    BY <2>1, <2>2, <2>3, ValidationSound, ValidationComplete DEF MarkedSeatsOnly
<1>2. ValidationExact
  BY <1>1 DEF ValidationExact
<1>3. QED
  BY <1>2, PTL

----------------------------------------------------------------------------
(* What a statement writes *)

\* A bus about to be inserted is not there yet, and no other call inserts it.
InsertsNew ==
  /\ \A c \in DOMAIN calls : calls[c].pc = "insert" => calls[c].request.bus \notin DOMAIN buses
  /\ \A c, d \in DOMAIN calls :
       c # d /\ calls[c].pc = "insert" /\ calls[d].pc = "insert" =>
         calls[c].request.bus # calls[d].request.bus

BusOf(c) == calls[c].request.bus

\* The six things a statement of a call may do to the tables.
Quiet(c) ==
  /\ UNCHANGED layoutTables /\ \A b : ~ Wrote(c, b)
  /\ Laying(calls'[c]) => /\ calls'[c].pc = "bus"
                          /\ calls'[c].capacity = buses[BusOf(c)].capacity
  /\ calls'[c].pc = "bus" /\ calls[c].request.op = "updateBus" =>
       calls[c].request.preferential = None
  /\ calls[c].pc \in {"bus", "layout"} => calls'[c].pc = "done"
  /\ calls'[c].pc # "insert"

BusInserted(c) ==
  /\ calls[c].pc = "insert" /\ BusOf(c) \notin DOMAIN buses
  /\ buses' = With(buses, BusOf(c), NewBus(calls[c].request))
  /\ UNCHANGED layouts /\ \A b : ~ Wrote(c, b)
  /\ calls'[c].pc \in {"layout", "done"}
  /\ Laying(calls'[c]) => /\ calls'[c].capacity = calls[c].request.capacity
                          /\ calls[c].request.layout # None

LayoutMade(c) ==
  /\ calls[c].pc = "layout" /\ calls'[c].pc = "done" /\ Laying(calls[c])
  /\ layouts' = With(layouts, BusOf(c), Sanitized(calls[c].request.layout))
  /\ UNCHANGED buses /\ Wrote(c, BusOf(c))

ListPatched(c) ==
  /\ calls[c].pc = "layout" /\ calls'[c].pc = "bus" /\ calls[c].request.op = "updateBus"
  /\ calls[c].request.preferential # None
  /\ DOMAIN layouts' = DOMAIN layouts
  /\ \A b \in DOMAIN layouts : layouts'[b] =
       IF b = BusOf(c) THEN [layouts[b] EXCEPT !.preferential = calls[c].request.preferential]
       ELSE layouts[b]
  /\ UNCHANGED buses /\ Wrote(c, BusOf(c))

BusPatched(c) ==
  /\ calls[c].pc = "bus" /\ calls'[c].pc = "done" /\ calls[c].request.op = "updateBus"
  /\ DOMAIN buses' = DOMAIN buses
  /\ \A b \in DOMAIN buses : buses'[b] =
       IF b = BusOf(c) THEN Patched(buses[b], calls[c].request) ELSE buses[b]
  /\ UNCHANGED layouts /\ Wrote(c, BusOf(c))

ListWritten(c) ==
  /\ calls[c].pc = "bus" /\ calls'[c].pc = "layout" /\ Laying(calls[c])
  /\ calls'[c].capacity = calls[c].capacity
  /\ DOMAIN buses' = DOMAIN buses
  /\ \A b \in DOMAIN buses : buses'[b] =
       IF b = BusOf(c) THEN [buses[b] EXCEPT !.preferential =
                               calls[c].request.layout.preferential]
       ELSE buses[b]
  /\ UNCHANGED layouts /\ Wrote(c, BusOf(c))

(* A statement that ends its call with a refusal, or before it writes. *)
LEMMA EndsQuietly ==
  ASSUME TypesInv, NEW c \in DOMAIN calls, NEW code \in {"400", "403", "404", "500"},
         Answer(c, code), UNCHANGED layoutTables,
         calls[c].pc \in {"bus", "layout"} => code \in {"404", "500"}
  PROVE  Quiet(c)
<1>1. calls'[c] = [calls[c] EXCEPT !.pc = "done", !.answer = code] /\ calls[c] \in Call
  BY AnswerMoves, CallAt
<1>2. calls'[c].pc = "done" /\ calls'[c].answer = code
  BY <1>1 DEF Call
<1>3. ~ Laying(calls'[c])
  BY <1>2 DEF Laying
<1>4. \A b : ~ Wrote(c, b)
  BY <1>2 DEF Wrote, Writing
<1>5. QED
  BY <1>2, <1>3, <1>4 DEF Quiet

(* A call that goes on from a write. *)
LEMMA WritesOn ==
  ASSUME TypesInv, NEW c \in DOMAIN calls, calls[c].pc \in {"bus", "layout"},
         OneMoves(c), calls'[c].pc # calls[c].pc, calls'[c].answer \notin {"404", "500"}
  PROVE  Wrote(c, BusOf(c))
  BY DEF Wrote, Writing, Moves, Busy, BusOf, OneMoves

LEMMA InsertBusEffect ==
  ASSUME TypesInv, InsertsNew, NEW c, InsertBus(c)
  PROVE  Quiet(c) \/ BusInserted(c)
<1> DEFINE q == calls[c].request
<1>1. c \in DOMAIN calls /\ q.op = "createBus" /\ calls[c].pc = "insert" /\ calls[c] \in Call
  BY CallAt DEF InsertBus, At
<1>2. CASE Refuse(c, "403") \/ Refuse(c, "500")
  BY <1>1, <1>2, EndsQuietly DEF Refuse
<1>3. CASE /\ buses' = With(buses, q.bus, NewBus(q))
           /\ UNCHANGED layouts
           /\ IF q.layout = None THEN Answer(c, "201")
              ELSE IF Valid(q.capacity, q.layout) THEN Proceed(c, "layout", q.capacity)
              ELSE Answer(c, "400")
  <2>1. q.bus \notin DOMAIN buses
    BY <1>1 DEF InsertsNew
  <2>2. \A b : ~ Wrote(c, b)
    BY <1>1 DEF Wrote, Writing
  <2>3. CASE \E code \in {"201", "400"} : Answer(c, code)
    <3>1. PICK code \in {"201", "400"} : Answer(c, code)
      BY <2>3
    <3>2. calls'[c] = [calls[c] EXCEPT !.pc = "done", !.answer = code]
      BY <1>1, <3>1, AnswerMoves
    <3>3. calls'[c].pc = "done"
      BY <1>1, <3>2 DEF Call
    <3>4. QED
      BY <1>1, <1>3, <2>1, <2>2, <3>3 DEF BusInserted, BusOf, Laying
  <2>4. CASE q.layout # None /\ Proceed(c, "layout", q.capacity)
    <3>1. calls'[c] = [calls[c] EXCEPT !.pc = "layout", !.capacity = q.capacity]
      BY <1>1, <2>4 DEF Proceed
    <3>2. calls'[c].pc = "layout" /\ calls'[c].capacity = q.capacity
      BY <1>1, <3>1 DEF Call
    <3>3. QED
      BY <1>1, <1>3, <2>1, <2>2, <2>4, <3>2 DEF BusInserted, BusOf
  <2>5. QED
    BY <1>3, <2>3, <2>4
<1>4. QED
  BY <1>2, <1>3 DEF InsertBus

(* What an insert or an upsert of a layout does. *)
LEMMA LayoutWriteEffect ==
  ASSUME TypesInv, NEW c, InsertLayout(c) \/ WriteLayout(c)
  PROVE  Quiet(c) \/ LayoutMade(c)
<1> DEFINE q == calls[c].request
<1>1. c \in DOMAIN calls /\ calls[c].pc = "layout" /\ calls[c] \in Call /\ Laying(calls[c])
  BY CallAt DEF InsertLayout, WriteLayout, At, Laying
<1>2. CASE Refuse(c, "500")
  BY <1>1, <1>2, EndsQuietly DEF Refuse
<1>3. CASE /\ layouts' = With(layouts, q.bus, Sanitized(q.layout)) /\ UNCHANGED buses
           /\ \E code \in {"200", "201"} : Answer(c, code)
  <2>1. PICK code \in {"200", "201"} : Answer(c, code)
    BY <1>3
  <2>2. /\ OneMoves(c)
        /\ calls'[c] = [calls[c] EXCEPT !.pc = "done", !.answer = code]
    BY <1>1, <2>1, AnswerMoves
  <2>3. calls'[c].pc = "done" /\ calls'[c].answer = code
    BY <1>1, <2>2 DEF Call
  <2>4. Wrote(c, BusOf(c))
    BY <1>1, <2>2, <2>3, WritesOn
  <2>5. QED
    BY <1>1, <1>3, <2>3, <2>4 DEF LayoutMade, BusOf
<1>4. QED
  BY <1>2, <1>3 DEF InsertLayout, WriteLayout, Replaced

LEMMA PatchEffect ==
  ASSUME TypesInv, NEW c, GuardPatch(c) \/ PatchLayout(c) \/ PatchBus(c)
  PROVE  Quiet(c) \/ ListPatched(c) \/ BusPatched(c)
<1> DEFINE q == calls[c].request
<1>1. c \in DOMAIN calls /\ q.op = "updateBus" /\ calls[c] \in Call /\ CallShape(calls[c])
  BY CallAt DEF GuardPatch, PatchLayout, PatchBus, At
<1>2. CASE GuardPatch(c)
  <2>1. calls[c].pc = "guard" /\ UNCHANGED layoutTables
    BY <1>2 DEF GuardPatch, At
  <2>2. CASE Answer(c, "403")
    BY <1>1, <2>1, <2>2, EndsQuietly
  <2>3. CASE Advance(c, IF q.preferential = None THEN "bus" ELSE "layout")
    <3>1. /\ calls'[c] = [calls[c] EXCEPT
               !.pc = IF q.preferential = None THEN "bus" ELSE "layout"]
      BY <1>1, <2>3 DEF Advance
    <3>2. /\ calls'[c].pc = IF q.preferential = None THEN "bus" ELSE "layout"
          /\ calls'[c].request = q
      BY <1>1, <3>1 DEF Call
    <3>3. ~ Laying(calls'[c])
      BY <1>1, <3>2 DEF Laying
    <3>4. \A b : ~ Wrote(c, b)
      BY <2>1 DEF Wrote, Writing
    <3>5. QED
      BY <1>1, <2>1, <3>2, <3>3, <3>4 DEF Quiet
  <2>4. QED
    BY <1>2, <2>2, <2>3 DEF GuardPatch
<1>3. CASE PatchLayout(c)
  <2>1. calls[c].pc = "layout" /\ q.preferential # None /\ UNCHANGED buses
    BY <1>1, <1>3 DEF PatchLayout, At, CallShape
  <2>2. CallShape([calls[c] EXCEPT !.pc = "bus"])
    BY <1>1, <2>1 DEF CallShape, Call
  <2>3. OneMoves(c) /\ calls'[c] = [calls[c] EXCEPT !.pc = "bus"]
    BY <1>1, <1>3, <2>2, AdvanceMoves DEF PatchLayout
  <2>4. calls'[c].pc = "bus" /\ calls'[c].answer = "none"
    BY <1>1, <2>1, <2>3 DEF Call, CallShape
  <2>5. Wrote(c, BusOf(c))
    BY <1>1, <2>1, <2>3, <2>4, WritesOn
  <2>6. /\ DOMAIN layouts' = DOMAIN layouts
        /\ \A b \in DOMAIN layouts : layouts'[b] =
             IF b = q.bus THEN [layouts[b] EXCEPT !.preferential = q.preferential]
             ELSE layouts[b]
    BY <1>3 DEF PatchLayout, TypesInv, LayoutsTypeOK, IsTable
  <2>7. QED
    BY <1>1, <2>1, <2>4, <2>5, <2>6 DEF ListPatched, BusOf
<1>4. CASE PatchBus(c)
  <2>1. calls[c].pc = "bus"
    BY <1>4 DEF PatchBus, At
  <2>2. CASE Refuse(c, "404") \/ Refuse(c, "500")
    BY <1>1, <2>2, EndsQuietly DEF Refuse
  <2>3. CASE /\ buses' = [buses EXCEPT ![q.bus] = Patched(@, q)]
             /\ Answer(c, "200") /\ UNCHANGED layouts
    <3>1. /\ OneMoves(c)
          /\ calls'[c] = [calls[c] EXCEPT !.pc = "done", !.answer = "200"]
      BY <1>1, <2>3, AnswerMoves
    <3>2. calls'[c].pc = "done" /\ calls'[c].answer = "200"
      BY <1>1, <3>1 DEF Call
    <3>3. Wrote(c, BusOf(c))
      BY <1>1, <2>1, <3>1, <3>2, WritesOn
    <3>4. /\ DOMAIN buses' = DOMAIN buses
          /\ \A b \in DOMAIN buses : buses'[b] =
               IF b = q.bus THEN Patched(buses[b], q) ELSE buses[b]
      BY <2>3 DEF TypesInv, LayoutsTypeOK, IsTable
    <3>5. QED
      BY <1>1, <2>1, <2>3, <3>2, <3>3, <3>4 DEF BusPatched, BusOf
  <2>4. QED
    BY <1>4, <2>2, <2>3 DEF PatchBus
<1>5. QED
  BY <1>2, <1>3, <1>4

LEMMA FindOrWriteEffect ==
  ASSUME TypesInv, NEW c, FindBus(c) \/ WriteBus(c)
  PROVE  Quiet(c) \/ ListWritten(c)
<1> DEFINE q == calls[c].request
           n == buses[q.bus].capacity
<1>1. c \in DOMAIN calls /\ q.op = "updateBusLayout" /\ calls[c] \in Call /\ CallShape(calls[c])
  BY CallAt DEF FindBus, WriteBus, At
<1>2. CASE FindBus(c)
  <2>1. calls[c].pc = "find" /\ UNCHANGED layoutTables
    BY <1>2 DEF FindBus, At
  <2>2. CASE Answer(c, "403") \/ Answer(c, "404")
    BY <1>1, <2>1, <2>2, EndsQuietly
  <2>3. CASE calls' = [calls EXCEPT
               ![c].capacity = n,
               ![c].pc = IF Valid(n, q.layout) THEN "bus" ELSE "done",
               ![c].answer = IF Valid(n, q.layout) THEN @ ELSE "400"]
    <3>1. calls'[c] = [calls[c] EXCEPT
            !.capacity = n,
            !.pc = IF Valid(n, q.layout) THEN "bus" ELSE "done",
            !.answer = IF Valid(n, q.layout) THEN @ ELSE "400"]
      BY <1>1, <2>3
    <3>2. calls'[c].pc \in {"bus", "done"} /\ calls'[c].capacity = n
      BY <1>1, <3>1 DEF Call
    <3>3. \A b : ~ Wrote(c, b)
      BY <2>1 DEF Wrote, Writing
    <3>4. QED
      BY <1>1, <2>1, <3>2, <3>3 DEF Quiet, BusOf, Laying
  <2>4. QED
    BY <1>2, <2>2, <2>3 DEF FindBus
<1>3. CASE WriteBus(c)
  <2>1. calls[c].pc = "bus" /\ UNCHANGED layouts
    BY <1>3 DEF WriteBus, At
  <2>2. CallShape([calls[c] EXCEPT !.pc = "layout"])
    BY <1>1, <2>1 DEF CallShape, Call
  <2>3. OneMoves(c) /\ calls'[c] = [calls[c] EXCEPT !.pc = "layout"]
    BY <1>1, <1>3, <2>2, AdvanceMoves DEF WriteBus
  <2>4. calls'[c].pc = "layout" /\ calls'[c].answer = "none" /\ calls'[c].capacity = calls[c].capacity
    BY <1>1, <2>1, <2>3 DEF Call, CallShape
  <2>5. Wrote(c, BusOf(c))
    BY <1>1, <2>1, <2>3, <2>4, WritesOn
  <2>6. /\ DOMAIN buses' = DOMAIN buses
        /\ \A b \in DOMAIN buses : buses'[b] =
             IF b = q.bus THEN [buses[b] EXCEPT !.preferential = q.layout.preferential]
             ELSE buses[b]
    BY <1>3 DEF WriteBus, TypesInv, LayoutsTypeOK, IsTable
  <2>7. QED
    BY <1>1, <2>1, <2>4, <2>5, <2>6 DEF ListWritten, BusOf, Laying
<1>4. QED
  BY <1>2, <1>3

LEMMA CallStepEffect ==
  ASSUME TypesInv, InsertsNew, NEW c, CallStep(c)
  PROVE  \/ Quiet(c) \/ BusInserted(c) \/ LayoutMade(c)
         \/ ListPatched(c) \/ BusPatched(c) \/ ListWritten(c)
  BY InsertBusEffect, LayoutWriteEffect, PatchEffect, FindOrWriteEffect DEF CallStep


LEMMA InitInserts == LayoutsInit => InsertsNew
  BY DEF LayoutsInit, InsertsNew

LEMMA NextInserts ==
  TypesInv /\ InsertsNew /\ [LayoutsNext]_layoutVars => InsertsNew'
<1> SUFFICES ASSUME TypesInv, InsertsNew, [LayoutsNext]_layoutVars  PROVE InsertsNew'
  OBVIOUS
<1>1. CASE \E c \in Calls, q \in Requests : Receive(c, q)
  <2>1. PICK c \in Calls, q \in Requests : Receive(c, q)
    BY <1>1
  <2>2. /\ UNCHANGED buses /\ DOMAIN calls' = DOMAIN calls \cup {c} /\ calls'[c] = NewCall(q)
        /\ \A d \in DOMAIN calls : d # c => calls'[d] = calls[d]
        /\ q \in Request
    BY <2>1, ReceiveTyped DEF layoutTables
  <2>3. NewCall(q).pc = "insert" => q.op = "createBus"
    BY <2>2, RequestType DEF NewCall, FirstStatement
  <2>4. NewCall(q).pc = "insert" =>
          q.bus \notin DOMAIN buses /\ \A d \in DOMAIN calls : calls[d].request.bus # q.bus
    BY <2>1, <2>3 DEF Receive, FreshBus
  <2>5. NewCall(q).request = q
    BY DEF NewCall
  <2>6. QED
    BY <2>2, <2>4, <2>5 DEF InsertsNew
<1>2. CASE \E c \in Calls : CallStep(c)
  <2>1. PICK c \in Calls : CallStep(c)
    BY <1>2
  <2>2. OneMoves(c)
    BY <2>1, CallStepTyped DEF StepTyped
  <2>3. /\ calls'[c].pc # "insert"
        /\ \/ DOMAIN buses' = DOMAIN buses
           \/ calls[c].pc = "insert" /\ DOMAIN buses' = DOMAIN buses \cup {BusOf(c)}
    BY <2>1, CallStepEffect DEF Quiet, BusInserted, LayoutMade, ListPatched, BusPatched,
                                ListWritten, layoutTables, With
  <2>4. QED
    BY <2>2, <2>3 DEF InsertsNew, OneMoves, BusOf
<1>3. CASE LayoutsRestart
  BY <1>3, RestartTyped DEF InsertsNew, layoutTables
<1>4. CASE UNCHANGED layoutVars
  BY <1>4 DEF layoutVars, layoutTables, InsertsNew
<1>5. QED
  BY <1>1, <1>2, <1>3, <1>4 DEF LayoutsNext, Step

\* Types, with what they rest on, and fresh ids.
BaseInv == TypesInv /\ InsertsNew

LEMMA InitBase == LayoutsInit => BaseInv
  BY InitTypes, InitInserts DEF BaseInv

LEMMA NextBase == BaseInv /\ [LayoutsNext]_layoutVars => BaseInv'
  BY NextTypes, NextInserts DEF BaseInv

(* A step without a statement of a call writes nothing. *)
LEMMA OthersWriteNothing ==
  ASSUME TypesInv, (\E c \in Calls, q \in Requests : Receive(c, q)) \/ LayoutsRestart
  PROVE  /\ UNCHANGED layoutTables
         /\ \A c, b : ~ Wrote(c, b)
         /\ \A c \in DOMAIN calls' : calls'[c].pc \in {"bus", "layout"} =>
              /\ c \in DOMAIN calls /\ calls'[c] = calls[c] /\ Busy(c)
<1>1. CASE \E c \in Calls, q \in Requests : Receive(c, q)
  <2>1. PICK c \in Calls, q \in Requests : Receive(c, q)
    BY <1>1
  <2>2. /\ UNCHANGED layoutTables
        /\ DOMAIN calls' = DOMAIN calls \cup {c} /\ calls'[c] = NewCall(q)
        /\ \A d \in DOMAIN calls : d # c => calls'[d] = calls[d]
        /\ NewCall(q).pc \in {"insert", "guard", "find"}
    BY <2>1, ReceiveTyped
  <2>3. ~ Busy(c)
    BY <2>1 DEF Receive
  <2>4. ASSUME NEW d, Busy(d), d \in DOMAIN calls'  PROVE calls'[d] = calls[d]
    BY <2>2, <2>3, <2>4 DEF Busy
  <2>5. \A d, b : ~ Wrote(d, b)
    BY <2>4 DEF Wrote, Moves
  <2>6. QED
    BY <2>2, <2>5 DEF Busy
<1>2. CASE LayoutsRestart
  <2>1. /\ UNCHANGED layoutTables
        /\ DOMAIN calls' = {d \in DOMAIN calls : ~ Busy(d)}
        /\ \A d \in DOMAIN calls' : calls'[d] = calls[d]
    BY <1>2, RestartTyped
  <2>2. \A d, b : ~ Wrote(d, b)
    BY <2>1 DEF Wrote, Moves
  <2>3. QED
    BY <2>1, <2>2 DEF Busy
<1>3. QED
  BY <1>1, <1>2

(* Only the call whose statement it is writes, and to its own bus only. *)
LEMMA OneWrites ==
  ASSUME TypesInv, InsertsNew, NEW c, CallStep(c), NEW d, NEW b, Wrote(d, b)
  PROVE  d = c /\ b = BusOf(c)
<1>1. OneMoves(c)
  BY CallStepTyped DEF StepTyped
<1>2. QED
  BY <1>1 DEF OneMoves, Wrote, Writing, Moves, Busy, BusOf

(* Who was not disturbed before the step nor in it: no other call wrote to its bus. *)
LEMMA Undisturbed ==
  ASSUME TypesInv, InsertsNew, Remember, NEW c \in Calls, CallStep(c),
         NEW d \in DOMAIN calls, d # c, d \notin disturbed', calls[d].pc \in {"bus", "layout"}
  PROVE  d \notin disturbed /\ (Wrote(c, BusOf(c)) => BusOf(d) # BusOf(c))
<1>1. OneMoves(c) /\ d \in Calls /\ calls[d].request.bus \in Buses
  BY CallStepTyped, CallAt, RequestType DEF StepTyped
<1>2. Busy(d) /\ Busy(d)' /\ Writing(d, BusOf(d))
  BY <1>1 DEF OneMoves, Busy, Writing, BusOf
<1>3. /\ d \notin disturbed
      /\ ~ \E b \in Buses, e \in Calls \ {d} : Writing(d, b) /\ Wrote(e, b)
  BY <1>1, <1>2 DEF Remember
<1>4. QED
  BY <1>1, <1>2, <1>3 DEF BusOf


----------------------------------------------------------------------------
(* Stored layouts are numbered *)

\* What LayoutsNumbered says of one layout.
Numbered(l) == RowsFull(l) /\ SeatsNumbered(Cardinality(Seats(l)), l) /\ DpmRight(l)

(* Another list of preferential seats leaves the cells alone. *)
LEMMA ListApart ==
  ASSUME NEW l \in Layout, NEW list
  PROVE  LET m == [l EXCEPT !.preferential = list] IN
         /\ Cells(m) = Cells(l) /\ Seats(m) = Seats(l)
         /\ RowsFull(m) <=> RowsFull(l)
         /\ \A n : SeatsNumbered(n, m) <=> SeatsNumbered(n, l)
         /\ DpmRight(m) <=> DpmRight(l)
         /\ m.preferential = list
<1> DEFINE m == [l EXCEPT !.preferential = list]
<1>1. m.rows = l.rows /\ m.dpm = l.dpm /\ m.preferential = list
  BY DEF Layout
<1> HIDE DEF m
<1>2. Cells(m) = Cells(l) /\ \A p : CellAt(m, p) = CellAt(l, p)
  BY <1>1 DEF Cells, CellAt
<1>3. Seats(m) = Seats(l)
  BY <1>2 DEF Seats
<1>4. RowsFull(m) <=> RowsFull(l)
  BY <1>1, <1>2 DEF RowsFull
<1>5. \A n : SeatsNumbered(n, m) <=> SeatsNumbered(n, l)
  BY <1>2, <1>3 DEF SeatsNumbered
<1>6. DpmRight(m) <=> DpmRight(l)
  BY <1>1, <1>2, <1>3 DEF DpmRight
<1>7. QED
  BY <1>1, <1>2, <1>3, <1>4, <1>5, <1>6 DEF m

(* What a call writes that has passed the validation. *)
LEMMA MadeWellFormed ==
  ASSUME TypesInv, NEW c \in DOMAIN calls, Laying(calls[c])
  PROVE  /\ calls[c].capacity \in Nat /\ calls[c].request.layout \in Layout
         /\ WellFormed(calls[c].capacity, Sanitized(calls[c].request.layout))
         /\ Numbered(Sanitized(calls[c].request.layout))
<1> DEFINE q == calls[c].request
           n == calls[c].capacity
           s == Sanitized(q.layout)
<1>1. q \in Request /\ calls[c] \in Call /\ CallShape(calls[c])
  BY CallAt
<1>2. n \in Nat /\ Valid(n, q.layout) /\ q.layout \in Layout
  BY <1>1, RequestType DEF Laying, CallShape
<1>3. WellFormed(n, s)
  BY <1>2, ValidationSound
<1>4. Cardinality(Seats(s)) = n
  BY <1>2, <1>3, NumberedByCount DEF WellFormed
<1>5. QED
  BY <1>2, <1>3, <1>4 DEF WellFormed, Numbered

LEMMA NextNumbered ==
  BaseInv /\ LayoutsNumbered /\ [LayoutsNext]_layoutVars => LayoutsNumbered'
<1> SUFFICES ASSUME BaseInv, LayoutsNumbered, [LayoutsNext]_layoutVars,
                    NEW b, b \in DOMAIN layouts'
             PROVE  Numbered(layouts'[b])
  BY DEF LayoutsNumbered, Numbered
<1>1. TypesInv /\ InsertsNew
  BY DEF BaseInv
<1>2. \A x \in DOMAIN layouts : layouts[x] \in Layout /\ Numbered(layouts[x])
  BY <1>1 DEF LayoutsNumbered, Numbered, TypesInv, LayoutsTypeOK, IsTable
<1>3. CASE UNCHANGED layouts
  BY <1>2, <1>3
<1>4. CASE \E c \in Calls : CallStep(c)
  <2>1. PICK c \in Calls : CallStep(c)
    BY <1>4
  <2>2. c \in DOMAIN calls
    BY <1>1, <2>1, CallStepTyped DEF StepTyped, OneMoves
  <2>3. CASE LayoutMade(c)
    <3>1. Numbered(Sanitized(calls[c].request.layout))
      BY <1>1, <2>2, <2>3, MadeWellFormed DEF LayoutMade
    <3>2. QED
      BY <1>2, <2>3, <3>1 DEF LayoutMade, With
  <2>4. CASE ListPatched(c)
    <3>1. b \in DOMAIN layouts
      BY <2>4 DEF ListPatched
    <3>2. CASE b = BusOf(c)
      <4> DEFINE m == [layouts[b] EXCEPT !.preferential = calls[c].request.preferential]
      <4>1. layouts'[b] = m
        BY <2>4, <3>1, <3>2 DEF ListPatched
      <4>2. Numbered(m)
        BY <1>2, <3>1, ListApart DEF Numbered
      <4>3. QED
        BY <4>1, <4>2
    <3>3. CASE b # BusOf(c)
      BY <1>2, <2>4, <3>1, <3>3 DEF ListPatched
    <3>4. QED
      BY <3>2, <3>3
  <2>5. QED
    BY <1>1, <1>3, <2>1, <2>3, <2>4, CallStepEffect
       DEF Quiet, BusInserted, BusPatched, ListWritten, layoutTables
<1>5. QED
  BY <1>1, <1>3, <1>4, OthersWriteNothing DEF LayoutsNext, Step, layoutVars, layoutTables

LEMMA BaseHolds == LayoutsSpec => []BaseInv
<1>1. QED
  BY InitBase, NextBase, PTL DEF LayoutsSpec

(***************************************************************************)
(* Every layout in the table has full rows, seats numbered from 1 without  *)
(* a gap and its DPM seat marked, whatever calls wrote it together         *)
(* (fleet.service.ts:580): each of them writes what it has validated.      *)
(***************************************************************************)
THEOREM StoredLayoutsNumbered == LayoutsSpec => []LayoutsNumbered
<1>1. LayoutsInit => LayoutsNumbered
  BY DEF LayoutsInit, LayoutsNumbered
<1>2. QED
  BY <1>1, NextNumbered, BaseHolds, PTL DEF LayoutsSpec


----------------------------------------------------------------------------
(* Layouts fit their buses *)

\* The bus of a call that is to write a layout has the capacity the call knows, as
\* long as nobody else wrote to it.
CapacitiesKnown ==
  \A c \in DOMAIN calls \ disturbed :
    Laying(calls[c]) => buses[BusOf(c)].capacity = calls[c].capacity

FitInv == LayoutFits /\ CapacitiesKnown

(* A capacity is changed by a PATCH that names one, and by nothing else. *)
LEMMA CapacityKept ==
  ASSUME BaseInv, NEW c \in Calls, CallStep(c), NEW b \in DOMAIN buses
  PROVE  \/ b \in DOMAIN buses' /\ buses'[b].capacity = buses[b].capacity
         \/ Unfits(c, b) /\ Wrote(c, b) /\ b = BusOf(c)
<1>1. TypesInv /\ InsertsNew /\ buses[b] \in Bus
  BY DEF BaseInv, TypesInv, LayoutsTypeOK, IsTable
<1>2. CASE BusInserted(c)
  BY <1>2 DEF BusInserted, With
<1>3. CASE BusPatched(c)
  <2>1. CASE b = BusOf(c) /\ calls[c].request.capacity # None
    BY <1>3, <2>1 DEF BusPatched, Unfits
  <2>2. CASE b = BusOf(c) /\ calls[c].request.capacity = None
    BY <1>1, <1>3, <2>2 DEF BusPatched, Patched, Bus
  <2>3. CASE b # BusOf(c)
    BY <1>3, <2>3 DEF BusPatched
  <2>4. QED
    BY <2>1, <2>2, <2>3
<1>4. CASE ListWritten(c)
  BY <1>1, <1>4 DEF ListWritten, Bus
<1>5. CASE UNCHANGED buses
  BY <1>5
<1>6. QED
  BY <1>1, <1>2, <1>3, <1>4, <1>5, CallStepEffect
     DEF Quiet, LayoutMade, ListPatched, layoutTables

LEMMA NextCapacities ==
  BaseInv /\ CapacitiesKnown /\ [LayoutsNext]_layoutVars => CapacitiesKnown'
<1> SUFFICES ASSUME BaseInv, CapacitiesKnown, [LayoutsNext]_layoutVars,
                    NEW c, c \in DOMAIN calls', c \notin disturbed', Laying(calls'[c])
             PROVE  buses'[calls'[c].request.bus].capacity = calls'[c].capacity
  BY DEF CapacitiesKnown, BusOf
<1>1. TypesInv /\ InsertsNew /\ BaseInv'
  BY NextBase DEF BaseInv
<1>2. c \in Calls /\ calls'[c].pc \in {"bus", "layout"}
  BY <1>1 DEF BaseInv, TypesInv, LayoutsTypeOK, IsTable, Laying
<1>3. CASE Remember /\ \E d \in Calls : CallStep(d)
  <2>1. PICK d \in Calls : CallStep(d)
    BY <1>3
  <2>2. OneMoves(d) /\ d \in DOMAIN calls /\ c \in DOMAIN calls
        /\ calls'[c].request = calls[c].request
    BY <1>1, <2>1, CallStepTyped DEF StepTyped, OneMoves
  <2>3. CASE c # d
    <3>1. calls'[c] = calls[c]
      BY <2>2, <2>3 DEF OneMoves
    <3>2. /\ c \notin disturbed /\ (Wrote(d, BusOf(d)) => BusOf(c) # BusOf(d))
          /\ BusOf(c) \in DOMAIN buses
      <4>1. BusOf(c) \in DOMAIN buses
        BY <1>1, <2>2, <3>1 DEF TypesInv, BusesThere, BusOf
      <4>2. QED
        BY <1>1, <1>2, <1>3, <2>1, <2>2, <2>3, <3>1, <4>1, Undisturbed
    <3>3. buses'[BusOf(c)].capacity = buses[BusOf(c)].capacity
      BY <2>1, <3>2, CapacityKept
    <3>4. buses[BusOf(c)].capacity = calls[c].capacity
      BY <2>2, <3>1, <3>2 DEF CapacitiesKnown
    <3>5. QED
      BY <3>1, <3>3, <3>4 DEF BusOf
  <2>4. CASE c = d
    <3>1. CASE Quiet(c)
      BY <2>2, <3>1 DEF Quiet, BusOf, layoutTables
    <3>2. CASE BusInserted(c)
      <4>1. buses'[BusOf(c)] = NewBus(calls[c].request)
        BY <3>2 DEF BusInserted, With
      <4>2. QED
        BY <2>2, <3>2, <4>1 DEF BusInserted, NewBus, BusOf
    <3>3. CASE ListWritten(c)
      <4>1. c \notin disturbed
        <5>1. Busy(c) /\ Busy(c)'
          BY <2>2, <3>3 DEF Busy, OneMoves, ListWritten
        <5>2. QED
          BY <1>2, <1>3, <5>1 DEF Remember
      <4>2. /\ BusOf(c) \in DOMAIN buses
            /\ buses[BusOf(c)].capacity = calls[c].capacity
        BY <1>1, <2>2, <3>3, <4>1 DEF CapacitiesKnown, ListWritten, TypesInv, BusesThere, BusOf
      <4>3. buses[BusOf(c)] \in Bus
        BY <1>1, <4>2 DEF TypesInv, LayoutsTypeOK, IsTable
      <4>4. buses'[BusOf(c)].capacity = buses[BusOf(c)].capacity
        BY <3>3, <4>2, <4>3 DEF ListWritten, Bus
      <4>5. QED
        BY <2>2, <3>3, <4>2, <4>4 DEF ListWritten, BusOf
    <3>4. CASE ListPatched(c)
      BY <2>2, <3>4 DEF ListPatched, Laying
    <3>5. CASE LayoutMade(c) \/ BusPatched(c)
      BY <1>2, <3>5 DEF LayoutMade, BusPatched
    <3>6. QED
      BY <1>1, <2>1, <2>4, <3>1, <3>2, <3>3, <3>4, <3>5, CallStepEffect
  <2>5. QED
    BY <2>3, <2>4
<1>4. CASE Remember /\ ((\E d \in Calls, q \in Requests : Receive(d, q)) \/ LayoutsRestart)
  <2>1. /\ UNCHANGED buses /\ c \in DOMAIN calls /\ calls'[c] = calls[c] /\ Busy(c)
    BY <1>1, <1>2, <1>4, OthersWriteNothing DEF layoutTables
  <2>2. Busy(c)'
    BY <1>2 DEF Busy
  <2>3. c \notin disturbed
    BY <1>2, <1>4, <2>1, <2>2 DEF Remember
  <2>4. QED
    BY <2>1, <2>3 DEF CapacitiesKnown, BusOf
<1>5. CASE UNCHANGED layoutVars
  BY <1>5 DEF layoutVars, layoutTables, CapacitiesKnown, BusOf
<1>6. QED
  BY <1>3, <1>4, <1>5 DEF LayoutsNext, Step

(* Only a layout that was written makes a layout. *)
LEMMA MakersMake ==
  ASSUME BaseInv, NEW c, CallStep(c), NEW d, NEW b, MakesLayout(d, b)
  PROVE  d = c /\ LayoutMade(c) /\ b = BusOf(c)
<1>1. Wrote(d, b) /\ ~ Busy(d)' /\ calls[d].request.op # "updateBus"
  BY DEF MakesLayout, Completed
<1>2. TypesInv /\ InsertsNew /\ OneMoves(c)
  BY CallStepTyped DEF BaseInv, StepTyped
<1>3. d = c /\ b = BusOf(c)
  BY <1>1, <1>2, OneWrites
<1>4. calls'[c].pc = "done"
  BY <1>1, <1>2, <1>3 DEF Busy, OneMoves
<1>5. QED
  BY <1>1, <1>2, <1>3, <1>4, CallStepEffect
     DEF Quiet, BusInserted, ListPatched, BusPatched, ListWritten

LEMMA NextFits ==
  BaseInv /\ FitInv /\ [LayoutsNext]_layoutVars => LayoutFits'
<1> SUFFICES ASSUME BaseInv, FitInv, [LayoutsNext]_layoutVars,
                    NEW b, b \in DOMAIN layouts', b \notin patched'
             PROVE  WellFormed(buses'[b].capacity, layouts'[b])
  BY DEF LayoutFits
<1>1. TypesInv /\ InsertsNew /\ BaseInv'
  BY NextBase DEF BaseInv
<1>2. b \in Buses
  BY <1>1 DEF BaseInv, TypesInv, LayoutsTypeOK, IsTable
<1>3. CASE Remember /\ \E d \in Calls : CallStep(d)
  <2>1. PICK c \in Calls : CallStep(c)
    BY <1>3
  <2>2. OneMoves(c) /\ c \in DOMAIN calls
    BY <1>1, <2>1, CallStepTyped DEF StepTyped, OneMoves
  <2>3. /\ ~ Unfits(c, b) /\ (MakesLayout(c, b) => c \notin disturbed)
        /\ b \in patched => \E d \in Calls : MakesLayout(d, b)
    BY <1>2, <1>3 DEF Remember
  <2>4. CASE LayoutMade(c) /\ b = BusOf(c)
    <3>1. MakesLayout(c, b)
      BY <2>2, <2>4 DEF MakesLayout, Completed, LayoutMade, Laying, Busy
    <3>2. c \notin disturbed /\ Laying(calls[c])
      BY <2>3, <2>4, <3>1 DEF LayoutMade
    <3>3. buses[b].capacity = calls[c].capacity
      BY <2>2, <2>4, <3>2 DEF FitInv, CapacitiesKnown
    <3>4. WellFormed(calls[c].capacity, Sanitized(calls[c].request.layout))
      BY <1>1, <2>2, <3>2, MadeWellFormed
    <3>5. buses' = buses /\ layouts'[b] = Sanitized(calls[c].request.layout)
      BY <2>4 DEF LayoutMade, With
    <3>6. QED
      BY <3>3, <3>4, <3>5
  <2>5. CASE ~ (LayoutMade(c) /\ b = BusOf(c))
    <3>1. b \in DOMAIN layouts /\ layouts'[b] = layouts[b]
      <4>1. CASE LayoutMade(c)
        BY <2>5, <4>1 DEF LayoutMade, With
      <4>2. CASE ListPatched(c)
        <5>1. b \in DOMAIN layouts
          BY <4>2 DEF ListPatched
        <5>2. b # BusOf(c)
          BY <2>3, <4>2 DEF ListPatched, Unfits
        <5>3. QED
          BY <4>2, <5>1, <5>2 DEF ListPatched
      <4>3. CASE UNCHANGED layouts
        BY <4>3
      <4>4. QED
        BY <1>1, <2>1, <4>1, <4>2, <4>3, CallStepEffect
           DEF Quiet, BusInserted, BusPatched, ListWritten, layoutTables
    <3>2. b \notin patched
      BY <2>1, <2>3, <2>5, MakersMake
    <3>3. b \in DOMAIN buses
      BY <1>1, <3>1 DEF TypesInv, LayoutsTypeOK
    <3>4. buses'[b].capacity = buses[b].capacity
      BY <2>1, <2>3, <3>3, CapacityKept
    <3>5. QED
      BY <3>1, <3>2, <3>4 DEF FitInv, LayoutFits
  <2>6. QED
    BY <2>4, <2>5
<1>4. CASE Remember /\ ((\E d \in Calls, q \in Requests : Receive(d, q)) \/ LayoutsRestart)
  <2>1. UNCHANGED <<buses, layouts>> /\ \A c, x : ~ Wrote(c, x)
    BY <1>1, <1>4, OthersWriteNothing DEF layoutTables
  <2>2. b \notin patched
    BY <1>2, <1>4, <2>1 DEF Remember, MakesLayout, Completed
  <2>3. QED
    BY <2>1, <2>2 DEF FitInv, LayoutFits
<1>5. CASE UNCHANGED layoutVars
  BY <1>5 DEF layoutVars, layoutTables, FitInv, LayoutFits
<1>6. QED
  BY <1>3, <1>4, <1>5 DEF LayoutsNext, Step

(***************************************************************************)
(* A layout has the capacity of its bus in seats, and its preferential     *)
(* seats exist (fleet.service.ts:616, 652), unless a PATCH or a second     *)
(* writer came in between: for any number of calls.                        *)
(***************************************************************************)
THEOREM LayoutsFitBuses == LayoutsSpec => []LayoutFits
<1>1. LayoutsInit => FitInv
  BY DEF LayoutsInit, FitInv, LayoutFits, CapacitiesKnown
<1>2. BaseInv /\ FitInv /\ [LayoutsNext]_layoutVars => FitInv'
  BY NextFits, NextCapacities DEF FitInv
<1>3. FitInv => LayoutFits
  BY DEF FitInv
<1>4. QED
  BY <1>1, <1>2, <1>3, BaseHolds, PTL DEF LayoutsSpec


----------------------------------------------------------------------------
(* Both lists of preferential seats *)

\* What the first of a call's two writes has written, where it has a second to come.
HalfDone(c) ==
  LET call == calls[c] b == call.request.bus IN
  /\ call.pc = "layout" /\ call.request.op # "updateBus" =>
       buses[b].preferential = call.request.layout.preferential
  /\ /\ call.pc = "bus" /\ call.request.op = "updateBus"
     /\ call.request.preferential # None /\ b \in DOMAIN layouts
     => layouts[b].preferential = call.request.preferential

\* It is still there as long as nobody else wrote to that bus.
HalvesStand == \A c \in DOMAIN calls \ disturbed : HalfDone(c)

AgreeInv == PreferentialAgree /\ HalvesStand

(* The lists of a bus change only when a call writes to it. *)
LEMMA ListsKept ==
  ASSUME BaseInv, NEW c \in Calls, CallStep(c), NEW b,
         Wrote(c, BusOf(c)) => b # BusOf(c)
  PROVE  /\ b \in DOMAIN buses => buses'[b] = buses[b]
         /\ b \in DOMAIN layouts' <=> b \in DOMAIN layouts
         /\ b \in DOMAIN layouts => layouts'[b] = layouts[b]
<1>1. TypesInv /\ InsertsNew
  BY DEF BaseInv
<1>2. CASE Quiet(c)
  BY <1>2 DEF Quiet, layoutTables
<1>3. CASE BusInserted(c)
  BY <1>3 DEF BusInserted, With
<1>4. CASE LayoutMade(c)
  BY <1>4 DEF LayoutMade, With
<1>5. CASE ListPatched(c)
  BY <1>5 DEF ListPatched
<1>6. CASE BusPatched(c)
  BY <1>6 DEF BusPatched
<1>7. CASE ListWritten(c)
  BY <1>7 DEF ListWritten
<1>8. QED
  BY <1>1, <1>2, <1>3, <1>4, <1>5, <1>6, <1>7, CallStepEffect

(* What the mover has half done. *)
LEMMA MoverHalf ==
  ASSUME BaseInv, HalvesStand, NEW c \in Calls, CallStep(c)
  PROVE  HalfDone(c)'
<1>1. /\ TypesInv /\ InsertsNew /\ OneMoves(c) /\ c \in DOMAIN calls
      /\ calls'[c].request = calls[c].request
  BY CallStepTyped DEF BaseInv, StepTyped, OneMoves
<1>2. CASE Quiet(c)
  BY <1>1, <1>2 DEF Quiet, HalfDone, Laying
<1>3. CASE BusInserted(c)
  <2>1. buses'[BusOf(c)] = NewBus(calls[c].request) /\ calls'[c].pc # "bus"
    BY <1>3 DEF BusInserted, With
  <2>2. calls'[c].pc = "layout" /\ calls[c].request.op # "updateBus" =>
          calls[c].request.layout # None
    BY <1>1, <1>3 DEF BusInserted, Laying
  <2>3. QED
    BY <1>1, <2>1, <2>2 DEF HalfDone, NewBus, BusOf
<1>4. CASE LayoutMade(c) \/ BusPatched(c)
  BY <1>4 DEF LayoutMade, BusPatched, HalfDone
<1>5. CASE ListPatched(c)
  <2>1. \A b \in DOMAIN layouts : layouts[b] \in Layout
    BY <1>1 DEF TypesInv, LayoutsTypeOK, IsTable
  <2>2. BusOf(c) \in DOMAIN layouts' =>
          layouts'[BusOf(c)].preferential = calls[c].request.preferential
    BY <1>5, <2>1 DEF ListPatched, Layout
  <2>3. QED
    BY <1>1, <1>5, <2>2 DEF ListPatched, HalfDone, BusOf
<1>6. CASE ListWritten(c)
  <2>1. BusOf(c) \in DOMAIN buses /\ buses[BusOf(c)] \in Bus
    BY <1>1, <1>6
       DEF ListWritten, TypesInv, LayoutsTypeOK, IsTable, BusesThere, BusOf
  <2>2. buses'[BusOf(c)].preferential = calls[c].request.layout.preferential
    BY <1>6, <2>1 DEF ListWritten, Bus
  <2>3. QED
    BY <1>1, <1>6, <2>2 DEF ListWritten, HalfDone, BusOf
<1>7. QED
  BY <1>1, <1>2, <1>3, <1>4, <1>5, <1>6, CallStepEffect

LEMMA NextHalves ==
  BaseInv /\ HalvesStand /\ [LayoutsNext]_layoutVars => HalvesStand'
<1> SUFFICES ASSUME BaseInv, HalvesStand, [LayoutsNext]_layoutVars,
                    NEW c, c \in DOMAIN calls', c \notin disturbed'
             PROVE  HalfDone(c)'
  BY DEF HalvesStand
<1>1. TypesInv /\ InsertsNew /\ BaseInv'
  BY NextBase DEF BaseInv
<1>2. c \in Calls
  BY <1>1 DEF BaseInv, TypesInv, LayoutsTypeOK, IsTable
<1>3. CASE calls'[c].pc \notin {"bus", "layout"}
  BY <1>3 DEF HalfDone
<1>4. CASE Remember /\ calls'[c].pc \in {"bus", "layout"} /\ \E d \in Calls : CallStep(d)
  <2>1. PICK d \in Calls : CallStep(d)
    BY <1>4
  <2>2. OneMoves(d) /\ c \in DOMAIN calls
    BY <1>1, <2>1, CallStepTyped DEF StepTyped, OneMoves
  <2>3. CASE c = d
    BY <2>1, <2>3, MoverHalf
  <2>4. CASE c # d
    <3>1. calls'[c] = calls[c]
      BY <2>2, <2>4 DEF OneMoves
    <3>2. c \notin disturbed /\ (Wrote(d, BusOf(d)) => BusOf(c) # BusOf(d))
      BY <1>1, <1>4, <2>1, <2>2, <2>4, <3>1, Undisturbed
    <3>3. HalfDone(c)
      BY <2>2, <3>2 DEF HalvesStand
    <3>4. calls[c].pc = "layout" /\ calls[c].request.op # "updateBus" =>
            BusOf(c) \in DOMAIN buses
      BY <1>1, <2>2 DEF TypesInv, BusesThere, Laying, BusOf
    <3>5. /\ BusOf(c) \in DOMAIN buses => buses'[BusOf(c)] = buses[BusOf(c)]
          /\ BusOf(c) \in DOMAIN layouts' <=> BusOf(c) \in DOMAIN layouts
          /\ BusOf(c) \in DOMAIN layouts => layouts'[BusOf(c)] = layouts[BusOf(c)]
      BY <2>1, <3>2, ListsKept
    <3>6. QED
      BY <3>1, <3>3, <3>4, <3>5 DEF HalfDone, BusOf
  <2>5. QED
    BY <2>3, <2>4
<1>5. CASE /\ Remember /\ calls'[c].pc \in {"bus", "layout"}
           /\ (\E d \in Calls, q \in Requests : Receive(d, q)) \/ LayoutsRestart
  <2>1. /\ UNCHANGED <<buses, layouts>> /\ c \in DOMAIN calls /\ calls'[c] = calls[c]
        /\ Busy(c) /\ Busy(c)'
    BY <1>1, <1>5, OthersWriteNothing DEF layoutTables, Busy
  <2>2. c \notin disturbed
    BY <1>2, <1>5, <2>1 DEF Remember
  <2>3. HalfDone(c)
    BY <2>1, <2>2 DEF HalvesStand
  <2>4. QED
    BY <2>1, <2>3 DEF HalfDone
<1>6. CASE UNCHANGED layoutVars
  <2>1. UNCHANGED <<buses, layouts, calls, disturbed>>
    BY <1>6 DEF layoutVars, layoutTables
  <2>2. HalfDone(c)
    BY <2>1 DEF HalvesStand
  <2>3. QED
    BY <2>1, <2>2 DEF HalfDone
<1>7. QED
  BY <1>3, <1>4, <1>5, <1>6 DEF LayoutsNext, Step

(* A call that leaves the place between its writes finishes them or abandons them. *)
LEMMA LeavesBetween ==
  ASSUME BaseInv, NEW c \in Calls, CallStep(c), NEW b, Between(c, b)
  PROVE  \/ (LayoutMade(c) \/ (BusPatched(c) /\ calls[c].request.preferential # None))
            /\ b = BusOf(c)
         \/ Abandoned(c, b)
<1>1. TypesInv /\ InsertsNew /\ OneMoves(c) /\ c \in DOMAIN calls
  BY CallStepTyped DEF BaseInv, StepTyped, OneMoves
<1>2. /\ calls[c].pc \in {"bus", "layout"} /\ b = BusOf(c)
      /\ calls[c].request.op = "updateBus" =>
           calls[c].pc = "bus" /\ calls[c].request.preferential # None
      /\ calls[c].request.op # "updateBus" => calls[c].pc = "layout"
  BY DEF Between, Writing, BusOf
<1>3. CASE Quiet(c)
  <2>1. ~ Busy(c)' /\ ~ Wrote(c, b)
    BY <1>1, <1>2, <1>3 DEF Quiet, Busy
  <2>2. QED
    BY <2>1 DEF Abandoned, Completed
<1>4. CASE LayoutMade(c) \/ BusPatched(c)
  BY <1>2, <1>4 DEF LayoutMade, BusPatched
<1>5. CASE BusInserted(c) \/ ListPatched(c) \/ ListWritten(c)
  BY <1>2, <1>5 DEF BusInserted, ListPatched, ListWritten, Laying
<1>6. QED
  BY <1>1, <1>3, <1>4, <1>5, CallStepEffect


\* c has written the second of two lists to bus b.
SecondWritten(c, b) ==
  /\ LayoutMade(c) \/ (BusPatched(c) /\ calls[c].request.preferential # None)
  /\ b = BusOf(c)

(* Who makes the lists of a bus has just written the second. *)
LEMMA ListMakers ==
  ASSUME BaseInv, NEW c \in Calls, CallStep(c), NEW d, NEW b
  PROVE  MakesLists(d, b) <=> d = c /\ SecondWritten(c, b)
<1>1. TypesInv /\ InsertsNew /\ OneMoves(c) /\ c \in DOMAIN calls
  BY CallStepTyped DEF BaseInv, StepTyped, OneMoves
<1>2. ASSUME MakesLists(d, b)  PROVE d = c /\ SecondWritten(c, b)
  <2>1. /\ Wrote(d, b) /\ ~ Busy(d)'
        /\ calls[d].request.op = "updateBus" => calls[d].request.preferential # None
    BY <1>2 DEF MakesLists, Completed
  <2>2. d = c /\ b = BusOf(c) /\ calls'[c].pc = "done"
    BY <1>1, <2>1, OneWrites DEF Busy, OneMoves
  <2>3. QED
    BY <1>1, <2>1, <2>2, CallStepEffect
       DEF Quiet, BusInserted, ListPatched, ListWritten, BusPatched, SecondWritten
<1>3. ASSUME SecondWritten(c, b)  PROVE MakesLists(c, b)
  BY <1>1, <1>3
     DEF SecondWritten, LayoutMade, BusPatched, MakesLists, Completed, Busy, OneMoves, Laying
<1>4. QED
  BY <1>2, <1>3

LEMMA NextAgree ==
  BaseInv /\ AgreeInv /\ [LayoutsNext]_layoutVars => PreferentialAgree'
<1> SUFFICES ASSUME BaseInv, AgreeInv, [LayoutsNext]_layoutVars,
                    NEW b, b \in DOMAIN layouts', b \notin torn',
                    \A c \in DOMAIN calls' : ~ Between(c, b)'
             PROVE  buses'[b].preferential = layouts'[b].preferential
  BY DEF PreferentialAgree
<1>1. TypesInv /\ InsertsNew /\ BaseInv'
  BY NextBase DEF BaseInv
<1>2. b \in Buses
  BY <1>1 DEF BaseInv, TypesInv, LayoutsTypeOK, IsTable
<1>3. CASE Remember /\ \E d \in Calls : CallStep(d)
  <2>1. PICK c \in Calls : CallStep(c)
    BY <1>3
  <2>2. OneMoves(c) /\ c \in DOMAIN calls
    BY <1>1, <2>1, CallStepTyped DEF StepTyped, OneMoves
  <2>3. /\ ~ Abandoned(c, b) /\ (MakesLists(c, b) => c \notin disturbed)
        /\ b \in torn => \E d \in Calls : MakesLists(d, b)
    BY <1>2, <1>3 DEF Remember
  <2>4. CASE SecondWritten(c, b)
    <3>1. HalfDone(c) /\ b = BusOf(c)
      BY <2>1, <2>2, <2>3, <2>4, ListMakers DEF AgreeInv, HalvesStand, SecondWritten
    <3>2. CASE LayoutMade(c)
      <4>1. calls[c].request.layout \in Layout
        BY <1>1, <2>2, <3>2, MadeWellFormed DEF LayoutMade
      <4>2. layouts'[b] = Sanitized(calls[c].request.layout)
        BY <3>1, <3>2 DEF LayoutMade, With
      <4>3. layouts'[b].preferential = calls[c].request.layout.preferential
        BY <4>1, <4>2, SanitizedSame
      <4>4. buses'[b].preferential = calls[c].request.layout.preferential
        BY <3>1, <3>2 DEF LayoutMade, Laying, HalfDone, BusOf
      <4>5. QED
        BY <4>3, <4>4
    <3>3. CASE BusPatched(c) /\ calls[c].request.preferential # None
      <4>1. b \in DOMAIN layouts /\ b \in DOMAIN buses
        BY <1>1, <3>3 DEF BusPatched, TypesInv, LayoutsTypeOK
      <4>2. buses[b] \in Bus
        BY <1>1, <4>1 DEF TypesInv, LayoutsTypeOK, IsTable
      <4>3. buses'[b].preferential = calls[c].request.preferential
        BY <3>1, <3>3, <4>1, <4>2 DEF BusPatched, Patched, Bus
      <4>4. layouts'[b].preferential = calls[c].request.preferential
        BY <3>1, <3>3, <4>1 DEF BusPatched, HalfDone, BusOf
      <4>5. QED
        BY <4>3, <4>4
    <3>4. QED
      BY <2>4, <3>2, <3>3 DEF SecondWritten
  <2>5. CASE ~ SecondWritten(c, b)
    <3>1. ~ ((ListPatched(c) \/ ListWritten(c)) /\ b = BusOf(c))
      <4>1. ASSUME ListPatched(c) \/ ListWritten(c), b = BusOf(c)  PROVE FALSE
        <5>1. Between(c, b)' /\ c \in DOMAIN calls'
          BY <2>2, <4>1 DEF ListPatched, ListWritten, Between, Writing, Busy, OneMoves,
                            BusOf, Laying
        <5>2. QED
          BY <5>1
      <4>2. QED
        BY <4>1
    <3>2. /\ b \in DOMAIN layouts /\ layouts'[b] = layouts[b]
          /\ buses'[b].preferential = buses[b].preferential
      <4>1. CASE Wrote(c, BusOf(c)) => b # BusOf(c)
        <5>1. b \in DOMAIN layouts /\ layouts'[b] = layouts[b]
          BY <2>1, <4>1, ListsKept
        <5>2. b \in DOMAIN buses
          BY <1>1, <5>1 DEF TypesInv, LayoutsTypeOK
        <5>3. QED
          BY <2>1, <4>1, <5>1, <5>2, ListsKept
      <4>2. CASE Wrote(c, BusOf(c)) /\ b = BusOf(c)
        <5>1. BusPatched(c) /\ calls[c].request.preferential = None
          BY <1>1, <2>1, <2>5, <3>1, <4>2, CallStepEffect
             DEF Quiet, BusInserted, SecondWritten
        <5>2. b \in DOMAIN layouts /\ layouts'[b] = layouts[b] /\ b \in DOMAIN buses
          BY <1>1, <5>1 DEF BusPatched, TypesInv, LayoutsTypeOK
        <5>3. buses[b] \in Bus
          BY <1>1, <5>2 DEF TypesInv, LayoutsTypeOK, IsTable
        <5>4. buses'[b].preferential = buses[b].preferential
          BY <4>2, <5>1, <5>2, <5>3 DEF BusPatched, Patched, Bus
        <5>5. QED
          BY <5>2, <5>4
      <4>3. QED
        BY <4>1, <4>2
    <3>3. b \notin torn
      BY <2>1, <2>3, <2>5, ListMakers
    <3>4. \A d \in DOMAIN calls : ~ Between(d, b)
      <4>1. ~ Between(c, b)
        BY <2>1, <2>3, <2>5, LeavesBetween DEF SecondWritten
      <4>2. ASSUME NEW d \in DOMAIN calls, d # c, Between(d, b)  PROVE FALSE
        <5>1. calls'[d] = calls[d] /\ d \in DOMAIN calls'
          BY <2>2, <4>2 DEF OneMoves
        <5>2. Between(d, b)'
          BY <4>2, <5>1 DEF Between, Writing, Busy
        <5>3. QED
          BY <5>1, <5>2
      <4>3. QED
        BY <4>1, <4>2
    <3>5. QED
      BY <3>2, <3>3, <3>4 DEF AgreeInv, PreferentialAgree
  <2>6. QED
    BY <2>4, <2>5
<1>4. CASE Remember /\ ((\E d \in Calls, q \in Requests : Receive(d, q)) \/ LayoutsRestart)
  <2>1. UNCHANGED <<buses, layouts>> /\ \A c, x : ~ Wrote(c, x)
    BY <1>1, <1>4, OthersWriteNothing DEF layoutTables
  <2>2. /\ \A c \in Calls : ~ Abandoned(c, b)
        /\ b \notin torn
    BY <1>2, <1>4, <2>1 DEF Remember, MakesLists, Completed
  <2>3. ASSUME NEW d \in DOMAIN calls, Between(d, b)  PROVE FALSE
    <3>1. d \in Calls /\ Busy(d)
      BY <1>1, <2>3, CallAt DEF Between, Writing
    <3>2. Busy(d)'
      BY <2>1, <2>2, <2>3, <3>1 DEF Abandoned, Completed
    <3>3. calls'[d] = calls[d] /\ d \in DOMAIN calls'
      <4>1. CASE LayoutsRestart
        BY <1>1, <3>2, <4>1, RestartTyped DEF Busy
      <4>2. CASE \E c \in Calls, q \in Requests : Receive(c, q)
        BY <1>1, <3>1, <4>2, ReceiveTyped DEF Receive
      <4>3. QED
        BY <1>4, <4>1, <4>2
    <3>4. Between(d, b)'
      BY <2>3, <3>3 DEF Between, Writing, Busy
    <3>5. QED
      BY <3>3, <3>4
  <2>4. QED
    BY <2>1, <2>2, <2>3 DEF AgreeInv, PreferentialAgree
<1>5. CASE UNCHANGED layoutVars
  <2>1. UNCHANGED <<buses, layouts, calls, torn>>
    BY <1>5 DEF layoutVars, layoutTables
  <2>2. \A c \in DOMAIN calls : ~ Between(c, b)
    BY <2>1 DEF Between, Writing, Busy
  <2>3. QED
    BY <2>1, <2>2 DEF AgreeInv, PreferentialAgree
<1>6. QED
  BY <1>3, <1>4, <1>5 DEF LayoutsNext, Step

(***************************************************************************)
(* 'Also update layout's preferentialSeats' (fleet.service.ts:555): the    *)
(* lists of a bus and of its layout agree between calls, unless the last   *)
(* to write them stopped midway or was mixed up with another: for any      *)
(* number of calls and layouts.                                            *)
(***************************************************************************)
THEOREM ListsAgree == LayoutsSpec => []PreferentialAgree
<1>1. LayoutsInit => AgreeInv
  BY DEF LayoutsInit, AgreeInv, PreferentialAgree, HalvesStand
<1>2. BaseInv /\ AgreeInv /\ [LayoutsNext]_layoutVars => AgreeInv'
  BY NextAgree, NextHalves DEF AgreeInv
<1>3. AgreeInv => PreferentialAgree
  BY DEF AgreeInv
<1>4. QED
  BY <1>1, <1>2, <1>3, BaseHolds, PTL DEF LayoutsSpec
=============================================================================
