----------------------------- MODULE BusLayouts -----------------------------
(***************************************************************************)
(* Buses and their seat layouts, as FleetService writes them: createBus,   *)
(* updateBus and updateBusLayout keep a capacity and a list of             *)
(* preferential seats in the table of buses, and a layout with its own     *)
(* such list in another, in single statements without a transaction.       *)
(*                                                                         *)
(* A layout is validated against the bus that was read, before it is       *)
(* written.  WellFormed says, without the checks of the code, what layout  *)
(* a bus should have; of the order of a row's cells it says nothing, as    *)
(* the code does and unlike the message it refuses a row with.             *)
(***************************************************************************)
EXTENDS Integers, Sequences, FiniteSets

CONSTANTS
  Buses,     \* bus ids
  Plates,    \* number plates, and identification numbers with them
  Towns,     \* municipalities
  Staff,     \* user ids
  Leads,     \* Leads[b]: the leaders of trips with bus b
  Columns,   \* cells in a row: 5
  Calls,     \* calls in flight at once (a bound)
  Requests,  \* what they may ask, a subset of Request
  Drafts,    \* layouts the validation is compared on, any of Layout
  None       \* NULL

VARIABLES
  buses,      \* bus id -> its town, driver, plate, capacity, preferential seats
  layouts,    \* bus id -> its row of bus_layouts
  calls,      \* call -> its request, how far it has come, the capacity it read
  disturbed,  \* history: calls whose bus another call wrote since they read it
  patched,    \* history: buses patched since their layout was made for them
  torn        \* history: buses whose last writer stopped midway or was disturbed

layoutTables == <<buses, layouts>>
layoutVars == <<layoutTables, calls, disturbed, patched, torn>>

----------------------------------------------------------------------------

Kinds == {"SEAT", "AISLE", "EMPTY", "BATHROOM", "BOX"}

\* Seat numbers are any integers, as far as the DTO goes.
Number == Int \cup {None}
SeatList == Seq(Int)

Cell == [col: Int, type: Kinds, number: Number, dpm: BOOLEAN]

\* BusLayoutDto and a row of bus_layouts.
Layout == [rows: Seq(Seq(Cell)), dpm: Number, preferential: SeatList]

Bus == [town: Towns, driver: Staff \cup {None}, plate: Plates,
        capacity: Nat, preferential: SeatList \cup {None}]

Roles == {"SUPER_ADMIN", "MANAGER", "DRIVER", "STUDENT"}
User == [id: Staff, role: Roles, town: Towns]

\* Whatever may be None is left out of the body; town is a municipality in the body.
Request ==
  [op: {"createBus"}, by: User, bus: Buses, town: Towns \cup {None}, plate: Plates,
   capacity: Nat, preferential: SeatList \cup {None}, layout: Layout \cup {None}]
    \cup [op: {"updateBus"}, by: User, bus: Buses, town: Towns \cup {None},
          plate: Plates \cup {None}, capacity: Nat \cup {None},
          preferential: SeatList \cup {None}]
    \cup [op: {"updateBusLayout"}, by: User, bus: Buses, layout: Layout]

Statements == {"insert", "guard", "find", "bus", "layout"}

\* capacity is that of the bus as the call inserted or read it.
Call ==
  [request: Request, pc: Statements \cup {"done"}, capacity: Nat \cup {None},
   answer: {"none", "200", "201", "400", "403", "404", "500"}]

IsTable(f, Keys, Row) == DOMAIN f \subseteq Keys /\ f \in [DOMAIN f -> Row]

ASSUME LayoutsAssumption ==
  /\ Columns \in Nat \ {0}
  /\ Leads \in [Buses -> SUBSET Staff]
  /\ None \notin Int \cup Buses \cup Plates \cup Towns \cup Staff
  /\ None \notin SeatList /\ None \notin Layout
  /\ Requests \subseteq Request /\ Drafts \subseteq Layout

LayoutsTypeOK ==
  /\ IsTable(buses, Buses, Bus)
  /\ IsTable(layouts, Buses, Layout) /\ DOMAIN layouts \subseteq DOMAIN buses
  /\ IsTable(calls, Calls, Call)
  /\ disturbed \subseteq Calls
  /\ patched \subseteq Buses /\ torn \subseteq Buses

----------------------------------------------------------------------------
(* validateAndSanitizeLayout *)

Cells(l) == UNION {{r} \X (1..Len(l.rows[r])) : r \in 1..Len(l.rows)}
CellAt(l, p) == l.rows[p[1]][p[2]]

Seats(l) == {p \in Cells(l) : CellAt(l, p).type = "SEAT"}
Numbers(l) == {CellAt(l, p).number : p \in Seats(l)}
Preferential(l) == {l.preferential[i] : i \in 1..Len(l.preferential)}
DpmCells(l) == {p \in Cells(l) : CellAt(l, p).dpm}

\* Each row has the columns 1 to Columns, in any order: they are sorted before they are
\* compared, though the message of the refusal asks for them 'em ordem' (in order).
RowsComplete(l) ==
  /\ l.rows # <<>>
  /\ \A r \in 1..Len(l.rows) :
       /\ Len(l.rows[r]) = Columns
       /\ {l.rows[r][i].col : i \in 1..Columns} = 1..Columns

\* Mutant of NumbersSequential: gaps and numbers beyond the last are not looked for.
NumbersUnique(capacity, l) == Cardinality(Numbers(l)) = Cardinality(Seats(l))

NumbersSequential(capacity, l) ==
  /\ Cardinality(Numbers(l)) = Cardinality(Seats(l))
  /\ 1..capacity \subseteq Numbers(l)

\* Mutant of DpmAccepted: other cells may be marked too.
DpmSomewhere(l) ==
  IF l.dpm = None THEN DpmCells(l) = {}
  ELSE \E p \in Seats(l) : CellAt(l, p).number = l.dpm /\ CellAt(l, p).dpm

DpmAccepted(l) ==
  IF l.dpm = None THEN DpmCells(l) = {}
  ELSE /\ \E p \in Seats(l) : CellAt(l, p).number = l.dpm /\ CellAt(l, p).dpm
       /\ Cardinality(DpmCells(l)) = 1

\* Mutant of PreferentialAccepted: the preferential seats are taken as they come.
PreferentialUnchecked(l) == TRUE

PreferentialAccepted(l) == Preferential(l) \subseteq Numbers(l)

Valid(capacity, l) ==
  /\ RowsComplete(l)
  /\ Cardinality(Seats(l)) = capacity
  /\ NumbersSequential(capacity, l)
  /\ DpmAccepted(l)
  /\ PreferentialAccepted(l)

SanitizedCell(cell) ==
  IF cell.type = "SEAT" THEN cell ELSE [cell EXCEPT !.number = None, !.dpm = FALSE]

Sanitized(l) ==
  [l EXCEPT !.rows = [r \in 1..Len(l.rows) |->
     [i \in 1..Len(l.rows[r]) |-> SanitizedCell(l.rows[r][i])]]]

----------------------------------------------------------------------------
(* What a layout should be, in words of its own *)

\* Every row has every column, and has it once.  This asks for no order among the cells of
\* a row, and so for less than the message of the refusal, 'em ordem'
\* (fleet.service.ts:614): the code stores a row in the order it came in, and whoever
\* draws it has to go by the col of each cell.
RowsFull(l) ==
  /\ Len(l.rows) > 0
  /\ \A r \in 1..Len(l.rows) : \A k \in 1..Columns :
       \E i \in 1..Len(l.rows[r]) :
         /\ l.rows[r][i].col = k
         /\ \A j \in 1..Len(l.rows[r]) : l.rows[r][j].col = k => j = i
  /\ \A p \in Cells(l) : CellAt(l, p).col \in 1..Columns

\* The seats bear the numbers from 1 to n, each of them one.
SeatsNumbered(n, l) ==
  /\ \A p \in Seats(l) : CellAt(l, p).number \in 1..n
  /\ \A m \in 1..n : \E p \in Seats(l) : CellAt(l, p).number = m
  /\ \A p, q \in Seats(l) : CellAt(l, p).number = CellAt(l, q).number => p = q

\* The DPM seat is the one seat marked so, and nothing else is.
DpmRight(l) ==
  /\ \A p \in Cells(l) : CellAt(l, p).dpm =>
       p \in Seats(l) /\ CellAt(l, p).number = l.dpm
  /\ l.dpm # None => \E p \in Seats(l) : CellAt(l, p).dpm /\ CellAt(l, p).number = l.dpm

WellFormed(n, l) ==
  RowsFull(l) /\ SeatsNumbered(n, l) /\ DpmRight(l) /\ Preferential(l) \subseteq 1..n

----------------------------------------------------------------------------
(* Calls *)

With(f, k, v) == [x \in DOMAIN f \cup {k} |-> IF x = k THEN v ELSE f[x]]

At(c, op, pc) ==
  c \in DOMAIN calls /\ calls[c].request.op = op /\ calls[c].pc = pc

Busy(c) == c \in DOMAIN calls /\ calls[c].pc # "done"

Answer(c, code) ==
  calls' = [calls EXCEPT ![c].pc = "done", ![c].answer = code]

Advance(c, pc) == calls' = [calls EXCEPT ![c].pc = pc]

\* Goes on with the capacity of the bus it has inserted or read.
Proceed(c, pc, capacity) ==
  calls' = [calls EXCEPT ![c].pc = pc, ![c].capacity = capacity]

Refuse(c, code) == Answer(c, code) /\ UNCHANGED layoutTables

FirstStatement(q) ==
  CASE q.op = "createBus" -> "insert"
    [] q.op = "updateBus" -> "guard"
    [] q.op = "updateBusLayout" -> "find"

\* A fresh UUID: no row and no other call has it.
FreshBus(b) == b \notin DOMAIN buses /\ \A c \in DOMAIN calls : calls[c].request.bus # b

Receive(c, q) ==
  /\ ~ Busy(c)
  /\ q.op = "createBus" => FreshBus(q.bus)
  /\ calls' = With(calls, c,
       [request |-> q, pc |-> FirstStatement(q), capacity |-> None, answer |-> "none"])
  /\ UNCHANGED layoutTables

\* The municipality a manager or super admin names, or the caller's own.
TownOf(q) ==
  IF q.by.role \in {"MANAGER", "SUPER_ADMIN"} /\ q.town # None THEN q.town ELSE q.by.town

\* @Roles('DRIVER', 'MANAGER'), which lets a super admin in.
MayEquip(by) == by.role \in {"SUPER_ADMIN", "MANAGER", "DRIVER"}

\* UNIQUE (municipality, plate), and the same of the identification number.
PlateTaken(town, plate, b) ==
  \E d \in DOMAIN buses \ {b} : buses[d].town = town /\ buses[d].plate = plate

----------------------------------------------------------------------------
(* createBus *)

\* The list in the layout goes before the one beside it.
NewBus(q) ==
  [town |-> TownOf(q), driver |-> IF q.by.role = "DRIVER" THEN q.by.id ELSE None,
   plate |-> q.plate, capacity |-> q.capacity,
   preferential |-> IF q.layout # None THEN q.layout.preferential ELSE q.preferential]

\* The bus is inserted before its layout is looked at, and stays if that is refused.
InsertBus(c) ==
  LET q == calls[c].request IN
  /\ At(c, "createBus", "insert")
  /\ \/ ~ MayEquip(q.by) /\ Refuse(c, "403")
     \/ MayEquip(q.by) /\ PlateTaken(TownOf(q), q.plate, q.bus) /\ Refuse(c, "500")
     \/ /\ MayEquip(q.by) /\ ~ PlateTaken(TownOf(q), q.plate, q.bus)
        /\ buses' = With(buses, q.bus, NewBus(q))
        /\ UNCHANGED layouts
        /\ IF q.layout = None THEN Answer(c, "201")
           ELSE IF Valid(q.capacity, q.layout) THEN Proceed(c, "layout", q.capacity)
           ELSE Answer(c, "400")

\* Not an upsert: the primary key refuses a layout when there is one by now.
InsertLayout(c) ==
  LET q == calls[c].request IN
  /\ At(c, "createBus", "layout")
  /\ IF q.bus \in DOMAIN layouts THEN Refuse(c, "500")
     ELSE /\ layouts' = With(layouts, q.bus, Sanitized(q.layout))
          /\ Answer(c, "201")
          /\ UNCHANGED buses

----------------------------------------------------------------------------
(* updateBus, behind BusLeaderGuard *)

MayPatch(q) ==
  \/ q.by.role = "SUPER_ADMIN"
  \/ /\ q.bus \in DOMAIN buses /\ buses[q.bus].town = q.by.town
     /\ CASE q.by.role = "MANAGER" -> TRUE
          [] q.by.role = "DRIVER" -> buses[q.bus].driver = q.by.id
          [] OTHER -> q.by.id \in Leads[q.bus]

GuardPatch(c) ==
  LET q == calls[c].request IN
  /\ At(c, "updateBus", "guard")
  /\ IF MayPatch(q) THEN Advance(c, IF q.preferential = None THEN "bus" ELSE "layout")
                    ELSE Answer(c, "403")
  /\ UNCHANGED layoutTables

\* By the id of the bus alone, whatever its municipality; no row is no error.
PatchLayout(c) ==
  LET q == calls[c].request IN
  /\ At(c, "updateBus", "layout")
  /\ layouts' = IF q.bus \in DOMAIN layouts
                  THEN [layouts EXCEPT ![q.bus].preferential = q.preferential] ELSE layouts
  /\ Advance(c, "bus")
  /\ UNCHANGED buses

\* Mutant of Patched: what the body leaves out becomes null.
PatchedBlindly(bus, q) == [bus EXCEPT !.capacity = q.capacity, !.preferential = q.preferential]

\* The columns in the body, the others as they are.
Patched(bus, q) ==
  [bus EXCEPT !.plate = IF q.plate = None THEN @ ELSE q.plate,
              !.capacity = IF q.capacity = None THEN @ ELSE q.capacity,
              !.preferential = IF q.preferential = None THEN @ ELSE q.preferential]

PatchBus(c) ==
  LET q == calls[c].request
      found == q.bus \in DOMAIN buses /\ buses[q.bus].town = TownOf(q)
      taken == q.plate # None /\ PlateTaken(TownOf(q), q.plate, q.bus)
  IN
  /\ At(c, "updateBus", "bus")
  /\ \/ ~ found /\ Refuse(c, "404")
     \/ found /\ taken /\ Refuse(c, "500")
     \/ /\ found /\ ~ taken
        /\ buses' = [buses EXCEPT ![q.bus] = Patched(@, q)]
        /\ Answer(c, "200")
        /\ UNCHANGED layouts

----------------------------------------------------------------------------
(* updateBusLayout *)

Visible(b, by) ==
  b \in DOMAIN buses /\ (by.role = "SUPER_ADMIN" \/ buses[b].town = by.town)

OwnBus(b, by) == by.role = "DRIVER" => buses[b].driver = by.id

FindBus(c) ==
  LET q == calls[c].request IN
  /\ At(c, "updateBusLayout", "find")
  /\ \/ ~ MayEquip(q.by) /\ Answer(c, "403")
     \/ MayEquip(q.by) /\ ~ Visible(q.bus, q.by) /\ Answer(c, "404")
     \/ /\ MayEquip(q.by) /\ Visible(q.bus, q.by)
        /\ IF ~ OwnBus(q.bus, q.by) THEN Answer(c, "403")
           ELSE calls' = [calls EXCEPT
                  ![c].capacity = buses[q.bus].capacity,
                  ![c].pc = IF Valid(buses[q.bus].capacity, q.layout) THEN "bus" ELSE "done",
                  ![c].answer = IF Valid(buses[q.bus].capacity, q.layout) THEN @ ELSE "400"]
  /\ UNCHANGED layoutTables

WriteBus(c) ==
  LET q == calls[c].request IN
  /\ At(c, "updateBusLayout", "bus")
  /\ buses' = [buses EXCEPT ![q.bus].preferential = q.layout.preferential]
  /\ Advance(c, "layout")
  /\ UNCHANGED layouts

\* Mutant of Replaced: an upsert that keeps the list of a layout there is.
ReplacedRows(b, l) ==
  IF b \in DOMAIN layouts THEN [l EXCEPT !.preferential = layouts[b].preferential] ELSE l

Replaced(b, l) == l

\* INSERT ... ON CONFLICT (bus_id) DO UPDATE; the SELECT after it only reads.
WriteLayout(c) ==
  LET q == calls[c].request IN
  /\ At(c, "updateBusLayout", "layout")
  /\ layouts' = With(layouts, q.bus, Replaced(q.bus, Sanitized(q.layout)))
  /\ Answer(c, "200")
  /\ UNCHANGED buses

----------------------------------------------------------------------------

LayoutsRestart ==
  /\ calls' = [c \in {d \in DOMAIN calls : ~ Busy(d)} |-> calls[c]]
  /\ UNCHANGED layoutTables

CallStep(c) ==
  \/ InsertBus(c) \/ InsertLayout(c)
  \/ GuardPatch(c) \/ PatchLayout(c) \/ PatchBus(c)
  \/ FindBus(c) \/ WriteBus(c) \/ WriteLayout(c)

Step ==
  \/ \E c \in Calls, q \in Requests : Receive(c, q)
  \/ \E c \in Calls : CallStep(c)
  \/ LayoutsRestart

----------------------------------------------------------------------------
(* The history variables: nothing in the code, and no guard reads them. *)

\* A call past its first statement, which has writes before it.
Writing(c, b) == Busy(c) /\ calls[c].pc \in {"bus", "layout"} /\ calls[c].request.bus = b

Moves(c) == Busy(c) /\ c \in DOMAIN calls' /\ calls'[c].pc # calls[c].pc

Wrote(c, b) == Writing(c, b) /\ Moves(c) /\ calls'[c].answer \notin {"404", "500"}

Completed(c, b) == Wrote(c, b) /\ ~ Busy(c)'

\* One list of preferential seats is written, the other is not.
Between(c, b) ==
  /\ Writing(c, b)
  /\ IF calls[c].request.op = "updateBus"
       THEN calls[c].pc = "bus" /\ calls[c].request.preferential # None
       ELSE calls[c].pc = "layout"

Abandoned(c, b) == Between(c, b) /\ ~ Busy(c)' /\ ~ Completed(c, b)

\* A write of updateBus that a layout need not agree with.
Unfits(c, b) ==
  /\ Wrote(c, b) /\ calls[c].request.op = "updateBus"
  /\ calls[c].request.capacity # None \/ calls[c].request.preferential # None

MakesLayout(c, b) == Completed(c, b) /\ calls[c].request.op # "updateBus"

\* It has written both lists of preferential seats.
MakesLists(c, b) ==
  Completed(c, b)
    /\ (calls[c].request.op = "updateBus" => calls[c].request.preferential # None)

Remember ==
  /\ disturbed' = {c \in Calls : Busy(c) /\ Busy(c)' /\
       (c \in disturbed \/ \E b \in Buses, d \in Calls \ {c} : Writing(c, b) /\ Wrote(d, b))}
  /\ patched' = {b \in Buses :
       \/ \E c \in Calls : Unfits(c, b)
       \/ \E c \in Calls : MakesLayout(c, b) /\ c \in disturbed
       \/ b \in patched /\ ~ \E c \in Calls : MakesLayout(c, b)}
  /\ torn' = {b \in Buses :
       \/ \E c \in Calls : Abandoned(c, b)
       \/ \E c \in Calls : MakesLists(c, b) /\ c \in disturbed
       \/ b \in torn /\ ~ \E c \in Calls : MakesLists(c, b)}

----------------------------------------------------------------------------

LayoutsInit ==
  /\ buses = [b \in {} |-> b] /\ layouts = [b \in {} |-> b] /\ calls = [c \in {} |-> c]
  /\ disturbed = {} /\ patched = {} /\ torn = {}

LayoutsNext == Step /\ Remember

LayoutsSpec == LayoutsInit /\ [][LayoutsNext]_layoutVars

----------------------------------------------------------------------------
(* Properties *)

MarkedSeatsOnly(l) == DpmCells(l) \subseteq Seats(l)

(***************************************************************************)
(* The checks of validateAndSanitizeLayout (fleet.service.ts:580) accept   *)
(* just the layouts whose rewritten form is well-formed and whose other    *)
(* cells are not marked DPM, for any capacity up to one more than there    *)
(* are cells.  Well-formed is to be read as above: the cells of a row may  *)
(* stand in any order, so a layout that the words 'em ordem' of line 614   *)
(* exclude is accepted.  It says nothing of a state: it is evaluated where *)
(* there is no bus and no call.                                            *)
(***************************************************************************)
ValidationExact ==
  DOMAIN buses \cup DOMAIN calls = {} =>
    \A l \in Drafts : \A n \in 0..(Cardinality(Cells(l)) + 1) :
      Valid(n, l) <=> WellFormed(n, Sanitized(l)) /\ MarkedSeatsOnly(l)

(***************************************************************************)
(* Whatever came in, together or after one another: every layout there is  *)
(* has full rows, in whatever order their cells stand, its seats are       *)
(* numbered from 1 without a gap, each number once, and its DPM seat is    *)
(* the one marked (fleet.service.ts:580).                                  *)
(***************************************************************************)
LayoutsNumbered ==
  \A b \in DOMAIN layouts :
    LET l == layouts[b]
    IN  RowsFull(l) /\ SeatsNumbered(Cardinality(Seats(l)), l) /\ DpmRight(l)

(***************************************************************************)
(* A layout has as many seats as its bus has capacity, and its             *)
(* preferential seats exist (fleet.service.ts:616, 652), unless the bus    *)
(* was patched since the layout was made, or written by another call       *)
(* between the statement that read it and the one that wrote the layout.   *)
(***************************************************************************)
LayoutFits ==
  \A b \in DOMAIN layouts \ patched : WellFormed(buses[b].capacity, layouts[b])

(***************************************************************************)
(* 'Also update layout's preferentialSeats' (fleet.service.ts:555): bus    *)
(* and layout name the same preferential seats whenever no call is between *)
(* its two writes, unless the last to write them stopped midway (a         *)
(* restart, or a PATCH refused after it had changed the layout) or was     *)
(* mixed up with another.  An undisturbed call makes them agree again.     *)
(***************************************************************************)
PreferentialAgree ==
  \A b \in DOMAIN layouts \ torn :
    (\A c \in DOMAIN calls : ~ Between(c, b)) =>
      buses[b].preferential = layouts[b].preferential
=============================================================================
