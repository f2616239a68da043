----------------------------- MODULE MCLayouts -----------------------------
(***************************************************************************)
(* A small instance of BusLayouts for TLC: rows of two cells, two buses of *)
(* one town, and a handful of good and bad layouts for one or two seats.   *)
(***************************************************************************)
EXTENDS BusLayouts, TLC

CONSTANTS b1, b2, p1, p2, here, there, driver, other

MCLeads == [b \in {b1, b2} |-> {other}]

Person(id, role, town) == [id |-> id, role |-> role, town |-> town]
Driver == Person(driver, "DRIVER", here)
Manager == Person(other, "MANAGER", here)
Admin == Person(other, "SUPER_ADMIN", there)

Seat(col, n) == [col |-> col, type |-> "SEAT", number |-> n, dpm |-> FALSE]
Aisle(col) == [col |-> col, type |-> "AISLE", number |-> None, dpm |-> FALSE]
Plan(rows, dpm, preferential) == [rows |-> rows, dpm |-> dpm, preferential |-> preferential]

\* Good for one seat, with and without a DPM seat; good for two seats.
OneSeat == Plan(<<<<Seat(1, 1), Aisle(2)>>>>, None, <<>>)
DpmSeat == Plan(<<<<Aisle(2), [Seat(1, 1) EXCEPT !.dpm = TRUE]>>>>, 1, <<1>>)
TwoSeats == Plan(<<<<Seat(1, 1), Seat(2, 2)>>>>, None, <<2>>)

\* Bad: a number beyond the last, a preferential seat there is not.
GapSeat == Plan(<<<<Seat(1, 2), Aisle(2)>>>>, None, <<>>)
NoSuchSeat == Plan(<<<<Seat(1, 1), Aisle(2)>>>>, None, <<2>>)

Create(by, b, p, capacity, layout) ==
  [op |-> "createBus", by |-> by, bus |-> b, town |-> None, plate |-> p,
   capacity |-> capacity, preferential |-> None, layout |-> layout]

Patch(by, b, town, p, capacity, preferential) ==
  [op |-> "updateBus", by |-> by, bus |-> b, town |-> town, plate |-> p,
   capacity |-> capacity, preferential |-> preferential]

Put(by, b, layout) == [op |-> "updateBusLayout", by |-> by, bus |-> b, layout |-> layout]

\* A student leads trips with the bus, another does not; a super admin names no
\* municipality and so his own; a PATCH may take the plate of the other bus.
MCRequests ==
  {Create(Driver, b1, p1, 1, l) : l \in {OneSeat, GapSeat}}
    \cup {Create(Manager, b2, p, 1, None) : p \in {p1, p2}}
    \cup {Patch(Manager, b1, None, None, 2, None), Patch(Driver, b1, None, None, None, <<2>>),
          Patch(Driver, b1, None, p2, None, <<1>>), Patch(Admin, b1, None, None, None, <<2>>)}
    \cup {Patch(Person(u, "STUDENT", here), b1, None, None, None, None) : u \in {driver, other}}
    \cup {Put(Driver, b1, l) : l \in {OneSeat, DpmSeat, TwoSeats, NoSuchSeat}}
    \cup {Put(by, b1, OneSeat) : by \in {Admin, Person(other, "DRIVER", here),
            Person(other, "STUDENT", here)}}

MCCallSymmetry == Permutations(Calls)

\* Drafts: rows of at most two cells, one or two of them.
SmallCells ==
  [col : {1, 2}, type : {"SEAT", "AISLE"}, number : {None, 1, 2}, dpm : BOOLEAN]

SmallRows == {<<d>> : d \in SmallCells} \cup (SmallCells \X SmallCells)

SmallLayouts ==
  [rows : {<<>>} \cup {<<r>> : r \in SmallRows}
            \cup ({<<Aisle(1), Seat(2, 1)>>, <<Seat(2, 2), Seat(1, 1)>>} \X SmallRows),
   dpm : {None, 1}, preferential : {<<>>, <<2>>}]
============================================================================
