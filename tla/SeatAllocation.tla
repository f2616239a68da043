--------------------------- MODULE SeatAllocation ---------------------------
(***************************************************************************)
(* What the reservations table promises about seats, whoever writes it:    *)
(* a set of claims "this holder has this seat of this trip", changed one   *)
(* claim at a time, and never so that two holders have one seat or one     *)
(* holder two.                                                             *)
(***************************************************************************)
CONSTANTS Trips, Seats, Holders

VARIABLE claims

Claim == [trip: Trips, seat: Seats, holder: Holders]

Free(t, s) == \A c \in claims : ~ (c.trip = t /\ c.seat = s)

HeldBy(h) == {c \in claims : c.holder = h}

Consistent ==
  \A c, d \in claims :
    c.holder = d.holder \/ (c.trip = d.trip /\ c.seat = d.seat) => c = d

Init == claims \in SUBSET Claim /\ Consistent

\* A holder without a seat claims a free one.
Take(h, t, s) ==
  /\ HeldBy(h) = {} /\ Free(t, s)
  /\ claims' = claims \cup {[trip |-> t, seat |-> s, holder |-> h]}

\* A holder gives its seat back.
Release(h) ==
  /\ HeldBy(h) # {}
  /\ claims' = claims \ HeldBy(h)

\* A holder swaps its seat for a free one, of the same trip or of another.
Move(h, t, s) ==
  /\ HeldBy(h) # {} /\ Free(t, s)
  /\ claims' = (claims \ HeldBy(h)) \cup {[trip |-> t, seat |-> s, holder |-> h]}

Next ==
  \E h \in Holders :
    \/ Release(h)
    \/ \E t \in Trips, s \in Seats : Take(h, t, s) \/ Move(h, t, s)

Spec == Init /\ [][Next]_claims
============================================================================
