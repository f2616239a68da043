------------------------------- MODULE TripDay -------------------------------
(***************************************************************************)
(* The day of a trip: students' calls on ReservationsService and leaders'  *)
(* calls on TripsService, interleaved statement by statement over the      *)
(* tables they share.  Nothing else connects the two services: no lock, no *)
(* transaction, no call from one to the other.                             *)
(***************************************************************************)
EXTENDS ReservationsService, TripsService

tripDayVars == <<tables, reservationCalls, tripCalls>>

TripDayInit == TablesInit /\ ReservationCallsInit /\ TripCallsInit

\* One process serves both: a restart drops every call of either.
Restart == DropReservationCalls /\ DropTripCalls /\ UNCHANGED tables

TripDayNext ==
  \/ ReservationsStep /\ UNCHANGED tripCalls
  \/ TripsStep /\ UNCHANGED reservationCalls
  \/ Restart

\* As in the two services: a statement returns or throws, and its handler goes on.
TripDayFairness ==
  /\ \A c \in Creates : WF_tripDayVars(CreateStep(c) /\ UNCHANGED tripCalls)
  /\ \A e \in Edits : WF_tripDayVars(EditStep(e) /\ UNCHANGED tripCalls)
  /\ \A f \in Finishes : WF_tripDayVars(FinishStep(f) /\ UNCHANGED reservationCalls)
  /\ \A r \in Relocations : WF_tripDayVars(RelocationStep(r) /\ UNCHANGED reservationCalls)

TripDaySpec == TripDayInit /\ [][TripDayNext]_tripDayVars /\ TripDayFairness

----------------------------------------------------------------------------
(* Properties *)

TripDayTypeOK == TablesTypeOK /\ ReservationCallsTypeOK /\ TripCallsTypeOK

\* The steps that may write reservation i: its owner's PATCH or DELETE, and the
\* loop of a finish or relocation whose caller leads the trip of the request.
OwnerWrites(i) ==
  \E e \in DOMAIN edits :
    /\ edits[e].pc = "write" /\ edits'[e].pc = "done"
    /\ edits[e].request.id = i
    /\ edits[e].request.user = reservations[i].user

Leads(u, t) == u \in SuperAdmins \cup (trips[t].leaders \cap Citizens[t])

LeaderWrites(i) ==
  \/ \E f \in DOMAIN finishes :
       /\ Leads(finishes[f].request.user, finishes[f].request.trip)
       /\ \E a \in finishes[f].todo \ finishes'[f].todo : a.id = i
  \/ \E r \in DOMAIN relocations :
       /\ Leads(relocations[r].request.user, relocations[r].request.trip)
       /\ \E p \in relocations[r].todo \ relocations'[r].todo : p.id = i

(***************************************************************************)
(* A reservation is changed or removed by its owner or by a leader of the  *)
(* trip it was read on, and by nobody else.  (Leaders are looked up when a *)
(* call starts; this is about days on which they stay the same.)           *)
(***************************************************************************)
OwnerOrLeaderWrites ==
  [][\A i \in Live :
       (IF i \in Live' THEN reservations'[i] # reservations[i] ELSE TRUE) =>
         OwnerWrites(i) \/ LeaderWrites(i)
    ]_tripDayVars
============================================================================
