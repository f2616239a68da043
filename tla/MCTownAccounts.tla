--------------------------- MODULE MCTownAccounts ---------------------------
(* A town, two people, one route, and two calls at a time.                 *)
EXTENDS TownAccounts, TLC

CONSTANTS town, system, ana, rui, route, c1, c2

MCTowns == {town, system}

MCPeople == {ana, rui}

Register(p, role, r, wheelchair, reason) ==
  [op |-> "register", user |-> [town |-> town, person |-> p], role |-> role,
   route |-> r, wheelchair |-> wheelchair, reason |-> reason]

CreateManager(t, p) ==
  [op |-> "createManager", user |-> [town |-> t, person |-> p]]

RequestAccessibility(p, wheelchair) ==
  [op |-> "requestAccessibility", user |-> [town |-> town, person |-> p],
   wheelchair |-> wheelchair]

ReviewAccessibility(p, by, status) ==
  [op |-> "reviewAccessibility", user |-> [town |-> town, person |-> p], by |-> by,
   status |-> status]

MCRequests ==
  {Register(rui, "STUDENT", route, TRUE, TRUE), Register(rui, "MANAGER", None, FALSE, FALSE),
   CreateManager(town, ana),
   RequestAccessibility(rui, TRUE), ReviewAccessibility(rui, system, "REVOKED")}
    \cup {ReviewAccessibility(rui, town, s) : s \in {"APPROVED", "REJECTED", "REVOKED"}}

MCSymmetry == Permutations({c1, c2})
=============================================================================
