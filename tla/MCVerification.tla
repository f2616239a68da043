--------------------------- MODULE MCVerification ---------------------------
(***************************************************************************)
(* A small instance of Verification for TLC: one address, which one user   *)
(* has, codes to reset its password, two guesses, and an address that      *)
(* nobody has.                                                             *)
(***************************************************************************)
EXTENDS Verification, TLC

CONSTANTS mail, stranger, v1, v2, x1, u1

MCHolders == [i \in {mail, stranger} |-> IF i = mail THEN {u1} ELSE {}]

ResetKey == [context |-> "RESET_PASSWORD", identifier |-> mail]

\* Redis is empty at first.
MCStarts == {<<>>}

MCRequests ==
  {[op |-> "send", key |-> ResetKey]}
    \cup {[op |-> "verify", key |-> ResetKey, code |-> v] : v \in {v1, v2}}
    \cup {[op |-> "forgot", identifier |-> stranger]}
    \cup {[op |-> "reset", token |-> x1]}

MCSymmetry == Permutations(Calls) \cup Permutations(Codes)
============================================================================
