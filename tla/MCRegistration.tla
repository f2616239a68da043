--------------------------- MODULE MCRegistration ---------------------------
(***************************************************************************)
(* Small instance of RegistrationLifecycle for TLC: a student, a driver,   *)
(* their manager, a super admin, and a calendar of two weeks in which      *)
(* semesters last three days.                                              *)
(***************************************************************************)
EXTENDS RegistrationLifecycle

CONSTANTS student, driver, manager, root

Ask(op, by, u, status) == [op |-> op, by |-> by, id |-> u, status |-> status]

MCAdministers == {<<manager, student>>}

MCRequests ==
  {Ask("updateStatus", manager, student, "APPROVED"),
   Ask("updateStatus", manager, driver, "APPROVED"),
   Ask("updateStatus", manager, student, "SUSPENDED"),
   Ask("reviewRenewal", manager, student, "APPROVED"),
   Ask("reviewRenewal", manager, student, "REJECTED"),
   Ask("submitRenewal", student, student, "NONE"),
   Ask("selfSoftDelete", student, student, "NONE"),
   Ask("softDelete", root, driver, "NONE")}
============================================================================
