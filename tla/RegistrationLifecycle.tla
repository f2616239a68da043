----------------------- MODULE RegistrationLifecycle -----------------------
(***************************************************************************)
(* The life of a registration: UsersService (approval, semester renewal,   *)
(* soft deletion) and the four jobs of CronService that expire, suspend,   *)
(* inactivate and delete accounts.                                         *)
(*                                                                         *)
(* As in the booking modules a call is a record whose pc names its next    *)
(* statement; a job is one UPDATE or DELETE over all accounts.  Time is    *)
(* counted in days: an account's timestamps say on which day they lie.     *)
(***************************************************************************)
EXTENDS Integers, FiniteSets, Functions

CONSTANTS
  Users,        \* ids of the accounts whose life this is
  Staff,        \* managers and super admins who administer them
  SuperAdmins,
  Administers,  \* <<s, u>>: s and u belong to the same municipality
  Drivers,      \* users some trip names as its driver
  Calls,        \* numbers of the calls of UsersController
  Requests,     \* see Request
  Grace,        \* days to renew in, 14 in the code
  Retention,    \* days until inactivation and until deletion, 180 in the code
  SemesterEnds, \* the days cards expire, 30 June and 31 December
  Sundays,      \* the days whose midnight runs the weekly jobs
  Outages,      \* days at whose midnight the process is down
  LastCallDay,  \* no call is made after this day (a bound)
  LastDay       \* the last day (a bound)

VARIABLES
  accounts,     \* user id -> row of users, for the rows there are
  calls,        \* call -> record, for the calls received so far
  day,          \* today
  due           \* jobs of this midnight that have not run yet

accountVars == <<accounts, calls, day, due>>

----------------------------------------------------------------------------

Never == 0      \* a timestamp that is NULL

RegistrationStatus ==
  {"PENDING", "APPROVED", "REJECTED", "RENEWAL_PENDING", "SUSPENDED", "INACTIVE"}

Account ==
  [status: RegistrationStatus, expires: Nat, deadline: Nat, submitted: Nat, deleted: Nat]

\* status is what the body of an updateStatus or reviewRenewal asks for.
Request ==
       [op: {"updateStatus"}, by: Staff, id: Users, status: RegistrationStatus \ {"PENDING"}]
  \cup [op: {"reviewRenewal"}, by: Staff, id: Users, status: {"APPROVED", "REJECTED"}]
  \cup [op: {"softDelete"}, by: Staff, id: Users, status: {"NONE"}]
  \cup {request \in [op: {"submitRenewal", "selfSoftDelete"}, by: Users, id: Users,
                     status: {"NONE"}] : request.by = request.id}

\* calculateExpiryDate: the end of the semester d lies in.
IsExpiryDate(e, d) == e >= d /\ \A f \in SemesterEnds : f >= d => e <= f

ExpiryDate(d) == CHOOSE e \in SemesterEnds : IsExpiryDate(e, d)

ASSUME AccountsAssumption ==
  /\ Grace \in Nat /\ Retention \in Nat
  /\ SemesterEnds \subseteq Nat \ {Never}
  /\ LastDay \in Nat \ {Never}
  /\ \A d \in 1..LastDay : \E e \in SemesterEnds : IsExpiryDate(e, d)
  /\ Calls \subseteq Nat
  /\ Requests \subseteq Request

Jobs == {"expire", "suspend", "inactivate", "delete"}

\* now: the day on which the values the call is about to write were computed.
Call ==
  [pc: {"find", "write", "done", "lost"}, request: Request, now: Nat,
   answer: {"none", "200", "401", "403", "404"}]

InFlight == {c \in DOMAIN calls : calls[c].pc \notin {"done", "lost"}}

AccountsTypeOK ==
  /\ DOMAIN accounts \subseteq Users
  /\ \A u \in DOMAIN accounts : accounts[u] \in Account
  /\ DOMAIN calls \subseteq Calls
  /\ \A c \in DOMAIN calls : calls[c] \in Call
  /\ \A c \in InFlight : calls[c].now \in 1..LastDay
  /\ day \in 1..LastDay
  /\ due \subseteq Jobs

\* What register leaves, and an account approved since.
Registered ==
  [status |-> "PENDING", expires |-> Never, deadline |-> Never,
   submitted |-> Never, deleted |-> Never]

ApprovedAccount ==
  [Registered EXCEPT !.status = "APPROVED", !.expires = ExpiryDate(1)]

AccountsInit ==
  /\ accounts \in [Users -> {Registered, ApprovedAccount}]
  /\ calls = [c \in {} |-> c]
  /\ day = 1
  /\ due = {}

----------------------------------------------------------------------------
(* UsersService *)

Own(request) == request.op \in {"submitRenewal", "selfSoftDelete"}

\* A call that is over has no use for the day it began.
Answer(c, code) ==
  calls' = [calls EXCEPT ![c].pc = "done", ![c].now = Never, ![c].answer = code]

\* JwtStrategy.validate turns deleted users away; the staff's own accounts are not
\* modelled.
Admitted(request) ==
  Own(request) =>
    request.id \in DOMAIN accounts /\ accounts[request.id].deleted = Never

\* Calls are numbered as they arrive.  selfSoftDelete looks nothing up: its UPDATE
\* comes next.
Receive(c, request) ==
  /\ day <= LastCallDay
  /\ \A d \in Calls : d < c <=> d \in DOMAIN calls
  /\ calls' = [x \in DOMAIN calls \cup {c} |->
       IF x # c THEN calls[x]
       ELSE IF ~ Admitted(request)
         THEN [pc |-> "done", request |-> request, now |-> Never, answer |-> "401"]
       ELSE [pc |-> IF request.op = "selfSoftDelete" THEN "write" ELSE "find",
             request |-> request, now |-> day, answer |-> "none"]]
  /\ UNCHANGED <<accounts, day, due>>

SameTown(request) == <<request.by, request.id>> \in Administers

\* Only updateStatus and softDelete make an exception for super admins.
Permitted(request) ==
  CASE request.op = "submitRenewal" ->
         accounts[request.id].status \in {"APPROVED", "INACTIVE"}
    [] request.op = "reviewRenewal" ->
         SameTown(request) /\ accounts[request.id].status = "RENEWAL_PENDING"
    [] OTHER -> SameTown(request) \/ request.by \in SuperAdmins

Find(c) ==
  LET request == calls[c].request IN
  /\ calls[c].pc = "find"
  /\ \/ request.id \notin DOMAIN accounts /\ Answer(c, "404")
     \/ request.id \in DOMAIN accounts /\ ~ Permitted(request) /\ Answer(c, "403")
     \/ /\ request.id \in DOMAIN accounts /\ Permitted(request)
        /\ calls' = [calls EXCEPT ![c].pc = "write", ![c].now = day]
  /\ UNCHANGED <<accounts, day, due>>

\* Mutant of Written: a renewal writes the status of the body.
WrittenAsAsked(row, request, now) ==
  IF request.op = "softDelete" THEN [row EXCEPT !.status = "INACTIVE", !.deleted = now]
  ELSE [row EXCEPT !.status = request.status, !.expires = ExpiryDate(now)]

\* The row after the SET clause of the call.  No status is looked at again, and no
\* timestamp is ever cleared.
Written(row, request, now) ==
  CASE request.op = "submitRenewal" ->
         [row EXCEPT !.status = "RENEWAL_PENDING", !.submitted = now]
    [] request.op \in {"softDelete", "selfSoftDelete"} ->
         [row EXCEPT !.status = "INACTIVE", !.deleted = now]
    [] OTHER ->
         [row EXCEPT !.status = request.status,
                     !.expires = IF request.status = "APPROVED" THEN ExpiryDate(now) ELSE @]

\* UPDATE ... WHERE id.  Of a row deleted meanwhile only selfSoftDelete complains.
Write(c) ==
  LET request == calls[c].request IN
  /\ calls[c].pc = "write"
  /\ \/ /\ request.id \in DOMAIN accounts
        /\ accounts' = [accounts EXCEPT ![request.id] = Written(@, request, calls[c].now)]
        /\ Answer(c, "200")
     \/ /\ request.id \notin DOMAIN accounts
        /\ Answer(c, IF request.op = "selfSoftDelete" THEN "404" ELSE "200")
        /\ UNCHANGED accounts
  /\ UNCHANGED <<day, due>>

CallStep(c) ==
  /\ c \in DOMAIN calls
  /\ Find(c) \/ Write(c)

----------------------------------------------------------------------------
(* CronService *)

\* A job is one statement, which leaves these rows.
RunJob(job, rows) ==
  /\ job \in due
  /\ accounts' = rows
  /\ due' = due \ {job}
  /\ UNCHANGED <<calls, day>>

\* d + n days lies before now.  A timestamp a job left at midnight comes due at
\* midnight again; whether that has passed then depends on which of the two jobs
\* was the later (late) in its midnight, by milliseconds.
Past(d, n, late) == d # Never /\ (d + n < day \/ (late /\ d + n = day))

\* A card expires one millisecond before midnight.
Expired(row) ==
  row.status = "APPROVED" /\ Past(row.expires, 0, FALSE) /\ row.deleted = Never

\* Mutant of RenewalDeadline: no time to renew in.
RenewalDeadlineToday(d) == d

RenewalDeadline(d) == d + Grace

Expire ==
  RunJob("expire",
    [u \in DOMAIN accounts |->
       IF Expired(accounts[u])
         THEN [accounts[u] EXCEPT !.status = "RENEWAL_PENDING",
                                  !.deadline = RenewalDeadline(day)]
         ELSE accounts[u]])

\* Mutant of Late: those who have submitted a renewal are late too.
LateAnyway(row, late) ==
  row.status = "RENEWAL_PENDING" /\ Past(row.deadline, 0, late) /\ row.deleted = Never

Late(row, late) ==
  /\ row.status = "RENEWAL_PENDING" /\ row.submitted = Never
  /\ Past(row.deadline, 0, late) /\ row.deleted = Never

Suspend ==
  \E late \in BOOLEAN :
    RunJob("suspend",
      [u \in DOMAIN accounts |->
         IF Late(accounts[u], late) THEN [accounts[u] EXCEPT !.status = "SUSPENDED"]
         ELSE accounts[u]])

\* Mutant of Abandoned: the wrong column.
AbandonedSinceExpiry(row, late) ==
  row.status = "SUSPENDED" /\ Past(row.submitted, Retention, late) /\ row.deleted = Never

Abandoned(row, late) ==
  row.status = "SUSPENDED" /\ Past(row.deadline, Retention, late) /\ row.deleted = Never

Inactivate ==
  \E late \in BOOLEAN :
    RunJob("inactivate",
      [u \in DOMAIN accounts |->
         IF Abandoned(accounts[u], late)
           THEN [accounts[u] EXCEPT !.status = "INACTIVE", !.deleted = day]
           ELSE accounts[u]])

Removable(row, late) == row.status = "INACTIVE" /\ Past(row.deleted, Retention, late)

\* One DELETE for all of them, which the foreign key of trips.driver_id refuses as a
\* whole when one of them drives a trip.
Delete ==
  \E late \in BOOLEAN :
    LET removed == {u \in DOMAIN accounts : Removable(accounts[u], late)} IN
    RunJob("delete",
      IF removed \cap Drivers = {} THEN Restrict(accounts, DOMAIN accounts \ removed)
      ELSE accounts)

\* Jobs of one midnight start together and run in any order; a midnight the process
\* sleeps through is not made up for.  A call may be under way at midnight, but not
\* for a whole day since it last looked (a bound).
Midnight ==
  /\ due = {} /\ day < LastDay
  /\ \A c \in InFlight : calls[c].now = day
  /\ day' = day + 1
  /\ due' = IF day + 1 \in Outages THEN {}
            ELSE IF day + 1 \in Sundays THEN Jobs
            ELSE {"expire", "suspend"}
  /\ UNCHANGED <<accounts, calls>>

\* A restart drops the calls in flight.
RestartCalls ==
  /\ calls' = [c \in DOMAIN calls |->
       IF c \in InFlight THEN [calls[c] EXCEPT !.pc = "lost", !.now = Never] ELSE calls[c]]
  /\ UNCHANGED <<accounts, day, due>>

JobStep == Expire \/ Suspend \/ Inactivate \/ Delete

AccountsNext ==
  \/ \E c \in Calls, request \in Requests : Receive(c, request)
  \/ \E c \in Calls : CallStep(c)
  \/ JobStep
  \/ Midnight
  \/ RestartCalls

\* The scheduler's timers fire and the jobs' statements end, as the calls' do.
AccountsFairness ==
  /\ \A c \in Calls : WF_accountVars(CallStep(c))
  /\ WF_accountVars(JobStep)
  /\ WF_accountVars(Midnight)

AccountsSpec == AccountsInit /\ [][AccountsNext]_accountVars /\ AccountsFairness

----------------------------------------------------------------------------
(* Properties *)

\* Somebody has asked for u's account to be suspended, deleted or put back, so the
\* four jobs alone no longer decide about it.
ByHand(u) ==
  \E c \in DOMAIN calls :
    /\ calls[c].request.id = u
    /\ \/ calls[c].request.op \in {"softDelete", "selfSoftDelete"}
       \/ calls[c].request.status \in {"RENEWAL_PENDING", "SUSPENDED", "INACTIVE"}

(***************************************************************************)
(* The four jobs, each looking only at the row it finds, take an account   *)
(* away no sooner than the grace period and twice the retention after its  *)
(* card's expiry, whatever approvals and renewals come in between.         *)
(***************************************************************************)
RemovedNoSooner ==
  [][\A u \in DOMAIN accounts \ DOMAIN accounts' :
       ByHand(u) \/ accounts[u].expires + 1 + Grace + 2 * Retention <= day
    ]_accountVars

\* What makes it so: how far each status is from the card's expiry.
GraceGiven(row) == row.expires # Never /\ row.expires + Grace < row.deadline

Staged(row) ==
  /\ row.status = "RENEWAL_PENDING" /\ row.submitted = Never => GraceGiven(row)
  /\ row.status = "SUSPENDED" => GraceGiven(row) /\ row.deadline <= day
  /\ row.status = "INACTIVE" => GraceGiven(row) /\ row.deadline + Retention <= row.deleted

StagesInv == \A u \in DOMAIN accounts : ByHand(u) \/ Staged(accounts[u])

(***************************************************************************)
(* A student who has submitted a renewal is never suspended or inactivated *)
(* by the jobs, and so never deleted, however long the review takes and    *)
(* whichever job ran while the renewal was being written.                  *)
(***************************************************************************)
SubmittedIsSafe ==
  \A u \in DOMAIN accounts :
    accounts[u].submitted # Never /\ ~ ByHand(u) =>
      accounts[u].status \in {"APPROVED", "REJECTED", "RENEWAL_PENDING"}

\* An approved account about which the jobs will decide.
Lapsing(u) ==
  /\ u \in DOMAIN accounts
  /\ accounts[u].status = "APPROVED"
  /\ accounts[u].submitted = Never /\ accounts[u].deleted = Never

Closed(u) == u \in DOMAIN accounts => accounts[u].status = "INACTIVE"

Spared(u) ==
  /\ u \in DOMAIN accounts
  /\ accounts[u].submitted # Never \/ accounts[u].status = "REJECTED"

(***************************************************************************)
(* An approved account does not last for ever: in the end it is inactive   *)
(* or gone, unless its owner has submitted a renewal, or staff or owner    *)
(* have taken it out of the jobs' hands.                                   *)
(***************************************************************************)
LapsedAccountsClose ==
  \A u \in Users : Lapsing(u) ~> Closed(u) \/ Spared(u) \/ ByHand(u)
============================================================================
