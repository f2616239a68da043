---------------------------- MODULE TownAccounts ----------------------------
(***************************************************************************)
(* Who has an account in a town: AuthService.register, the managers of     *)
(* ManagementService, and the accessibility requests of UsersService.      *)
(* None of them runs in a transaction: a handler is a sequence of SQL      *)
(* statements, each a step here, and other handlers come in between.       *)
(*                                                                         *)
(* A person is an e-mail address with its CPF: both are UNIQUE in a town.  *)
(* No account is deleted here: RegistrationLifecycle does that.            *)
(***************************************************************************)
EXTENDS Integers, Functions, FiniteSets

CONSTANTS
  Towns,        \* municipality ids
  System,       \* the one that is not a town
  People,       \* e-mail addresses, each with its CPF
  Routes,       \* route ids; none is deleted here
  Calls,        \* calls in flight at once (a bound)
  Requests,     \* what they may ask, a subset of Request
  MaxRequests,  \* requests for accessibility per account (a bound)
  None          \* null

VARIABLES
  towns,      \* town -> whether it takes registrations, and its manager's id
  users,      \* account -> its row
  elevators,  \* route -> requires_elevator
  calls,      \* call -> its request, how far it has come and what it has read
  since,      \* history: call -> what has changed since the call checked it
  raced,      \* history: towns whose manager was removed, or appointed by two calls
  asked,      \* history: account -> requests for accessibility written
  lapsed      \* history: routes that may lack an elevator one needs

history == <<since, raced, asked, lapsed>>
townAccountsVars == <<towns, users, elevators, calls, history>>

----------------------------------------------------------------------------

\* An account's id stands for what is UNIQUE about it.
Account == [town: Towns, person: People]

Roles == {"MANAGER", "STUDENT"}

Statuses == {"PENDING_REVIEW", "APPROVED", "REJECTED", "REVOKED"}

\* The columns that anything here reads.
User ==
  [role: Roles, route: Routes \cup {None}, wheelchair: BOOLEAN,
   accessibility: Statuses \cup {None}, periods: Nat]

Town == [active: BOOLEAN, manager: Account \cup {None}]

\* reason says whether one is given; wheelchair may be left out of a request.
Request ==
  [op: {"register"}, user: Account, role: Roles, route: Routes \cup {None},
   wheelchair: BOOLEAN, reason: BOOLEAN]
    \cup [op: {"createManager"}, user: Account]
    \cup [op: {"requestAccessibility"}, user: Account, wheelchair: BOOLEAN \cup {None}]
    \cup [op: {"reviewAccessibility"}, user: Account, by: Towns,
          status: {"APPROVED", "REJECTED", "REVOKED"}]

Statements ==
  {"town", "person", "office", "insert", "appoint", "elevator", "user", "write"}

\* A call leaves when it is answered.
Call == [request: Request, pc: Statements, read: User \cup {None}]

News == {"paused", "joined", "decided"}

IsTable(f, Keys, Row) == DOMAIN f \subseteq Keys /\ f \in [DOMAIN f -> Row]

ASSUME TownAccountsAssumption ==
  /\ MaxRequests \in Nat
  /\ None \notin User \cup Account \cup Routes \cup BOOLEAN
  /\ Requests \subseteq Request

TownAccountsTypeOK ==
  /\ IsTable(towns, Towns, Town)
  /\ IsTable(users, Account, User)
  /\ elevators \in [Routes -> BOOLEAN]
  /\ IsTable(calls, Calls, Call)
  /\ IsTable(since, Calls, SUBSET News) /\ DOMAIN since = DOMAIN calls
  /\ raced \subseteq Towns
  /\ asked \in [Account -> Nat]
  /\ lapsed \subseteq Routes

----------------------------------------------------------------------------
(* Calls *)

Empty == [x \in {} |-> x]

With(f, k, v) == [x \in DOMAIN f \cup {k} |-> IF x = k THEN v ELSE f[x]]

At(c, pc) == c \in DOMAIN calls /\ calls[c].pc = pc

Owner(c) == calls[c].request.user

Advance(c, pc) == calls' = [calls EXCEPT ![c].pc = pc]

Leave(c) == calls' = Restrict(calls, DOMAIN calls \ {c})

Appoints(q) == q.op = "createManager" \/ (q.op = "register" /\ q.role = "MANAGER")

FirstStatement(q) == IF q.op \in {"register", "createManager"} THEN "town" ELSE "user"

Asking(u) ==
  Cardinality({c \in DOMAIN calls :
    calls[c].request.op = "requestAccessibility" /\ Owner(c) = u})

\* Who asks for accessibility is logged in.
MayCall(q) ==
  q.op = "requestAccessibility" =>
    q.user \in DOMAIN users /\ asked[q.user] + Asking(q.user) < MaxRequests

Receive(c, q) ==
  /\ c \notin DOMAIN calls /\ MayCall(q)
  /\ calls' = With(calls, c, [request |-> q, pc |-> FirstStatement(q), read |-> None])
  /\ UNCHANGED <<towns, users, elevators>>

----------------------------------------------------------------------------
(* register, and createManager, which looks for the manager first *)

Paused(t) == ~ towns[t].active

HasManager(t) == towns[t].manager # None

\* 409: no such town, or the System one, or it is paused, or has a manager.
Refused(q, t) ==
  \/ t \notin DOMAIN towns
  \/ IF q.op = "register" THEN Paused(t) ELSE t = System \/ HasManager(t)

ReadTown(c) ==
  LET q == calls[c].request IN
  /\ At(c, "town")
  /\ IF Refused(q, q.user.town) THEN Leave(c) ELSE Advance(c, "person")
  /\ UNCHANGED <<towns, users, elevators>>

\* Mutant of Registered: only the e-mail of managers is looked for.
ManagerRegistered(u) == u \in DOMAIN users /\ users[u].role = "MANAGER"

Registered(u) == u \in DOMAIN users

\* Two SELECTs, by e-mail and by CPF: what the second finds decides.
ReadPerson(c) ==
  LET q == calls[c].request IN
  /\ At(c, "person")
  /\ IF Registered(q.user) THEN Leave(c)                                  \* 409
     ELSE Advance(c, IF q.op = "register" /\ Appoints(q) THEN "office" ELSE "insert")
  /\ UNCHANGED <<towns, users, elevators>>

ReadOffice(c) ==
  /\ At(c, "office")
  /\ IF HasManager(Owner(c).town) THEN Leave(c) ELSE Advance(c, "insert")  \* 409
  /\ UNCHANGED <<towns, users, elevators>>

\* Mutant of FirstStatus: the name registration_status has for it.
RegistrationsStatus(reason) == IF reason THEN "PENDING" ELSE None

FirstStatus(reason) == IF reason THEN "PENDING_REVIEW" ELSE None

NewUser(q) ==
  IF q.op = "register"
    THEN [role |-> q.role, route |-> q.route, wheelchair |-> q.wheelchair,
          accessibility |-> FirstStatus(q.reason), periods |-> 0]
    ELSE [role |-> "MANAGER", route |-> None, wheelchair |-> FALSE,
          accessibility |-> None, periods |-> 0]

\* Mutant of NeedsElevator: the route is not told.
NeverTold(wheelchair, route) == FALSE

NeedsElevator(wheelchair, route) == wheelchair = TRUE /\ route # None

\* What is left of register once the account, and its manager, are written.  The
\* e-mail with the code comes last: if it fails the answer is a 500, all the same.
Finish(c) ==
  LET q == calls[c].request IN
  IF q.op = "register" /\ NeedsElevator(q.wheelchair, q.route)
    THEN Advance(c, "elevator")
    ELSE Leave(c)

InsertUser(c) ==
  LET q == calls[c].request IN
  /\ At(c, "insert")
  /\ IF q.user \in DOMAIN users
       THEN UNCHANGED users /\ Leave(c)                                     \* 500
       ELSE /\ users' = With(users, q.user, NewUser(q))
            /\ IF Appoints(q) THEN Advance(c, "appoint") ELSE Finish(c)
  /\ UNCHANGED <<towns, elevators>>

\* Mutant of Appointed: the id is not written.
NobodyAppointed(t, u) == towns[t]

Appointed(t, u) == [towns[t] EXCEPT !.manager = u]

AppointManager(c) ==
  LET q == calls[c].request t == q.user.town IN
  /\ At(c, "appoint")
  /\ towns' = [towns EXCEPT ![t] = Appointed(t, q.user)]
  /\ Finish(c)
  /\ UNCHANGED <<users, elevators>>

----------------------------------------------------------------------------
(* create, update and removeManager of ManagementService.  Here and below, an *)
(* UPDATE that writes what is there already is a stutter, and not a step.     *)

CreateTown(t) ==
  /\ t \in Towns \ (DOMAIN towns \cup {System})
  /\ towns' = With(towns, t, [active |-> TRUE, manager |-> None])
  /\ UNCHANGED <<users, elevators, calls>>

UpdateTown(t, active) ==
  /\ t \in DOMAIN towns \ {System} /\ towns[t].active # active
  /\ towns' = [towns EXCEPT ![t].active = active]
  /\ UNCHANGED <<users, elevators, calls>>

\* The account keeps its role.
RemoveManager(t) ==
  /\ t \in DOMAIN towns \ {System} /\ towns[t].manager # None
  /\ towns' = [towns EXCEPT ![t].manager = None]
  /\ UNCHANGED <<users, elevators, calls>>

----------------------------------------------------------------------------
(* requestAccessibility, reviewAccessibility and updateMe of UsersService *)

\* Mutant of MayAsk: an approved user asks again.
AnybodyMayAsk(row) == TRUE

MayAsk(row) == row.accessibility # "APPROVED"

\* Mutant of MayDecide: a decision is taken on any request.
AnytimeDecided(row, status) == TRUE

MayDecide(row, status) == status = "REVOKED" \/ row.accessibility = "PENDING_REVIEW"

\* 403 otherwise.
Allowed(q, row) ==
  IF q.op = "requestAccessibility" THEN MayAsk(row)
  ELSE q.user.town = q.by /\ MayDecide(row, q.status)

ReadUser(c) ==
  LET q == calls[c].request u == q.user IN
  /\ At(c, "user")
  /\ IF u \in DOMAIN users /\ Allowed(q, users[u])
       THEN calls' = [calls EXCEPT ![c].pc = "write", ![c].read = users[u]]
       ELSE Leave(c)                                                      \* 403, 404
  /\ UNCHANGED <<towns, users, elevators>>

\* The row as asked for, whatever it is by now.
Asked(row, wheelchair) ==
  [row EXCEPT !.accessibility = "PENDING_REVIEW",
              !.wheelchair = IF wheelchair = None THEN @ ELSE wheelchair]

WriteRequest(c) ==
  LET q == calls[c].request u == q.user IN
  /\ At(c, "write") /\ q.op = "requestAccessibility"
  /\ users' = [users EXCEPT ![u] = Asked(@, q.wheelchair)]
  /\ IF NeedsElevator(q.wheelchair, calls[c].read.route)
       THEN Advance(c, "elevator") ELSE Leave(c)
  /\ UNCHANGED <<towns, elevators>>

\* The row as decided; periods counts on from what was read.
Decided(row, read, status) ==
  [row EXCEPT !.accessibility = status,
              !.periods = IF status = "APPROVED" THEN read.periods + 1 ELSE @]

WriteReview(c) ==
  LET q == calls[c].request u == q.user IN
  /\ At(c, "write") /\ q.op = "reviewAccessibility"
  /\ users' = [users EXCEPT ![u] = Decided(@, calls[c].read, q.status)]
  /\ Leave(c)
  /\ UNCHANGED <<towns, elevators>>

RouteOf(c) ==
  LET q == calls[c].request IN IF q.op = "register" THEN q.route ELSE calls[c].read.route

RequireElevator(c) ==
  /\ At(c, "elevator")
  /\ elevators' = [elevators EXCEPT ![RouteOf(c)] = TRUE]
  /\ Leave(c)
  /\ UNCHANGED <<towns, users>>

\* updateMe sets the flag of the user and leaves the route alone.  Where there is
\* no route, nothing here reads the flag.
UpdateMe(u, wheelchair) ==
  /\ u \in DOMAIN users /\ users[u].route # None
  /\ users[u].wheelchair # wheelchair
  /\ users' = [users EXCEPT ![u].wheelchair = wheelchair]
  /\ UNCHANGED <<towns, elevators, calls>>

\* updateRoute of FleetService, as far as this table goes.
UpdateRoute(r, requiresElevator) ==
  /\ elevators[r] # requiresElevator
  /\ elevators' = [elevators EXCEPT ![r] = requiresElevator]
  /\ UNCHANGED <<towns, users, calls>>

----------------------------------------------------------------------------

TownAccountsRestart ==
  /\ DOMAIN calls # {}
  /\ calls' = Empty
  /\ UNCHANGED <<towns, users, elevators>>

CallStep(c) ==
  \/ ReadTown(c) \/ ReadPerson(c) \/ ReadOffice(c)
  \/ InsertUser(c) \/ AppointManager(c)
  \/ ReadUser(c) \/ WriteRequest(c) \/ WriteReview(c) \/ RequireElevator(c)

Step ==
  \/ \E c \in Calls, q \in Requests : Receive(c, q)
  \/ \E c \in Calls : CallStep(c)
  \/ \E t \in Towns : CreateTown(t) \/ RemoveManager(t)
  \/ \E t \in Towns, b \in BOOLEAN : UpdateTown(t, b)
  \/ \E u \in Account, b \in BOOLEAN : UpdateMe(u, b)
  \/ \E r \in Routes, b \in BOOLEAN : UpdateRoute(r, b)
  \/ TownAccountsRestart

----------------------------------------------------------------------------
(* The history variables: only the bound MaxRequests reads one of them. *)

Moves(c, pc) == At(c, pc) /\ (c \in DOMAIN calls' => calls'[c].pc # pc)

\* Past the check that the town has no manager, and not done appointing.
Appointing(c, t) ==
  /\ c \in DOMAIN calls
  /\ Appoints(calls[c].request) /\ Owner(c).town = t
  /\ \/ calls[c].pc \in {"insert", "appoint"}
     \/ calls[c].pc = "person" /\ calls[c].request.op = "createManager"

TownOf(c) == Owner(c).town

NowPaused(c) ==
  /\ calls[c].request.op = "register" /\ calls[c].pc \in {"person", "office", "insert"}
  /\ ~ Paused(TownOf(c)) /\ Paused(TownOf(c))'

NowJoined(c) ==
  /\ calls[c].pc \in {"office", "insert"}
  /\ Owner(c) \in DOMAIN users' \ DOMAIN users

NowDecided(c) ==
  /\ calls[c].pc = "write"
  /\ users'[Owner(c)].accessibility # users[Owner(c)].accessibility

\* What call c has checked and this step, of another, changes.
Missed(c) ==
  (IF NowPaused(c) THEN {"paused"} ELSE {})
    \cup (IF NowJoined(c) THEN {"joined"} ELSE {})
    \cup (IF NowDecided(c) THEN {"decided"} ELSE {})

Since(c) ==
  IF c \notin DOMAIN calls \/ calls'[c].pc = "elevator" THEN {}
  ELSE IF calls'[c] = calls[c] THEN since[c] \cup Missed(c)
  ELSE since[c]

\* Gone with the restart, halfway.
CutOff(c, pcs) == c \in DOMAIN calls \ DOMAIN calls' /\ calls[c].pc \in pcs /\ TownAccountsRestart

Muddled(t) ==
  \/ t \in DOMAIN towns /\ towns[t].manager # None /\ towns'[t].manager = None
  \/ \E c \in Calls : CutOff(c, {"appoint"}) /\ TownOf(c) = t
  \/ \E c, d \in Calls : c # d /\ Appointing(c, t)' /\ Appointing(d, t)'

Asks(u) ==
  \/ u \in DOMAIN users' \ DOMAIN users /\ users'[u].accessibility = "PENDING_REVIEW"
  \/ \E c \in Calls : WriteRequest(c) /\ Owner(c) = u

\* Only updateMe changes a row and moves no call.
Slips(r) ==
  \/ \E u \in DOMAIN users :
       users[u].route = r /\ calls' = calls /\ ~ users[u].wheelchair /\ users'[u].wheelchair
  \/ \E c \in Calls :
       /\ CutOff(c, {"appoint", "elevator"}) /\ calls[c].request.op # "createManager"
       /\ RouteOf(c) = r

Remember ==
  /\ since' = [c \in DOMAIN calls' |-> Since(c)]
  /\ raced' = raced \cup {t \in Towns : Muddled(t)}
  /\ asked' = [u \in Account |-> IF Asks(u) THEN asked[u] + 1 ELSE asked[u]]
  /\ lapsed' = {r \in Routes : ~ elevators'[r] /\ (r \in lapsed \/ elevators[r] \/ Slips(r))}

----------------------------------------------------------------------------

TownAccountsInit ==
  /\ towns \in [Towns \cap {System} -> {[active |-> TRUE, manager |-> None]}]
  /\ users = Empty
  /\ elevators = [r \in Routes |-> FALSE]
  /\ calls = Empty
  /\ since = Empty /\ raced = {} /\ asked = [u \in Account |-> 0] /\ lapsed = {}

TownAccountsNext == Step /\ Remember

TownAccountsSpec == TownAccountsInit /\ [][TownAccountsNext]_townAccountsVars

----------------------------------------------------------------------------
(* Properties *)

(***************************************************************************)
(* '1:1 - one manager per city' (municipality.schema.ts:12): whoever has   *)
(* the role of a manager is the manager of the town, or about to be, so    *)
(* there are no two; and the town's manager has that role.  A town is left *)
(* out once its manager was removed, two were on their way to be appointed *)
(* at once, or a restart came between the two statements.                  *)
(***************************************************************************)
OneManager ==
  /\ \A u \in DOMAIN users : users[u].role = "MANAGER" /\ u.town \notin raced =>
       towns[u.town].manager = u \/ \E c \in DOMAIN calls : At(c, "appoint") /\ Owner(c) = u
  /\ \A t \in DOMAIN towns : towns[t].manager # None =>
       /\ towns[t].manager \in DOMAIN users /\ towns[t].manager.town = t
       /\ users[towns[t].manager].role = "MANAGER"

(***************************************************************************)
(* What register and createManager have checked still holds when they      *)
(* insert the account, statements later, unless it changed in between: a   *)
(* UNIQUE index turns an account down, with a 500 in place of the 409,     *)
(* only when somebody with the same e-mail and CPF came in since the call  *)
(* looked for one (auth.service.ts:59-92, management.service.ts:136-163),  *)
(* and nobody registers in a municipality whose 'Registrations' are        *)
(* 'paused' (auth.service.ts:57) that was not paused since.                *)
(***************************************************************************)
InsertsChecked ==
  [][\A c \in Calls : InsertUser(c) =>
       /\ Owner(c) \in DOMAIN users => "joined" \in since[c]
       /\ calls[c].request.op = "register" /\ Paused(TownOf(c)) => "paused" \in since[c]
    ]_townAccountsVars

(***************************************************************************)
(* 'You already have an approved accessibility status' and 'Accessibility  *)
(* review not pending' (users.service.ts:378, 441): a request undoes an    *)
(* approval, and a decision is taken on what is not pending, only if       *)
(* another decision or request was written after the call read the row.    *)
(***************************************************************************)
DecisionsStand ==
  [][\A u \in DOMAIN users :
       LET was == users[u].accessibility is == users'[u].accessibility IN
       \/ was = "APPROVED" /\ is = "PENDING_REVIEW"
       \/ was # "PENDING_REVIEW" /\ is # was /\ is \in {"APPROVED", "REJECTED"}
       => \E c \in DOMAIN calls : Moves(c, "write") /\ Owner(c) = u /\ "decided" \in since[c]
    ]_townAccountsVars

(***************************************************************************)
(* accessibilityConsecutivePeriods (users.service.ts:457) counts no more   *)
(* approvals than the user made requests, and the one pending is not among *)
(* those counted, however many managers decide on it at once.              *)
(***************************************************************************)
PeriodsEarned ==
  \A u \in DOMAIN users :
    users[u].periods + (IF users[u].accessibility = "PENDING_REVIEW" THEN 1 ELSE 0) <= asked[u]

(***************************************************************************)
(* The route of a user in a wheelchair requires an elevator (auth.service. *)
(* ts:137, users.service.ts:401) as soon as the call that wrote the flag   *)
(* is over, unless a manager said that it does not, the user set the flag  *)
(* by updateMe, or a restart came between the two statements.              *)
(***************************************************************************)
ElevatorsFollow ==
  \A u \in DOMAIN users :
    LET r == users[u].route IN
    users[u].wheelchair /\ r # None /\ r \notin lapsed => 
      \/ elevators[r]
      \/ \E c \in DOMAIN calls : calls[c].pc \in {"appoint", "elevator"} /\ Owner(c) = u
=============================================================================
