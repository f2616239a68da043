------------------------ MODULE TownAccounts_proofs ------------------------
(***************************************************************************)
(* Proofs about TownAccounts: types; one manager per town; what an insert  *)
(* may rely on; and the accessibility requests, the decisions on them      *)
(* and the elevators that follow.  All are invariants of calls that hold   *)
(* what they have read while others write.                                 *)
(***************************************************************************)
EXTENDS TownAccounts, TLAPS

(* What a request holds, by its operation. *)
LEMMA RequestType ==
  ASSUME NEW q \in Request
  PROVE  /\ q.op \in {"register", "createManager", "requestAccessibility",
                      "reviewAccessibility"}
         /\ q.user \in Account
         /\ q.op = "register" =>
              q.role \in Roles /\ q.route \in Routes \cup {None} /\ q.wheelchair \in BOOLEAN
         /\ q.op = "requestAccessibility" => q.wheelchair \in BOOLEAN \cup {None}
         /\ q.op = "reviewAccessibility" => q.status \in {"APPROVED", "REJECTED", "REVOKED"}
  BY DEF Request

(* A row added, written over or taken away leaves a table. *)
LEMMA TableWith ==
  ASSUME NEW Keys, NEW Row, NEW f, IsTable(f, Keys, Row), NEW k \in Keys, NEW v \in Row
  PROVE  IsTable(With(f, k, v), Keys, Row)
  BY DEF IsTable, With

LEMMA TableExcept ==
  ASSUME NEW Keys, NEW Row, NEW f, IsTable(f, Keys, Row), NEW k, NEW v,
         k \in DOMAIN f => v \in Row
  PROVE  IsTable([f EXCEPT ![k] = v], Keys, Row)
  BY DEF IsTable

LEMMA TableRestrict ==
  ASSUME NEW Keys, NEW Row, NEW f, IsTable(f, Keys, Row), NEW S \in SUBSET DOMAIN f
  PROVE  IsTable(Restrict(f, S), Keys, Row)
  BY DEF IsTable, Restrict

----------------------------------------------------------------------------
(* Calls *)

\* One call moves on, keeping its request, or leaves; the others stay as they are.
Steps(c) ==
  /\ c \in DOMAIN calls
  /\ IsTable(calls', Calls, Call)
  /\ DOMAIN calls' \subseteq DOMAIN calls
  /\ \A d \in DOMAIN calls \ {c} : d \in DOMAIN calls' /\ calls'[d] = calls[d]
  /\ c \in DOMAIN calls' => calls'[c].request = calls[c].request

LEMMA StepsTo ==
  ASSUME IsTable(calls, Calls, Call), NEW c \in DOMAIN calls, NEW call \in Call,
         call.request = calls[c].request, calls' = [calls EXCEPT ![c] = call]
  PROVE  Steps(c) /\ c \in DOMAIN calls' /\ calls'[c] = call
  BY DEF IsTable, Steps

LEMMA AdvanceSteps ==
  ASSUME IsTable(calls, Calls, Call), NEW c \in DOMAIN calls,
         NEW pc \in Statements, Advance(c, pc)
  PROVE  /\ Steps(c) /\ c \in DOMAIN calls'
         /\ calls'[c] \in Call /\ calls'[c].pc = pc /\ calls'[c].read = calls[c].read
<1> DEFINE call == [calls[c] EXCEPT !.pc = pc]
<1>1. calls[c] \in Call
  BY DEF IsTable
<1>2. call \in Call /\ call.request = calls[c].request /\ call.pc = pc
      /\ call.read = calls[c].read
  BY <1>1 DEF Call
<1>3. calls' = [calls EXCEPT ![c] = call]
  BY DEF Advance
<1> HIDE DEF call
<1>4. QED
  BY <1>2, <1>3, StepsTo

LEMMA LeaveSteps ==
  ASSUME IsTable(calls, Calls, Call), NEW c \in DOMAIN calls, Leave(c)
  PROVE  Steps(c) /\ c \notin DOMAIN calls'
<1>1. IsTable(calls', Calls, Call)
  BY TableRestrict DEF Leave
<1>2. QED
  BY <1>1 DEF Leave, Restrict, Steps

\* After its account and its manager are written, register tells the route or leaves.
LEMMA FinishSteps ==
  ASSUME IsTable(calls, Calls, Call), NEW c \in DOMAIN calls, Finish(c)
  PROVE  /\ Steps(c)
         /\ c \in DOMAIN calls' => calls'[c].pc = "elevator" /\ calls'[c].read = calls[c].read
         /\ LET q == calls[c].request IN
            c \in DOMAIN calls' <=> q.op = "register" /\ NeedsElevator(q.wheelchair, q.route)
  BY AdvanceSteps, LeaveSteps DEF Finish, Statements

----------------------------------------------------------------------------
(* Types *)

\* A handler writes a row only after it has read one.
RowRead ==
  \A c \in DOMAIN calls : calls[c].pc = "write" => calls[c].read \in User

TypesInv == TownAccountsTypeOK /\ RowRead

TablesTyped ==
  /\ IsTable(towns, Towns, Town)
  /\ IsTable(users, Account, User)
  /\ elevators \in [Routes -> BOOLEAN]

LEMMA NewUserType ==
  ASSUME NEW q \in Request
  PROVE  NewUser(q) \in User
  BY RequestType DEF NewUser, User, Roles, Statuses, FirstStatus

LEMMA AskedType ==
  ASSUME NEW row \in User, NEW wheelchair \in BOOLEAN \cup {None}
  PROVE  /\ Asked(row, wheelchair) \in User
         /\ Asked(row, wheelchair).role = row.role /\ Asked(row, wheelchair).route = row.route
         /\ Asked(row, wheelchair).accessibility = "PENDING_REVIEW"
         /\ Asked(row, wheelchair).periods = row.periods
         /\ Asked(row, wheelchair).wheelchair =
              IF wheelchair = None THEN row.wheelchair ELSE wheelchair
  BY DEF Asked, User, Statuses

LEMMA DecidedType ==
  ASSUME NEW row \in User, NEW read \in User,
         NEW status \in {"APPROVED", "REJECTED", "REVOKED"}
  PROVE  /\ Decided(row, read, status) \in User
         /\ Decided(row, read, status).role = row.role
         /\ Decided(row, read, status).route = row.route
         /\ Decided(row, read, status).wheelchair = row.wheelchair
         /\ Decided(row, read, status).accessibility = status
         /\ Decided(row, read, status).periods =
              IF status = "APPROVED" THEN read.periods + 1 ELSE row.periods
<1> DEFINE n == IF status = "APPROVED" THEN read.periods + 1 ELSE row.periods
<1>1. n \in Nat
  BY DEF User
<1>2. Decided(row, read, status) = [row EXCEPT !.accessibility = status, !.periods = n]
  BY DEF Decided, User
<1>3. n = IF status = "APPROVED" THEN read.periods + 1 ELSE row.periods
  OBVIOUS
<1> HIDE DEF n
<1>4. QED
  BY <1>1, <1>2, <1>3 DEF User, Statuses

\* What each call's step leaves of the calls and the tables.
LEMMA CallStepTypes ==
  ASSUME TypesInv, NEW c \in Calls, CallStep(c)
  PROVE  /\ Steps(c) /\ TablesTyped'
         /\ c \in DOMAIN calls' /\ calls'[c].pc = "write" => calls'[c].read \in User
<1> DEFINE q == calls[c].request
           u == q.user
<1>1. /\ IsTable(calls, Calls, Call) /\ TablesTyped
      /\ c \in DOMAIN calls /\ calls[c] \in Call
  BY DEF TypesInv, TownAccountsTypeOK, TablesTyped, CallStep, ReadTown, ReadPerson, ReadOffice,
     InsertUser, AppointManager, ReadUser, WriteRequest, WriteReview, RequireElevator, At,
     IsTable
<1>2. q \in Request
  BY <1>1 DEF Call
<1>3. CASE ReadTown(c)
  BY <1>1, <1>3, AdvanceSteps, LeaveSteps DEF ReadTown, TablesTyped, Statements
<1>4. CASE ReadPerson(c)
  <2>1. Leave(c) \/ Advance(c, "office") \/ Advance(c, "insert")
    BY <1>4 DEF ReadPerson
  <2>2. QED
    BY <1>1, <1>4, <2>1, AdvanceSteps, LeaveSteps DEF ReadPerson, TablesTyped, Statements
<1>5. CASE ReadOffice(c)
  BY <1>1, <1>5, AdvanceSteps, LeaveSteps DEF ReadOffice, TablesTyped, Statements
<1>6. CASE InsertUser(c)
  <2>1. /\ Steps(c)
        /\ c \in DOMAIN calls' => calls'[c].pc \in {"appoint", "elevator"}
    <3>1. Leave(c) \/ Advance(c, "appoint") \/ Finish(c)
      BY <1>6 DEF InsertUser
    <3>2. QED
      BY <1>1, <3>1, AdvanceSteps, LeaveSteps, FinishSteps DEF Statements
  <2>2. IsTable(users', Account, User)
    <3>1. NewUser(q) \in User /\ u \in Account
      BY <1>2, NewUserType, RequestType
    <3>2. users' = users \/ users' = With(users, u, NewUser(q))
      BY <1>6 DEF InsertUser
    <3>3. QED
      BY <1>1, <3>1, <3>2, TableWith DEF TablesTyped
  <2>3. QED
    BY <1>1, <1>6, <2>1, <2>2 DEF InsertUser, TablesTyped
<1>7. CASE AppointManager(c)
  <2>1. Steps(c) /\ (c \in DOMAIN calls' => calls'[c].pc = "elevator")
    BY <1>1, <1>7, FinishSteps DEF AppointManager
  <2>2. IsTable(towns', Towns, Town)
    <3>1. u \in Account /\ \A t \in DOMAIN towns : towns[t] \in Town
      BY <1>1, <1>2, RequestType DEF TablesTyped, IsTable
    <3>2. u.town \in DOMAIN towns => Appointed(u.town, u) \in Town
      BY <3>1 DEF Appointed, Town
    <3>3. QED
      BY <1>1, <1>7, <3>2, TableExcept DEF AppointManager, TablesTyped
  <2>3. QED
    BY <1>1, <1>7, <2>1, <2>2 DEF AppointManager, TablesTyped
<1>8. CASE ReadUser(c)
  <2>1. CASE Leave(c)
    BY <1>1, <1>8, <2>1, LeaveSteps DEF ReadUser, TablesTyped
  <2>2. CASE u \in DOMAIN users /\ calls' = [calls EXCEPT ![c].pc = "write", ![c].read = users[u]]
    <3> DEFINE call == [calls[c] EXCEPT !.pc = "write", !.read = users[u]]
    <3>1. users[u] \in User
      BY <1>1, <2>2 DEF TablesTyped, IsTable
    <3>2. call \in Call /\ call.request = q /\ call.read \in User
      BY <1>1, <3>1 DEF Call, Statements
    <3>3. calls' = [calls EXCEPT ![c] = call]
      BY <2>2
    <3> HIDE DEF call
    <3>4. QED
      BY <1>1, <1>8, <3>2, <3>3, StepsTo DEF ReadUser, TablesTyped
  <2>3. QED
    BY <1>8, <2>1, <2>2 DEF ReadUser
<1>9. CASE WriteRequest(c)
  <2>1. Steps(c) /\ (c \in DOMAIN calls' => calls'[c].pc = "elevator")
    <3>1. Advance(c, "elevator") \/ Leave(c)
      BY <1>9 DEF WriteRequest
    <3>2. QED
      BY <1>1, <3>1, AdvanceSteps, LeaveSteps DEF Statements
  <2>2. IsTable(users', Account, User)
    <3>1. u \in DOMAIN users => Asked(users[u], q.wheelchair) \in User
      BY <1>1, <1>2, <1>9, RequestType, AskedType DEF WriteRequest, TablesTyped, IsTable
    <3>2. QED
      BY <1>1, <1>9, <3>1, TableExcept DEF WriteRequest, TablesTyped
  <2>3. QED
    BY <1>1, <1>9, <2>1, <2>2 DEF WriteRequest, TablesTyped
<1>10. CASE WriteReview(c)
  <2>1. Steps(c) /\ c \notin DOMAIN calls'
    BY <1>1, <1>10, LeaveSteps DEF WriteReview
  <2>2. IsTable(users', Account, User)
    <3>1. calls[c].read \in User
      BY <1>1, <1>10 DEF WriteReview, At, TypesInv, RowRead
    <3>2. u \in DOMAIN users => Decided(users[u], calls[c].read, q.status) \in User
      BY <1>1, <1>2, <1>10, <3>1, RequestType, DecidedType DEF WriteReview, TablesTyped, IsTable
    <3>3. QED
      BY <1>1, <1>10, <3>2, TableExcept DEF WriteReview, TablesTyped
  <2>3. QED
    BY <1>1, <1>10, <2>1, <2>2 DEF WriteReview, TablesTyped
<1>11. CASE RequireElevator(c)
  BY <1>1, <1>11, LeaveSteps DEF RequireElevator, TablesTyped
<1>12. QED
  BY <1>3, <1>4, <1>5, <1>6, <1>7, <1>8, <1>9, <1>10, <1>11 DEF CallStep


\* A call received has read nothing.
Received(c, q) ==
  /\ IsTable(calls', Calls, Call)
  /\ DOMAIN calls' = DOMAIN calls \cup {c} /\ c \notin DOMAIN calls
  /\ calls'[c].request = q /\ calls'[c].pc = FirstStatement(q)
  /\ \A d \in DOMAIN calls : calls'[d] = calls[d]

LEMMA ReceiveTypes ==
  ASSUME IsTable(calls, Calls, Call), NEW c \in Calls, NEW q \in Requests, Receive(c, q)
  PROVE  Received(c, q) /\ FirstStatement(q) \in {"town", "user"}
<1> DEFINE pc == FirstStatement(q)
           call == [request |-> q, pc |-> pc, read |-> None]
<1>1. q \in Request /\ pc \in {"town", "user"}
  BY TownAccountsAssumption DEF FirstStatement
<1>2. call \in Call /\ call.request = q /\ call.pc = pc
  <2> HIDE DEF pc
  <2> QED
    BY <1>1 DEF Call, Statements
<1>3. calls' = With(calls, c, call) /\ c \notin DOMAIN calls
  BY DEF Receive
<1> HIDE DEF call
<1>4. IsTable(calls', Calls, Call)
  BY <1>2, <1>3, TableWith
<1>5. QED
  BY <1>1, <1>2, <1>3, <1>4 DEF Received, With

\* A restart leaves no call.
LEMMA RestartTypes ==
  ASSUME TownAccountsRestart
  PROVE  IsTable(calls', Calls, Call) /\ DOMAIN calls' = {}
  BY DEF TownAccountsRestart, Empty, IsTable

\* The statements of which a handler is all.
Others ==
  \/ \E t \in Towns : CreateTown(t) \/ RemoveManager(t)
  \/ \E t \in Towns, b \in BOOLEAN : UpdateTown(t, b)
  \/ \E u \in Account, b \in BOOLEAN : UpdateMe(u, b)
  \/ \E r \in Routes, b \in BOOLEAN : UpdateRoute(r, b)

LEMMA OtherTypes ==
  ASSUME TypesInv, Others
  PROVE  TablesTyped' /\ calls' = calls
<1>1. TablesTyped
  BY DEF TypesInv, TownAccountsTypeOK, TablesTyped
<1>2. ASSUME NEW t \in Towns, CreateTown(t) PROVE TablesTyped' /\ calls' = calls
  <2>1. [active |-> TRUE, manager |-> None] \in Town
    BY DEF Town
  <2>2. IsTable(towns', Towns, Town)
    BY <1>1, <1>2, <2>1, TableWith DEF CreateTown, TablesTyped
  <2>3. QED
    BY <1>1, <1>2, <2>2 DEF CreateTown, TablesTyped
<1>3. ASSUME NEW t \in Towns, RemoveManager(t) PROVE TablesTyped' /\ calls' = calls
  <2>1. [towns[t] EXCEPT !.manager = None] \in Town
    BY <1>1, <1>3 DEF RemoveManager, TablesTyped, IsTable, Town
  <2>2. IsTable(towns', Towns, Town)
    BY <1>1, <1>3, <2>1, TableExcept DEF RemoveManager, TablesTyped
  <2>3. QED
    BY <1>1, <1>3, <2>2 DEF RemoveManager, TablesTyped
<1>4. ASSUME NEW t \in Towns, NEW b \in BOOLEAN, UpdateTown(t, b)
      PROVE  TablesTyped' /\ calls' = calls
  <2>1. [towns[t] EXCEPT !.active = b] \in Town
    BY <1>1, <1>4 DEF UpdateTown, TablesTyped, IsTable, Town
  <2>2. IsTable(towns', Towns, Town)
    BY <1>1, <1>4, <2>1, TableExcept DEF UpdateTown, TablesTyped
  <2>3. QED
    BY <1>1, <1>4, <2>2 DEF UpdateTown, TablesTyped
<1>5. ASSUME NEW u \in Account, NEW b \in BOOLEAN, UpdateMe(u, b)
      PROVE  TablesTyped' /\ calls' = calls
  <2>1. [users[u] EXCEPT !.wheelchair = b] \in User
    BY <1>1, <1>5 DEF UpdateMe, TablesTyped, IsTable, User
  <2>2. IsTable(users', Account, User)
    BY <1>1, <1>5, <2>1, TableExcept DEF UpdateMe, TablesTyped
  <2>3. QED
    BY <1>1, <1>5, <2>2 DEF UpdateMe, TablesTyped
<1>6. ASSUME NEW r \in Routes, NEW b \in BOOLEAN, UpdateRoute(r, b)
      PROVE  TablesTyped' /\ calls' = calls
  BY <1>1, <1>6 DEF UpdateRoute, TablesTyped
<1>7. QED
  BY <1>2, <1>3, <1>4, <1>5, <1>6 DEF Others

\* The history keeps its types, whatever the step.
LEMMA HistoryTypes ==
  ASSUME TypesInv, TablesTyped', IsTable(calls', Calls, Call), RowRead', Remember
  PROVE  TypesInv'
<1>1. ASSUME NEW c \in DOMAIN calls' PROVE Since(c) \subseteq News
  <2>1. CASE c \in DOMAIN calls
    <3>1. since[c] \subseteq News
      BY <2>1 DEF TypesInv, TownAccountsTypeOK, IsTable
    <3>2. Missed(c) \subseteq News
      BY DEF Missed, News
    <3>3. QED
      BY <3>1, <3>2 DEF Since
  <2>2. CASE c \notin DOMAIN calls
    BY <1>1, <2>2 DEF Since
  <2>3. QED
    BY <2>1, <2>2
<1>2. IsTable(since', Calls, SUBSET News) /\ DOMAIN since' = DOMAIN calls'
  BY <1>1 DEF Remember, IsTable
<1>3. raced' \subseteq Towns /\ lapsed' \subseteq Routes
  BY DEF Remember, TypesInv, TownAccountsTypeOK
<1>4. asked' \in [Account -> Nat]
  BY DEF Remember, TypesInv, TownAccountsTypeOK
<1>5. QED
  BY <1>2, <1>3, <1>4 DEF TypesInv, TownAccountsTypeOK, TablesTyped

LEMMA TypesStart ==
  ASSUME TownAccountsInit
  PROVE  TypesInv
<1>1. DOMAIN towns \subseteq Towns /\ towns \in [DOMAIN towns -> Town]
  <2>1. [active |-> TRUE, manager |-> None] \in Town
    BY DEF Town
  <2>2. QED
    BY <2>1 DEF TownAccountsInit
<1>2. users = Empty /\ calls = Empty /\ since = Empty /\ DOMAIN Empty = {}
      /\ elevators \in [Routes -> BOOLEAN] /\ raced = {} /\ lapsed = {}
      /\ asked \in [Account -> Nat]
  BY DEF TownAccountsInit, Empty
<1>3. \A Keys, Row : IsTable(Empty, Keys, Row)
  BY DEF IsTable, Empty
<1>4. IsTable(towns, Towns, Town)
  BY <1>1 DEF IsTable
<1>5. QED
  BY <1>2, <1>3, <1>4 DEF TypesInv, TownAccountsTypeOK, RowRead

LEMMA TypesKept ==
  ASSUME TypesInv, [TownAccountsNext]_townAccountsVars
  PROVE  TypesInv'
<1>1. /\ IsTable(calls, Calls, Call) /\ TablesTyped
      /\ \A c \in DOMAIN calls : calls[c].pc = "write" => calls[c].read \in User
  BY DEF TypesInv, TownAccountsTypeOK, TablesTyped, RowRead
<1>2. ASSUME NEW c \in Calls, NEW q \in Requests, Receive(c, q), Remember PROVE TypesInv'
  <2>1. Received(c, q) /\ FirstStatement(q) \in {"town", "user"}
    BY <1>1, <1>2, ReceiveTypes
  <2>2. TablesTyped'
    BY <1>1, <1>2 DEF Receive, TablesTyped
  <2>3. RowRead'
    BY <1>1, <2>1 DEF Received, RowRead
  <2>4. QED
    BY <1>2, <2>1, <2>2, <2>3, HistoryTypes DEF Received
<1>3. ASSUME NEW c \in Calls, CallStep(c), Remember PROVE TypesInv'
  <2>1. /\ Steps(c) /\ TablesTyped'
        /\ (c \in DOMAIN calls' /\ calls'[c].pc = "write" => calls'[c].read \in User)
    BY <1>3, CallStepTypes
  <2>2. RowRead'
    <3> SUFFICES ASSUME NEW d \in DOMAIN calls', calls'[d].pc = "write"
                 PROVE  calls'[d].read \in User
      BY DEF RowRead
    <3>1. CASE d = c
      BY <2>1, <3>1
    <3>2. CASE d # c
      BY <1>1, <2>1, <3>2 DEF Steps
    <3>3. QED
      BY <3>1, <3>2
  <2>3. QED
    BY <1>3, <2>1, <2>2, HistoryTypes DEF Steps
<1>4. ASSUME Others, Remember PROVE TypesInv'
  <2>1. TablesTyped' /\ calls' = calls
    BY <1>4, OtherTypes
  <2>2. QED
    BY <1>1, <1>4, <2>1, HistoryTypes DEF RowRead
<1>5. ASSUME TownAccountsRestart, Remember PROVE TypesInv'
  <2>1. IsTable(calls', Calls, Call) /\ DOMAIN calls' = {}
    BY <1>5, RestartTypes
  <2>2. TablesTyped' /\ RowRead'
    BY <1>1, <1>5, <2>1 DEF TownAccountsRestart, TablesTyped, RowRead
  <2>3. QED
    BY <1>5, <2>1, <2>2, HistoryTypes
<1>6. CASE UNCHANGED townAccountsVars
  BY <1>6 DEF townAccountsVars, history, TypesInv, TownAccountsTypeOK, RowRead
<1>7. QED
  BY <1>2, <1>3, <1>4, <1>5, <1>6 DEF TownAccountsNext, Step, Others

(***************************************************************************)
(* For every set of towns, people and calls: tables, calls and history     *)
(* keep their types.  That a decision counts on from a row, and not from   *)
(* nothing, is because its handler has read one (RowRead).                 *)
(***************************************************************************)
THEOREM TownAccountsTypeCorrect == TownAccountsSpec => []TownAccountsTypeOK
<1>1. TownAccountsInit => TypesInv
  BY TypesStart
<1>2. TypesInv /\ [TownAccountsNext]_townAccountsVars => TypesInv'
  BY TypesKept
<1>3. TypesInv => TownAccountsTypeOK
  BY DEF TypesInv
<1>4. QED
  BY <1>1, <1>2, <1>3, PTL DEF TownAccountsSpec


----------------------------------------------------------------------------
(* Who moves a call, and who writes a row *)

LEMMA CallMoved ==
  ASSUME TypesInv, Step, NEW c \in DOMAIN calls'
  PROVE  \/ c \in DOMAIN calls /\ calls'[c] = calls[c]
         \/ \E q \in Requests :
              /\ c \notin DOMAIN calls /\ calls'[c].request = q
              /\ calls'[c].pc = FirstStatement(q) /\ calls'[c].pc \in {"town", "user"}
         \/ /\ CallStep(c) /\ c \in DOMAIN calls
            /\ calls'[c].request = calls[c].request
<1>1. IsTable(calls, Calls, Call)
  BY DEF TypesInv, TownAccountsTypeOK
<1>2. ASSUME NEW d \in Calls, NEW q \in Requests, Receive(d, q)
      PROVE  \/ c \in DOMAIN calls /\ calls'[c] = calls[c]
             \/ /\ c \notin DOMAIN calls /\ calls'[c].request = q
                /\ calls'[c].pc = FirstStatement(q) /\ calls'[c].pc \in {"town", "user"}
  BY <1>1, <1>2, ReceiveTypes DEF Received
<1>3. ASSUME NEW d \in Calls, CallStep(d)
      PROVE  \/ c \in DOMAIN calls /\ calls'[c] = calls[c]
             \/ /\ CallStep(c) /\ c \in DOMAIN calls
                /\ calls'[c].request = calls[c].request
  <2>1. Steps(d)
    BY <1>3, CallStepTypes
  <2>2. QED
    BY <1>3, <2>1 DEF Steps
<1>4. ASSUME Others \/ TownAccountsRestart
      PROVE  c \in DOMAIN calls /\ calls'[c] = calls[c]
  BY <1>1, <1>4, OtherTypes, RestartTypes
<1>5. QED
  BY <1>2, <1>3, <1>4 DEF Step, Others

\* Only its own last statement or a restart ends a call under way.
LEMMA CallEnds ==
  ASSUME TypesInv, Step, NEW c \in DOMAIN calls
  PROVE  \/ c \in DOMAIN calls' /\ calls'[c] = calls[c]
         \/ CallStep(c)
         \/ TownAccountsRestart /\ c \notin DOMAIN calls'
<1>1. IsTable(calls, Calls, Call)
  BY DEF TypesInv, TownAccountsTypeOK
<1>2. ASSUME NEW d \in Calls, NEW q \in Requests, Receive(d, q)
      PROVE  c \in DOMAIN calls' /\ calls'[c] = calls[c]
  BY <1>1, <1>2, ReceiveTypes DEF Received
<1>3. ASSUME NEW d \in Calls, CallStep(d)
      PROVE  (c \in DOMAIN calls' /\ calls'[c] = calls[c]) \/ CallStep(c)
  BY <1>3, CallStepTypes DEF Steps
<1>4. ASSUME TownAccountsRestart
      PROVE  c \notin DOMAIN calls'
  BY <1>1, <1>4, RestartTypes
<1>5. CASE Others
  BY <1>5, OtherTypes
<1>6. QED
  BY <1>2, <1>3, <1>4, <1>5 DEF Step, Others

LEMMA RowWritten ==
  ASSUME TypesInv, Step, NEW u \in DOMAIN users'
  PROVE  \/ u \in DOMAIN users /\ users'[u] = users[u]
         \/ /\ u \notin DOMAIN users
            /\ \E c \in Calls : /\ InsertUser(c) /\ Owner(c) = u
                                /\ users'[u] = NewUser(calls[c].request)
         \/ /\ u \in DOMAIN users
            /\ \/ \E c \in Calls :
                    /\ WriteRequest(c) /\ Owner(c) = u
                    /\ users'[u] = Asked(users[u], calls[c].request.wheelchair)
               \/ \E c \in Calls :
                    /\ WriteReview(c) /\ Owner(c) = u
                    /\ users'[u] = Decided(users[u], calls[c].read, calls[c].request.status)
               \/ \E b \in BOOLEAN :
                    UpdateMe(u, b) /\ users'[u] = [users[u] EXCEPT !.wheelchair = b]
<1>1. ASSUME NEW c \in Calls, InsertUser(c), users' # users
      PROVE  \/ u \in DOMAIN users /\ users'[u] = users[u]
             \/ /\ u \notin DOMAIN users /\ Owner(c) = u
                /\ users'[u] = NewUser(calls[c].request)
  BY <1>1 DEF InsertUser, With, Owner
<1>2. ASSUME NEW c \in Calls, WriteRequest(c)
      PROVE  /\ u \in DOMAIN users
             /\ \/ users'[u] = users[u]
                \/ Owner(c) = u /\ users'[u] = Asked(users[u], calls[c].request.wheelchair)
  BY <1>2 DEF WriteRequest, Owner
<1>3. ASSUME NEW c \in Calls, WriteReview(c)
      PROVE  /\ u \in DOMAIN users
             /\ \/ users'[u] = users[u]
                \/ /\ Owner(c) = u
                   /\ users'[u] = Decided(users[u], calls[c].read, calls[c].request.status)
  BY <1>3 DEF WriteReview, Owner
<1>4. ASSUME NEW v \in Account, NEW b \in BOOLEAN, UpdateMe(v, b)
      PROVE  /\ u \in DOMAIN users
             /\ \/ users'[u] = users[u]
                \/ u = v /\ users'[u] = [users[u] EXCEPT !.wheelchair = b]
  BY <1>4 DEF UpdateMe
<1>5. ASSUME NEW c \in Calls, CallStep(c), users' # users
      PROVE  InsertUser(c) \/ WriteRequest(c) \/ WriteReview(c)
  BY <1>5 DEF CallStep, ReadTown, ReadPerson, ReadOffice, AppointManager, ReadUser,
     RequireElevator
<1>6. CASE users' = users
  BY <1>6
<1>7. CASE users' # users
  <2>1. \/ \E c \in Calls : CallStep(c)
        \/ \E v \in Account, b \in BOOLEAN : UpdateMe(v, b)
    BY <1>7 DEF Step, Receive, CreateTown, RemoveManager, UpdateTown, UpdateRoute,
       TownAccountsRestart
  <2>2. CASE \E c \in Calls : CallStep(c)
    <3>1. PICK c \in Calls : InsertUser(c) \/ WriteRequest(c) \/ WriteReview(c)
      BY <1>5, <1>7, <2>2
    <3>2. CASE InsertUser(c)
      BY <1>1, <1>7, <3>2
    <3>3. CASE WriteRequest(c)
      BY <1>2, <3>3
    <3>4. CASE WriteReview(c)
      BY <1>3, <3>4
    <3>5. QED
      BY <3>1, <3>2, <3>3, <3>4
  <2>3. CASE \E v \in Account, b \in BOOLEAN : UpdateMe(v, b)
    BY <1>4, <2>3
  <2>4. QED
    BY <2>1, <2>2, <2>3
<1>8. QED
  BY <1>6, <1>7

LEMMA TownWritten ==
  ASSUME TypesInv, Step
  PROVE  /\ DOMAIN towns \subseteq DOMAIN towns'
         /\ \A t \in DOMAIN towns' :
              \/ t \in DOMAIN towns /\ towns'[t].manager = towns[t].manager
              \/ towns'[t].manager = None
              \/ \E c \in Calls :
                   AppointManager(c) /\ Owner(c).town = t /\ towns'[t].manager = Owner(c)
<1>1. \A t \in DOMAIN towns : towns[t] \in Town
  BY DEF TypesInv, TownAccountsTypeOK, IsTable
<1>2. CASE towns' = towns
  BY <1>2
<1>3. ASSUME NEW t \in Towns, CreateTown(t)
      PROVE  /\ DOMAIN towns \subseteq DOMAIN towns'
             /\ \A s \in DOMAIN towns' :
                  \/ s \in DOMAIN towns /\ towns'[s].manager = towns[s].manager
                  \/ towns'[s].manager = None
  BY <1>3 DEF CreateTown, With
<1>4. ASSUME NEW t \in Towns, RemoveManager(t)
      PROVE  /\ DOMAIN towns' = DOMAIN towns
             /\ \A s \in DOMAIN towns' :
                  towns'[s].manager = towns[s].manager \/ towns'[s].manager = None
  BY <1>1, <1>4 DEF RemoveManager, Town
<1>5. ASSUME NEW t \in Towns, NEW b \in BOOLEAN, UpdateTown(t, b)
      PROVE  /\ DOMAIN towns' = DOMAIN towns
             /\ \A s \in DOMAIN towns' : towns'[s].manager = towns[s].manager
  BY <1>1, <1>5 DEF UpdateTown, Town
<1>6. ASSUME NEW c \in Calls, AppointManager(c)
      PROVE  /\ DOMAIN towns' = DOMAIN towns
             /\ \A s \in DOMAIN towns' :
                  \/ towns'[s].manager = towns[s].manager
                  \/ Owner(c).town = s /\ towns'[s].manager = Owner(c)
  BY <1>1, <1>6 DEF AppointManager, Appointed, Town, Owner
<1>7. ASSUME NEW c \in Calls, CallStep(c), towns' # towns
      PROVE  AppointManager(c)
  BY <1>7 DEF CallStep, ReadTown, ReadPerson, ReadOffice, InsertUser, ReadUser, WriteRequest,
     WriteReview, RequireElevator
<1>8. CASE towns' # towns
  <2>1. \/ \E c \in Calls : AppointManager(c)
        \/ \E t \in Towns : CreateTown(t) \/ RemoveManager(t)
        \/ \E t \in Towns, b \in BOOLEAN : UpdateTown(t, b)
    BY <1>7, <1>8 DEF Step, Receive, UpdateMe, UpdateRoute, TownAccountsRestart
  <2>2. QED
    BY <1>3, <1>4, <1>5, <1>6, <2>1
<1>9. QED
  BY <1>2, <1>8

\* No town and no account goes, and no account changes its role or its route.
Grows ==
  /\ DOMAIN towns \subseteq DOMAIN towns' /\ DOMAIN users \subseteq DOMAIN users'
  /\ \A u \in DOMAIN users : users'[u].role = users[u].role /\ users'[u].route = users[u].route
  /\ raced \subseteq raced'
  /\ \A u \in Account : asked'[u] >= asked[u]

LEMMA TablesGrow ==
  ASSUME TypesInv, TownAccountsNext
  PROVE  Grows
<1>1. Step /\ Remember
  BY DEF TownAccountsNext
<1>2. DOMAIN users \subseteq DOMAIN users'
  <2>1. \A c \in Calls : CallStep(c) => DOMAIN users \subseteq DOMAIN users'
    BY DEF CallStep, ReadTown, ReadPerson, ReadOffice, InsertUser, AppointManager, ReadUser,
       WriteRequest, WriteReview, RequireElevator, With
  <2>2. QED
    BY <1>1, <2>1 DEF Step, Receive, CreateTown, RemoveManager, UpdateTown, UpdateMe,
       UpdateRoute, TownAccountsRestart
<1>3. ASSUME NEW u \in DOMAIN users
      PROVE  users'[u].role = users[u].role /\ users'[u].route = users[u].route
  <2>1. users[u] \in User
    BY DEF TypesInv, TownAccountsTypeOK, IsTable
  <2>2. ASSUME NEW w PROVE Asked(users[u], w).role = users[u].role
                           /\ Asked(users[u], w).route = users[u].route
    BY <2>1 DEF Asked, User
  <2>3. ASSUME NEW read, NEW s PROVE Decided(users[u], read, s).role = users[u].role
                                     /\ Decided(users[u], read, s).route = users[u].route
    BY <2>1 DEF Decided, User
  <2>4. \/ users'[u] = users[u]
        \/ \E w : users'[u] = Asked(users[u], w)
        \/ \E read, s : users'[u] = Decided(users[u], read, s)
        \/ \E b : users'[u] = [users[u] EXCEPT !.wheelchair = b]
    <3>1. u \in DOMAIN users'
      BY <1>2
    <3>2. QED
      BY <1>1, <3>1, RowWritten
  <2>5. CASE \E b : users'[u] = [users[u] EXCEPT !.wheelchair = b]
    BY <2>1, <2>5 DEF User
  <2>6. CASE \E w : users'[u] = Asked(users[u], w)
    BY <2>2, <2>6
  <2>7. CASE \E read, s : users'[u] = Decided(users[u], read, s)
    BY <2>3, <2>7
  <2>8. QED
    BY <2>4, <2>5, <2>6, <2>7
<1>4. raced \subseteq raced' /\ \A u \in Account : asked'[u] >= asked[u]
  BY <1>1 DEF Remember, TypesInv, TownAccountsTypeOK
<1>5. QED
  BY <1>1, <1>2, <1>3, <1>4, TownWritten DEF Grows


----------------------------------------------------------------------------
(***************************************************************************)
(* What a call under way may rely on, because towns and accounts stay and  *)
(* accounts keep role and route: its town, the account it has written or   *)
(* read, and that the row it read allowed what it asks.                    *)
(***************************************************************************)
Knows(call) ==
  LET q == call.request u == q.user IN
  /\ call.pc \in {"town", "person", "office", "insert", "appoint"} =>
       q.op \in {"register", "createManager"}
  /\ call.pc \in {"user", "write"} => q.op \in {"requestAccessibility", "reviewAccessibility"}
  /\ call.pc = "elevator" => q.op \in {"register", "requestAccessibility"}
  /\ call.pc \in {"person", "office", "insert", "appoint"} => u.town \in DOMAIN towns
  /\ call.pc = "appoint" => Appoints(q) /\ u \in DOMAIN users /\ users[u].role = "MANAGER"
  /\ call.pc \in {"appoint", "elevator"} /\ q.op = "register" =>
       u \in DOMAIN users /\ users[u].route = q.route
  /\ call.pc = "write" \/ (call.pc = "elevator" /\ q.op = "requestAccessibility") =>
       u \in DOMAIN users /\ call.read \in User /\ call.read.route = users[u].route
  /\ call.pc = "write" => Allowed(q, call.read)

CallsKnow == \A c \in DOMAIN calls : Knows(calls[c])

LEMMA KnowsKept ==
  ASSUME Grows, NEW call, Knows(call)
  PROVE  Knows(call)'
  BY DEF Grows, Knows

\* The row of a new account.
LEMMA NewUserRow ==
  ASSUME NEW q \in Request
  PROVE  /\ Appoints(q) => NewUser(q).role = "MANAGER"
         /\ q.op = "register" =>
              /\ NewUser(q).role = q.role /\ NewUser(q).route = q.route
              /\ NewUser(q).wheelchair = q.wheelchair
         /\ q.op # "register" => NewUser(q).route = None /\ ~ NewUser(q).wheelchair
         /\ NewUser(q).periods = 0
  BY RequestType DEF NewUser, Appoints

LEMMA KnowsNext ==
  ASSUME TypesInv, TownAccountsNext, NEW c \in Calls, CallStep(c), Knows(calls[c]),
         c \in DOMAIN calls', NEW call, call = calls'[c]
  PROVE  Knows(call)'
<1> DEFINE q == calls[c].request
           u == q.user
<1>1. /\ IsTable(calls, Calls, Call) /\ c \in DOMAIN calls /\ calls[c] \in Call /\ q \in Request
      /\ call.request = q /\ Grows
  BY CallStepTypes, TablesGrow DEF TypesInv, TownAccountsTypeOK, Steps, IsTable, Call
<1>2. ASSUME NEW pc \in Statements, Advance(c, pc)
      PROVE  call.pc = pc /\ call.read = calls[c].read
  BY <1>1, <1>2, AdvanceSteps
<1>3. ~ Leave(c)
  BY <1>1, LeaveSteps
<1>4. ASSUME Finish(c) PROVE call.pc = "elevator" /\ call.read = calls[c].read /\ q.op = "register"
  BY <1>1, <1>4, FinishSteps
<1>5. CASE ReadTown(c)
  <2>1. call.pc = "person" /\ u.town \in DOMAIN towns /\ calls[c].pc = "town"
    BY <1>2, <1>3, <1>5 DEF ReadTown, Refused, At, Statements
  <2>2. QED
    BY <1>1, <2>1 DEF Knows, Grows
<1>6. CASE ReadPerson(c)
  <2>1. call.pc \in {"office", "insert"} /\ calls[c].pc = "person"
    <3>1. Advance(c, "office") \/ Advance(c, "insert")
      BY <1>3, <1>6 DEF ReadPerson
    <3>2. QED
      BY <1>2, <1>6, <3>1 DEF ReadPerson, At, Statements
  <2>2. QED
    BY <1>1, <2>1 DEF Knows, Grows
<1>7. CASE ReadOffice(c)
  <2>1. call.pc = "insert" /\ calls[c].pc = "office"
    BY <1>2, <1>3, <1>7 DEF ReadOffice, At, Statements
  <2>2. QED
    BY <1>1, <2>1 DEF Knows, Grows
<1>8. CASE InsertUser(c)
  <2>1. users' = With(users, u, NewUser(q))
    BY <1>3, <1>8 DEF InsertUser
  <2>2. CASE users' = With(users, u, NewUser(q))
    <3>1. u \in DOMAIN users' /\ users'[u] = NewUser(q) /\ calls[c].pc = "insert"
      BY <1>8, <2>2 DEF With, InsertUser, At
    <3>2. CASE Appoints(q) /\ Advance(c, "appoint")
      <4>1. call.pc = "appoint"
        BY <1>2, <3>2 DEF Statements
      <4>2. QED
        BY <1>1, <3>1, <3>2, <4>1, NewUserRow DEF Knows, Grows
    <3>3. CASE Finish(c)
      BY <1>1, <1>4, <3>1, <3>3, NewUserRow DEF Knows, Grows
    <3>4. QED
      BY <1>3, <1>8, <3>2, <3>3 DEF InsertUser
  <2>3. QED
    BY <2>1, <2>2
<1>9. CASE AppointManager(c)
  BY <1>1, <1>4, <1>9 DEF AppointManager, At, Knows, Grows
<1>10. CASE ReadUser(c)
  <2>1. u \in DOMAIN users /\ Allowed(q, users[u]) /\ calls[c].pc = "user"
        /\ calls' = [calls EXCEPT ![c].pc = "write", ![c].read = users[u]]
    BY <1>3, <1>10 DEF ReadUser, At
  <2>2. call.pc = "write" /\ call.read = users[u] /\ users[u] \in User /\ users' = users
    BY <1>1, <1>10, <2>1 DEF ReadUser, Call, TypesInv, TownAccountsTypeOK, IsTable
  <2>3. QED
    BY <1>1, <2>1, <2>2 DEF Knows, Allowed
<1>11. CASE WriteRequest(c)
  <2>1. call.pc = "elevator" /\ call.read = calls[c].read
    BY <1>2, <1>3, <1>11 DEF WriteRequest, Statements
  <2>2. QED
    BY <1>1, <1>11, <2>1 DEF WriteRequest, At, Knows, Grows
<1>12. ~ WriteReview(c) /\ ~ RequireElevator(c)
  BY <1>3 DEF WriteReview, RequireElevator
<1>13. QED
  BY <1>5, <1>6, <1>7, <1>8, <1>9, <1>10, <1>11, <1>12 DEF CallStep

LEMMA CallsKnowKept ==
  ASSUME TypesInv, CallsKnow, [TownAccountsNext]_townAccountsVars
  PROVE  CallsKnow'
<1>1. CASE UNCHANGED townAccountsVars
  BY <1>1 DEF townAccountsVars, CallsKnow, Knows
<1>2. CASE TownAccountsNext
  <2> SUFFICES ASSUME NEW c \in DOMAIN calls', NEW call, call = calls'[c]
               PROVE  Knows(call)'
    BY DEF CallsKnow, Knows
  <2>1. Grows /\ Step
    BY <1>2, TablesGrow DEF TownAccountsNext
  <2>2. CASE c \in DOMAIN calls /\ calls'[c] = calls[c]
    BY <2>1, <2>2, KnowsKept DEF CallsKnow
  <2>3. ASSUME NEW q \in Requests, calls'[c].request = q,
               calls'[c].pc = FirstStatement(q), calls'[c].pc \in {"town", "user"}
        PROVE  Knows(call)'
    <3>1. q \in Request
      BY TownAccountsAssumption
    <3>2. QED
      BY <2>3, <3>1, RequestType DEF FirstStatement, Knows
  <2>4. CASE CallStep(c) /\ c \in DOMAIN calls
    <3>1. c \in Calls
      BY <2>4 DEF TypesInv, TownAccountsTypeOK, IsTable
    <3>2. QED
      BY <1>2, <2>4, <3>1, KnowsNext DEF CallsKnow
  <2>5. QED
    BY <2>1, <2>2, <2>3, <2>4, CallMoved
<1>3. QED
  BY <1>1, <1>2


----------------------------------------------------------------------------
(* What a call has missed *)

\* A call that waits is told what others change; one that moves keeps what it was
\* told, unless it is about to tell the route.
LEMMA SinceNext ==
  ASSUME TypesInv, TownAccountsNext, NEW c \in DOMAIN calls, c \in DOMAIN calls'
  PROVE  /\ calls'[c] = calls[c] /\ calls[c].pc # "elevator" =>
              since'[c] = since[c] \cup Missed(c)
         /\ calls'[c] # calls[c] /\ calls'[c].pc # "elevator" =>
              since'[c] = since[c]
  BY DEF TownAccountsNext, Remember, Since

(* Past its check, a call knows whether its person came in since. *)
JoinedSeen ==
  \A c \in DOMAIN calls :
    calls[c].pc \in {"office", "insert"} /\ Owner(c) \in DOMAIN users => "joined" \in since[c]

LEMMA JoinedSeenKept ==
  ASSUME TypesInv, JoinedSeen, [TownAccountsNext]_townAccountsVars
  PROVE  JoinedSeen'
<1>1. CASE UNCHANGED townAccountsVars
  BY <1>1 DEF townAccountsVars, history, JoinedSeen, Owner
<1>2. CASE TownAccountsNext
  <2> SUFFICES ASSUME NEW c \in DOMAIN calls',
                      calls'[c].pc \in {"office", "insert"},
                      calls'[c].request.user \in DOMAIN users'
               PROVE  "joined" \in since'[c]
    BY DEF JoinedSeen, Owner
  <2>1. Step /\ IsTable(calls, Calls, Call)
    BY <1>2 DEF TownAccountsNext, TypesInv, TownAccountsTypeOK
  <2>2. CASE c \in DOMAIN calls /\ calls'[c] = calls[c]
    <3>1. since'[c] = since[c] \cup Missed(c)
      BY <1>2, <2>2, SinceNext
    <3>2. "joined" \in since[c] \/ NowJoined(c)
      BY <2>2 DEF JoinedSeen, NowJoined, Owner
    <3>3. QED
      BY <3>1, <3>2 DEF Missed
  <2>3. CASE CallStep(c) /\ c \in DOMAIN calls /\ calls'[c].request = calls[c].request
             /\ calls'[c] # calls[c]
    <3>1. since'[c] = since[c]
      BY <1>2, <2>3, SinceNext
    <3>2. ASSUME NEW pc \in Statements, Advance(c, pc) PROVE calls'[c].pc = pc
      BY <2>1, <2>3, <3>2, AdvanceSteps
    <3>3. ~ Leave(c) /\ (Finish(c) => calls'[c].pc = "elevator")
      BY <2>1, <2>3, LeaveSteps, FinishSteps
    <3>4. CASE ReadPerson(c)
      <4>1. Owner(c) \notin DOMAIN users /\ users' = users
        BY <3>3, <3>4 DEF ReadPerson, Registered, Owner
      <4>2. Advance(c, "office") \/ Advance(c, "insert")
        BY <3>3, <3>4 DEF ReadPerson
      <4>3. QED
        BY <2>3, <3>2, <4>1, <4>2 DEF Owner, Statements
    <3>5. CASE ReadOffice(c)
      <4>1. users' = users /\ calls[c].pc = "office"
        BY <3>5 DEF ReadOffice, At
      <4>2. Advance(c, "insert")
        BY <3>3, <3>5 DEF ReadOffice
      <4>3. Owner(c) \in DOMAIN users
        BY <2>3, <3>2, <4>1, <4>2 DEF Owner, Statements
      <4>4. QED
        BY <2>3, <3>1, <4>1, <4>3 DEF JoinedSeen
    <3>6. ~ InsertUser(c)
      BY <3>2, <3>3 DEF InsertUser, Statements
    <3>7. ~ ReadTown(c)
      BY <3>2, <3>3 DEF ReadTown, Statements
    <3>8. ~ ReadUser(c)
      <4> SUFFICES ASSUME ReadUser(c) PROVE FALSE
        OBVIOUS
      <4>1. calls' = [calls EXCEPT ![c].pc = "write", ![c].read = users[calls[c].request.user]]
        BY <3>3 DEF ReadUser
      <4>2. calls[c] \in Call
        BY <2>1, <2>3 DEF IsTable
      <4>3. calls'[c].pc = "write"
        BY <2>3, <4>1, <4>2 DEF Call
      <4>4. QED
        BY <4>3
    <3>9. ~ WriteRequest(c) /\ ~ WriteReview(c) /\ ~ RequireElevator(c) /\ ~ AppointManager(c)
      BY <3>2, <3>3 DEF WriteRequest, WriteReview, RequireElevator, AppointManager, Statements
    <3>10. QED
      BY <2>3, <3>4, <3>5, <3>6, <3>7, <3>8, <3>9 DEF CallStep
  <2>4. CASE calls'[c].pc \in {"town", "user"}
    BY <2>4
  <2>5. QED
    BY <2>1, <2>2, <2>3, <2>4, CallMoved
<1>3. QED
  BY <1>1, <1>2

(***************************************************************************)
(* For every set of calls: a UNIQUE index turns an account down only when  *)
(* somebody with that e-mail and CPF came in after the call had looked.    *)
(* Past its first SELECT, a registration knows whether its town was paused since. *)
PausedSeen ==
  \A c \in DOMAIN calls :
    /\ calls[c].request.op = "register" /\ calls[c].pc \in {"person", "office", "insert"}
    /\ Paused(TownOf(c))
    => "paused" \in since[c]

LEMMA PausedSeenKept ==
  ASSUME TypesInv, CallsKnow, PausedSeen, [TownAccountsNext]_townAccountsVars
  PROVE  PausedSeen'
<1>1. CASE UNCHANGED townAccountsVars
  BY <1>1 DEF townAccountsVars, history, PausedSeen, Paused, TownOf, Owner
<1>2. CASE TownAccountsNext
  <2> SUFFICES ASSUME NEW c \in DOMAIN calls',
                      NEW q, q = calls'[c].request, q.op = "register",
                      calls'[c].pc \in {"person", "office", "insert"},
                      NEW t, t = q.user.town, ~ towns'[t].active
               PROVE  "paused" \in since'[c]
    BY DEF PausedSeen, Paused, TownOf, Owner
  <2>1. Step /\ IsTable(calls, Calls, Call)
    BY <1>2 DEF TownAccountsNext, TypesInv, TownAccountsTypeOK
  <2>2. CASE c \in DOMAIN calls /\ calls'[c] = calls[c]
    <3>1. since'[c] = since[c] \cup Missed(c)
      BY <1>2, <2>2, SinceNext
    <3>2. "paused" \in since[c] \/ NowPaused(c)
      BY <2>2 DEF PausedSeen, NowPaused, Paused, TownOf, Owner
    <3>3. QED
      BY <3>1, <3>2 DEF Missed
  <2>3. CASE CallStep(c) /\ c \in DOMAIN calls /\ calls'[c].request = calls[c].request
             /\ calls'[c] # calls[c]
    <3>1. since'[c] = since[c]
      BY <1>2, <2>3, SinceNext
    <3>2. ASSUME NEW pc \in Statements, Advance(c, pc) PROVE calls'[c].pc = pc
      BY <2>1, <2>3, <3>2, AdvanceSteps
    <3>3. ~ Leave(c) /\ ~ Finish(c)
      BY <2>1, <2>3, LeaveSteps, FinishSteps
    <3>4. CASE ReadTown(c)
      BY <2>3, <3>3, <3>4 DEF ReadTown, Refused, Paused
    <3>5. CASE ReadPerson(c) \/ ReadOffice(c)
      <4>1. towns' = towns /\ calls[c].pc \in {"person", "office"}
        BY <3>5 DEF ReadPerson, ReadOffice, At
      <4>2. QED
        BY <2>3, <3>1, <4>1 DEF PausedSeen, Paused, TownOf, Owner
    <3>6. ~ InsertUser(c)
      BY <3>2, <3>3 DEF InsertUser, Statements
    <3>7. ~ ReadUser(c)
      <4> SUFFICES ASSUME ReadUser(c) PROVE FALSE
        OBVIOUS
      <4>1. calls[c].request.op # "register"
        BY <2>3 DEF ReadUser, At, CallsKnow, Knows
      <4>2. QED
        BY <2>3, <4>1
    <3>8. ~ WriteRequest(c) /\ ~ WriteReview(c) /\ ~ RequireElevator(c) /\ ~ AppointManager(c)
      BY <3>2, <3>3 DEF WriteRequest, WriteReview, RequireElevator, AppointManager, Statements
    <3>9. QED
      BY <2>3, <3>4, <3>5, <3>6, <3>7, <3>8 DEF CallStep
  <2>4. CASE calls'[c].pc \in {"town", "user"}
    BY <2>4
  <2>5. QED
    BY <2>1, <2>2, <2>3, <2>4, CallMoved
<1>3. QED
  BY <1>1, <1>2

(***************************************************************************)
(* For every set of calls: what register and createManager have checked    *)
(* still holds when they insert the account, unless a call with the same   *)
(* e-mail and CPF inserted one, or the town was paused, since the check.   *)
(***************************************************************************)
THEOREM TownInsertsChecked == TownAccountsSpec => InsertsChecked
<1> DEFINE Inv == TypesInv /\ CallsKnow /\ JoinedSeen /\ PausedSeen
           Checked ==
             \A c \in Calls : InsertUser(c) =>
               /\ Owner(c) \in DOMAIN users => "joined" \in since[c]
               /\ calls[c].request.op = "register" /\ Paused(TownOf(c)) => "paused" \in since[c]
<1>1. TownAccountsInit => Inv
  BY TypesStart DEF TownAccountsInit, Empty, CallsKnow, JoinedSeen, PausedSeen
<1>2. Inv /\ [TownAccountsNext]_townAccountsVars => Inv'
  BY TypesKept, CallsKnowKept, JoinedSeenKept, PausedSeenKept
<1>3. Inv => Checked
  BY DEF JoinedSeen, PausedSeen, InsertUser, At
<1>4. TownAccountsSpec => [][Checked]_townAccountsVars
  BY <1>1, <1>2, <1>3, PTL DEF TownAccountsSpec
<1>5. QED
  BY <1>4 DEF InsertsChecked

----------------------------------------------------------------------------
(* Decisions *)

\* A call is about to write a row once it has read it, as it is, and may.
LEMMA WriteBegins ==
  ASSUME TypesInv, NEW c \in DOMAIN calls, CallStep(c), c \in DOMAIN calls',
         calls'[c].pc = "write"
  PROVE  /\ Owner(c) \in DOMAIN users /\ users' = users
         /\ calls'[c].request = calls[c].request /\ calls'[c].read = users[Owner(c)]
         /\ Allowed(calls[c].request, users[Owner(c)])
<1>1. IsTable(calls, Calls, Call) /\ calls[c] \in Call
  BY DEF TypesInv, TownAccountsTypeOK, IsTable
<1>2. ASSUME NEW pc \in Statements, Advance(c, pc) PROVE pc = "write"
  BY <1>1, <1>2, AdvanceSteps
<1>3. ~ Leave(c) /\ ~ Finish(c)
  BY <1>1, LeaveSteps, FinishSteps
<1>4. ReadUser(c)
  BY <1>2, <1>3 DEF CallStep, ReadTown, ReadPerson, ReadOffice, InsertUser, AppointManager,
     WriteRequest, WriteReview, RequireElevator, Statements
<1>5. /\ calls' = [calls EXCEPT ![c].pc = "write", ![c].read = users[Owner(c)]]
      /\ Owner(c) \in DOMAIN users /\ users' = users
      /\ Allowed(calls[c].request, users[Owner(c)])
  BY <1>3, <1>4 DEF ReadUser, Owner
<1>6. QED
  BY <1>1, <1>5 DEF Call

(* A call about to write an accessibility status knows of one written since. *)
DecidedSeen ==
  \A c \in DOMAIN calls :
    calls[c].pc = "write" /\ calls[c].read.accessibility # users[Owner(c)].accessibility =>
      "decided" \in since[c]

LEMMA DecidedSeenKept ==
  ASSUME TypesInv, CallsKnow, DecidedSeen, [TownAccountsNext]_townAccountsVars
  PROVE  DecidedSeen'
<1>1. CASE UNCHANGED townAccountsVars
  BY <1>1 DEF townAccountsVars, history, DecidedSeen, Owner
<1>2. CASE TownAccountsNext
  <2> SUFFICES ASSUME NEW c \in DOMAIN calls', calls'[c].pc = "write",
                      calls'[c].read.accessibility
                        # users'[calls'[c].request.user].accessibility
               PROVE  "decided" \in since'[c]
    BY DEF DecidedSeen, Owner
  <2>1. Step /\ IsTable(calls, Calls, Call)
    BY <1>2 DEF TownAccountsNext, TypesInv, TownAccountsTypeOK
  <2>2. CASE c \in DOMAIN calls /\ calls'[c] = calls[c]
    <3>1. since'[c] = since[c] \cup Missed(c)
      BY <1>2, <2>2, SinceNext
    <3>2. "decided" \in since[c] \/ NowDecided(c)
      BY <2>2 DEF DecidedSeen, NowDecided, Owner
    <3>3. QED
      BY <3>1, <3>2 DEF Missed
  <2>3. CASE CallStep(c) /\ c \in DOMAIN calls
    <3>1. calls'[c].read = users'[calls[c].request.user]
          /\ calls'[c].request = calls[c].request
      BY <2>3, WriteBegins DEF Owner
    <3>2. QED
      BY <3>1
  <2>4. CASE calls'[c].pc \in {"town", "user"}
    BY <2>4
  <2>5. QED
    BY <2>1, <2>2, <2>3, <2>4, CallMoved
<1>3. QED
  BY <1>1, <1>2

DecisionsInv == TypesInv /\ CallsKnow /\ DecidedSeen

LEMMA DecisionsInvHolds == TownAccountsSpec => []DecisionsInv
<1>1. TownAccountsInit => DecisionsInv
  BY TypesStart DEF TownAccountsInit, Empty, DecisionsInv, CallsKnow, DecidedSeen
<1>2. DecisionsInv /\ [TownAccountsNext]_townAccountsVars => DecisionsInv'
  BY TypesKept, CallsKnowKept, DecidedSeenKept DEF DecisionsInv
<1>3. QED
  BY <1>1, <1>2, PTL DEF TownAccountsSpec

(***************************************************************************)
(* For every set of calls: an approval is undone by a request, and what is *)
(* not pending is decided, only by a call that has read the row before     *)
(* another wrote it.                                                       *)
(***************************************************************************)
THEOREM TownDecisionsStand == TownAccountsSpec => DecisionsStand
<1> DEFINE Stand ==
      \A u \in DOMAIN users :
        LET was == users[u].accessibility is == users'[u].accessibility IN
        \/ was = "APPROVED" /\ is = "PENDING_REVIEW"
        \/ was # "PENDING_REVIEW" /\ is # was /\ is \in {"APPROVED", "REJECTED"}
        => \E c \in DOMAIN calls : Moves(c, "write") /\ Owner(c) = u /\ "decided" \in since[c]
<1>1. DecisionsInv /\ [TownAccountsNext]_townAccountsVars => [Stand]_townAccountsVars
  <2> SUFFICES ASSUME DecisionsInv, TownAccountsNext, NEW u \in DOMAIN users,
                      NEW was, was = users[u].accessibility,
                      NEW is, is = users'[u].accessibility,
                      \/ was = "APPROVED" /\ is = "PENDING_REVIEW"
                      \/ was # "PENDING_REVIEW" /\ is # was /\ is \in {"APPROVED", "REJECTED"}
               PROVE  \E c \in DOMAIN calls :
                        Moves(c, "write") /\ Owner(c) = u /\ "decided" \in since[c]
    OBVIOUS
  <2>1. TypesInv /\ Step /\ Grows /\ users[u] \in User
    BY TablesGrow DEF DecisionsInv, TownAccountsNext, TypesInv, TownAccountsTypeOK, IsTable
  <2>2. ASSUME NEW c \in Calls, WriteRequest(c) \/ WriteReview(c), Owner(c) = u,
               calls[c].read.accessibility # was
        PROVE  Moves(c, "write") /\ c \in DOMAIN calls /\ "decided" \in since[c]
    <3>1. At(c, "write")
      BY <2>2 DEF WriteRequest, WriteReview
    <3>2. "decided" \in since[c]
      BY <2>2, <3>1 DEF At, DecisionsInv, DecidedSeen
    <3>3. c \in DOMAIN calls' => calls'[c].pc # "write"
      <4>1. Leave(c) \/ Advance(c, "elevator")
        BY <2>2 DEF WriteRequest, WriteReview
      <4>2. IsTable(calls, Calls, Call) /\ c \in DOMAIN calls
        BY <2>1, <3>1 DEF At, TypesInv, TownAccountsTypeOK
      <4>3. QED
        BY <4>1, <4>2, LeaveSteps, AdvanceSteps DEF Statements
    <3>4. QED
      BY <3>1, <3>2, <3>3 DEF Moves, At
  <2>3. ASSUME NEW c \in Calls, WriteRequest(c) \/ WriteReview(c), Owner(c) = u
        PROVE  /\ calls[c] \in Call /\ calls[c].request \in Request /\ calls[c].read \in User
               /\ Allowed(calls[c].request, calls[c].read)
    BY <2>1, <2>3 DEF DecisionsInv, CallsKnow, Knows, WriteRequest, WriteReview, At, TypesInv,
       TownAccountsTypeOK, IsTable, Call
  <2>4. ASSUME NEW c \in Calls, WriteRequest(c), Owner(c) = u,
               users'[u] = Asked(users[u], calls[c].request.wheelchair)
        PROVE  calls[c].read.accessibility # was
    <3>1. is = "PENDING_REVIEW"
      BY <2>1, <2>4 DEF Asked, User
    <3>2. MayAsk(calls[c].read)
      BY <2>3, <2>4 DEF Allowed, WriteRequest
    <3>3. QED
      BY <3>1, <3>2 DEF MayAsk
  <2>5. ASSUME NEW c \in Calls, WriteReview(c), Owner(c) = u,
               users'[u] = Decided(users[u], calls[c].read, calls[c].request.status)
        PROVE  calls[c].read.accessibility # was
    <3>1. is = calls[c].request.status /\ is \in {"APPROVED", "REJECTED", "REVOKED"}
      <4>1. calls[c].request \in Request /\ calls[c].read \in User
        BY <2>3, <2>5
      <4>2. calls[c].request.status \in {"APPROVED", "REJECTED", "REVOKED"}
        BY <2>5, <4>1, RequestType DEF WriteReview, At
      <4>3. QED
        BY <2>1, <2>5, <4>1, <4>2, DecidedType
    <3>2. MayDecide(calls[c].read, is)
      BY <2>3, <2>5, <3>1 DEF Allowed, WriteReview
    <3>3. QED
      BY <3>1, <3>2 DEF MayDecide
  <2>6. ~ (\E b : users'[u] = [users[u] EXCEPT !.wheelchair = b])
    BY <2>1 DEF User
  <2>7. u \in DOMAIN users' /\ users'[u] # users[u]
    BY <2>1 DEF Grows
  <2>8. PICK c \in Calls :
          \/ WriteRequest(c) /\ Owner(c) = u
             /\ users'[u] = Asked(users[u], calls[c].request.wheelchair)
          \/ WriteReview(c) /\ Owner(c) = u
             /\ users'[u] = Decided(users[u], calls[c].read, calls[c].request.status)
    BY <2>1, <2>6, <2>7, RowWritten
  <2>9. QED
    BY <2>2, <2>4, <2>5, <2>8
<1>2. QED
  BY <1>1, DecisionsInvHolds, PTL DEF TownAccountsSpec, DecisionsStand


----------------------------------------------------------------------------
(* Periods *)

(* Who is to approve a request has read it pending, and it is among those asked. *)
PeriodsCounted ==
  \A c \in DOMAIN calls :
    calls[c].pc = "write" /\ calls[c].request.op = "reviewAccessibility"
      /\ calls[c].request.status = "APPROVED" =>
      calls[c].read.periods + 1 <= asked[Owner(c)]

LEMMA PeriodsEarnedKept ==
  ASSUME TypesInv, CallsKnow, PeriodsCounted, PeriodsEarned, TownAccountsNext
  PROVE  PeriodsEarned'
<1> SUFFICES ASSUME NEW u \in DOMAIN users', NEW row, row = users'[u]
             PROVE  row.periods + (IF row.accessibility = "PENDING_REVIEW" THEN 1 ELSE 0)
                      <= asked'[u]
  BY DEF PeriodsEarned
<1>1. Step /\ Remember /\ Grows
  BY TablesGrow DEF TownAccountsNext
<1>2. u \in Account
  <2>1. TypesInv'
    BY TypesKept
  <2>2. QED
    BY <2>1 DEF TypesInv, TownAccountsTypeOK, IsTable
<1>3. asked[u] \in Nat /\ asked'[u] \in Nat /\ asked'[u] >= asked[u]
      /\ (Asks(u) => asked'[u] = asked[u] + 1)
  BY <1>1, <1>2 DEF Grows, Remember, TypesInv, TownAccountsTypeOK
<1>4. u \in DOMAIN users =>
        /\ users[u] \in User /\ users[u].periods \in Nat
        /\ users[u].periods + (IF users[u].accessibility = "PENDING_REVIEW" THEN 1 ELSE 0)
             <= asked[u]
  BY DEF PeriodsEarned, TypesInv, TownAccountsTypeOK, IsTable, User
<1>5. CASE u \in DOMAIN users /\ row = users[u]
  BY <1>3, <1>4, <1>5
<1>6. ASSUME u \notin DOMAIN users,
             NEW c \in Calls, InsertUser(c), Owner(c) = u, row = NewUser(calls[c].request)
      PROVE  row.periods + (IF row.accessibility = "PENDING_REVIEW" THEN 1 ELSE 0) <= asked'[u]
  <2>1. row.periods = 0
    BY <1>6 DEF NewUser
  <2>2. row.accessibility = "PENDING_REVIEW" => Asks(u)
    BY <1>6 DEF Asks
  <2>3. QED
    BY <1>3, <2>1, <2>2
<1>7. ASSUME u \in DOMAIN users, NEW c \in Calls, WriteRequest(c), Owner(c) = u,
             row = Asked(users[u], calls[c].request.wheelchair)
      PROVE  row.periods + (IF row.accessibility = "PENDING_REVIEW" THEN 1 ELSE 0) <= asked'[u]
  <2>1. row.periods = users[u].periods /\ Asks(u)
    BY <1>4, <1>7 DEF Asked, User, Asks
  <2>2. QED
    BY <1>3, <1>4, <1>7, <2>1
<1>8. ASSUME u \in DOMAIN users, NEW c \in Calls, WriteReview(c), Owner(c) = u,
             row = Decided(users[u], calls[c].read, calls[c].request.status)
      PROVE  row.periods + (IF row.accessibility = "PENDING_REVIEW" THEN 1 ELSE 0) <= asked'[u]
  <2>1. /\ c \in DOMAIN calls /\ calls[c].pc = "write" /\ calls[c].request \in Request
        /\ calls[c].request.op = "reviewAccessibility" /\ calls[c].read \in User
    BY <1>8 DEF WriteReview, At, TypesInv, TownAccountsTypeOK, RowRead, IsTable, Call
  <2>2. /\ row.accessibility = calls[c].request.status
        /\ row.periods = IF calls[c].request.status = "APPROVED"
                           THEN calls[c].read.periods + 1 ELSE users[u].periods
        /\ calls[c].request.status \in {"APPROVED", "REJECTED", "REVOKED"}
    <3>1. calls[c].request.status \in {"APPROVED", "REJECTED", "REVOKED"}
      BY <2>1, RequestType
    <3>2. users[u] \in User
      BY <1>4, <1>8
    <3>3. ASSUME NEW read \in User, NEW status \in {"APPROVED", "REJECTED", "REVOKED"}
          PROVE  /\ Decided(users[u], read, status).accessibility = status
                 /\ Decided(users[u], read, status).periods =
                      IF status = "APPROVED" THEN read.periods + 1 ELSE users[u].periods
      BY <3>2, DecidedType
    <3>4. QED
      BY <1>8, <2>1, <3>1, <3>3
  <2>3. CASE calls[c].request.status = "APPROVED"
    <3>1. calls[c].read.periods + 1 <= asked[u] /\ calls[c].read.periods \in Nat
      BY <1>8, <2>1, <2>3 DEF PeriodsCounted, User
    <3>2. QED
      BY <1>3, <2>2, <2>3, <3>1
  <2>4. CASE calls[c].request.status # "APPROVED"
    BY <1>3, <1>4, <1>8, <2>2, <2>4
  <2>5. QED
    BY <2>3, <2>4
<1>9. ASSUME u \in DOMAIN users, NEW b, row = [users[u] EXCEPT !.wheelchair = b]
      PROVE  row.periods + (IF row.accessibility = "PENDING_REVIEW" THEN 1 ELSE 0) <= asked'[u]
  <2>1. row.periods = users[u].periods /\ row.accessibility = users[u].accessibility
    BY <1>4, <1>9 DEF User
  <2>2. QED
    BY <1>3, <1>4, <1>9, <2>1
<1>10. QED
  BY <1>1, <1>5, <1>6, <1>7, <1>8, <1>9, RowWritten

LEMMA PeriodsCountedKept ==
  ASSUME TypesInv, PeriodsCounted, PeriodsEarned, TownAccountsNext
  PROVE  PeriodsCounted'
<1> SUFFICES ASSUME NEW c \in DOMAIN calls', calls'[c].pc = "write",
                    calls'[c].request.op = "reviewAccessibility",
                    calls'[c].request.status = "APPROVED"
             PROVE  calls'[c].read.periods + 1 <= asked'[calls'[c].request.user]
  BY DEF PeriodsCounted, Owner
<1>1. Step /\ Grows /\ IsTable(calls, Calls, Call)
  BY TablesGrow DEF TownAccountsNext, TypesInv, TownAccountsTypeOK
<1>2. ASSUME c \in DOMAIN calls, calls'[c].request = calls[c].request, calls'[c].read \in User,
             calls'[c].read.periods + 1 <= asked[Owner(c)]
      PROVE  calls'[c].read.periods + 1 <= asked'[calls'[c].request.user]
  <2>1. calls[c] \in Call
    BY <1>1, <1>2 DEF IsTable
  <2>2. Owner(c) \in Account
    BY <2>1, RequestType DEF Owner, Call
  <2>3. asked[Owner(c)] \in Nat /\ asked'[Owner(c)] \in Nat
        /\ asked'[Owner(c)] >= asked[Owner(c)] /\ calls'[c].read.periods \in Nat
    <3>1. TypesInv'
      BY TypesKept
    <3>2. QED
      BY <1>1, <1>2, <2>2, <3>1 DEF Grows, TypesInv, TownAccountsTypeOK, User
  <2>4. QED
    BY <1>2, <2>3 DEF Owner
<1>3. CASE c \in DOMAIN calls /\ calls'[c] = calls[c]
  <2>1. calls[c].read \in User
    BY <1>3 DEF TypesInv, RowRead
  <2>2. QED
    BY <1>2, <1>3, <2>1 DEF PeriodsCounted
<1>4. CASE CallStep(c) /\ c \in DOMAIN calls
  <2>1. /\ Owner(c) \in DOMAIN users
        /\ calls'[c].request = calls[c].request /\ calls'[c].read = users[Owner(c)]
        /\ Allowed(calls[c].request, users[Owner(c)])
    BY <1>4, WriteBegins
  <2>2. users[Owner(c)].accessibility = "PENDING_REVIEW"
    BY <2>1 DEF Allowed, MayDecide
  <2>3. users[Owner(c)] \in User
    BY <2>1 DEF TypesInv, TownAccountsTypeOK, IsTable
  <2>4. users[Owner(c)].periods + 1 <= asked[Owner(c)]
    BY <2>1, <2>2 DEF PeriodsEarned
  <2>5. QED
    BY <1>2, <1>4, <2>1, <2>3, <2>4
<1>5. CASE calls'[c].pc \in {"town", "user"}
  BY <1>5
<1>6. QED
  BY <1>1, <1>3, <1>4, <1>5, CallMoved

(***************************************************************************)
(* For every set of calls and any number of managers: no more periods are  *)
(* counted than the user asked for, for each manager who approves counts   *)
(* on from a row that was pending when it was read.                        *)
(***************************************************************************)
THEOREM TownPeriodsEarned == TownAccountsSpec => []PeriodsEarned
<1> DEFINE Inv == TypesInv /\ CallsKnow /\ PeriodsCounted /\ PeriodsEarned
<1>1. TownAccountsInit => Inv
  BY TypesStart DEF TownAccountsInit, Empty, CallsKnow, PeriodsCounted, PeriodsEarned
<1>2. Inv /\ [TownAccountsNext]_townAccountsVars => Inv'
  <2>1. Inv /\ UNCHANGED townAccountsVars => PeriodsCounted' /\ PeriodsEarned'
    BY DEF townAccountsVars, history, PeriodsCounted, PeriodsEarned, Owner
  <2>2. QED
    BY <2>1, TypesKept, CallsKnowKept, PeriodsCountedKept, PeriodsEarnedKept
<1>3. QED
  BY <1>1, <1>2, PTL DEF TownAccountsSpec


----------------------------------------------------------------------------
(* One manager *)

\* Appointing, of a call as it is.
OnTheWay(call) ==
  /\ Appoints(call.request)
  /\ \/ call.pc \in {"insert", "appoint"}
     \/ call.pc = "person" /\ call.request.op = "createManager"

LEMMA AppointingIs ==
  ASSUME NEW c, NEW t
  PROVE  /\ Appointing(c, t) <=> c \in DOMAIN calls /\ OnTheWay(calls[c]) /\ Owner(c).town = t
         /\ Appointing(c, t)' <=> /\ c \in DOMAIN calls' /\ OnTheWay(calls'[c])
                                  /\ calls'[c].request.user.town = t
  BY DEF Appointing, OnTheWay, Owner

(* A town where somebody is to be appointed has no manager yet; two at once are a
   race; and whoever has an account has it in a town that is there. *)
Vacant ==
  \A c \in DOMAIN calls :
    OnTheWay(calls[c]) /\ Owner(c).town \notin raced => towns[Owner(c).town].manager = None

Alone ==
  \A c, d \in DOMAIN calls :
    c # d /\ OnTheWay(calls[c]) /\ OnTheWay(calls[d]) /\ Owner(c).town = Owner(d).town =>
      Owner(c).town \in raced

AtHome == \A u \in DOMAIN users : u.town \in DOMAIN towns

LEMMA AloneKept ==
  ASSUME TypesInv, TownAccountsNext
  PROVE  Alone'
<1> SUFFICES ASSUME NEW c \in DOMAIN calls', NEW d \in DOMAIN calls', c # d,
                    OnTheWay(calls'[c]), OnTheWay(calls'[d]),
                    NEW t, t = calls'[c].request.user.town, t = calls'[d].request.user.town
             PROVE  t \in raced'
  BY DEF Alone, Owner, OnTheWay, Appoints
<1>1. c \in Calls /\ d \in Calls /\ calls'[c] \in Call
  <2>1. TypesInv'
    BY TypesKept
  <2>2. QED
    BY <2>1 DEF TypesInv, TownAccountsTypeOK, IsTable
<1>2. t \in Towns
  <2>1. calls'[c].request \in Request
    BY <1>1 DEF Call
  <2>2. QED
    BY <2>1, RequestType DEF Account
<1>3. Appointing(c, t)' /\ Appointing(d, t)'
  BY AppointingIs
<1>4. Muddled(t)
  BY <1>1, <1>3 DEF Muddled
<1>5. QED
  BY <1>2, <1>4 DEF TownAccountsNext, Remember

LEMMA AtHomeKept ==
  ASSUME TypesInv, CallsKnow, AtHome, TownAccountsNext
  PROVE  AtHome'
<1> SUFFICES ASSUME NEW u \in DOMAIN users' PROVE u.town \in DOMAIN towns'
  BY DEF AtHome
<1>1. Grows /\ Step
  BY TablesGrow DEF TownAccountsNext
<1>2. CASE u \in DOMAIN users
  BY <1>1, <1>2 DEF AtHome, Grows
<1>3. CASE u \notin DOMAIN users
  <2>1. PICK c \in Calls : InsertUser(c) /\ Owner(c) = u
    BY <1>1, <1>3, RowWritten
  <2>2. Knows(calls[c]) /\ calls[c].pc = "insert"
    BY <2>1 DEF InsertUser, At, CallsKnow
  <2>3. QED
    BY <1>1, <2>1, <2>2 DEF Knows, Owner, Grows
<1>4. QED
  BY <1>2, <1>3

\* Who appoints has looked for a manager, or moves on.
LEMMA WayBegins ==
  ASSUME TypesInv, NEW c \in DOMAIN calls, CallStep(c), c \in DOMAIN calls',
         OnTheWay(calls'[c]), Knows(calls[c])
  PROVE  /\ towns' = towns
         /\ OnTheWay(calls[c]) \/ towns[Owner(c).town].manager = None
<1>1. IsTable(calls, Calls, Call) /\ calls[c] \in Call
  BY DEF TypesInv, TownAccountsTypeOK, IsTable
<1>2. Steps(c)
  BY CallStepTypes, <1>1 DEF IsTable
<1>3. calls'[c].request = calls[c].request
  BY <1>2 DEF Steps
<1>4. ASSUME NEW pc \in Statements, Advance(c, pc)
      PROVE  calls'[c].pc = pc
  BY <1>1, <1>4, AdvanceSteps
<1>5. ~ Leave(c) /\ ~ Finish(c)
  BY <1>1, LeaveSteps, FinishSteps DEF OnTheWay
<1>6. CASE ReadTown(c)
  <2>1. Advance(c, "person") /\ towns' = towns /\ ~ Refused(calls[c].request, Owner(c).town)
    BY <1>5, <1>6 DEF ReadTown, Owner
  <2>2. calls[c].request.op = "createManager"
    BY <1>3, <1>4, <2>1 DEF OnTheWay, Statements
  <2>3. QED
    BY <2>1, <2>2 DEF Refused, HasManager
<1>7. CASE ReadPerson(c)
  <2>1. towns' = towns /\ calls[c].pc = "person"
    BY <1>7 DEF ReadPerson, At
  <2>2. CASE calls[c].request.op = "createManager"
    BY <2>1, <2>2 DEF OnTheWay, Appoints
  <2>3. CASE calls[c].request.op # "createManager"
    <3>1. calls[c].request.op = "register" /\ Appoints(calls[c].request)
      BY <1>3, <2>1, <2>3 DEF Knows, OnTheWay
    <3>2. calls'[c].pc = "office"
      BY <1>4, <1>5, <1>7, <3>1 DEF ReadPerson, Statements
    <3>3. QED
      BY <3>2 DEF OnTheWay
  <2>4. QED
    BY <2>2, <2>3
<1>8. CASE ReadOffice(c)
  BY <1>5, <1>8 DEF ReadOffice, HasManager
<1>9. CASE InsertUser(c)
  BY <1>3, <1>9 DEF InsertUser, At, OnTheWay
<1>10. ~ ReadUser(c)
  <2> SUFFICES ASSUME ReadUser(c) PROVE FALSE
    OBVIOUS
  <2>1. calls' = [calls EXCEPT ![c].pc = "write", ![c].read = users[calls[c].request.user]]
    BY <1>5 DEF ReadUser
  <2>2. QED
    BY <1>1, <2>1 DEF Call, OnTheWay
<1>11. ~ WriteRequest(c) /\ ~ WriteReview(c) /\ ~ RequireElevator(c) /\ ~ AppointManager(c)
  BY <1>4, <1>5
     DEF WriteRequest, WriteReview, RequireElevator, AppointManager, OnTheWay, Statements
<1>12. QED
  BY <1>6, <1>7, <1>8, <1>9, <1>10, <1>11 DEF CallStep

LEMMA VacantKept ==
  ASSUME TypesInv, CallsKnow, Vacant, Alone, TownAccountsNext
  PROVE  Vacant'
<1> SUFFICES ASSUME NEW c \in DOMAIN calls', OnTheWay(calls'[c]),
                    NEW t, t = calls'[c].request.user.town, t \notin raced'
             PROVE  towns'[t].manager = None
  BY DEF Vacant, Owner, OnTheWay, Appoints
<1>1. Grows /\ Step /\ t \notin raced /\ IsTable(calls, Calls, Call)
  BY TablesGrow DEF TownAccountsNext, Grows, TypesInv, TownAccountsTypeOK
<1>2. CASE c \in DOMAIN calls /\ calls'[c] = calls[c]
  <2>1. OnTheWay(calls[c]) /\ Owner(c).town = t /\ t \in DOMAIN towns
    BY <1>2 DEF Owner, CallsKnow, Knows, OnTheWay
  <2>2. towns[t].manager = None /\ t \in DOMAIN towns'
    BY <1>1, <1>2, <2>1 DEF Vacant, Grows
  <2>3. ASSUME NEW d \in Calls, AppointManager(d), Owner(d).town = t PROVE FALSE
    <3>1. d \in DOMAIN calls /\ calls[d].pc = "appoint"
      BY <2>3 DEF AppointManager, At
    <3>2. OnTheWay(calls[d])
      BY <3>1 DEF CallsKnow, Knows, OnTheWay
    <3>3. d = c
      BY <1>1, <1>2, <2>1, <2>3, <3>1, <3>2 DEF Alone
    <3>4. calls'[c].pc = "elevator"
      BY <1>1, <1>2, <2>3, <3>3, FinishSteps DEF AppointManager
    <3>5. QED
      BY <1>2, <3>1, <3>3, <3>4
  <2>4. QED
    BY <1>1, <2>2, <2>3, TownWritten
<1>3. CASE CallStep(c) /\ c \in DOMAIN calls /\ calls'[c].request = calls[c].request
  <2>1. towns' = towns /\ (OnTheWay(calls[c]) \/ towns[t].manager = None)
    BY <1>3, WayBegins DEF CallsKnow, Owner
  <2>2. QED
    BY <1>1, <1>3, <2>1 DEF Vacant, Owner
<1>4. CASE calls'[c].pc \in {"town", "user"}
  BY <1>4 DEF OnTheWay
<1>5. QED
  BY <1>1, <1>2, <1>3, <1>4, CallMoved

LEMMA OneManagerKept ==
  ASSUME TypesInv, CallsKnow, Vacant, AtHome, OneManager, TownAccountsNext
  PROVE  OneManager'
<1>1. Grows /\ Step /\ Remember /\ IsTable(calls, Calls, Call)
  BY TablesGrow DEF TownAccountsNext, TypesInv, TownAccountsTypeOK
<1>2. ASSUME NEW c \in Calls, AppointManager(c)
      PROVE  /\ c \in DOMAIN calls /\ calls[c].pc = "appoint" /\ OnTheWay(calls[c])
             /\ Owner(c) \in DOMAIN users /\ users[Owner(c)].role = "MANAGER"
  BY <1>2 DEF AppointManager, At, CallsKnow, Knows, OnTheWay, Owner
<1>3. ASSUME NEW u \in DOMAIN users', users'[u].role = "MANAGER",
             NEW t, t = u.town, t \notin raced', towns'[t].manager # u
      PROVE  \E c \in DOMAIN calls' : calls'[c].pc = "appoint" /\ calls'[c].request.user = u
  <2>1. CASE u \in DOMAIN users
    <3>1. /\ users[u].role = "MANAGER" /\ t \notin raced /\ t \in DOMAIN towns
          /\ t \in DOMAIN towns' /\ u \in Account /\ t \in Towns /\ u # None
      BY <1>1, <1>3, <2>1, TownAccountsAssumption
         DEF Grows, AtHome, TypesInv, TownAccountsTypeOK, IsTable
    <3>2. towns[t].manager # u
      <4> SUFFICES ASSUME towns[t].manager = u PROVE FALSE
        OBVIOUS
      <4>1. towns'[t].manager # None
        BY <1>1, <1>3, <3>1 DEF Remember, Muddled
      <4>2. PICK c \in Calls : AppointManager(c) /\ Owner(c).town = t
        BY <1>1, <1>3, <3>1, <4>1, TownWritten
      <4>3. QED
        BY <1>2, <3>1, <4>2 DEF Vacant
    <3>3. PICK c \in DOMAIN calls : At(c, "appoint") /\ Owner(c) = u
      BY <1>3, <2>1, <3>1, <3>2 DEF OneManager
    <3>4. c \in Calls /\ calls[c].pc = "appoint"
      BY <1>1, <3>3 DEF IsTable, At
    <3>5. ~ CallStep(c)
      <4> SUFFICES ASSUME CallStep(c) PROVE FALSE
        OBVIOUS
      <4>1. AppointManager(c)
        BY <3>4 DEF CallStep, ReadTown, ReadPerson, ReadOffice, InsertUser, ReadUser,
           WriteRequest, WriteReview, RequireElevator, At
      <4>2. towns[t] \in Town
        BY <3>1 DEF TypesInv, TownAccountsTypeOK, IsTable
      <4>3. towns'[t].manager = u
        BY <1>3, <3>1, <3>3, <4>1, <4>2 DEF AppointManager, Appointed, Owner, Town
      <4>4. QED
        BY <1>3, <4>3
    <3>6. ~ (TownAccountsRestart /\ c \notin DOMAIN calls')
      BY <1>1, <1>3, <3>1, <3>3, <3>4 DEF CutOff, TownOf, Muddled, Remember
    <3>7. c \in DOMAIN calls' /\ calls'[c] = calls[c]
      BY <1>1, <3>4, <3>5, <3>6, CallEnds
    <3>8. QED
      BY <3>3, <3>4, <3>7 DEF Owner
  <2>2. CASE u \notin DOMAIN users
    <3>1. PICK c \in Calls : /\ InsertUser(c) /\ Owner(c) = u
                             /\ users'[u] = NewUser(calls[c].request)
      BY <1>1, <2>2, RowWritten
    <3>2. c \in DOMAIN calls /\ calls[c].pc = "insert" /\ calls[c].request \in Request
      BY <1>1, <3>1 DEF InsertUser, At, IsTable, Call
    <3>3. calls[c].request.op \in {"register", "createManager"}
      BY <3>2 DEF CallsKnow, Knows
    <3>4. Appoints(calls[c].request)
      BY <1>3, <3>1, <3>2, <3>3, NewUserRow DEF Appoints
    <3>5. Advance(c, "appoint")
      BY <2>2, <3>1, <3>4 DEF InsertUser, Owner
    <3>6. QED
      BY <1>1, <3>1, <3>2, <3>5, AdvanceSteps DEF Steps, Statements, Owner
  <2>3. QED
    BY <2>1, <2>2
<1>4. ASSUME NEW t \in DOMAIN towns', towns'[t].manager # None,
             NEW u, u = towns'[t].manager
      PROVE  u \in DOMAIN users' /\ u.town = t /\ users'[u].role = "MANAGER"
  <2>1. CASE t \in DOMAIN towns /\ towns'[t].manager = towns[t].manager
    BY <1>1, <1>4, <2>1 DEF OneManager, Grows
  <2>2. CASE \E c \in Calls : AppointManager(c) /\ Owner(c).town = t /\ u = Owner(c)
    BY <1>1, <1>2, <2>2 DEF Grows
  <2>3. QED
    BY <1>1, <1>4, <2>1, <2>2, TownWritten
<1>5. QED
  BY <1>3, <1>4 DEF OneManager, At, Owner

(***************************************************************************)
(* For every set of towns, people and calls: outside the races named, a    *)
(* town's manager and the accounts with the role of a manager are the same.*)
(* A town that somebody is about to be appointed in has no manager         *)
(* (Vacant), and nobody else is on the way there (Alone).                  *)
(***************************************************************************)
THEOREM TownsOneManager == TownAccountsSpec => []OneManager
<1> DEFINE Inv == TypesInv /\ CallsKnow /\ Vacant /\ Alone /\ AtHome /\ OneManager
<1>1. TownAccountsInit => Inv
  <2> SUFFICES ASSUME TownAccountsInit PROVE Inv
    OBVIOUS
  <2>1. TypesInv /\ DOMAIN calls = {} /\ DOMAIN users = {}
    BY TypesStart DEF TownAccountsInit, Empty
  <2>2. \A t \in DOMAIN towns : towns[t].manager = None
    BY DEF TownAccountsInit
  <2>3. QED
    BY <2>1, <2>2 DEF CallsKnow, Vacant, Alone, AtHome, OneManager
<1>2. Inv /\ [TownAccountsNext]_townAccountsVars => Inv'
  <2>1. Inv /\ UNCHANGED townAccountsVars => Vacant' /\ Alone' /\ AtHome' /\ OneManager'
    BY DEF townAccountsVars, history, Vacant, Alone, AtHome, OneManager, Owner, At
  <2>2. QED
    BY <2>1, TypesKept, CallsKnowKept, VacantKept, AloneKept, AtHomeKept, OneManagerKept
<1>3. QED
  BY <1>1, <1>2, PTL DEF TownAccountsSpec


----------------------------------------------------------------------------
(* Elevators *)

\* Call c of user u has set the flag, and is still to tell the route.
Tells(c, u) ==
  LET call == calls[c] IN
  /\ c \in DOMAIN calls /\ Owner(c) = u
  /\ \/ call.pc = "elevator"
     \/ call.pc = "appoint" /\ call.request.op = "register" /\ call.request.wheelchair

ElevatorsTold ==
  \A u \in DOMAIN users :
    users[u].wheelchair /\ users[u].route # None /\ users[u].route \notin lapsed =>
      elevators[users[u].route] \/ \E c \in DOMAIN calls : Tells(c, u)

\* The route a call tells is that of its user.
LEMMA RouteTold ==
  ASSUME TypesInv, CallsKnow, NEW u, NEW c \in DOMAIN calls, Tells(c, u)
  PROVE  /\ u \in DOMAIN users /\ RouteOf(c) = users[u].route
         /\ calls[c].request.op # "createManager"
<1>1. Knows(calls[c])
  BY DEF CallsKnow
<1>2. QED
  BY <1>1 DEF Knows, Tells, RouteOf, Owner

\* A route without an elevator, that has not lapsed, had none before and nobody slipped.
LEMMA LapsedNext ==
  ASSUME TypesInv, TownAccountsNext, NEW r \in Routes, r \notin lapsed', ~ elevators'[r]
  PROVE  r \notin lapsed /\ ~ elevators[r] /\ ~ Slips(r)
  BY DEF TownAccountsNext, Remember

\* Who is to tell a route that still has no elevator is still to tell it.
LEMMA TellsOn ==
  ASSUME TypesInv, CallsKnow, TownAccountsNext, NEW u, NEW c \in DOMAIN calls, Tells(c, u),
         users[u].route \in Routes, users[u].route # None,
         users[u].route \notin lapsed', ~ elevators'[users[u].route]
  PROVE  Tells(c, u)'
<1> DEFINE r == users[u].route
           q == calls[c].request
<1>1. /\ Step /\ IsTable(calls, Calls, Call) /\ c \in Calls
      /\ elevators \in [Routes -> BOOLEAN]
      /\ RouteOf(c) = r /\ q.op # "createManager" /\ q.user = u
      /\ calls[c].pc \in {"appoint", "elevator"}
  BY RouteTold DEF TownAccountsNext, TypesInv, TownAccountsTypeOK, IsTable, Tells, Owner
<1>2. ~ Slips(r)
  BY LapsedNext
<1>3. CASE c \in DOMAIN calls' /\ calls'[c] = calls[c]
  BY <1>3 DEF Tells, Owner
<1>4. CASE CallStep(c)
  <2>1. CASE RequireElevator(c)
    <3>1. elevators'[r]
      BY <1>1, <2>1 DEF RequireElevator
    <3>2. QED
      BY <3>1
  <2>2. CASE AppointManager(c)
    <3>1. calls[c].pc = "appoint"
      BY <2>2 DEF AppointManager, At
    <3>2. q.op = "register" /\ q.wheelchair /\ q.route = r
      BY <1>1, <3>1 DEF Tells, RouteOf
    <3>3. NeedsElevator(q.wheelchair, q.route)
      <4>1. q \in Request
        BY <1>1 DEF IsTable, Call
      <4>2. QED
        BY <3>2, <4>1, RequestType DEF NeedsElevator
    <3>4. /\ c \in DOMAIN calls' /\ calls'[c].pc = "elevator"
          /\ calls'[c].request = calls[c].request
      BY <1>1, <2>2, <3>2, <3>3, FinishSteps DEF AppointManager, Steps
    <3>5. QED
      BY <1>1, <3>4 DEF Tells, Owner
  <2>3. QED
    BY <1>1, <1>4, <2>1, <2>2 DEF CallStep, ReadTown, ReadPerson, ReadOffice, InsertUser,
       ReadUser, WriteRequest, WriteReview, At
<1>5. ~ (TownAccountsRestart /\ c \notin DOMAIN calls')
  BY <1>1, <1>2 DEF CutOff, Slips
<1>6. QED
  BY <1>1, <1>3, <1>4, <1>5, CallEnds

LEMMA ElevatorsToldKept ==
  ASSUME TypesInv, CallsKnow, ElevatorsTold, TownAccountsNext
  PROVE  ElevatorsTold'
<1> SUFFICES ASSUME NEW u \in DOMAIN users', users'[u].wheelchair,
                    NEW r, r = users'[u].route, r # None, r \notin lapsed', ~ elevators'[r]
             PROVE  \E c \in DOMAIN calls' : Tells(c, u)'
  BY DEF ElevatorsTold, Tells, Owner
<1>1. Grows /\ Step /\ IsTable(calls, Calls, Call)
  BY TablesGrow DEF TownAccountsNext, TypesInv, TownAccountsTypeOK
<1>2. r \in Routes
  <2>1. TypesInv'
    BY TypesKept
  <2>2. QED
    BY <2>1 DEF TypesInv, TownAccountsTypeOK, IsTable, User
<1>3. r \notin lapsed /\ ~ elevators[r] /\ ~ Slips(r)
  BY <1>2, LapsedNext
<1>4. u \in DOMAIN users => users[u] \in User /\ users[u].route = r
  BY <1>1 DEF Grows, TypesInv, TownAccountsTypeOK, IsTable
<1>5. CASE u \in DOMAIN users /\ users[u].wheelchair
  <2>1. PICK c \in DOMAIN calls : Tells(c, u)
    BY <1>3, <1>4, <1>5 DEF ElevatorsTold
  <2>2. Tells(c, u)'
    BY <1>2, <1>4, <1>5, <2>1, TellsOn
  <2>3. QED
    BY <2>2 DEF Tells
<1>6. ASSUME u \in DOMAIN users, ~ users[u].wheelchair,
             NEW c \in Calls, WriteRequest(c), Owner(c) = u,
             users'[u] = Asked(users[u], calls[c].request.wheelchair)
      PROVE  \E d \in DOMAIN calls' : Tells(d, u)'
  <2> DEFINE q == calls[c].request
  <2>1. c \in DOMAIN calls /\ calls[c].pc = "write" /\ q.op = "requestAccessibility"
        /\ q \in Request
    BY <1>1, <1>6 DEF WriteRequest, At, IsTable, Call
  <2>2. q.wheelchair = TRUE
    <3>1. q.wheelchair \in BOOLEAN \cup {None}
      BY <2>1, RequestType
    <3>2. users'[u].wheelchair =
            IF q.wheelchair = None THEN users[u].wheelchair ELSE q.wheelchair
      <4>1. users[u] \in User
        BY <1>4, <1>6
      <4>2. \A w \in BOOLEAN \cup {None} :
              Asked(users[u], w).wheelchair = IF w = None THEN users[u].wheelchair ELSE w
        BY <4>1, AskedType
      <4>3. QED
        BY <1>6, <3>1, <4>2, Zenon
    <3>3. users[u].wheelchair = FALSE /\ users'[u].wheelchair = TRUE
      <4>1. users[u] \in User /\ users'[u] \in User
        BY <1>4, <1>6, <3>1, AskedType
      <4>2. users[u].wheelchair \in BOOLEAN /\ users'[u].wheelchair \in BOOLEAN
        BY <4>1 DEF User
      <4>3. QED
        BY <1>6, <4>2
    <3>4. CASE q.wheelchair = None
      BY <3>2, <3>3, <3>4
    <3>5. CASE q.wheelchair # None
      BY <3>2, <3>3, <3>5
    <3>6. QED
      BY <3>4, <3>5
  <2>3. calls[c].read.route = r
    BY <1>4, <1>6, <2>1 DEF CallsKnow, Knows, Owner
  <2>4. Advance(c, "elevator")
    BY <1>6, <2>2, <2>3 DEF WriteRequest, NeedsElevator
  <2>5. /\ c \in DOMAIN calls' /\ calls'[c].pc = "elevator"
        /\ calls'[c].request = calls[c].request
    BY <1>1, <2>1, <2>4, AdvanceSteps DEF Statements, Steps
  <2>6. QED
    BY <1>6, <2>5 DEF Tells, Owner
<1>7. ASSUME u \in DOMAIN users, ~ users[u].wheelchair,
             NEW c \in Calls, WriteReview(c), Owner(c) = u,
             users'[u] = Decided(users[u], calls[c].read, calls[c].request.status)
      PROVE  FALSE
  <2>1. users'[u].wheelchair = users[u].wheelchair
    BY <1>4, <1>7 DEF Decided, User
  <2>2. QED
    BY <1>7, <2>1
<1>8. ASSUME u \in DOMAIN users, ~ users[u].wheelchair, NEW b \in BOOLEAN, UpdateMe(u, b)
      PROVE  FALSE
  BY <1>3, <1>4, <1>8 DEF UpdateMe, Slips
<1>9. ASSUME u \notin DOMAIN users, NEW c \in Calls, InsertUser(c), Owner(c) = u,
             users'[u] = NewUser(calls[c].request)
      PROVE  \E d \in DOMAIN calls' : Tells(d, u)'
  <2> DEFINE q == calls[c].request
  <2>1. c \in DOMAIN calls /\ q \in Request
    BY <1>1, <1>9 DEF InsertUser, At, IsTable, Call
  <2>2. q.op = "register" /\ q.wheelchair = TRUE /\ q.route = r
    <3>1. q.op = "register" /\ q.wheelchair /\ q.route = r
      BY <1>9, <2>1, NewUserRow
    <3>2. QED
      BY <2>1, <3>1, RequestType
  <2>3. /\ c \in DOMAIN calls' /\ calls'[c].pc \in {"appoint", "elevator"}
        /\ calls'[c].request = q
    <3>1. Advance(c, "appoint") \/ Advance(c, "elevator")
      BY <1>9, <2>2 DEF InsertUser, Owner, Finish, NeedsElevator
    <3>2. QED
      BY <1>1, <2>1, <3>1, AdvanceSteps DEF Statements, Steps
  <2>4. QED
    BY <1>9, <2>2, <2>3 DEF Tells, Owner
<1>10. CASE u \in DOMAIN users /\ ~ users[u].wheelchair
  <2>1. users'[u] # users[u]
    BY <1>10
  <2>2. QED
    BY <1>1, <1>6, <1>7, <1>8, <1>10, <2>1, RowWritten
<1>11. CASE u \notin DOMAIN users
  BY <1>1, <1>9, <1>11, RowWritten
<1>12. QED
  BY <1>5, <1>10, <1>11

(***************************************************************************)
(* For every set of calls: the route of a user in a wheelchair requires an *)
(* elevator, or the call that set the flag is still to say so, outside the *)
(* cases named; the route it says it of is the user's (Knows), and a call  *)
(* that appoints first has not forgotten it (Tells).                       *)
(***************************************************************************)
THEOREM TownElevatorsFollow == TownAccountsSpec => []ElevatorsFollow
<1> DEFINE Inv == TypesInv /\ CallsKnow /\ ElevatorsTold
<1>1. TownAccountsInit => Inv
  BY TypesStart DEF TownAccountsInit, Empty, CallsKnow, ElevatorsTold
<1>2. Inv /\ [TownAccountsNext]_townAccountsVars => Inv'
  <2>1. Inv /\ UNCHANGED townAccountsVars => ElevatorsTold'
    BY DEF townAccountsVars, history, ElevatorsTold, Tells, Owner
  <2>2. QED
    BY <2>1, TypesKept, CallsKnowKept, ElevatorsToldKept
<1>3. Inv => ElevatorsFollow
  BY DEF ElevatorsTold, ElevatorsFollow, Tells
<1>4. QED
  BY <1>1, <1>2, <1>3, PTL DEF TownAccountsSpec
=============================================================================
