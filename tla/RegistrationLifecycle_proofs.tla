-------------------- MODULE RegistrationLifecycle_proofs --------------------
(***************************************************************************)
(* Proofs about RegistrationLifecycle: its types, how far each status is   *)
(* from the card's expiry, and what that means for those who are deleted   *)
(* and those who have submitted a renewal.                                 *)
(***************************************************************************)
EXTENDS RegistrationLifecycle, TLAPS

\* The end of a semester is a day, and not the NULL one.
LEMMA ExpiryDateType ==
  ASSUME NEW d \in 1..LastDay
  PROVE  ExpiryDate(d) \in Nat \ {Never}
<1>1. PICK e \in SemesterEnds : IsExpiryDate(e, d)
  BY AccountsAssumption
<1>2. ExpiryDate(d) \in SemesterEnds
  BY <1>1 DEF ExpiryDate
<1>3. QED
  BY <1>2, AccountsAssumption

\* A request is well formed whichever operation it asks for.
LEMMA RequestType ==
  ASSUME NEW request \in Request
  PROVE  /\ request.id \in Users
         /\ request.op \in {"updateStatus", "reviewRenewal", "softDelete",
                            "submitRenewal", "selfSoftDelete"}
         /\ request.op \in {"updateStatus", "reviewRenewal"} =>
              request.status \in RegistrationStatus
  BY DEF Request, RegistrationStatus

\* What a call writes is a row.
LEMMA WrittenType ==
  ASSUME NEW row \in Account, NEW request \in Request, NEW now \in 1..LastDay
  PROVE  Written(row, request, now) \in Account
<1>1. now \in Nat /\ ExpiryDate(now) \in Nat
  BY ExpiryDateType, AccountsAssumption
<1>2. CASE request.op = "submitRenewal"
  BY <1>1, <1>2 DEF Written, Account, RegistrationStatus
<1>3. CASE request.op \in {"softDelete", "selfSoftDelete"}
  BY <1>1, <1>3 DEF Written, Account, RegistrationStatus
<1>4. CASE request.op \in {"updateStatus", "reviewRenewal"}
  <2>1. request.status \in RegistrationStatus
    BY <1>4, RequestType
  <2>2. Written(row, request, now) =
          [row EXCEPT !.status = request.status,
                      !.expires = IF request.status = "APPROVED" THEN ExpiryDate(now) ELSE @]
    BY <1>4 DEF Written
  <2>3. QED
    BY <1>1, <2>1, <2>2 DEF Account
<1>5. QED
  BY <1>2, <1>3, <1>4, RequestType

\* The calls stay well typed when one of them moves to a well typed record.
LEMMA CallMoves ==
  ASSUME AccountsTypeOK, NEW c \in DOMAIN calls, NEW call \in Call,
         call.pc \notin {"done", "lost"} => call.now \in 1..LastDay,
         calls' = [calls EXCEPT ![c] = call]
  PROVE  /\ DOMAIN calls' \subseteq Calls
         /\ \A d \in DOMAIN calls' : calls'[d] \in Call
         /\ \A d \in InFlight' : calls'[d].now \in 1..LastDay
  BY DEF AccountsTypeOK, InFlight

\* An answered call is well typed.
LEMMA AnsweredCall ==
  ASSUME AccountsTypeOK, NEW c \in DOMAIN calls,
         NEW code \in {"200", "401", "403", "404"}, Answer(c, code)
  PROVE  \E call \in Call : call.pc = "done" /\ calls' = [calls EXCEPT ![c] = call]
<1> DEFINE call == [calls[c] EXCEPT !.pc = "done", !.now = Never, !.answer = code]
<1>1. call \in Call /\ call.pc = "done"
  BY DEF AccountsTypeOK, Call, Never
<1>2. calls' = [calls EXCEPT ![c] = call]
  BY DEF Answer
<1>3. QED
  BY <1>1, <1>2

\* The types hold at the start.
LEMMA AccountsStart ==
  ASSUME AccountsInit
  PROVE  AccountsTypeOK
<1>1. 1 \in 1..LastDay
  BY AccountsAssumption DEF Never
<1>2. ExpiryDate(1) \in Nat
  BY <1>1, ExpiryDateType
<1>3. Registered \in Account /\ ApprovedAccount \in Account
  BY <1>2 DEF Registered, ApprovedAccount, Account, RegistrationStatus, Never
<1>4. QED
  BY <1>1, <1>3 DEF AccountsInit, AccountsTypeOK, InFlight

\* A job that rewrites rows as rows keeps the types.
LEMMA JobTypes ==
  ASSUME AccountsTypeOK, NEW job, NEW rows, RunJob(job, rows),
         DOMAIN rows \subseteq Users, \A u \in DOMAIN rows : rows[u] \in Account
  PROVE  AccountsTypeOK'
  BY DEF AccountsTypeOK, RunJob, InFlight

\* Every step keeps the types.
LEMMA AccountsStepTypes ==
  ASSUME AccountsTypeOK, [AccountsNext]_accountVars
  PROVE  AccountsTypeOK'
<1>1. ASSUME NEW c \in Calls, NEW request \in Requests, Receive(c, request)
      PROVE  AccountsTypeOK'
  <2>1. request \in Request /\ day \in Nat /\ Never \in Nat
    BY AccountsAssumption DEF AccountsTypeOK, Never
  <2>2. calls'[c] \in Call /\ (calls'[c].pc # "done" => calls'[c].now = day)
    BY <1>1, <2>1 DEF Receive, Call
  <2>3. \A d \in DOMAIN calls : d # c => calls'[d] = calls[d]
    BY <1>1 DEF Receive
  <2>4. DOMAIN calls' = DOMAIN calls \cup {c}
    BY <1>1 DEF Receive
  <2>5. \A d \in DOMAIN calls' : calls'[d] \in Call
    BY <2>2, <2>3, <2>4 DEF AccountsTypeOK
  <2>6. \A d \in InFlight' : calls'[d].now \in 1..LastDay
    BY <2>2, <2>3, <2>4 DEF AccountsTypeOK, InFlight
  <2>7. QED
    BY <1>1, <2>4, <2>5, <2>6 DEF Receive, AccountsTypeOK
<1>2. ASSUME NEW c \in Calls, c \in DOMAIN calls, Find(c)
      PROVE  AccountsTypeOK'
  <2>1. UNCHANGED <<accounts, day, due>>
    BY <1>2 DEF Find
  <2>2. \E call \in Call :
          /\ call.pc \notin {"done", "lost"} => call.now \in 1..LastDay
          /\ calls' = [calls EXCEPT ![c] = call]
    <3>1. CASE \E code \in {"403", "404"} : Answer(c, code)
      BY <1>2, <3>1, AnsweredCall
    <3>2. CASE calls' = [calls EXCEPT ![c].pc = "write", ![c].now = day]
      <4> DEFINE call == [calls[c] EXCEPT !.pc = "write", !.now = day]
      <4>1. calls[c] \in Call /\ day \in 1..LastDay /\ day \in Nat
        BY <1>2, AccountsAssumption DEF AccountsTypeOK
      <4>2. call \in Call
        BY <4>1 DEF Call
      <4>3. call.now = day
        BY <4>1 DEF Call
      <4>4. calls' = [calls EXCEPT ![c] = call]
        BY <3>2
      <4>5. QED
        BY <4>1, <4>2, <4>3, <4>4
    <3>3. QED
      BY <1>2, <3>1, <3>2 DEF Find
  <2>3. QED
    BY <1>2, <2>1, <2>2, CallMoves DEF AccountsTypeOK
<1>3. ASSUME NEW c \in Calls, c \in DOMAIN calls, Write(c)
      PROVE  AccountsTypeOK'
  <2>1. UNCHANGED <<day, due>> /\ \E code \in {"200", "404"} : Answer(c, code)
    BY <1>3 DEF Write
  <2>2. /\ DOMAIN calls' \subseteq Calls
        /\ \A d \in DOMAIN calls' : calls'[d] \in Call
        /\ \A d \in InFlight' : calls'[d].now \in 1..LastDay
    BY <1>3, <2>1, AnsweredCall, CallMoves
  <2>3. calls[c].request \in Request /\ calls[c].now \in 1..LastDay
    BY <1>3 DEF AccountsTypeOK, Call, InFlight, Write
  <2>4. DOMAIN accounts' = DOMAIN accounts /\ \A u \in DOMAIN accounts : accounts'[u] \in Account
    BY <1>3, <2>3, WrittenType DEF AccountsTypeOK, Write
  <2>5. QED
    BY <2>1, <2>2, <2>4 DEF AccountsTypeOK
<1>4. ASSUME JobStep PROVE AccountsTypeOK'
  <2>1. day \in Nat /\ RenewalDeadline(day) \in Nat
    BY AccountsAssumption DEF AccountsTypeOK, RenewalDeadline
  <2>2. CASE Expire
    <3>1. \A u \in DOMAIN accounts :
            [accounts[u] EXCEPT !.status = "RENEWAL_PENDING",
                                !.deadline = RenewalDeadline(day)] \in Account
      BY <2>1 DEF AccountsTypeOK, Account, RegistrationStatus
    <3> DEFINE rows == [u \in DOMAIN accounts |->
                          IF Expired(accounts[u])
                            THEN [accounts[u] EXCEPT !.status = "RENEWAL_PENDING",
                                !.deadline = RenewalDeadline(day)]
                            ELSE accounts[u]]
    <3>2. RunJob("expire", rows)
      BY <2>2 DEF Expire
    <3>3. DOMAIN rows = DOMAIN accounts /\ \A u \in DOMAIN rows : rows[u] \in Account
      BY <3>1 DEF AccountsTypeOK
    <3> HIDE DEF rows
    <3>4. QED
      BY <3>2, <3>3, JobTypes DEF AccountsTypeOK
  <2>3. CASE Suspend
    <3>1. \A u \in DOMAIN accounts : [accounts[u] EXCEPT !.status = "SUSPENDED"] \in Account
      BY DEF AccountsTypeOK, Account, RegistrationStatus
    <3>2. QED
      BY <2>3, <3>1, JobTypes DEF Suspend, AccountsTypeOK
  <2>4. CASE Inactivate
    <3>1. \A u \in DOMAIN accounts :
            [accounts[u] EXCEPT !.status = "INACTIVE", !.deleted = day] \in Account
      BY <2>1 DEF AccountsTypeOK, Account, RegistrationStatus
    <3>2. PICK late \in BOOLEAN : RunJob("inactivate",
            [u \in DOMAIN accounts |->
               IF Abandoned(accounts[u], late)
                 THEN [accounts[u] EXCEPT !.status = "INACTIVE", !.deleted = day]
                 ELSE accounts[u]])
      BY <2>4 DEF Inactivate
    <3> DEFINE rows == [u \in DOMAIN accounts |->
                          IF Abandoned(accounts[u], late)
                            THEN [accounts[u] EXCEPT !.status = "INACTIVE", !.deleted = day]
                            ELSE accounts[u]]
    <3>3. DOMAIN rows = DOMAIN accounts /\ \A u \in DOMAIN rows : rows[u] \in Account
      BY <3>1 DEF AccountsTypeOK
    <3>4. RunJob("inactivate", rows)
      BY <3>2
    <3> HIDE DEF rows
    <3>5. QED
      BY <3>3, <3>4, JobTypes DEF AccountsTypeOK
  <2>5. CASE Delete
    BY <2>5, JobTypes DEF Delete, AccountsTypeOK, Restrict
  <2>6. QED
    BY <1>4, <2>2, <2>3, <2>4, <2>5 DEF JobStep
<1>5. ASSUME Midnight PROVE AccountsTypeOK'
  BY <1>5, AccountsAssumption DEF Midnight, AccountsTypeOK, InFlight, Jobs
<1>6. ASSUME RestartCalls PROVE AccountsTypeOK'
  <2>1. \A c \in DOMAIN calls : calls'[c] \in Call
    BY <1>6 DEF RestartCalls, AccountsTypeOK, Call, Never
  <2>2. InFlight' = {}
    BY <1>6 DEF RestartCalls, InFlight, AccountsTypeOK, Call
  <2>3. QED
    BY <1>6, <2>1, <2>2 DEF RestartCalls, AccountsTypeOK
<1>7. CASE UNCHANGED accountVars
  BY <1>7 DEF accountVars, AccountsTypeOK, InFlight
<1>8. QED
  BY <1>1, <1>2, <1>3, <1>4, <1>5, <1>6, <1>7 DEF AccountsNext, CallStep

(***************************************************************************)
(* Rows, calls and the clock keep their types under every interleaving of  *)
(* calls, jobs, midnights and restarts (users.service.ts, cron.service.ts).*)
(***************************************************************************)
THEOREM LifecycleTypeCorrect == AccountsSpec => []AccountsTypeOK
<1>1. AccountsInit => AccountsTypeOK
  BY AccountsStart
<1>2. AccountsTypeOK /\ [AccountsNext]_accountVars => AccountsTypeOK'
  BY AccountsStepTypes
<1>3. QED
  BY <1>1, <1>2, PTL DEF AccountsSpec

----------------------------------------------------------------------------
(* What the jobs do to accounts they alone decide about *)

\* Calls are never forgotten and keep their requests, and days do not go back.
LEMMA CallsKept ==
  ASSUME AccountsTypeOK, [AccountsNext]_accountVars
  PROVE  /\ \A u : ByHand(u) => ByHand(u)'
         /\ day' \in Nat /\ day <= day'
<1>1. /\ day \in Nat
      /\ \A c \in DOMAIN calls : calls[c] \in Call
  BY AccountsAssumption DEF AccountsTypeOK
<1>2. day' \in Nat /\ day <= day'
  <2>1. ASSUME NEW c \in Calls, CallStep(c) \/ \E request \in Requests : Receive(c, request)
        PROVE  day' = day
    BY <2>1 DEF Receive, CallStep, Find, Write
  <2>2. JobStep \/ RestartCalls \/ UNCHANGED accountVars => day' = day
    BY DEF JobStep, Expire, Suspend, Inactivate, Delete, RunJob, RestartCalls, accountVars
  <2>3. Midnight => day' = day + 1
    BY DEF Midnight
  <2>4. day' = day \/ day' = day + 1
    BY <2>1, <2>2, <2>3 DEF AccountsNext
  <2>5. QED
    BY <1>1, <2>4
<1>3. \A c \in DOMAIN calls : c \in DOMAIN calls' /\ calls'[c].request = calls[c].request
  <2>1. ASSUME NEW c \in Calls, NEW request \in Requests, Receive(c, request)
        PROVE  \A d \in DOMAIN calls : d \in DOMAIN calls' /\ calls'[d].request = calls[d].request
    <3>1. c \notin DOMAIN calls
      BY <2>1, AccountsAssumption DEF Receive
    <3>2. QED
      BY <2>1, <3>1 DEF Receive
  <2>2. ASSUME NEW c \in DOMAIN calls, NEW code, Answer(c, code)
        PROVE  \A d \in DOMAIN calls : d \in DOMAIN calls' /\ calls'[d].request = calls[d].request
    BY <1>1, <2>2 DEF Answer, Call
  <2>3. ASSUME NEW c \in Calls, CallStep(c)
        PROVE  \A d \in DOMAIN calls : d \in DOMAIN calls' /\ calls'[d].request = calls[d].request
    <3>1. c \in DOMAIN calls
      BY <2>3 DEF CallStep
    <3>2. CASE \E code : Answer(c, code)
      BY <3>1, <3>2, <2>2
    <3>3. CASE calls' = [calls EXCEPT ![c].pc = "write", ![c].now = day]
      BY <1>1, <3>1, <3>3 DEF Call
    <3>4. QED
      BY <2>3, <3>2, <3>3 DEF CallStep, Find, Write
  <2>4. CASE RestartCalls
    BY <1>1, <2>4 DEF RestartCalls, Call
  <2>5. CASE UNCHANGED calls
    BY <2>5
  <2>6. JobStep \/ Midnight \/ UNCHANGED accountVars => UNCHANGED calls
    BY DEF JobStep, Expire, Suspend, Inactivate, Delete, RunJob, Midnight, accountVars
  <2>7. QED
    BY <2>1, <2>3, <2>4, <2>5, <2>6 DEF AccountsNext
<1>4. QED
  BY <1>2, <1>3 DEF ByHand

\* A call that takes nothing into its hands leaves an account approved, rejected, or
\* waiting for the review of a renewal.
LEMMA WrittenGently ==
  ASSUME AccountsTypeOK, NEW c \in DOMAIN calls, calls[c].pc = "write",
         NEW row \in Account, ~ ByHand(calls[c].request.id)
  PROVE  LET new == Written(row, calls[c].request, calls[c].now) IN
         \/ new.status \in {"APPROVED", "REJECTED"}
         \/ new.status = "RENEWAL_PENDING" /\ new.submitted # Never
<1> DEFINE request == calls[c].request
           now == calls[c].now
<1>1. request \in Request /\ now \in 1..LastDay /\ now \in Nat /\ now # Never
  BY AccountsAssumption DEF AccountsTypeOK, Call, InFlight, Never
<1>2. /\ request.op \notin {"softDelete", "selfSoftDelete"}
      /\ request.status \notin {"RENEWAL_PENDING", "SUSPENDED", "INACTIVE"}
  BY DEF ByHand
<1>3. \/ request.op = "submitRenewal"
      \/ /\ request.op \in {"updateStatus", "reviewRenewal"}
         /\ request.status \in {"APPROVED", "REJECTED"}
  BY <1>1, <1>2 DEF Request, RegistrationStatus
<1> HIDE DEF request, now
<1>4. CASE request.op = "submitRenewal"
  <2>1. Written(row, request, now) =
          [row EXCEPT !.status = "RENEWAL_PENDING", !.submitted = now]
    BY <1>4 DEF Written
  <2>2. QED
    BY <1>1, <2>1 DEF Account, request, now
<1>5. CASE /\ request.op \in {"updateStatus", "reviewRenewal"}
           /\ request.status \in {"APPROVED", "REJECTED"}
  <2>1. Written(row, request, now).status = request.status
    BY <1>5 DEF Written, Account
  <2>2. QED
    BY <1>5, <2>1 DEF request, now
<1>6. QED
  BY <1>3, <1>4, <1>5

\* A step leaves the rows alone, writes one, or runs a job over them.
LEMMA RowSteps ==
  ASSUME [AccountsNext]_accountVars
  PROVE  \/ UNCHANGED accounts
         \/ \E c \in DOMAIN calls :
              /\ calls[c].pc = "write" /\ calls[c].request.id \in DOMAIN accounts
              /\ accounts' = [accounts EXCEPT ![calls[c].request.id] =
                                Written(@, calls[c].request, calls[c].now)]
         \/ Expire \/ Suspend \/ Inactivate \/ Delete
  BY DEF AccountsNext, Receive, CallStep, Find, Write, JobStep, Midnight, RestartCalls,
         accountVars

\* The first three jobs move an account to its next stage.
LEMMA JobStages ==
  ASSUME NEW row \in Account, NEW late \in BOOLEAN, day \in Nat, Staged(row)
  PROVE  /\ Expired(row) =>
              Staged([row EXCEPT !.status = "RENEWAL_PENDING", !.deadline = RenewalDeadline(day)])
         /\ Late(row, late) => Staged([row EXCEPT !.status = "SUSPENDED"])
         /\ Abandoned(row, late) => Staged([row EXCEPT !.status = "INACTIVE", !.deleted = day])
<1>1. Grace \in Nat /\ Retention \in Nat
  BY AccountsAssumption
<1>2. ASSUME Expired(row)
      PROVE  Staged([row EXCEPT !.status = "RENEWAL_PENDING", !.deadline = RenewalDeadline(day)])
  <2> DEFINE new == [row EXCEPT !.status = "RENEWAL_PENDING", !.deadline = RenewalDeadline(day)]
  <2>1. new.status = "RENEWAL_PENDING" /\ new.deadline = day + Grace /\ new.expires = row.expires
    BY DEF Account, RenewalDeadline
  <2>2. row.expires \in Nat /\ row.expires < day /\ row.expires # Never
    BY <1>2 DEF Expired, Past, Account
  <2> HIDE DEF new
  <2>3. Staged(new)
    BY <1>1, <2>1, <2>2 DEF Staged, GraceGiven
  <2>4. QED
    BY <2>3 DEF new
<1>3. ASSUME Late(row, late) PROVE Staged([row EXCEPT !.status = "SUSPENDED"])
  <2> DEFINE new == [row EXCEPT !.status = "SUSPENDED"]
  <2>1. /\ new.status = "SUSPENDED" /\ new.deadline = row.deadline
        /\ new.expires = row.expires
    BY DEF Account
  <2>2. GraceGiven(row) /\ row.deadline <= day
    BY <1>3 DEF Late, Past, Staged, Account
  <2> HIDE DEF new
  <2>3. Staged(new)
    BY <2>1, <2>2 DEF Staged, GraceGiven
  <2>4. QED
    BY <2>3 DEF new
<1>4. ASSUME Abandoned(row, late)
      PROVE  Staged([row EXCEPT !.status = "INACTIVE", !.deleted = day])
  <2> DEFINE new == [row EXCEPT !.status = "INACTIVE", !.deleted = day]
  <2>1. /\ new.status = "INACTIVE" /\ new.deadline = row.deadline
        /\ new.expires = row.expires /\ new.deleted = day
    BY DEF Account
  <2>2. GraceGiven(row) /\ row.deadline + Retention <= day
    BY <1>1, <1>4 DEF Abandoned, Past, Staged, Account
  <2> HIDE DEF new
  <2>3. Staged(new)
    BY <2>1, <2>2 DEF Staged, GraceGiven
  <2>4. QED
    BY <2>3 DEF new
<1>5. QED
  BY <1>2, <1>3, <1>4

\* Every step keeps the stages.
LEMMA StagesStep ==
  ASSUME AccountsTypeOK, StagesInv, [AccountsNext]_accountVars
  PROVE  StagesInv'
<1>1. /\ day \in Nat /\ day' \in Nat /\ day <= day'
      /\ \A u : ByHand(u) => ByHand(u)'
  BY CallsKept, AccountsAssumption DEF AccountsTypeOK
<1>2. \A u \in DOMAIN accounts :
        accounts[u] \in Account /\ (ByHand(u)' \/ (Staged(accounts[u]) /\ ~ ByHand(u)))
  BY <1>1 DEF AccountsTypeOK, StagesInv
<1>3. CASE UNCHANGED accounts
  <2>1. ASSUME NEW u \in DOMAIN accounts, ~ ByHand(u)'
        PROVE  Staged(accounts[u])'
    BY <1>1, <1>2, <1>3, <2>1 DEF Staged, GraceGiven, Account
  <2>2. QED
    BY <1>3, <2>1 DEF StagesInv
<1>4. ASSUME NEW c \in DOMAIN calls, calls[c].pc = "write",
             calls[c].request.id \in DOMAIN accounts,
             accounts' = [accounts EXCEPT ![calls[c].request.id] =
                            Written(@, calls[c].request, calls[c].now)]
      PROVE  StagesInv'
  <2>1. ASSUME NEW u \in DOMAIN accounts, ~ ByHand(u)'
        PROVE  Staged(accounts[u])'
    <3>1. CASE u = calls[c].request.id
      <4>1. accounts'[u] = Written(accounts[u], calls[c].request, calls[c].now)
        BY <1>4, <3>1
      <4>2. \/ accounts'[u].status \in {"APPROVED", "REJECTED"}
            \/ accounts'[u].status = "RENEWAL_PENDING" /\ accounts'[u].submitted # Never
        BY <1>2, <1>4, <2>1, <3>1, <4>1, WrittenGently
      <4>3. QED
        BY <4>2 DEF Staged
    <3>2. CASE u # calls[c].request.id
      BY <1>1, <1>2, <1>4, <2>1, <3>2 DEF Staged, GraceGiven, Account
    <3>3. QED
      BY <3>1, <3>2
  <2>2. QED
    BY <1>4, <2>1 DEF StagesInv
<1>5. CASE Expire \/ Suspend \/ Inactivate
  <2>1. day' = day /\ DOMAIN accounts' = DOMAIN accounts
    BY <1>5 DEF Expire, Suspend, Inactivate, RunJob
  <2>2. ASSUME NEW u \in DOMAIN accounts, Staged(accounts[u])
        PROVE  Staged(accounts'[u])
    BY <1>1, <1>2, <1>5, <2>2, JobStages DEF Expire, Suspend, Inactivate, RunJob
  <2>3. QED
    BY <1>2, <2>1, <2>2 DEF StagesInv, Staged
<1>6. CASE Delete
  <2>1. /\ day' = day /\ DOMAIN accounts' \subseteq DOMAIN accounts
        /\ \A u \in DOMAIN accounts' : accounts'[u] = accounts[u]
    BY <1>6 DEF Delete, RunJob, Restrict
  <2>2. QED
    BY <1>2, <2>1 DEF StagesInv, Staged
<1>7. QED
  BY <1>3, <1>4, <1>5, <1>6, RowSteps

\* Every step keeps those who have submitted a renewal from the jobs.
LEMMA SubmittedStep ==
  ASSUME AccountsTypeOK, SubmittedIsSafe, [AccountsNext]_accountVars
  PROVE  SubmittedIsSafe'
<1>1. \A u : ByHand(u) => ByHand(u)'
  BY CallsKept
<1>2. \A u \in DOMAIN accounts : accounts[u] \in Account
  BY DEF AccountsTypeOK
<1>3. CASE UNCHANGED accounts
  BY <1>1, <1>3 DEF SubmittedIsSafe
<1>4. ASSUME NEW c \in DOMAIN calls, calls[c].pc = "write",
             calls[c].request.id \in DOMAIN accounts,
             accounts' = [accounts EXCEPT ![calls[c].request.id] =
                            Written(@, calls[c].request, calls[c].now)]
      PROVE  SubmittedIsSafe'
  <2>1. ASSUME NEW u \in DOMAIN accounts, ~ ByHand(u), u = calls[c].request.id
        PROVE  accounts'[u].status \in {"APPROVED", "REJECTED", "RENEWAL_PENDING"}
    <3>1. accounts'[u] = Written(accounts[u], calls[c].request, calls[c].now)
      BY <1>4, <2>1
    <3>2. QED
      BY <1>2, <1>4, <2>1, <3>1, WrittenGently
  <2>2. QED
    BY <1>1, <1>4, <2>1 DEF SubmittedIsSafe
<1>5. CASE Expire \/ Suspend \/ Inactivate
  <2>1. /\ DOMAIN accounts' = DOMAIN accounts
        /\ \A u \in DOMAIN accounts :
             /\ accounts'[u].submitted = accounts[u].submitted
             /\ \/ accounts'[u].status \in {accounts[u].status, "RENEWAL_PENDING"}
                \/ accounts[u].submitted = Never
                \/ accounts[u].status = "SUSPENDED"
    BY <1>2, <1>5 DEF Expire, Suspend, Inactivate, RunJob, Late, Abandoned, Account
  <2>2. QED
    BY <1>1, <2>1 DEF SubmittedIsSafe
<1>6. CASE Delete
  BY <1>1, <1>6 DEF Delete, RunJob, Restrict, SubmittedIsSafe
<1>7. QED
  BY <1>3, <1>4, <1>5, <1>6, RowSteps

\* A job can only remove an account whose stages have all passed.
LEMMA RemovedStep ==
  ASSUME AccountsTypeOK, StagesInv, [AccountsNext]_accountVars
  PROVE  \A u \in DOMAIN accounts \ DOMAIN accounts' :
           ByHand(u) \/ accounts[u].expires + 1 + Grace + 2 * Retention <= day
<1> SUFFICES ASSUME NEW u \in DOMAIN accounts, u \notin DOMAIN accounts', ~ ByHand(u)
             PROVE  accounts[u].expires + 1 + Grace + 2 * Retention <= day
  OBVIOUS
<1>1. Delete
  BY RowSteps DEF Expire, Suspend, Inactivate, RunJob
<1>2. \E late \in BOOLEAN : Removable(accounts[u], late)
  BY <1>1 DEF Delete, RunJob, Restrict
<1>3. accounts[u] \in Account /\ day \in Nat /\ Grace \in Nat /\ Retention \in Nat
  BY AccountsAssumption DEF AccountsTypeOK
<1>4. accounts[u].expires \in Nat /\ accounts[u].deadline \in Nat /\ accounts[u].deleted \in Nat
  BY <1>3 DEF Account
<1>5. /\ accounts[u].expires + Grace < accounts[u].deadline
      /\ accounts[u].deadline + Retention <= accounts[u].deleted
      /\ accounts[u].deleted + Retention <= day
  BY <1>2, <1>3, <1>4 DEF StagesInv, Staged, GraceGiven, Removable, Past
<1>6. QED
  BY <1>3, <1>4, <1>5

\* No account starts with a renewal submitted or in the jobs' later stages.
LEMMA RowsStart ==
  ASSUME AccountsInit
  PROVE  \A u \in DOMAIN accounts :
           accounts[u].submitted = Never /\ accounts[u].status \in {"PENDING", "APPROVED"}
<1>1. Registered.submitted = Never /\ Registered.status = "PENDING"
  BY DEF Registered
<1>2. /\ DOMAIN ApprovedAccount = DOMAIN Registered
      /\ ApprovedAccount.submitted = Never /\ ApprovedAccount.status = "APPROVED"
  BY DEF Registered, ApprovedAccount
<1>3. \A u \in DOMAIN accounts : accounts[u] \in {Registered, ApprovedAccount}
  BY DEF AccountsInit
<1>4. QED
  BY <1>1, <1>2, <1>3

----------------------------------------------------------------------------

(***************************************************************************)
(* A student who has submitted a renewal is left alone by the jobs of      *)
(* cron.service.ts, whatever order they, the calls and the days come in.   *)
(***************************************************************************)
THEOREM SubmittedRenewalsSafe == AccountsSpec => []SubmittedIsSafe
<1>1. AccountsInit => SubmittedIsSafe
  BY RowsStart DEF SubmittedIsSafe
<1>2. AccountsTypeOK /\ SubmittedIsSafe /\ [AccountsNext]_accountVars => SubmittedIsSafe'
  BY SubmittedStep
<1>3. QED
  BY <1>1, <1>2, LifecycleTypeCorrect, PTL DEF AccountsSpec

(***************************************************************************)
(* How far an account's status is from its card's expiry, for the accounts *)
(* the jobs alone decide about: the invariant behind RemovedNoSooner.      *)
(***************************************************************************)
THEOREM StagesKept == AccountsSpec => []StagesInv
<1>1. AccountsInit => StagesInv
  BY RowsStart DEF StagesInv, Staged
<1>2. AccountsTypeOK /\ StagesInv /\ [AccountsNext]_accountVars => StagesInv'
  BY StagesStep
<1>3. QED
  BY <1>1, <1>2, LifecycleTypeCorrect, PTL DEF AccountsSpec

(***************************************************************************)
(* For every grace period, retention and calendar, the jobs delete no      *)
(* account before all three periods have passed (cron.service.ts).         *)
(***************************************************************************)
THEOREM NobodyRemovedEarly == AccountsSpec => RemovedNoSooner
<1>1. AccountsTypeOK /\ StagesInv /\ [AccountsNext]_accountVars =>
        [\A u \in DOMAIN accounts \ DOMAIN accounts' :
           ByHand(u) \/ accounts[u].expires + 1 + Grace + 2 * Retention <= day
          ]_accountVars
  BY RemovedStep
<1>2. QED
  BY <1>1, LifecycleTypeCorrect, StagesKept, PTL DEF AccountsSpec, RemovedNoSooner
=============================================================================
