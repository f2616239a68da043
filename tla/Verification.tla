---------------------------- MODULE Verification ----------------------------
(***************************************************************************)
(* Codes and reset tokens of AuthService, which Redis keeps until they run *)
(* out.  A handler is a sequence of single Redis commands and SQL          *)
(* statements, so several calls about one code, a code sent again, the end *)
(* of a time to live and a restart may come between any two of them.       *)
(*                                                                         *)
(* codes, attempts and tokens are functions from the keys Redis has.  What *)
(* a random code or token is drawn from is a small set: values come back,  *)
(* and whatever is said of one is forgotten when it is issued anew.        *)
(***************************************************************************)
EXTENDS Integers, Functions

CONSTANTS
  Contexts,     \* what codes are for: CHANGE_EMAIL, RESET_PASSWORD, REGISTER
  Identifiers,  \* e-mail addresses and phone numbers
  Codes,        \* what a code may be
  Tokens,       \* what a token may be
  Users,        \* user ids
  Holders,      \* Holders[i]: the users with this e-mail or phone, of any town
  MaxAttempts,  \* how many guesses a code allows: 5
  Calls,        \* calls in flight at once (a bound)
  Requests,     \* what they may ask, a subset of Request
  Starts,       \* codes there may be at the beginning
  None          \* nil

VARIABLES
  codes,      \* key -> its code
  attempts,   \* key -> how many guesses were counted, and whether it expires
  older,      \* keys whose attempts run out before their code
  tokens,     \* token -> its user
  calls,      \* call -> its request and how far it has come
  guesses,    \* history: key -> guesses compared with the code there is
  forgiven,   \* history: keys whose attempts vanished under the code there is
  orphaned,   \* history: keys whose attempts a restart kept from ever expiring
  raced,      \* history: keys with two calls under way at once, or one lost
  overtaken,  \* history: keys whose code was sent while a call was at an older one
  spent,      \* history: codes and tokens used, and not issued again
  spared,     \* history: those that Redis still has, for a restart came before the DEL
  late        \* history: calls whose code or token ought to be gone when they came in

redis == <<codes, attempts, older, tokens>>
history == <<guesses, forgiven, orphaned, raced, overtaken, spent, spared, late>>
verificationVars == <<redis, calls, history>>

----------------------------------------------------------------------------

\* An identifier stands for its channel too: an e-mail address or a phone number.
Key == [context: Contexts, identifier: Identifiers]

Request ==
  [op: {"send"}, key: Key]
    \cup [op: {"verify"}, key: Key, code: Codes]
    \cup [op: {"forgot"}, identifier: Identifiers]
    \cup [op: {"reset"}, token: Tokens]

Statements ==
  {"send", "code", "count", "expire", "forget", "forgetCount", "holder", "grant",
   "token", "password", "forgetToken"}

Answers ==
  {"none", "sent", "unknown", "exceeded", "verified", "nobody", "reset", "400"}

\* read is the code or the user found; answer what the call says once it is done.
Call ==
  [request: Request, pc: Statements \cup {"done"},
   read: Codes \cup Users \cup {None}, answer: Answers]

IsTable(f, Keys, Row) == DOMAIN f \subseteq Keys /\ f \in [DOMAIN f -> Row]

\* What is used up: a code under its key, or a token.
Credential == (Key \X Codes) \cup Tokens

ASSUME VerificationAssumption ==
  /\ MaxAttempts \in Nat \ {0}
  /\ Holders \in [Identifiers -> SUBSET Users]
  /\ None \notin Codes \cup Users \cup Tokens
  /\ Tokens \cap (Key \X Codes) = {}
  /\ Requests \subseteq Request
  /\ \A start \in Starts : IsTable(start, Key, Codes)

VerificationTypeOK ==
  /\ IsTable(codes, Key, Codes)
  /\ IsTable(attempts, Key, [count: Nat \ {0}, expires: BOOLEAN])
  /\ older \subseteq Key
  /\ IsTable(tokens, Tokens, Users)
  /\ IsTable(calls, Calls, Call)
  /\ guesses \in [Key -> Nat]
  /\ forgiven \subseteq Key /\ orphaned \subseteq Key /\ raced \subseteq Key
  /\ overtaken \subseteq Key
  /\ spent \subseteq Credential /\ spared \subseteq Credential
  /\ late \subseteq Calls

----------------------------------------------------------------------------
(* Redis: SETEX, DEL, and the end of a time to live *)

With(f, k, v) == [x \in DOMAIN f \cup {k} |-> IF x = k THEN v ELSE f[x]]
Without(f, k) == Restrict(f, DOMAIN f \ {k})

Counted(k) == IF k \in DOMAIN attempts THEN attempts[k].count ELSE 0

\* INCR.  Past the limit nothing tells one count from another.
Incremented(n) == IF n <= MaxAttempts THEN n + 1 ELSE n

CodeRunsOut(k) ==
  /\ k \in DOMAIN codes
  /\ codes' = Without(codes, k)
  /\ UNCHANGED <<attempts, older, tokens, calls>>

\* Code and attempts both live for 600 seconds, the code from the moment it was
\* sent, the attempts from EXPIRE: only older ones end while there is a code.
AttemptsRunOut(k) ==
  /\ k \in DOMAIN attempts /\ attempts[k].expires
  /\ k \in DOMAIN codes => k \in older
  /\ attempts' = Without(attempts, k)
  /\ older' = older \ {k}
  /\ UNCHANGED <<codes, tokens, calls>>

TokenRunsOut(x) ==
  /\ x \in DOMAIN tokens
  /\ tokens' = Without(tokens, x)
  /\ UNCHANGED <<codes, attempts, older, calls>>

----------------------------------------------------------------------------
(* Calls *)

At(c, pc) == c \in DOMAIN calls /\ calls[c].pc = pc

Answer(c, answer) ==
  calls' = [calls EXCEPT ![c].pc = "done", ![c].answer = answer]

\* An answer that says the same to everybody is not kept.
Leave(c) == calls' = Without(calls, c)

Advance(c, pc) == calls' = [calls EXCEPT ![c].pc = pc]

FirstStatement(q) ==
  CASE q.op = "send" -> "send"
    [] q.op = "verify" -> "code"
    [] q.op = "forgot" -> "holder"
    [] q.op = "reset" -> "token"

Busy(c) == c \in DOMAIN calls /\ calls[c].pc # "done"

Receive(c, q) ==
  /\ ~ Busy(c)
  /\ calls' = With(calls, c,
       [request |-> q, pc |-> FirstStatement(q), read |-> None, answer |-> "none"])
  /\ UNCHANGED redis

----------------------------------------------------------------------------
(* sendVerificationCode *)

\* The attempts counted against an earlier code stay.
SendCode(c, v) ==
  LET k == calls[c].request.key IN
  /\ At(c, "send")
  /\ codes' = With(codes, k, v)
  /\ older' = IF k \in DOMAIN attempts THEN older \cup {k} ELSE older
  /\ Answer(c, "sent")
  /\ UNCHANGED <<attempts, tokens>>

----------------------------------------------------------------------------
(* verifyCode *)

\* Mutant of ReadCode: GETDEL for GET, the code is gone before it is compared.
ReadCodeOnce(c) ==
  LET k == calls[c].request.key IN
  /\ At(c, "code")
  /\ IF k \in DOMAIN codes
       THEN calls' = [calls EXCEPT ![c].read = codes[k], ![c].pc = "count"]
       ELSE Answer(c, "unknown")
  /\ codes' = Without(codes, k)
  /\ UNCHANGED <<attempts, older, tokens>>

ReadCode(c) ==
  LET k == calls[c].request.key IN
  /\ At(c, "code")
  /\ IF k \in DOMAIN codes
       THEN calls' = [calls EXCEPT ![c].read = codes[k], ![c].pc = "count"]
       ELSE Answer(c, "unknown")
  /\ UNCHANGED redis

\* Mutant of Exceeded: >= for >, the last guess allowed is refused.
ReachesLimit(n) == n >= MaxAttempts

\* Mutant of Exceeded: one guess too many.
ExceededByTwo(n) == n > MaxAttempts + 1

Exceeded(n) == n > MaxAttempts

LastGuess(n) == n >= MaxAttempts

\* What the n-th guess of a call comes to.
Verdict(call, n) ==
  CASE Exceeded(n) -> "exceeded"
    [] ~ Exceeded(n) /\ call.request.code = call.read -> "verified"
    [] ~ Exceeded(n) /\ call.request.code # call.read /\ LastGuess(n) -> "exceeded"
    [] OTHER -> "unknown"

\* A wrong guess is answered at once, any other verdict deletes code and attempts.
Judge(c, n) ==
  LET verdict == Verdict(calls[c], n) IN
  IF verdict = "unknown" THEN Answer(c, "unknown")
  ELSE calls' = [calls EXCEPT ![c].answer = verdict, ![c].pc = "forget"]

CountAttempt(c) ==
  LET k == calls[c].request.key n == Incremented(Counted(k)) IN
  /\ At(c, "count")
  /\ attempts' = With(attempts, k,
       [count |-> n, expires |-> k \in DOMAIN attempts /\ attempts[k].expires])
  /\ older' = IF n = 1 THEN older \ {k} ELSE older
  /\ IF n = 1 THEN Advance(c, "expire") ELSE Judge(c, n)
  /\ UNCHANGED <<codes, tokens>>

\* Mutant of MustExpire: the time to live is forgotten.
NeverExpires(k) == FALSE

MustExpire(k) == k \in DOMAIN attempts

\* EXPIRE of a key that is gone does nothing.
ExpireAttempts(c) ==
  LET k == calls[c].request.key IN
  /\ At(c, "expire")
  /\ IF MustExpire(k)
       THEN attempts' = [attempts EXCEPT ![k].expires = TRUE] /\ older' = older \ {k}
       ELSE UNCHANGED <<attempts, older>>
  /\ Judge(c, 1)
  /\ UNCHANGED <<codes, tokens>>

Forgotten(k) == {k}

ForgetCode(c) ==
  /\ At(c, "forget")
  /\ codes' = Restrict(codes, DOMAIN codes \ Forgotten(calls[c].request.key))
  /\ Advance(c, "forgetCount")
  /\ UNCHANGED <<attempts, older, tokens>>

ForgetAttempts(c) ==
  LET k == calls[c].request.key IN
  /\ At(c, "forgetCount")
  /\ attempts' = Without(attempts, k)
  /\ older' = older \ {k}
  /\ Advance(c, IF calls[c].answer = "verified" /\ k.context = "RESET_PASSWORD"
                  THEN "holder" ELSE "done")
  /\ UNCHANGED <<codes, tokens>>

----------------------------------------------------------------------------
(* The end of verifyCode for RESET_PASSWORD, and sendPasswordResetEmail *)

Identifier(q) == IF q.op = "forgot" THEN q.identifier ELSE q.key.identifier

\* Mutant of HoldersOf: nobody looks whether a user was found.
HoldersOrNull(i) == IF Holders[i] = {} THEN {None} ELSE Holders[i]

\* Any of the users with that e-mail or phone: nothing orders them.
HoldersOf(i) == Holders[i]

\* The caller of sendPasswordResetEmail is not told that there is none.
FindHolder(c) ==
  LET q == calls[c].request found == HoldersOf(Identifier(q)) IN
  /\ At(c, "holder")
  /\ \/ found = {} /\ IF q.op = "forgot" THEN Leave(c) ELSE Answer(c, "nobody")
     \/ \E u \in found : calls' = [calls EXCEPT ![c].read = u, ![c].pc = "grant"]
  /\ UNCHANGED redis

\* 32 random bytes: no token there is already.
GrantToken(c, x) ==
  /\ At(c, "grant")
  /\ x \notin DOMAIN tokens
  /\ tokens' = With(tokens, x, calls[c].read)
  /\ IF calls[c].request.op = "forgot" THEN Leave(c) ELSE Answer(c, "verified")
  /\ UNCHANGED <<codes, attempts, older>>

----------------------------------------------------------------------------
(* resetPassword *)

ReadToken(c) ==
  LET x == calls[c].request.token IN
  /\ At(c, "token")
  /\ IF x \in DOMAIN tokens
       THEN calls' = [calls EXCEPT ![c].read = tokens[x], ![c].pc = "password"]
       ELSE Answer(c, "400")
  /\ UNCHANGED redis

\* The hash goes to users.password_hash, which nothing here reads.
SetPassword(c) ==
  /\ At(c, "password")
  /\ Advance(c, "forgetToken")
  /\ UNCHANGED redis

\* Mutant of Kept: the token is left to run out.
AllKept(x) == DOMAIN tokens

Kept(x) == DOMAIN tokens \ {x}

ForgetToken(c) ==
  /\ At(c, "forgetToken")
  /\ tokens' = Restrict(tokens, Kept(calls[c].request.token))
  /\ Answer(c, "reset")
  /\ UNCHANGED <<codes, attempts, older>>

----------------------------------------------------------------------------

\* A restart of the API drops every call in flight; Redis and PostgreSQL stay.
VerificationRestart ==
  /\ calls' = Restrict(calls, {c \in DOMAIN calls : ~ Busy(c)})
  /\ UNCHANGED redis

VerifyStep(c) ==
  \/ ReadCode(c) \/ CountAttempt(c) \/ ExpireAttempts(c) \/ ForgetCode(c) \/ ForgetAttempts(c)

CallStep(c) ==
  \/ \E v \in Codes : SendCode(c, v)
  \/ VerifyStep(c)
  \/ FindHolder(c)
  \/ \E x \in Tokens : GrantToken(c, x)
  \/ ReadToken(c) \/ SetPassword(c) \/ ForgetToken(c)

RunsOut ==
  \/ \E k \in Key : CodeRunsOut(k) \/ AttemptsRunOut(k)
  \/ \E x \in Tokens : TokenRunsOut(x)

Step ==
  \/ \E c \in Calls, q \in Requests : Receive(c, q)
  \/ \E c \in Calls : CallStep(c)
  \/ RunsOut
  \/ VerificationRestart

----------------------------------------------------------------------------
(* The history variables: nothing in the code, and no guard reads them. *)

CredentialOf(q) == IF q.op = "verify" THEN <<q.key, q.code>> ELSE q.token

Moves(c, pc) == At(c, pc) /\ c \in DOMAIN calls' /\ calls'[c].pc # pc

\* A call that has read the code of k and is not done with it.
UnderWay(c, k) ==
  /\ c \in DOMAIN calls
  /\ calls[c].pc \in {"count", "expire", "forget", "forgetCount"}
  /\ calls[c].request.key = k

Sent(k) == \E c \in Calls : Moves(c, "send") /\ calls[c].request.key = k

Guessed(k) == \E c \in Calls :
  /\ Moves(c, "count") /\ calls[c].request.key = k
  /\ k \in DOMAIN codes /\ codes[k] = calls[c].read
  /\ ~ Exceeded(Incremented(Counted(k)))

\* A token is used when the password is set with it, a code when a guess is right.
Uses(c) ==
  \/ Moves(c, "password")
  \/ /\ Moves(c, "count") \/ Moves(c, "expire")
     /\ calls'[c].pc = "forget" /\ calls'[c].answer = "verified"

Used == {CredentialOf(calls[c].request) : c \in {d \in Calls : Uses(d)}}

\* A call that has used it, and whose next statement is the DEL.
ToDelete(c, x) ==
  /\ At(c, "forgetToken") \/ (At(c, "forget") /\ calls[c].answer = "verified")
  /\ CredentialOf(calls[c].request) = x

Stored(x) ==
  \/ x \in DOMAIN tokens
  \/ \E k \in DOMAIN codes : x = <<k, codes[k]>>

Issued ==
  {<<k, codes'[k]>> : k \in {j \in Key : Sent(j)}} \cup (DOMAIN tokens' \ DOMAIN tokens)

Crowded(k) == \E c, d \in DOMAIN calls : c # d /\ UnderWay(c, k) /\ UnderWay(d, k)

\* The calls a restart drops.
Lost == DOMAIN calls \ DOMAIN calls'

CutOff(k) == \E c \in Lost : UnderWay(c, k)

Begins(c) == ~ Busy(c) /\ Busy(c)'

\* Used, and neither about to be deleted nor spared by a restart.
ShouldBeGone(x) == x \in spent \ spared /\ \A c \in DOMAIN calls : ~ ToDelete(c, x)

LateNow(c) ==
  LET q == calls'[c].request IN
  /\ q.op \in {"verify", "reset"}
  /\ IF Begins(c) THEN ShouldBeGone(CredentialOf(q)) ELSE c \in late
  /\ CredentialOf(q) \notin Issued

Remember ==
  /\ guesses' = [k \in Key |->
       IF k \notin DOMAIN codes' \/ Sent(k) THEN 0
       ELSE IF Guessed(k) THEN guesses[k] + 1 ELSE guesses[k]]
  /\ forgiven' = {k \in DOMAIN codes' :
       (k \in forgiven \/ k \in DOMAIN attempts \ DOMAIN attempts') /\ ~ Sent(k)}
  /\ orphaned' = {k \in DOMAIN attempts' :
       /\ ~ attempts'[k].expires
       /\ k \in orphaned \/ \E c \in Lost : UnderWay(c, k) /\ calls[c].pc = "expire"}
  /\ raced' = raced \cup {k \in Key : Crowded(k)' \/ CutOff(k)}
  /\ overtaken' = {k \in DOMAIN codes' :
       IF Sent(k) THEN \E c \in Calls : UnderWay(c, k) /\ calls[c].pc # "forgetCount"
       ELSE k \in overtaken}
  /\ spent' = (spent \cup Used) \ Issued
  /\ spared' = {x \in spent' : Stored(x)' /\ (x \in spared \/ \E c \in Lost : ToDelete(c, x))}
  /\ late' = {c \in DOMAIN calls' : LateNow(c)}

----------------------------------------------------------------------------

Empty == [x \in {} |-> x]

VerificationInit ==
  /\ codes \in Starts /\ attempts = Empty /\ older = {} /\ tokens = Empty
  /\ calls = Empty
  /\ guesses = [k \in Key |-> 0]
  /\ forgiven = {} /\ orphaned = {} /\ raced = {} /\ overtaken = {}
  /\ spent = {} /\ spared = {} /\ late = {}

VerificationNext == Step /\ Remember

VerificationSpec == VerificationInit /\ [][VerificationNext]_verificationVars

----------------------------------------------------------------------------
(* Properties *)

(***************************************************************************)
(* 'Delete the verified code and attempts from Redis' and the DEL of       *)
(* resetPassword (auth.service.ts:376, 296).  A token is used when the     *)
(* password is set with it (291), a code when a guess is right.  From then *)
(* on it is refused to every call that comes in, until it is issued again, *)
(* with two exceptions: as long as the call that used it has still to send *)
(* its DEL, and for good when a restart dropped that call first, since     *)
(* nothing then deletes it before it runs out.  Calls already under way    *)
(* may use it a second time.                                               *)
(***************************************************************************)
UsedOnce ==
  \A c \in DOMAIN calls :
    ~ Busy(c) /\ calls[c].answer \in {"verified", "nobody", "reset"} => c \notin late

(***************************************************************************)
(* A code is compared with at most MaxAttempts guesses (auth.service.ts:   *)
(* 351), however many calls make them at once, unless the attempts vanish  *)
(* while the code stays: they were older than it and ran out, or a call    *)
(* that had begun before it was sent deleted them.                         *)
(***************************************************************************)
GuessesBounded ==
  \A k \in DOMAIN codes : k \notin forgiven => guesses[k] <= MaxAttempts

(***************************************************************************)
(* Whoever has the right code is never told that there were too many       *)
(* attempts (auth.service.ts:351), not even on a code sent after all but   *)
(* one guess of another, unless two calls were under way at once or one    *)
(* was cut off by a restart.                                               *)
(***************************************************************************)
RightCodeAccepted ==
  \A c \in DOMAIN calls :
    calls[c].answer = "exceeded" /\ calls[c].request.code = calls[c].read =>
      calls[c].request.key \in raced

(***************************************************************************)
(* '10 min TTL' (auth.service.ts:348): attempts that will never expire     *)
(* are there only while a call has its EXPIRE of them still to send, or    *)
(* because a restart dropped that call between its INCR and its EXPIRE.    *)
(* However many calls count at once, and whoever deletes the attempts and  *)
(* counts from 1 again before an earlier EXPIRE has come, makes no other.  *)
(***************************************************************************)
AttemptsExpire ==
  \A k \in DOMAIN attempts : ~ attempts[k].expires =>
    \/ k \in orphaned
    \/ \E c \in DOMAIN calls : UnderWay(c, k) /\ calls[c].pc = "expire"

(***************************************************************************)
(* A call deletes the code it has read and no other (auth.service.ts:352,  *)
(* 360, 376), and that only after its guess has been judged: looking at a  *)
(* code does not use it up.  The exception is a code sent under the hands  *)
(* of a call that was at work on an earlier one.                           *)
(***************************************************************************)
OwnCodeDeleted ==
  [][\A k \in DOMAIN codes \ DOMAIN codes' : calls' # calls =>
       \E c \in DOMAIN calls :
         /\ UnderWay(c, k) /\ Moves(c, "forget")
         /\ calls[c].read = codes[k] \/ k \in overtaken
    ]_verificationVars
============================================================================
