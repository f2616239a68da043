------------------------ MODULE Verification_proofs ------------------------
(***************************************************************************)
(* Proofs about Verification: types, and that codes and tokens work once,  *)
(* guesses are bounded and counters expire, for any number of calls, codes *)
(* and tokens and any limit.                                               *)
(***************************************************************************)
EXTENDS Verification, TLAPS

(* What a request holds, by its operation. *)
LEMMA RequestType ==
  ASSUME NEW q \in Request
  PROVE  /\ q.op \in {"send", "verify", "forgot", "reset"}
         /\ q.op \in {"send", "verify"} => q.key \in Key
         /\ q.op = "verify" => q.code \in Codes
         /\ q.op = "forgot" => q.identifier \in Identifiers
         /\ q.op = "reset" => q.token \in Tokens
  BY DEF Request

(* A row added, written over or taken away leaves a table. *)
LEMMA TableWith ==
  ASSUME NEW Keys, NEW Row, NEW f, IsTable(f, Keys, Row), NEW k \in Keys, NEW v \in Row
  PROVE  IsTable(With(f, k, v), Keys, Row)
  BY DEF IsTable, With

LEMMA TableRestrict ==
  ASSUME NEW Keys, NEW Row, NEW f, IsTable(f, Keys, Row), NEW S \in SUBSET DOMAIN f
  PROVE  IsTable(Restrict(f, S), Keys, Row)
  BY DEF IsTable, Restrict

LEMMA TableWithout ==
  ASSUME NEW Keys, NEW Row, NEW f, IsTable(f, Keys, Row), NEW k
  PROVE  IsTable(Without(f, k), Keys, Row)
  BY DEF IsTable, Restrict, Without

----------------------------------------------------------------------------
(* Calls *)

\* What a call has read and is to answer, by the statement it has come to.
CallShape(call) ==
  /\ call.pc = "send" => call.request.op = "send"
  /\ call.pc \in {"code", "count", "expire", "forget", "forgetCount"} =>
       call.request.op = "verify"
  /\ call.pc \in {"holder", "grant"} => call.request.op \in {"verify", "forgot"}
  /\ call.pc \in {"token", "password", "forgetToken"} => call.request.op = "reset"
  /\ call.pc \in {"count", "expire"} => call.read \in Codes
  /\ call.pc = "grant" => call.read \in Users
  /\ call.answer = "exceeded" => call.pc \in {"forget", "forgetCount", "done"}
  /\ call.pc \in {"forget", "forgetCount"} => call.answer \in {"verified", "exceeded"}
  /\ call.pc \in {"holder", "grant"} /\ call.request.op = "verify" =>
       call.answer = "verified"
  /\ call.pc = "done" /\ call.answer \in {"unknown", "exceeded", "verified", "nobody"} =>
       call.request.op = "verify"
  /\ call.pc = "done" /\ call.answer \in {"400", "reset"} => call.request.op = "reset"

Shapes == \A c \in DOMAIN calls : CallShape(calls[c])

TypesInv == VerificationTypeOK /\ Shapes

RedisTyped ==
  /\ IsTable(codes, Key, Codes)
  /\ IsTable(attempts, Key, [count: Nat \ {0}, expires: BOOLEAN])
  /\ older \subseteq Key
  /\ IsTable(tokens, Tokens, Users)

CallsTyped == IsTable(calls, Calls, Call) /\ Shapes

\* One call moves on, or leaves, keeping its request; the others stay as they are.
OneMoves(c) ==
  /\ c \in DOMAIN calls /\ DOMAIN calls \ {c} \subseteq DOMAIN calls'
  /\ DOMAIN calls' \subseteq DOMAIN calls
  /\ \A d \in DOMAIN calls' :
       calls'[d].request = calls[d].request /\ (d # c => calls'[d] = calls[d])

(* A record in place of another, with the same request, is one call moving. *)
LEMMA MovesTo ==
  ASSUME CallsTyped, NEW c \in DOMAIN calls, NEW call \in Call, CallShape(call),
         call.request = calls[c].request, calls' = [calls EXCEPT ![c] = call]
  PROVE  OneMoves(c) /\ CallsTyped' /\ calls'[c] = call /\ DOMAIN calls' = DOMAIN calls
<1>1. OneMoves(c) /\ IsTable(calls', Calls, Call) /\ calls'[c] = call
      /\ DOMAIN calls' = DOMAIN calls
  BY DEF CallsTyped, IsTable, OneMoves
<1>2. Shapes'
  BY <1>1 DEF CallsTyped, Shapes, OneMoves, CallShape
<1>3. QED
  BY <1>1, <1>2 DEF CallsTyped

(* A call that leaves. *)
LEMMA LeaveMoves ==
  ASSUME CallsTyped, NEW c \in DOMAIN calls, Leave(c)
  PROVE  OneMoves(c) /\ CallsTyped' /\ DOMAIN calls' = DOMAIN calls \ {c}
<1>1. OneMoves(c) /\ IsTable(calls', Calls, Call) /\ DOMAIN calls' = DOMAIN calls \ {c}
  BY DEF CallsTyped, IsTable, OneMoves, Leave, Without, Restrict
<1>2. Shapes'
  BY <1>1 DEF CallsTyped, Shapes, OneMoves, CallShape
<1>3. QED
  BY <1>1, <1>2 DEF CallsTyped

(* A call that comes in takes a place that is free or done. *)
LEMMA ReceiveTypes ==
  ASSUME TypesInv, NEW c \in Calls, NEW q \in Requests, Receive(c, q)
  PROVE  /\ CallsTyped'
         /\ DOMAIN calls' = DOMAIN calls \cup {c}
         /\ \A d \in DOMAIN calls : d # c => calls'[d] = calls[d]
         /\ calls'[c] = [request |-> q, pc |-> FirstStatement(q), read |-> None,
                         answer |-> "none"]
<1> DEFINE call == [request |-> q, pc |-> FirstStatement(q), read |-> None,
                    answer |-> "none"]
<1>1. q \in Request
  BY VerificationAssumption
<1>2. call \in Call /\ CallShape(call)
  BY <1>1, RequestType DEF Call, CallShape, FirstStatement, Statements, Answers
<1>3. calls' = With(calls, c, call)
  BY DEF Receive
<1>4. IsTable(calls', Calls, Call)
  BY <1>2, <1>3, TableWith DEF TypesInv, VerificationTypeOK
<1>5. /\ DOMAIN calls' = DOMAIN calls \cup {c}
      /\ \A d \in DOMAIN calls : d # c => calls'[d] = calls[d]
      /\ calls'[c] = call
  BY <1>3 DEF With
<1>6. Shapes'
  <2> HIDE DEF call
  <2> QED
    BY <1>2, <1>5 DEF TypesInv, Shapes, CallShape
<1>7. QED
  BY <1>4, <1>5, <1>6 DEF CallsTyped

\* A call that has heard the verdict on its n-th guess.
Judged(call, n) ==
  [call EXCEPT !.answer = Verdict(call, n),
               !.pc = IF Verdict(call, n) = "unknown" THEN "done" ELSE "forget"]

(* What a verdict leads to. *)
LEMMA JudgeMoves ==
  ASSUME TypesInv, NEW c \in DOMAIN calls, NEW n, calls[c].pc \in {"count", "expire"},
         Judge(c, n)
  PROVE  /\ OneMoves(c) /\ CallsTyped' /\ DOMAIN calls' = DOMAIN calls
         /\ calls'[c] = Judged(calls[c], n)
         /\ Verdict(calls[c], n) \in {"unknown", "verified", "exceeded"}
<1> DEFINE verdict == Verdict(calls[c], n)
           call == [calls[c] EXCEPT !.answer = verdict,
                      !.pc = IF verdict = "unknown" THEN "done" ELSE "forget"]
<1>1. verdict \in {"unknown", "verified", "exceeded"}
  BY DEF Verdict
<1>2. calls[c] \in Call /\ CallShape(calls[c]) /\ CallsTyped
  BY DEF TypesInv, VerificationTypeOK, IsTable, Shapes, CallsTyped
<1>3. call \in Call /\ CallShape(call) /\ call.request = calls[c].request
  <2> HIDE DEF verdict
  <2> QED
    BY <1>1, <1>2 DEF Call, CallShape, Statements, Answers
<1>4. calls' = [calls EXCEPT ![c] = call]
  <2>1. calls[c].pc # "done" /\ calls[c].pc # "forget"
    OBVIOUS
  <2>2. QED
    BY <1>1 DEF Judge, Answer
<1>5. QED
  <2> HIDE DEF call, verdict
  <2>1. OneMoves(c) /\ CallsTyped' /\ calls'[c] = call /\ DOMAIN calls' = DOMAIN calls
    BY <1>2, <1>3, <1>4, MovesTo
  <2>2. QED
    BY <2>1, <1>1 DEF call, verdict, Judged

----------------------------------------------------------------------------
(* Types *)

(* The statements that answer or go on, and change one record of calls only. *)
LEMMA AnswerMoves ==
  ASSUME TypesInv, NEW c \in DOMAIN calls, NEW answer \in Answers, Answer(c, answer),
         CallShape([calls[c] EXCEPT !.pc = "done", !.answer = answer])
  PROVE  /\ OneMoves(c) /\ CallsTyped' /\ DOMAIN calls' = DOMAIN calls
         /\ calls'[c] = [calls[c] EXCEPT !.pc = "done", !.answer = answer]
<1> DEFINE call == [calls[c] EXCEPT !.pc = "done", !.answer = answer]
<1>1. calls[c] \in Call /\ CallsTyped
  BY DEF TypesInv, VerificationTypeOK, IsTable, CallsTyped
<1>2. call \in Call /\ call.request = calls[c].request /\ CallShape(call)
  BY <1>1 DEF Call
<1>3. calls' = [calls EXCEPT ![c] = call]
  BY DEF Answer
<1>4. QED
  <2> HIDE DEF call
  <2>1. OneMoves(c) /\ CallsTyped' /\ calls'[c] = call /\ DOMAIN calls' = DOMAIN calls
    BY <1>1, <1>2, <1>3, MovesTo
  <2>2. QED
    BY <2>1 DEF call

LEMMA ReadMoves ==
  ASSUME TypesInv, NEW c \in DOMAIN calls, NEW pc \in Statements,
         NEW read \in Codes \cup Users \cup {None},
         calls' = [calls EXCEPT ![c].read = read, ![c].pc = pc],
         CallShape([calls[c] EXCEPT !.read = read, !.pc = pc])
  PROVE  /\ OneMoves(c) /\ CallsTyped' /\ DOMAIN calls' = DOMAIN calls
         /\ calls'[c] = [calls[c] EXCEPT !.read = read, !.pc = pc]
<1> DEFINE call == [calls[c] EXCEPT !.read = read, !.pc = pc]
<1>1. calls[c] \in Call /\ CallsTyped
  BY DEF TypesInv, VerificationTypeOK, IsTable, CallsTyped
<1>2. call \in Call /\ call.request = calls[c].request /\ CallShape(call)
  BY <1>1 DEF Call
<1>3. calls' = [calls EXCEPT ![c] = call]
  OBVIOUS
<1>4. QED
  <2> HIDE DEF call
  <2>1. OneMoves(c) /\ CallsTyped' /\ calls'[c] = call /\ DOMAIN calls' = DOMAIN calls
    BY <1>1, <1>2, <1>3, MovesTo
  <2>2. QED
    BY <2>1 DEF call

LEMMA AdvanceMoves ==
  ASSUME TypesInv, NEW c \in DOMAIN calls, NEW pc \in Statements \cup {"done"},
         Advance(c, pc), CallShape([calls[c] EXCEPT !.pc = pc])
  PROVE  /\ OneMoves(c) /\ CallsTyped' /\ DOMAIN calls' = DOMAIN calls
         /\ calls'[c] = [calls[c] EXCEPT !.pc = pc]
<1> DEFINE call == [calls[c] EXCEPT !.pc = pc]
<1>1. calls[c] \in Call /\ CallsTyped
  BY DEF TypesInv, VerificationTypeOK, IsTable, CallsTyped
<1>2. call \in Call /\ call.request = calls[c].request /\ CallShape(call)
  BY <1>1 DEF Call
<1>3. calls' = [calls EXCEPT ![c] = call]
  BY DEF Advance
<1>4. QED
  <2> HIDE DEF call
  <2>1. OneMoves(c) /\ CallsTyped' /\ calls'[c] = call /\ DOMAIN calls' = DOMAIN calls
    BY <1>1, <1>2, <1>3, MovesTo
  <2>2. QED
    BY <2>1 DEF call

(* What the type of a call says of its request. *)
LEMMA CallFacts ==
  ASSUME TypesInv, NEW c, c \in DOMAIN calls
  PROVE  /\ calls[c] \in Call /\ CallShape(calls[c])
         /\ calls[c].request.op \in {"send", "verify"} => calls[c].request.key \in Key
         /\ calls[c].request.op = "verify" => calls[c].request.code \in Codes
         /\ calls[c].request.op = "reset" => calls[c].request.token \in Tokens
<1>1. calls[c] \in Call /\ CallShape(calls[c])
  BY DEF TypesInv, VerificationTypeOK, IsTable, Shapes
<1>2. calls[c].request \in Request
  BY <1>1 DEF Call
<1>3. QED
  BY <1>1, <1>2, RequestType

----------------------------------------------------------------------------
(* What each statement does to its call and to Redis. *)

LEMMA SendEffect ==
  ASSUME TypesInv, NEW c \in Calls, NEW v \in Codes, SendCode(c, v)
  PROVE  /\ OneMoves(c) /\ CallsTyped' /\ RedisTyped' /\ DOMAIN calls' = DOMAIN calls
         /\ calls[c].pc = "send" /\ calls[c].request.key \in Key
         /\ calls'[c] = [calls[c] EXCEPT !.pc = "done", !.answer = "sent"]
<1>1. c \in DOMAIN calls /\ calls[c].pc = "send"
  BY DEF SendCode, At
<1>2. calls[c] \in Call /\ calls[c].request.key \in Key
  BY <1>1, CallFacts DEF CallShape
<1>3. CallShape([calls[c] EXCEPT !.pc = "done", !.answer = "sent"])
  BY <1>1, <1>2, CallFacts DEF Call, CallShape
<1>4. Answer(c, "sent") /\ "sent" \in Answers
  BY DEF SendCode, Answers
<1>5. /\ OneMoves(c) /\ CallsTyped' /\ DOMAIN calls' = DOMAIN calls
      /\ calls'[c] = [calls[c] EXCEPT !.pc = "done", !.answer = "sent"]
  BY <1>1, <1>3, <1>4, AnswerMoves
<1>6. IsTable(codes', Key, Codes)
  BY <1>2, TableWith DEF SendCode, TypesInv, VerificationTypeOK
<1>7. older' \subseteq Key /\ attempts' = attempts /\ tokens' = tokens
  BY <1>2 DEF SendCode, TypesInv, VerificationTypeOK
<1>8. QED
  BY <1>1, <1>2, <1>5, <1>6, <1>7 DEF RedisTyped, TypesInv, VerificationTypeOK

LEMMA ReadCodeEffect ==
  ASSUME TypesInv, NEW c \in Calls, ReadCode(c)
  PROVE  /\ OneMoves(c) /\ CallsTyped' /\ DOMAIN calls' = DOMAIN calls /\ redis' = redis
         /\ calls[c].pc = "code" /\ calls[c].request.key \in Key
         /\ LET k == calls[c].request.key IN
              \/ k \in DOMAIN codes
                 /\ calls'[c] = [calls[c] EXCEPT !.read = codes[k], !.pc = "count"]
              \/ k \notin DOMAIN codes
                 /\ calls'[c] = [calls[c] EXCEPT !.pc = "done", !.answer = "unknown"]
<1> DEFINE k == calls[c].request.key
<1>1. c \in DOMAIN calls /\ calls[c].pc = "code"
  BY DEF ReadCode, At
<1>2. calls[c] \in Call /\ CallShape(calls[c]) /\ k \in Key
  BY <1>1, CallFacts DEF CallShape
<1>3. redis' = redis
  BY DEF ReadCode
<1>4. CASE k \in DOMAIN codes
  <2>1. calls' = [calls EXCEPT ![c].read = codes[k], ![c].pc = "count"]
    BY <1>4 DEF ReadCode
  <2>2. codes[k] \in Codes /\ "count" \in Statements
    BY <1>4 DEF TypesInv, VerificationTypeOK, IsTable, Statements
  <2>3. CallShape([calls[c] EXCEPT !.read = codes[k], !.pc = "count"])
    <3> DEFINE v == codes[k]
    <3> HIDE DEF v
    <3>1. v \in Codes
      BY <2>2 DEF v
    <3>2. CallShape([calls[c] EXCEPT !.read = v, !.pc = "count"])
      BY <1>1, <1>2, <3>1 DEF Call, CallShape
    <3>3. QED
      BY <3>2 DEF v
  <2>4. QED
    BY <1>1, <1>2, <1>3, <1>4, <2>1, <2>2, <2>3, ReadMoves
<1>5. CASE k \notin DOMAIN codes
  <2>1. Answer(c, "unknown") /\ "unknown" \in Answers
    BY <1>5 DEF ReadCode, Answers
  <2>2. CallShape([calls[c] EXCEPT !.pc = "done", !.answer = "unknown"])
    BY <1>1, <1>2 DEF Call, CallShape
  <2>3. QED
    BY <1>1, <1>2, <1>3, <1>5, <2>1, <2>2, AnswerMoves
<1>6. QED
  BY <1>4, <1>5

(* The count after INCR, which has passed the limit only if it had reached it. *)
LEMMA IncrementedFacts ==
  ASSUME TypesInv, NEW k
  PROVE  /\ Counted(k) \in Nat /\ Incremented(Counted(k)) \in Nat \ {0}
         /\ MaxAttempts \in Nat \ {0}
         /\ k \in DOMAIN attempts => Counted(k) = attempts[k].count /\ Counted(k) # 0
         /\ k \notin DOMAIN attempts => Counted(k) = 0
         /\ Incremented(Counted(k)) = 1 => k \notin DOMAIN attempts
         /\ ~ Exceeded(Incremented(Counted(k))) =>
              Incremented(Counted(k)) = Counted(k) + 1
         /\ Exceeded(Incremented(Counted(k))) => Counted(k) >= MaxAttempts
<1>1. MaxAttempts \in Nat \ {0}
  BY VerificationAssumption
<1>2. k \in DOMAIN attempts => attempts[k].count \in Nat \ {0}
  BY DEF TypesInv, VerificationTypeOK, IsTable
<1>3. Counted(k) \in Nat /\ (k \in DOMAIN attempts => Counted(k) # 0)
  BY <1>2 DEF Counted
<1>4. QED
  BY <1>1, <1>2, <1>3 DEF Counted, Incremented, Exceeded

LEMMA CountEffect ==
  ASSUME TypesInv, NEW c \in Calls, CountAttempt(c)
  PROVE  LET k == calls[c].request.key n == Incremented(Counted(k)) IN
         /\ OneMoves(c) /\ CallsTyped' /\ RedisTyped' /\ DOMAIN calls' = DOMAIN calls
         /\ calls[c].pc = "count" /\ k \in Key
         /\ codes' = codes /\ tokens' = tokens /\ DOMAIN attempts' = DOMAIN attempts \cup {k}
         /\ attempts'[k].count = n
         /\ attempts'[k].expires = (k \in DOMAIN attempts /\ attempts[k].expires)
         /\ \A j \in DOMAIN attempts : j # k => attempts'[j] = attempts[j]
         /\ n = 1 => calls'[c] = [calls[c] EXCEPT !.pc = "expire"]
         /\ n # 1 =>
              /\ calls'[c] = Judged(calls[c], n)
              /\ Verdict(calls[c], n) \in {"unknown", "verified", "exceeded"}
<1> DEFINE k == calls[c].request.key
           n == Incremented(Counted(k))
           row == [count |-> n, expires |-> k \in DOMAIN attempts /\ attempts[k].expires]
<1>1. c \in DOMAIN calls /\ calls[c].pc = "count"
  BY DEF CountAttempt, At
<1>2. calls[c] \in Call /\ CallShape(calls[c]) /\ k \in Key
  BY <1>1, CallFacts DEF CallShape
<1>3. n \in Nat \ {0}
  BY IncrementedFacts
<1>4. /\ attempts' = With(attempts, k, row) /\ codes' = codes /\ tokens' = tokens
      /\ older' = IF n = 1 THEN older \ {k} ELSE older
      /\ IF n = 1 THEN Advance(c, "expire") ELSE Judge(c, n)
  BY DEF CountAttempt
<1>5. row \in [count: Nat \ {0}, expires: BOOLEAN]
  <2> HIDE DEF n
  <2>1. (k \in DOMAIN attempts /\ attempts[k].expires) \in BOOLEAN
    BY DEF TypesInv, VerificationTypeOK, IsTable
  <2>2. QED
    BY <1>3, <2>1
<1>6. RedisTyped'
  <2> HIDE DEF row
  <2>1. IsTable(attempts', Key, [count: Nat \ {0}, expires: BOOLEAN])
    BY <1>2, <1>4, <1>5, TableWith DEF TypesInv, VerificationTypeOK
  <2>2. QED
    BY <1>4, <2>1 DEF RedisTyped, TypesInv, VerificationTypeOK
<1>7. /\ DOMAIN attempts' = DOMAIN attempts \cup {k} /\ attempts'[k] = row
      /\ \A j \in DOMAIN attempts : j # k => attempts'[j] = attempts[j]
  BY <1>4 DEF With
<1>8. CASE n = 1
  <2>1. CallShape([calls[c] EXCEPT !.pc = "expire"]) /\ "expire" \in Statements
    BY <1>1, <1>2 DEF Call, CallShape, Statements
  <2>2. /\ OneMoves(c) /\ CallsTyped' /\ DOMAIN calls' = DOMAIN calls
        /\ calls'[c] = [calls[c] EXCEPT !.pc = "expire"]
    <3> HIDE DEF n
    <3> QED
      BY <1>1, <1>2, <1>4, <1>8, <2>1, AdvanceMoves
  <2>3. /\ attempts'[k].count = n
        /\ attempts'[k].expires = (k \in DOMAIN attempts /\ attempts[k].expires)
    BY <1>7
  <2>4. QED
    BY <1>1, <1>2, <1>4, <1>6, <1>7, <1>8, <2>2, <2>3
<1>9. CASE n # 1
  <2>1. /\ OneMoves(c) /\ CallsTyped' /\ DOMAIN calls' = DOMAIN calls
        /\ calls'[c] = Judged(calls[c], n)
        /\ Verdict(calls[c], n) \in {"unknown", "verified", "exceeded"}
    <3> HIDE DEF n
    <3> QED
      BY <1>1, <1>4, <1>9, JudgeMoves
  <2>2. /\ attempts'[k].count = n
        /\ attempts'[k].expires = (k \in DOMAIN attempts /\ attempts[k].expires)
    BY <1>7
  <2>3. QED
    BY <1>1, <1>2, <1>4, <1>6, <1>7, <1>9, <2>1, <2>2
<1>10. QED
  BY <1>8, <1>9

LEMMA ExpireEffect ==
  ASSUME TypesInv, NEW c \in Calls, ExpireAttempts(c)
  PROVE  LET k == calls[c].request.key IN
         /\ OneMoves(c) /\ CallsTyped' /\ RedisTyped' /\ DOMAIN calls' = DOMAIN calls
         /\ calls[c].pc = "expire" /\ k \in Key
         /\ codes' = codes /\ tokens' = tokens /\ DOMAIN attempts' = DOMAIN attempts
         /\ \A j \in DOMAIN attempts : attempts'[j].count = attempts[j].count
         /\ \A j \in DOMAIN attempts :
              IF j = k THEN attempts'[j].expires ELSE attempts'[j] = attempts[j]
         /\ calls'[c] = Judged(calls[c], 1)
         /\ Verdict(calls[c], 1) \in {"unknown", "verified", "exceeded"}
<1> DEFINE k == calls[c].request.key
           Row == [count: Nat \ {0}, expires: BOOLEAN]
<1>1. c \in DOMAIN calls /\ calls[c].pc = "expire"
  BY DEF ExpireAttempts, At
<1>2. calls[c] \in Call /\ CallShape(calls[c]) /\ k \in Key
  BY <1>1, CallFacts DEF CallShape
<1>3. codes' = codes /\ tokens' = tokens /\ Judge(c, 1)
  BY DEF ExpireAttempts
<1>4. IsTable(attempts, Key, Row) /\ older \subseteq Key
  BY DEF TypesInv, VerificationTypeOK
<1>5. \/ k \in DOMAIN attempts /\ attempts' = [attempts EXCEPT ![k].expires = TRUE]
         /\ older' = older \ {k}
      \/ k \notin DOMAIN attempts /\ attempts' = attempts /\ older' = older
  BY DEF ExpireAttempts, MustExpire
<1>6. /\ DOMAIN attempts' = DOMAIN attempts
      /\ \A j \in DOMAIN attempts : attempts'[j].count = attempts[j].count
      /\ \A j \in DOMAIN attempts :
           IF j = k THEN attempts'[j].expires ELSE attempts'[j] = attempts[j]
      /\ IsTable(attempts', Key, Row) /\ older' \subseteq Key
  <2>1. CASE k \notin DOMAIN attempts
    BY <1>4, <1>5, <2>1
  <2>2. CASE k \in DOMAIN attempts
    <3>1. attempts[k] \in Row
      BY <1>4, <2>2 DEF IsTable
    <3>2. attempts' = [attempts EXCEPT ![k] = [attempts[k] EXCEPT !.expires = TRUE]]
      BY <1>5, <2>2
    <3>3. [attempts[k] EXCEPT !.expires = TRUE] \in Row
      BY <3>1
    <3>4. QED
      BY <1>4, <1>5, <2>2, <3>1, <3>2, <3>3 DEF IsTable
  <2>3. QED
    BY <2>1, <2>2
<1>7. RedisTyped'
  BY <1>3, <1>6 DEF RedisTyped, TypesInv, VerificationTypeOK
<1>8. /\ OneMoves(c) /\ CallsTyped' /\ DOMAIN calls' = DOMAIN calls
      /\ calls'[c] = Judged(calls[c], 1)
      /\ Verdict(calls[c], 1) \in {"unknown", "verified", "exceeded"}
  BY <1>1, <1>3, JudgeMoves
<1>9. QED
  BY <1>1, <1>2, <1>3, <1>6, <1>7, <1>8

LEMMA ForgetCodeEffect ==
  ASSUME TypesInv, NEW c \in Calls, ForgetCode(c)
  PROVE  /\ OneMoves(c) /\ CallsTyped' /\ RedisTyped' /\ DOMAIN calls' = DOMAIN calls
         /\ calls[c].pc = "forget" /\ calls[c].request.key \in Key
         /\ DOMAIN codes' = DOMAIN codes \ {calls[c].request.key}
         /\ \A j \in DOMAIN codes' : codes'[j] = codes[j]
         /\ attempts' = attempts /\ older' = older /\ tokens' = tokens
         /\ calls'[c] = [calls[c] EXCEPT !.pc = "forgetCount"]
<1> DEFINE k == calls[c].request.key
<1>1. c \in DOMAIN calls /\ calls[c].pc = "forget"
  BY DEF ForgetCode, At
<1>2. calls[c] \in Call /\ CallShape(calls[c]) /\ k \in Key
  BY <1>1, CallFacts DEF CallShape
<1>3. /\ codes' = Restrict(codes, DOMAIN codes \ {k}) /\ Advance(c, "forgetCount")
      /\ attempts' = attempts /\ older' = older /\ tokens' = tokens
  BY DEF ForgetCode, Forgotten
<1>4. CallShape([calls[c] EXCEPT !.pc = "forgetCount"]) /\ "forgetCount" \in Statements
  BY <1>1, <1>2 DEF Call, CallShape, Statements
<1>5. /\ OneMoves(c) /\ CallsTyped' /\ DOMAIN calls' = DOMAIN calls
      /\ calls'[c] = [calls[c] EXCEPT !.pc = "forgetCount"]
  BY <1>1, <1>3, <1>4, AdvanceMoves
<1>6. IsTable(codes', Key, Codes)
  BY <1>3, TableRestrict DEF TypesInv, VerificationTypeOK
<1>7. DOMAIN codes' = DOMAIN codes \ {k} /\ \A j \in DOMAIN codes' : codes'[j] = codes[j]
  BY <1>3 DEF Restrict
<1>8. QED
  BY <1>1, <1>2, <1>3, <1>5, <1>6, <1>7 DEF RedisTyped, TypesInv, VerificationTypeOK

LEMMA ForgetAttemptsEffect ==
  ASSUME TypesInv, NEW c \in Calls, ForgetAttempts(c)
  PROVE  /\ OneMoves(c) /\ CallsTyped' /\ RedisTyped' /\ DOMAIN calls' = DOMAIN calls
         /\ calls[c].pc = "forgetCount" /\ calls[c].request.key \in Key
         /\ DOMAIN attempts' = DOMAIN attempts \ {calls[c].request.key}
         /\ \A j \in DOMAIN attempts' : attempts'[j] = attempts[j]
         /\ codes' = codes /\ tokens' = tokens
         /\ \/ calls[c].answer = "verified"
               /\ calls'[c] = [calls[c] EXCEPT !.pc = "holder"]
            \/ calls'[c] = [calls[c] EXCEPT !.pc = "done"]
<1> DEFINE k == calls[c].request.key
<1>1. c \in DOMAIN calls /\ calls[c].pc = "forgetCount"
  BY DEF ForgetAttempts, At
<1>2. calls[c] \in Call /\ CallShape(calls[c]) /\ k \in Key
  BY <1>1, CallFacts DEF CallShape
<1>3. /\ attempts' = Without(attempts, k) /\ older' = older \ {k}
      /\ codes' = codes /\ tokens' = tokens
  BY DEF ForgetAttempts
<1>4. IsTable(attempts', Key, [count: Nat \ {0}, expires: BOOLEAN]) /\ older' \subseteq Key
  BY <1>3, TableWithout DEF TypesInv, VerificationTypeOK
<1>5. DOMAIN attempts' = DOMAIN attempts \ {k}
      /\ \A j \in DOMAIN attempts' : attempts'[j] = attempts[j]
  BY <1>3 DEF Without, Restrict
<1>6. RedisTyped'
  BY <1>3, <1>4 DEF RedisTyped, TypesInv, VerificationTypeOK
<1>7. CASE calls[c].answer = "verified" /\ k.context = "RESET_PASSWORD"
  <2>1. CallShape([calls[c] EXCEPT !.pc = "holder"]) /\ "holder" \in Statements
    BY <1>1, <1>2, <1>7 DEF Call, CallShape, Statements
  <2>2. Advance(c, "holder")
    BY <1>7 DEF ForgetAttempts
  <2>3. QED
    BY <1>1, <1>2, <1>3, <1>5, <1>6, <1>7, <2>1, <2>2, AdvanceMoves
<1>8. CASE ~ (calls[c].answer = "verified" /\ k.context = "RESET_PASSWORD")
  <2>1. CallShape([calls[c] EXCEPT !.pc = "done"])
    BY <1>1, <1>2 DEF Call, CallShape
  <2>2. Advance(c, "done")
    BY <1>8 DEF ForgetAttempts
  <2>3. QED
    BY <1>1, <1>2, <1>3, <1>5, <1>6, <2>1, <2>2, AdvanceMoves
<1>9. QED
  BY <1>7, <1>8

LEMMA FindHolderEffect ==
  ASSUME TypesInv, NEW c \in Calls, FindHolder(c)
  PROVE  /\ OneMoves(c) /\ CallsTyped' /\ redis' = redis /\ calls[c].pc = "holder"
         /\ c \in DOMAIN calls' =>
              calls'[c].pc \in {"done", "grant"} /\ calls'[c].answer # "exceeded"
<1> DEFINE q == calls[c].request
<1>1. c \in DOMAIN calls /\ calls[c].pc = "holder" /\ redis' = redis
  BY DEF FindHolder, At
<1>2. calls[c] \in Call /\ CallShape(calls[c]) /\ q.op \in {"verify", "forgot"} /\ CallsTyped
      /\ q \in Request
  BY <1>1, CallFacts DEF CallShape, TypesInv, VerificationTypeOK, CallsTyped, Call
<1>3. Identifier(q) \in Identifiers /\ Holders[Identifier(q)] \subseteq Users
  <2>1. Identifier(q) \in Identifiers
    BY <1>2, RequestType DEF Identifier, Key
  <2>2. QED
    BY <2>1, VerificationAssumption
<1>4. CASE q.op = "forgot" /\ Leave(c)
  BY <1>1, <1>2, <1>4, LeaveMoves
<1>5. CASE q.op # "forgot" /\ Answer(c, "nobody")
  <2>1. CallShape([calls[c] EXCEPT !.pc = "done", !.answer = "nobody"]) /\ "nobody" \in Answers
    BY <1>1, <1>2, <1>5 DEF Call, CallShape, Answers
  <2>2. calls'[c] = [calls[c] EXCEPT !.pc = "done", !.answer = "nobody"]
        /\ OneMoves(c) /\ CallsTyped'
    BY <1>1, <1>5, <2>1, AnswerMoves
  <2>3. QED
    BY <1>1, <1>2, <2>2 DEF Call
<1>6. ASSUME NEW u \in Users, calls' = [calls EXCEPT ![c].read = u, ![c].pc = "grant"]
      PROVE  /\ OneMoves(c) /\ CallsTyped'
             /\ calls'[c].pc = "grant" /\ calls'[c].answer # "exceeded"
  <2>1. CallShape([calls[c] EXCEPT !.read = u, !.pc = "grant"]) /\ "grant" \in Statements
    BY <1>1, <1>2 DEF Call, CallShape, Statements
  <2>2. calls'[c] = [calls[c] EXCEPT !.read = u, !.pc = "grant"] /\ OneMoves(c) /\ CallsTyped'
    BY <1>1, <1>6, <2>1, ReadMoves
  <2>3. calls[c].answer # "exceeded"
    BY <1>1, <1>2 DEF CallShape
  <2>4. QED
    BY <1>2, <2>2, <2>3 DEF Call
<1>7. \/ q.op = "forgot" /\ Leave(c)
      \/ q.op # "forgot" /\ Answer(c, "nobody")
      \/ \E u \in Users : calls' = [calls EXCEPT ![c].read = u, ![c].pc = "grant"]
  BY <1>3 DEF FindHolder, HoldersOf
<1>8. QED
  BY <1>1, <1>4, <1>5, <1>6, <1>7

LEMMA GrantEffect ==
  ASSUME TypesInv, NEW c \in Calls, NEW x \in Tokens, GrantToken(c, x)
  PROVE  /\ OneMoves(c) /\ CallsTyped' /\ RedisTyped' /\ calls[c].pc = "grant"
         /\ codes' = codes /\ attempts' = attempts
         /\ c \in DOMAIN calls' =>
              calls'[c].pc = "done" /\ calls'[c].answer # "exceeded"
<1> DEFINE q == calls[c].request
<1>1. c \in DOMAIN calls /\ calls[c].pc = "grant"
  BY DEF GrantToken, At
<1>2. calls[c] \in Call /\ CallShape(calls[c]) /\ q.op \in {"verify", "forgot"} /\ CallsTyped
      /\ calls[c].read \in Users
  BY <1>1, CallFacts DEF CallShape, TypesInv, VerificationTypeOK, CallsTyped
<1>3. /\ tokens' = With(tokens, x, calls[c].read)
      /\ codes' = codes /\ attempts' = attempts /\ older' = older
  BY DEF GrantToken
<1>4. IsTable(tokens', Tokens, Users)
  BY <1>2, <1>3, TableWith DEF TypesInv, VerificationTypeOK
<1>5. RedisTyped'
  BY <1>3, <1>4 DEF RedisTyped, TypesInv, VerificationTypeOK
<1>6. CASE q.op = "forgot"
  <2>1. Leave(c)
    BY <1>6 DEF GrantToken
  <2>2. QED
    BY <1>1, <1>2, <1>3, <1>5, <2>1, LeaveMoves
<1>7. CASE q.op # "forgot"
  <2>1. CallShape([calls[c] EXCEPT !.pc = "done", !.answer = "verified"])
        /\ "verified" \in Answers
    BY <1>1, <1>2, <1>7 DEF Call, CallShape, Answers
  <2>2. Answer(c, "verified")
    BY <1>7 DEF GrantToken
  <2>3. calls'[c] = [calls[c] EXCEPT !.pc = "done", !.answer = "verified"]
        /\ OneMoves(c) /\ CallsTyped'
    BY <1>1, <2>1, <2>2, AnswerMoves
  <2>4. QED
    BY <1>1, <1>2, <1>3, <1>5, <2>3 DEF Call
<1>8. QED
  BY <1>6, <1>7

LEMMA ReadTokenEffect ==
  ASSUME TypesInv, NEW c \in Calls, ReadToken(c)
  PROVE  /\ OneMoves(c) /\ CallsTyped' /\ redis' = redis /\ calls[c].pc = "token"
         /\ calls[c].request.op = "reset" /\ calls'[c].answer # "exceeded"
         /\ calls[c].request.token \notin DOMAIN tokens =>
              calls'[c] = [calls[c] EXCEPT !.pc = "done", !.answer = "400"]
<1> DEFINE x == calls[c].request.token
<1>1. c \in DOMAIN calls /\ calls[c].pc = "token" /\ redis' = redis
  BY DEF ReadToken, At
<1>2. calls[c] \in Call /\ CallShape(calls[c]) /\ calls[c].request.op = "reset"
  BY <1>1, CallFacts DEF CallShape
<1>3. CASE x \in DOMAIN tokens
  <2> DEFINE u == tokens[x]
  <2>1. u \in Users
    BY <1>3 DEF TypesInv, VerificationTypeOK, IsTable
  <2>2. calls' = [calls EXCEPT ![c].read = u, ![c].pc = "password"]
    BY <1>3 DEF ReadToken
  <2> HIDE DEF u
  <2>3. CallShape([calls[c] EXCEPT !.read = u, !.pc = "password"]) /\ "password" \in Statements
    BY <1>1, <1>2 DEF Call, CallShape, Statements
  <2>4. calls'[c] = [calls[c] EXCEPT !.read = u, !.pc = "password"]
        /\ OneMoves(c) /\ CallsTyped'
    BY <1>1, <2>1, <2>2, <2>3, ReadMoves
  <2>5. calls[c].answer # "exceeded"
    BY <1>1, <1>2 DEF CallShape
  <2>6. QED
    BY <1>1, <1>2, <1>3, <2>4, <2>5 DEF Call
<1>4. CASE x \notin DOMAIN tokens
  <2>1. CallShape([calls[c] EXCEPT !.pc = "done", !.answer = "400"]) /\ "400" \in Answers
    BY <1>1, <1>2 DEF Call, CallShape, Answers
  <2>2. Answer(c, "400")
    BY <1>4 DEF ReadToken
  <2>3. calls'[c] = [calls[c] EXCEPT !.pc = "done", !.answer = "400"]
        /\ OneMoves(c) /\ CallsTyped'
    BY <1>1, <2>1, <2>2, AnswerMoves
  <2>4. QED
    BY <1>1, <1>2, <2>3 DEF Call
<1>5. QED
  BY <1>3, <1>4

LEMMA SetPasswordEffect ==
  ASSUME TypesInv, NEW c \in Calls, SetPassword(c)
  PROVE  /\ OneMoves(c) /\ CallsTyped' /\ redis' = redis /\ calls[c].pc = "password"
         /\ calls[c].request.op = "reset" /\ calls'[c].answer # "exceeded"
<1>1. c \in DOMAIN calls /\ calls[c].pc = "password" /\ redis' = redis
      /\ Advance(c, "forgetToken")
  BY DEF SetPassword, At
<1>2. calls[c] \in Call /\ CallShape(calls[c]) /\ calls[c].request.op = "reset"
      /\ calls[c].answer # "exceeded"
  BY <1>1, CallFacts DEF CallShape
<1>3. CallShape([calls[c] EXCEPT !.pc = "forgetToken"]) /\ "forgetToken" \in Statements
  BY <1>1, <1>2 DEF Call, CallShape, Statements
<1>4. calls'[c] = [calls[c] EXCEPT !.pc = "forgetToken"] /\ OneMoves(c) /\ CallsTyped'
  BY <1>1, <1>3, AdvanceMoves
<1>5. QED
  BY <1>1, <1>2, <1>4 DEF Call

LEMMA ForgetTokenEffect ==
  ASSUME TypesInv, NEW c \in Calls, ForgetToken(c)
  PROVE  /\ OneMoves(c) /\ CallsTyped' /\ RedisTyped' /\ calls[c].pc = "forgetToken"
         /\ calls[c].request.op = "reset" /\ calls'[c].answer # "exceeded"
         /\ codes' = codes /\ attempts' = attempts
         /\ DOMAIN tokens' = DOMAIN tokens \ {calls[c].request.token}
<1> DEFINE x == calls[c].request.token
<1>1. /\ c \in DOMAIN calls /\ calls[c].pc = "forgetToken" /\ Answer(c, "reset")
      /\ codes' = codes /\ attempts' = attempts /\ older' = older
      /\ tokens' = Restrict(tokens, DOMAIN tokens \ {x})
  BY DEF ForgetToken, Kept, At
<1>2. calls[c] \in Call /\ CallShape(calls[c]) /\ calls[c].request.op = "reset"
  BY <1>1, CallFacts DEF CallShape
<1>3. CallShape([calls[c] EXCEPT !.pc = "done", !.answer = "reset"]) /\ "reset" \in Answers
  BY <1>1, <1>2 DEF Call, CallShape, Answers
<1>4. calls'[c] = [calls[c] EXCEPT !.pc = "done", !.answer = "reset"]
      /\ OneMoves(c) /\ CallsTyped'
  BY <1>1, <1>3, AnswerMoves
<1>5. IsTable(tokens', Tokens, Users) /\ DOMAIN tokens' = DOMAIN tokens \ {x}
  <2>1. IsTable(tokens', Tokens, Users)
    BY <1>1, TableRestrict DEF TypesInv, VerificationTypeOK
  <2>2. DOMAIN tokens' = DOMAIN tokens \ {x}
    BY <1>1 DEF Restrict
  <2>3. QED
    BY <2>1, <2>2
<1>6. RedisTyped'
  BY <1>1, <1>5 DEF RedisTyped, TypesInv, VerificationTypeOK
<1>7. QED
  BY <1>1, <1>2, <1>4, <1>5, <1>6 DEF Call

(* What runs out goes, and moves no call. *)
LEMMA RunsOutEffect ==
  ASSUME TypesInv, RunsOut
  PROVE  /\ CallsTyped' /\ RedisTyped' /\ calls' = calls
         /\ DOMAIN codes' \subseteq DOMAIN codes
         /\ \A k \in DOMAIN codes' : codes'[k] = codes[k]
         /\ DOMAIN attempts' \subseteq DOMAIN attempts
         /\ \A k \in DOMAIN attempts' : attempts'[k] = attempts[k]
<1> USE DEF TypesInv, VerificationTypeOK, RedisTyped
<1>1. CallsTyped
  BY DEF CallsTyped
<1>2. CASE \E k \in Key : CodeRunsOut(k)
  <2>1. PICK k \in Key : CodeRunsOut(k)
    BY <1>2
  <2>2. IsTable(codes', Key, Codes)
    BY <2>1, TableWithout DEF CodeRunsOut
  <2>3. QED
    BY <1>1, <2>1, <2>2 DEF CodeRunsOut, Without, Restrict, CallsTyped, Shapes, CallShape
<1>3. CASE \E k \in Key : AttemptsRunOut(k)
  <2>1. PICK k \in Key : AttemptsRunOut(k)
    BY <1>3
  <2>2. IsTable(attempts', Key, [count: Nat \ {0}, expires: BOOLEAN])
    BY <2>1, TableWithout DEF AttemptsRunOut
  <2>3. QED
    BY <1>1, <2>1, <2>2 DEF AttemptsRunOut, Without, Restrict, CallsTyped, Shapes, CallShape
<1>4. CASE \E x \in Tokens : TokenRunsOut(x)
  <2>1. PICK x \in Tokens : TokenRunsOut(x)
    BY <1>4
  <2>2. IsTable(tokens', Tokens, Users)
    BY <2>1, TableWithout DEF TokenRunsOut
  <2>3. QED
    BY <1>1, <2>1, <2>2 DEF TokenRunsOut, CallsTyped, Shapes, CallShape
<1>5. QED
  BY <1>2, <1>3, <1>4 DEF RunsOut

(* A restart leaves the calls that were done. *)
LEMMA RestartEffect ==
  ASSUME TypesInv, VerificationRestart
  PROVE  /\ CallsTyped' /\ redis' = redis
         /\ DOMAIN calls' = {c \in DOMAIN calls : ~ Busy(c)}
         /\ \A c \in DOMAIN calls' : calls'[c] = calls[c]
<1>1. /\ redis' = redis /\ DOMAIN calls' = {c \in DOMAIN calls : ~ Busy(c)}
      /\ \A c \in DOMAIN calls' : calls'[c] = calls[c]
  BY DEF VerificationRestart, Restrict
<1>2. IsTable(calls', Calls, Call)
  BY TableRestrict DEF VerificationRestart, TypesInv, VerificationTypeOK
<1>3. Shapes'
  BY <1>1 DEF TypesInv, Shapes, CallShape
<1>4. QED
  BY <1>1, <1>2, <1>3 DEF CallsTyped

(* A statement of a call moves that call alone and leaves Redis well typed. *)
LEMMA CallStepEffect ==
  ASSUME TypesInv, NEW c \in Calls, CallStep(c)
  PROVE  OneMoves(c) /\ CallsTyped' /\ RedisTyped' /\ Busy(c)
<1>1. RedisTyped /\ (redis' = redis => RedisTyped')
  BY DEF redis, RedisTyped, TypesInv, VerificationTypeOK, IsTable
<1>2. CASE \E v \in Codes : SendCode(c, v)
  BY <1>2, SendEffect DEF OneMoves, Busy
<1>3. CASE ReadCode(c)
  BY <1>1, <1>3, ReadCodeEffect DEF OneMoves, Busy
<1>4. CASE CountAttempt(c)
  BY <1>4, CountEffect DEF OneMoves, Busy
<1>5. CASE ExpireAttempts(c)
  BY <1>5, ExpireEffect DEF OneMoves, Busy
<1>6. CASE ForgetCode(c)
  BY <1>6, ForgetCodeEffect DEF OneMoves, Busy
<1>7. CASE ForgetAttempts(c)
  BY <1>7, ForgetAttemptsEffect DEF OneMoves, Busy
<1>8. CASE FindHolder(c)
  BY <1>1, <1>8, FindHolderEffect DEF OneMoves, Busy
<1>9. CASE \E x \in Tokens : GrantToken(c, x)
  BY <1>9, GrantEffect DEF OneMoves, Busy
<1>10. CASE ReadToken(c)
  BY <1>1, <1>10, ReadTokenEffect DEF OneMoves, Busy
<1>11. CASE SetPassword(c)
  BY <1>1, <1>11, SetPasswordEffect DEF OneMoves, Busy
<1>12. CASE ForgetToken(c)
  BY <1>12, ForgetTokenEffect DEF OneMoves, Busy
<1>13. QED
  BY <1>2, <1>3, <1>4, <1>5, <1>6, <1>7, <1>8, <1>9, <1>10, <1>11, <1>12
     DEF CallStep, VerifyStep

(* Which statement a call is at. *)
LEMMA StatementAt ==
  ASSUME NEW c, CallStep(c)
  PROVE  /\ calls[c].pc = "send" => \E v \in Codes : SendCode(c, v)
         /\ calls[c].pc = "code" => ReadCode(c)
         /\ calls[c].pc = "count" => CountAttempt(c)
         /\ calls[c].pc = "expire" => ExpireAttempts(c)
         /\ calls[c].pc = "forget" => ForgetCode(c)
         /\ calls[c].pc = "forgetCount" => ForgetAttempts(c)
         /\ calls[c].pc = "holder" => FindHolder(c)
         /\ calls[c].pc = "grant" => \E x \in Tokens : GrantToken(c, x)
         /\ calls[c].pc = "token" => ReadToken(c)
         /\ calls[c].pc = "password" => SetPassword(c)
         /\ calls[c].pc = "forgetToken" => ForgetToken(c)
  BY DEF CallStep, VerifyStep, SendCode, ReadCode, CountAttempt, ExpireAttempts, ForgetCode,
     ForgetAttempts, FindHolder, GrantToken, ReadToken, SetPassword, ForgetToken, At

LEMMA StepTypes ==
  ASSUME TypesInv, Step
  PROVE  CallsTyped' /\ RedisTyped'
<1>1. redis' = redis => RedisTyped'
  BY DEF redis, RedisTyped, TypesInv, VerificationTypeOK, IsTable
<1>2. CASE \E c \in Calls, q \in Requests : Receive(c, q)
  <2>1. redis' = redis
    BY <1>2 DEF Receive
  <2>2. QED
    BY <1>1, <1>2, <2>1, ReceiveTypes
<1>3. CASE \E c \in Calls : CallStep(c)
  BY <1>3, CallStepEffect
<1>4. CASE RunsOut
  BY <1>4, RunsOutEffect
<1>5. CASE VerificationRestart
  BY <1>1, <1>5, RestartEffect
<1>6. QED
  BY <1>2, <1>3, <1>4, <1>5 DEF Step

(* What becomes of a call in a step. *)
LEMMA CallMoves ==
  ASSUME TypesInv, Step, NEW c, c \in DOMAIN calls
  PROVE  \/ c \in DOMAIN calls' /\ calls'[c] = calls[c]
         \/ c \in Calls /\ CallStep(c)
         \/ ~ Busy(c) /\ \E q \in Requests : c \in Calls /\ Receive(c, q)
         \/ Busy(c) /\ VerificationRestart /\ c \notin DOMAIN calls'
<1>1. ASSUME NEW d \in Calls, NEW q \in Requests, Receive(d, q)
      PROVE  (c \in DOMAIN calls' /\ calls'[c] = calls[c]) \/ (c = d /\ ~ Busy(c))
  BY <1>1, ReceiveTypes DEF Receive
<1>2. ASSUME NEW d \in Calls, CallStep(d)
      PROVE  (c \in DOMAIN calls' /\ calls'[c] = calls[c]) \/ c = d
  BY <1>2, CallStepEffect DEF OneMoves
<1>3. RunsOut => c \in DOMAIN calls' /\ calls'[c] = calls[c]
  BY RunsOutEffect
<1>4. VerificationRestart =>
        (c \in DOMAIN calls' /\ calls'[c] = calls[c]) \/ (Busy(c) /\ c \notin DOMAIN calls')
  BY RestartEffect
<1>5. QED
  BY <1>1, <1>2, <1>3, <1>4 DEF Step

(* Where a call that is there after a step comes from. *)
LEMMA CallComesFrom ==
  ASSUME TypesInv, Step, NEW c, c \in DOMAIN calls'
  PROVE  \/ c \in DOMAIN calls /\ calls'[c] = calls[c]
         \/ c \in DOMAIN calls /\ c \in Calls /\ CallStep(c)
         \/ ~ Busy(c) /\ \E q \in Requests : c \in Calls /\ Receive(c, q)
<1>1. CASE c \in DOMAIN calls
  BY <1>1, CallMoves
<1>2. CASE c \notin DOMAIN calls
  <2>1. ASSUME NEW d \in Calls, NEW q \in Requests, Receive(d, q)
        PROVE  c = d /\ ~ Busy(c)
    BY <1>2, <2>1, ReceiveTypes DEF Receive
  <2>2. ASSUME NEW d \in Calls, CallStep(d)
        PROVE  FALSE
    BY <1>2, <2>2, CallStepEffect DEF OneMoves
  <2>3. ~ RunsOut /\ ~ VerificationRestart
    BY <1>2, RunsOutEffect, RestartEffect
  <2>4. QED
    BY <2>1, <2>2, <2>3 DEF Step
<1>3. QED
  BY <1>1, <1>2

(* Only a code sent is a new one. *)
LEMMA CodesStay ==
  ASSUME TypesInv, Step, NEW k, k \in DOMAIN codes'
  PROVE  \/ k \in DOMAIN codes /\ codes'[k] = codes[k]
         \/ Sent(k)
<1>1. redis' = redis => k \in DOMAIN codes /\ codes'[k] = codes[k]
  BY DEF redis
<1>2. ASSUME NEW c \in Calls, NEW v \in Codes, SendCode(c, v)
      PROVE  (k \in DOMAIN codes /\ codes'[k] = codes[k]) \/ Sent(k)
  <2>1. codes' = With(codes, calls[c].request.key, v)
    BY <1>2 DEF SendCode
  <2>2. c \in DOMAIN calls /\ c \in DOMAIN calls' /\ calls[c].pc = "send"
        /\ calls'[c] = [calls[c] EXCEPT !.pc = "done", !.answer = "sent"]
        /\ calls[c] \in Call
    BY <1>2, SendEffect, CallFacts DEF OneMoves
  <2>3. Moves(c, "send")
    BY <2>2 DEF Moves, At, Call
  <2>4. QED
    BY <2>1, <2>3 DEF With, Sent
<1>3. ASSUME NEW c \in Calls, CallStep(c)
      PROVE  (k \in DOMAIN codes /\ codes'[k] = codes[k]) \/ Sent(k)
  <2>1. CASE ReadCode(c)
    BY <1>1, <2>1, ReadCodeEffect
  <2>2. CASE CountAttempt(c)
    BY <2>2, CountEffect
  <2>3. CASE ExpireAttempts(c)
    BY <2>3, ExpireEffect
  <2>4. CASE ForgetCode(c)
    BY <2>4, ForgetCodeEffect
  <2>5. CASE ForgetAttempts(c)
    BY <2>5, ForgetAttemptsEffect
  <2>6. CASE FindHolder(c) \/ ReadToken(c) \/ SetPassword(c)
    BY <1>1, <2>6, FindHolderEffect, ReadTokenEffect, SetPasswordEffect
  <2>7. CASE ForgetToken(c) \/ \E x \in Tokens : GrantToken(c, x)
    BY <2>7, ForgetTokenEffect, GrantEffect
  <2>8. QED
    BY <1>2, <1>3, <2>1, <2>2, <2>3, <2>4, <2>5, <2>6, <2>7 DEF CallStep, VerifyStep
<1>4. QED
  BY <1>1, <1>3, RunsOutEffect, RestartEffect DEF Step, Receive

(* Attempts are counted by INCR alone; otherwise a count stays, or is gone. *)
LEMMA AttemptsStay ==
  ASSUME TypesInv, Step, NEW k, k \in DOMAIN attempts'
  PROVE  \/ \E c \in Calls : CountAttempt(c) /\ calls[c].request.key = k
         \/ /\ k \in DOMAIN attempts /\ attempts'[k].count = attempts[k].count
            /\ attempts[k].expires => attempts'[k].expires
<1> DEFINE Stays == /\ k \in DOMAIN attempts /\ attempts'[k].count = attempts[k].count
                    /\ attempts[k].expires => attempts'[k].expires
<1>1. redis' = redis \/ attempts' = attempts => Stays
  BY DEF redis
<1>2. ASSUME NEW c \in Calls, CallStep(c)
      PROVE  Stays \/ (CountAttempt(c) /\ calls[c].request.key = k)
  <2>1. CASE \E v \in Codes : SendCode(c, v)
    BY <1>1, <2>1 DEF SendCode
  <2>2. CASE CountAttempt(c)
    <3>1. CASE k # calls[c].request.key
      <4>1. /\ DOMAIN attempts' = DOMAIN attempts \cup {calls[c].request.key}
            /\ \A j \in DOMAIN attempts :
                 j # calls[c].request.key => attempts'[j] = attempts[j]
        BY <2>2, CountEffect
      <4>2. QED
        BY <3>1, <4>1
    <3>2. QED
      BY <2>2, <3>1
  <2>3. CASE ExpireAttempts(c)
    BY <2>3, ExpireEffect
  <2>4. CASE ForgetCode(c)
    BY <1>1, <2>4, ForgetCodeEffect
  <2>5. CASE ForgetAttempts(c)
    BY <2>5, ForgetAttemptsEffect
  <2>6. CASE ReadCode(c) \/ FindHolder(c) \/ ReadToken(c) \/ SetPassword(c)
    BY <1>1, <2>6, ReadCodeEffect, FindHolderEffect, ReadTokenEffect, SetPasswordEffect
  <2>7. CASE ForgetToken(c) \/ \E x \in Tokens : GrantToken(c, x)
    BY <1>1, <2>7, ForgetTokenEffect, GrantEffect
  <2>8. QED
    BY <1>2, <2>1, <2>2, <2>3, <2>4, <2>5, <2>6, <2>7 DEF CallStep, VerifyStep
<1>3. CASE RunsOut
  <2>1. k \in DOMAIN attempts /\ attempts'[k] = attempts[k]
    BY <1>3, RunsOutEffect
  <2>2. QED
    BY <2>1
<1>4. QED
  BY <1>1, <1>2, <1>3, RestartEffect DEF Step, Receive

(* What is remembered is of its type, too. *)
LEMMA HistoryTypes ==
  ASSUME TypesInv, Step, Remember
  PROVE  /\ guesses' \in [Key -> Nat]
         /\ forgiven' \subseteq Key /\ orphaned' \subseteq Key /\ raced' \subseteq Key
         /\ overtaken' \subseteq Key
         /\ spent' \subseteq Credential /\ spared' \subseteq Credential
         /\ late' \subseteq Calls
<1>1. CallsTyped' /\ RedisTyped'
  BY StepTypes
<1>2. DOMAIN codes' \subseteq Key /\ DOMAIN attempts' \subseteq Key /\ DOMAIN calls' \subseteq Calls
  BY <1>1 DEF CallsTyped, RedisTyped, IsTable
<1>3. guesses' \in [Key -> Nat]
  BY DEF Remember, TypesInv, VerificationTypeOK
<1>4. Used \subseteq Credential
  <2> SUFFICES ASSUME NEW c \in Calls, Uses(c)
               PROVE  CredentialOf(calls[c].request) \in Credential
    BY DEF Used
  <2>1. c \in DOMAIN calls /\ calls[c].pc \in {"password", "count", "expire"}
    BY DEF Uses, Moves, At
  <2>2. \/ calls[c].request.op = "verify" /\ calls[c].request.key \in Key
           /\ calls[c].request.code \in Codes
        \/ calls[c].request.op = "reset" /\ calls[c].request.token \in Tokens
    BY <2>1, CallFacts DEF CallShape
  <2>3. QED
    BY <2>2 DEF CredentialOf, Credential
<1>5. spent' \subseteq Credential /\ spared' \subseteq spent'
  BY <1>4 DEF Remember, TypesInv, VerificationTypeOK
<1>6. QED
  BY <1>2, <1>3, <1>5 DEF Remember, TypesInv, VerificationTypeOK

LEMMA InitTypes == VerificationInit => TypesInv
<1> SUFFICES ASSUME VerificationInit PROVE TypesInv
  OBVIOUS
<1>1. IsTable(codes, Key, Codes)
  BY VerificationAssumption DEF VerificationInit
<1>2. /\ IsTable(attempts, Key, [count: Nat \ {0}, expires: BOOLEAN])
      /\ IsTable(tokens, Tokens, Users) /\ IsTable(calls, Calls, Call)
  BY DEF VerificationInit, Empty, IsTable
<1>3. Shapes
  BY DEF VerificationInit, Empty, Shapes
<1>4. QED
  BY <1>1, <1>2, <1>3 DEF VerificationInit, TypesInv, VerificationTypeOK

LEMMA NextTypes == TypesInv /\ [VerificationNext]_verificationVars => TypesInv'
<1> SUFFICES ASSUME TypesInv, [VerificationNext]_verificationVars PROVE TypesInv'
  OBVIOUS
<1>1. CASE VerificationNext
  BY <1>1, StepTypes, HistoryTypes
     DEF VerificationNext, TypesInv, VerificationTypeOK, CallsTyped, RedisTyped
<1>2. CASE UNCHANGED verificationVars
  BY <1>2 DEF verificationVars, redis, history, TypesInv, VerificationTypeOK, Shapes,
     CallShape, IsTable
<1>3. QED
  BY <1>1, <1>2

LEMMA TypesHold == VerificationSpec => []TypesInv
  BY InitTypes, NextTypes, PTL DEF VerificationSpec

(***************************************************************************)
(* What Redis keeps, the calls on it and what is remembered of both have   *)
(* their types, for any number of calls, codes, tokens and any limit: no   *)
(* token is given to nobody, and no statement finds its call unprepared.   *)
(***************************************************************************)
THEOREM VerificationTypeCorrect == VerificationSpec => []VerificationTypeOK
<1>1. TypesInv => VerificationTypeOK
  BY DEF TypesInv
<1>2. QED
  BY <1>1, TypesHold, PTL

----------------------------------------------------------------------------
(* Counters expire. *)

LEMMA NextAttemptsExpire ==
  TypesInv /\ AttemptsExpire /\ [VerificationNext]_verificationVars => AttemptsExpire'
<1> SUFFICES ASSUME TypesInv, AttemptsExpire, [VerificationNext]_verificationVars
             PROVE  AttemptsExpire'
  OBVIOUS
<1>1. CASE VerificationNext
  <2> SUFFICES ASSUME NEW k, k \in DOMAIN attempts', ~ attempts'[k].expires
               PROVE  \/ k \in orphaned'
                      \/ \E c \in DOMAIN calls' : UnderWay(c, k)' /\ calls'[c].pc = "expire"
    BY DEF AttemptsExpire
  <2>1. Step /\ Remember
    BY <1>1 DEF VerificationNext
  <2>2. k \in Key
    BY <2>1, StepTypes DEF RedisTyped, IsTable
  <2>3. \/ k \in orphaned
        \/ \E c \in Lost : UnderWay(c, k) /\ calls[c].pc = "expire"
        => k \in orphaned'
    BY <2>1, <2>2 DEF Remember
  <2>4. CASE k \in DOMAIN attempts /\ ~ attempts[k].expires
    <3>1. CASE k \in orphaned
      BY <2>3, <3>1
    <3>2. CASE \E c \in DOMAIN calls : UnderWay(c, k) /\ calls[c].pc = "expire"
      <4>1. PICK c \in DOMAIN calls : UnderWay(c, k) /\ calls[c].pc = "expire"
        BY <3>2
      <4>2. CASE c \in DOMAIN calls' /\ calls'[c] = calls[c]
        BY <4>1, <4>2 DEF UnderWay
      <4>3. CASE c \in Calls /\ CallStep(c)
        <5>1. ExpireAttempts(c) /\ calls[c].request.key = k
          BY <4>1, <4>3, StatementAt DEF UnderWay
        <5>2. attempts'[k].expires
          BY <2>4, <4>3, <5>1, ExpireEffect
        <5>3. QED
          BY <5>2
      <4>4. CASE Busy(c) /\ VerificationRestart /\ c \notin DOMAIN calls'
        BY <2>3, <4>1, <4>4 DEF Lost
      <4>5. ~ (~ Busy(c) /\ \E q \in Requests : c \in Calls /\ Receive(c, q))
        BY <4>1 DEF Busy
      <4>6. QED
        BY <2>1, <4>2, <4>3, <4>4, <4>5, CallMoves
    <3>3. QED
      BY <2>4, <3>1, <3>2 DEF AttemptsExpire
  <2>5. CASE ~ (k \in DOMAIN attempts /\ ~ attempts[k].expires)
    <3>1. PICK c \in Calls : CountAttempt(c) /\ calls[c].request.key = k
      BY <2>1, <2>5, AttemptsStay
    <3>2. k \notin DOMAIN attempts
      <4>1. CASE k \in DOMAIN attempts /\ attempts[k].expires
        <5>1. attempts'[k].expires
          BY <3>1, <4>1, CountEffect
        <5>2. QED
          BY <5>1
      <4>2. QED
        BY <2>5, <4>1
    <3>3. Incremented(Counted(k)) = 1
      BY <3>2, IncrementedFacts DEF Incremented
    <3>4. /\ calls'[c] = [calls[c] EXCEPT !.pc = "expire"] /\ c \in DOMAIN calls'
          /\ calls[c] \in Call
      BY <3>1, <3>3, CountEffect, CallFacts DEF OneMoves
    <3>5. UnderWay(c, k)' /\ calls'[c].pc = "expire"
      BY <3>1, <3>4 DEF UnderWay, Call
    <3>6. QED
      BY <3>4, <3>5
  <2>6. QED
    BY <2>4, <2>5
<1>2. CASE UNCHANGED verificationVars
  BY <1>2 DEF verificationVars, redis, history, AttemptsExpire, UnderWay
<1>3. QED
  BY <1>1, <1>2

(***************************************************************************)
(* However many calls count at once, no counter outlives its time unless a *)
(* restart dropped the call that had counted 1 before it said when the     *)
(* counter expires.                                                        *)
(***************************************************************************)
THEOREM AttemptsExpired == VerificationSpec => []AttemptsExpire
<1>1. VerificationInit => AttemptsExpire
  BY DEF VerificationInit, Empty, AttemptsExpire
<1>2. QED
  BY <1>1, TypesHold, NextAttemptsExpire, PTL DEF VerificationSpec

(* A call that moves on from a statement has made it. *)
LEMMA MoverSteps ==
  ASSUME TypesInv, Step, NEW c \in Calls, NEW pc, pc # "done", Moves(c, pc)
  PROVE  CallStep(c) /\ calls[c].pc = pc
<1>1. c \in DOMAIN calls /\ calls[c].pc = pc /\ c \in DOMAIN calls' /\ calls'[c].pc # pc
  BY DEF Moves, At
<1>2. Busy(c)
  BY <1>1 DEF Busy
<1>3. QED
  BY <1>1, <1>2, CallMoves

(* What a call of verifyCode has just done, by the statement it has come to. *)
LEMMA VerifyMoves ==
  ASSUME TypesInv, Step, NEW c \in Calls, CallStep(c), c \in DOMAIN calls'
  PROVE  LET k == calls[c].request.key n == Incremented(Counted(k)) IN
         /\ calls'[c].request = calls[c].request
         /\ calls'[c].pc = "count" =>
              /\ calls[c].pc = "code" /\ codes' = codes
              /\ k \in DOMAIN codes /\ calls'[c].read = codes[k]
         /\ calls'[c].pc = "expire" =>
              /\ calls[c].pc = "count" /\ codes' = codes /\ CountAttempt(c) /\ n = 1
              /\ calls'[c].read = calls[c].read
         /\ calls'[c].pc = "forget" =>
              /\ calls[c].pc \in {"count", "expire"} /\ codes' = codes
              /\ calls'[c].read = calls[c].read
              /\ calls[c].pc = "count" => calls'[c].answer = Verdict(calls[c], n)
              /\ calls[c].pc = "expire" => calls'[c].answer = Verdict(calls[c], 1)
         /\ calls'[c].pc = "forgetCount" \/ (calls'[c].pc = "done" /\ calls'[c].answer = "exceeded") =>
              /\ calls[c].pc \in {"forget", "forgetCount"}
              /\ calls'[c].read = calls[c].read /\ calls'[c].answer = calls[c].answer
<1> DEFINE k == calls[c].request.key
           n == Incremented(Counted(k))
<1>1. /\ c \in DOMAIN calls /\ calls[c].pc \in Statements
      /\ calls[c] \in Call /\ CallShape(calls[c])
      /\ calls'[c].request = calls[c].request
  BY CallStepEffect, CallFacts DEF OneMoves, Busy, Call
<1>2. CASE calls[c].pc = "send"
  <2>1. calls'[c] = [calls[c] EXCEPT !.pc = "done", !.answer = "sent"]
    BY <1>2, StatementAt, SendEffect
  <2>2. QED
    BY <1>1, <2>1 DEF Call
<1>3. CASE calls[c].pc = "code"
  <2>1. ReadCode(c)
    BY <1>3, StatementAt
  <2>2. QED
    BY <1>1, <1>3, <2>1, ReadCodeEffect DEF Call, redis
<1>4. CASE calls[c].pc = "count"
  <2>1. CountAttempt(c)
    BY <1>4, StatementAt
  <2>2. CASE n = 1
    <3>1. calls'[c] = [calls[c] EXCEPT !.pc = "expire"] /\ codes' = codes
      BY <2>1, <2>2, CountEffect
    <3>2. QED
      BY <1>1, <1>4, <2>1, <2>2, <3>1 DEF Call
  <2>3. CASE n # 1
    <3>1. calls'[c] = Judged(calls[c], n) /\ codes' = codes
      BY <2>1, <2>3, CountEffect
    <3>2. /\ calls'[c].pc \in {"done", "forget"} /\ calls'[c].read = calls[c].read
          /\ calls'[c].answer = Verdict(calls[c], n)
          /\ calls'[c].pc = "done" => Verdict(calls[c], n) = "unknown"
      BY <1>1, <3>1 DEF Judged, Call
    <3>3. QED
      BY <1>1, <1>4, <3>1, <3>2
  <2>4. QED
    BY <2>2, <2>3
<1>5. CASE calls[c].pc = "expire"
  <2>1. ExpireAttempts(c)
    BY <1>5, StatementAt
  <2>2. calls'[c] = Judged(calls[c], 1) /\ codes' = codes
    BY <2>1, ExpireEffect
  <2>3. /\ calls'[c].pc \in {"done", "forget"} /\ calls'[c].read = calls[c].read
        /\ calls'[c].answer = Verdict(calls[c], 1)
        /\ calls'[c].pc = "done" => Verdict(calls[c], 1) = "unknown"
    BY <1>1, <2>2 DEF Judged, Call
  <2>4. QED
    BY <1>1, <1>5, <2>2, <2>3
<1>6. CASE calls[c].pc = "forget"
  <2>1. calls'[c] = [calls[c] EXCEPT !.pc = "forgetCount"]
    BY <1>6, StatementAt, ForgetCodeEffect
  <2>2. QED
    BY <1>1, <1>6, <2>1 DEF Call
<1>7. CASE calls[c].pc = "forgetCount"
  <2>1. \/ calls'[c] = [calls[c] EXCEPT !.pc = "holder"]
        \/ calls'[c] = [calls[c] EXCEPT !.pc = "done"]
    BY <1>7, StatementAt, ForgetAttemptsEffect
  <2>2. QED
    BY <1>1, <1>7, <2>1 DEF Call
<1>8. CASE calls[c].pc \in {"holder", "grant"}
  BY <1>1, <1>8, StatementAt, FindHolderEffect, GrantEffect
<1>9. CASE calls[c].pc \in {"token", "password", "forgetToken"}
  <2>1. calls[c].request.op = "reset" /\ calls'[c].answer # "exceeded"
    BY <1>9, StatementAt, ReadTokenEffect, SetPasswordEffect, ForgetTokenEffect
  <2>2. CallShape(calls'[c])
    BY StepTypes DEF CallsTyped, Shapes
  <2>3. calls'[c].pc \notin {"count", "expire", "forget", "forgetCount"}
    BY <1>1, <2>1, <2>2 DEF CallShape
  <2>4. QED
    BY <1>1, <2>1, <2>3
<1>10. QED
  BY <1>1, <1>2, <1>3, <1>4, <1>5, <1>6, <1>7, <1>8, <1>9 DEF Statements

(* A call that comes in is at its first statement and has no answer. *)
LEMMA ReceivedFacts ==
  ASSUME TypesInv, NEW c \in Calls, NEW q \in Requests, Receive(c, q)
  PROVE  /\ calls'[c].request = q /\ calls'[c].answer = "none"
         /\ calls'[c].pc = FirstStatement(q)
         /\ calls'[c].pc \in {"send", "code", "holder", "token"}
         /\ q.op = "verify" => calls'[c].pc = "code"
         /\ q.op = "reset" => calls'[c].pc = "token"
<1>1. calls'[c] = [request |-> q, pc |-> FirstStatement(q), read |-> None,
                   answer |-> "none"]
  BY ReceiveTypes
<1>2. /\ calls'[c].request = q /\ calls'[c].pc = FirstStatement(q)
      /\ calls'[c].answer = "none"
  BY <1>1
<1>3. q \in Request
  BY VerificationAssumption
<1>4. QED
  BY <1>2, <1>3, RequestType DEF FirstStatement

----------------------------------------------------------------------------
(* Guesses are bounded: each is counted, and what is counted stays until it *)
(* vanishes.                                                                *)

GuessesInv ==
  \A k \in DOMAIN codes : k \notin forgiven =>
    guesses[k] <= Counted(k) /\ guesses[k] <= MaxAttempts

LEMMA NextGuesses ==
  TypesInv /\ GuessesInv /\ [VerificationNext]_verificationVars => GuessesInv'
<1> SUFFICES ASSUME TypesInv, GuessesInv, [VerificationNext]_verificationVars
             PROVE  GuessesInv'
  OBVIOUS
<1>1. CASE VerificationNext
  <2> SUFFICES ASSUME NEW k, k \in DOMAIN codes', k \notin forgiven'
               PROVE  guesses'[k] <= Counted(k)' /\ guesses'[k] <= MaxAttempts
    BY DEF GuessesInv
  <2>1. Step /\ Remember
    BY <1>1 DEF VerificationNext
  <2>2. k \in Key /\ Counted(k)' \in Nat /\ MaxAttempts \in Nat \ {0}
    <3>1. CallsTyped' /\ RedisTyped'
      BY <2>1, StepTypes
    <3>2. k \in Key /\ (k \in DOMAIN attempts' => attempts'[k].count \in Nat)
      BY <3>1 DEF RedisTyped, IsTable
    <3>3. QED
      BY <3>2, IncrementedFacts DEF Counted
  <2>3. guesses'[k] = IF Sent(k) THEN 0
                      ELSE IF Guessed(k) THEN guesses[k] + 1 ELSE guesses[k]
    BY <2>1, <2>2 DEF Remember
  <2>4. CASE Sent(k)
    BY <2>2, <2>3, <2>4
  <2>5. CASE ~ Sent(k)
    <3>1. /\ k \in DOMAIN codes /\ k \notin forgiven
          /\ k \in DOMAIN attempts => k \in DOMAIN attempts'
      BY <2>1, <2>5, CodesStay DEF Remember
    <3>2. guesses[k] <= Counted(k) /\ guesses[k] <= MaxAttempts /\ guesses[k] \in Nat
      BY <2>2, <3>1 DEF GuessesInv, TypesInv, VerificationTypeOK
    <3>3. CASE Guessed(k)
      <4>1. PICK c \in Calls : /\ Moves(c, "count") /\ calls[c].request.key = k
                               /\ ~ Exceeded(Incremented(Counted(k)))
        BY <3>3 DEF Guessed
      <4>2. CountAttempt(c)
        BY <2>1, <4>1, MoverSteps, StatementAt
      <4>3. k \in DOMAIN attempts' /\ attempts'[k].count = Incremented(Counted(k))
        BY <4>1, <4>2, CountEffect
      <4>4. Counted(k)' = Incremented(Counted(k))
        BY <4>3 DEF Counted
      <4>5. Incremented(Counted(k)) = Counted(k) + 1 /\ Counted(k) \in Nat
        BY <4>1, IncrementedFacts
      <4>6. Counted(k) + 1 <= MaxAttempts
        BY <2>2, <4>1, <4>5 DEF Exceeded
      <4>7. QED
        BY <2>2, <2>3, <2>5, <3>2, <3>3, <4>4, <4>5, <4>6
    <3>4. CASE ~ Guessed(k)
      <4>1. Counted(k)' >= Counted(k)
        <5>1. CASE k \notin DOMAIN attempts
          BY <2>2, <5>1, IncrementedFacts
        <5>2. CASE k \in DOMAIN attempts
          <6>1. CASE \E c \in Calls : CountAttempt(c) /\ calls[c].request.key = k
            <7>1. attempts'[k].count = Incremented(Counted(k)) /\ k \in DOMAIN attempts'
              BY <6>1, CountEffect
            <7>2. Counted(k)' = Incremented(Counted(k))
              BY <7>1 DEF Counted
            <7>3. QED
              BY <7>2, IncrementedFacts DEF Incremented
          <6>2. CASE attempts'[k].count = attempts[k].count
            BY <2>2, <3>1, <5>2, <6>2 DEF Counted
          <6>3. QED
            BY <2>1, <3>1, <5>2, <6>1, <6>2, AttemptsStay
        <5>3. QED
          BY <5>1, <5>2
      <4>2. QED
        BY <2>2, <2>3, <2>5, <3>2, <3>4, <4>1, IncrementedFacts
    <3>5. QED
      BY <3>3, <3>4
  <2>6. QED
    BY <2>4, <2>5
<1>2. CASE UNCHANGED verificationVars
  BY <1>2 DEF verificationVars, redis, history, GuessesInv, Counted
<1>3. QED
  BY <1>1, <1>2

(***************************************************************************)
(* However many calls guess at a code, and however they interleave, it is  *)
(* compared with at most MaxAttempts guesses while its attempts are kept.  *)
(***************************************************************************)
THEOREM GuessesStayBounded == VerificationSpec => []GuessesBounded
<1>1. VerificationInit => GuessesInv
  <2> SUFFICES ASSUME VerificationInit, NEW k \in DOMAIN codes
               PROVE  guesses[k] <= Counted(k) /\ guesses[k] <= MaxAttempts
    BY DEF GuessesInv
  <2>1. TypesInv
    BY InitTypes
  <2>2. k \in Key /\ guesses[k] = 0
    BY <2>1 DEF VerificationInit, TypesInv, VerificationTypeOK, IsTable
  <2>3. QED
    BY <2>1, <2>2, IncrementedFacts
<1>2. GuessesInv => GuessesBounded
  BY DEF GuessesInv, GuessesBounded
<1>3. QED
  BY <1>1, <1>2, TypesHold, NextGuesses, PTL DEF VerificationSpec

----------------------------------------------------------------------------
(* A call deletes its own code. *)

\* A call that is to delete the code has read the one there is, or was overtaken.
OwnInv ==
  \A c \in DOMAIN calls : calls[c].pc \in {"count", "expire", "forget"} =>
    LET k == calls[c].request.key IN
    k \in DOMAIN codes /\ codes[k] # calls[c].read => k \in overtaken

LEMMA NextOwn ==
  TypesInv /\ OwnInv /\ [VerificationNext]_verificationVars => OwnInv'
<1> SUFFICES ASSUME TypesInv, OwnInv, [VerificationNext]_verificationVars
             PROVE  OwnInv'
  OBVIOUS
<1>1. CASE VerificationNext
  <2> DEFINE Reading == {"count", "expire", "forget"}
  <2>1. Step /\ Remember
    BY <1>1 DEF VerificationNext
  <2> SUFFICES ASSUME NEW c, c \in DOMAIN calls', calls'[c].pc \in Reading,
                      NEW k, k = calls'[c].request.key,
                      k \in DOMAIN codes', codes'[k] # calls'[c].read
               PROVE  k \in overtaken'
    BY DEF OwnInv
  <2>2. c \in Calls
    BY <2>1, StepTypes DEF CallsTyped, IsTable
  <2>3. overtaken' = {j \in DOMAIN codes' :
          IF Sent(j) THEN \E d \in Calls : UnderWay(d, j) /\ calls[d].pc # "forgetCount"
          ELSE j \in overtaken}
    BY <2>1 DEF Remember
  <2>4. CASE c \in DOMAIN calls /\ calls'[c] = calls[c]
    <3>1. UnderWay(c, k) /\ calls[c].pc # "forgetCount"
      BY <2>4 DEF UnderWay
    <3>2. CASE Sent(k)
      BY <2>2, <2>3, <3>1, <3>2
    <3>3. CASE ~ Sent(k)
      <4>1. k \in DOMAIN codes /\ codes'[k] = codes[k]
        BY <2>1, <3>3, CodesStay
      <4>2. k \in overtaken
        BY <2>4, <4>1 DEF OwnInv
      <4>3. QED
        BY <2>3, <3>3, <4>2
    <3>4. QED
      BY <3>2, <3>3
  <2>5. CASE c \in DOMAIN calls /\ CallStep(c)
    <3>1. calls[c] \in Call /\ CallShape(calls[c])
      BY <2>5, CallFacts
    <3>2. /\ calls[c].pc \in {"code", "count", "expire"} /\ codes' = codes
          /\ calls[c].request.key = k
          /\ calls[c].pc # "code" => calls'[c].read = calls[c].read
          /\ calls[c].pc = "code" => calls'[c].read = codes[k]
      BY <2>1, <2>2, <2>5, VerifyMoves
    <3>3. k \in overtaken /\ k \in DOMAIN codes
      BY <2>5, <3>2 DEF OwnInv
    <3>4. ~ Sent(k)
      <4> SUFFICES ASSUME NEW d \in Calls, Moves(d, "send") PROVE FALSE
        BY DEF Sent
      <4>1. CallStep(d) /\ calls[d].pc = "send"
        BY <2>1, MoverSteps
      <4>2. d # c /\ d \in DOMAIN calls' /\ calls'[d] # calls[d]
        BY <3>2, <4>1 DEF Moves, At
      <4>3. QED
        BY <2>2, <2>5, <4>1, <4>2, CallStepEffect DEF OneMoves
    <3>5. QED
      BY <2>3, <3>3, <3>4
  <2>6. CASE \E q \in Requests : c \in Calls /\ Receive(c, q)
    <3>1. PICK q \in Requests : Receive(c, q)
      BY <2>6
    <3>2. QED
      BY <2>2, <3>1, ReceivedFacts
  <2>7. QED
    BY <2>1, <2>4, <2>5, <2>6, CallComesFrom
<1>2. CASE UNCHANGED verificationVars
  BY <1>2 DEF verificationVars, redis, history, OwnInv
<1>3. QED
  BY <1>1, <1>2

(***************************************************************************)
(* Whatever else is under way, a call deletes the code it has read, or one *)
(* that was sent while it was at the one before.                           *)
(***************************************************************************)
THEOREM OwnCodesDeleted == VerificationSpec => OwnCodeDeleted
<1> DEFINE OwnStep ==
             \A k \in DOMAIN codes \ DOMAIN codes' : calls' # calls =>
               \E c \in DOMAIN calls :
                 /\ UnderWay(c, k) /\ Moves(c, "forget")
                 /\ calls[c].read = codes[k] \/ k \in overtaken
<1>1. VerificationInit => OwnInv
  BY DEF VerificationInit, Empty, OwnInv
<1>2. TypesInv /\ OwnInv /\ [VerificationNext]_verificationVars
        => [OwnStep]_verificationVars
  <2> SUFFICES ASSUME TypesInv, OwnInv, VerificationNext,
                      NEW k \in DOMAIN codes \ DOMAIN codes', calls' # calls
               PROVE  \E c \in DOMAIN calls :
                        /\ UnderWay(c, k) /\ Moves(c, "forget")
                        /\ calls[c].read = codes[k] \/ k \in overtaken
    OBVIOUS
  <2>1. Step
    BY DEF VerificationNext
  <2>2. codes' # codes /\ redis' # redis
    BY DEF redis
  <2>3. PICK c \in Calls : CallStep(c)
    BY <2>1, <2>2, RunsOutEffect, RestartEffect DEF Step, Receive
  <2>4. c \in DOMAIN calls /\ calls[c] \in Call /\ CallShape(calls[c])
        /\ calls[c].pc \in Statements
    BY <2>3, CallStepEffect, CallFacts DEF Busy, Call
  <2>5. ~ \E v \in Codes : SendCode(c, v)
    BY DEF SendCode, With
  <2>6. calls[c].pc \notin {"send", "code", "count", "expire", "forgetCount"}
    BY <2>2, <2>3, <2>5, StatementAt, ReadCodeEffect, CountEffect, ExpireEffect,
       ForgetAttemptsEffect
  <2>7. calls[c].pc \notin {"holder", "grant", "token", "password", "forgetToken"}
    BY <2>2, <2>3, StatementAt, FindHolderEffect, GrantEffect, ReadTokenEffect,
       SetPasswordEffect, ForgetTokenEffect
  <2>8. calls[c].pc = "forget" /\ ForgetCode(c)
    BY <2>3, <2>4, <2>6, <2>7, StatementAt DEF Statements
  <2>9. /\ k = calls[c].request.key /\ c \in DOMAIN calls'
        /\ calls'[c] = [calls[c] EXCEPT !.pc = "forgetCount"]
    BY <2>8, ForgetCodeEffect, <2>4
  <2>10. UnderWay(c, k) /\ Moves(c, "forget")
    BY <2>4, <2>8, <2>9 DEF UnderWay, Moves, At, Call
  <2>11. calls[c].read = codes[k] \/ k \in overtaken
    BY <2>4, <2>8, <2>9 DEF OwnInv
  <2>12. QED
    BY <2>4, <2>10, <2>11
<1>3. QED
  BY <1>1, <1>2, TypesHold, NextOwn, PTL DEF VerificationSpec, OwnCodeDeleted

----------------------------------------------------------------------------
(* The right code is accepted: while a key has one call at a time, its      *)
(* count reaches the limit only in the hands of a call that will delete it. *)

CrowdedRaced == \A k \in Key : Crowded(k) => k \in raced

FullInHand ==
  \A k \in Key : k \notin raced /\ Counted(k) >= MaxAttempts =>
    \E c \in DOMAIN calls :
      UnderWay(c, k) /\ calls[c].pc \in {"expire", "forget", "forgetCount"}

FirstCounted ==
  \A c \in DOMAIN calls :
    calls[c].pc = "expire" /\ calls[c].request.key \notin raced =>
      Counted(calls[c].request.key) <= 1

RightInv == CrowdedRaced /\ FullInHand /\ FirstCounted /\ RightCodeAccepted

(* The count of a key grows only by a call that is at it. *)
LEMMA CountGrows ==
  ASSUME TypesInv, Step, NEW k
  PROVE  \/ Counted(k)' <= Counted(k)
         \/ \E c \in Calls :
              /\ CountAttempt(c) /\ UnderWay(c, k) /\ calls[c].pc = "count"
              /\ Counted(k)' = Incremented(Counted(k))
<1>1. Counted(k) \in Nat /\ (k \notin DOMAIN attempts' => Counted(k)' = 0)
  BY IncrementedFacts DEF Counted
<1>2. CASE k \notin DOMAIN attempts'
  BY <1>1, <1>2
<1>3. CASE \E c \in Calls : CountAttempt(c) /\ calls[c].request.key = k
  <2>1. PICK c \in Calls : CountAttempt(c) /\ calls[c].request.key = k
    BY <1>3
  <2>2. k \in DOMAIN attempts' /\ attempts'[k].count = Incremented(Counted(k))
        /\ calls[c].pc = "count" /\ c \in DOMAIN calls
    BY <2>1, CountEffect DEF OneMoves
  <2>3. QED
    BY <2>1, <2>2 DEF Counted, UnderWay
<1>4. CASE k \in DOMAIN attempts' /\ k \in DOMAIN attempts
           /\ attempts'[k].count = attempts[k].count
  BY <1>1, <1>4 DEF Counted
<1>5. QED
  BY <1>2, <1>3, <1>4, AttemptsStay

LEMMA NextCrowded ==
  ASSUME TypesInv, CrowdedRaced, Step, Remember
  PROVE  /\ CrowdedRaced' /\ raced \subseteq raced'
         /\ \A k \in Key : CutOff(k) => k \in raced'
  BY DEF CrowdedRaced, Remember

LEMMA NextFull ==
  ASSUME TypesInv, CrowdedRaced, FullInHand, FirstCounted, Step, Remember
  PROVE  FullInHand'
<1> DEFINE Late == {"expire", "forget", "forgetCount"}
<1> SUFFICES ASSUME NEW k \in Key, k \notin raced', Counted(k)' >= MaxAttempts
             PROVE  \E c \in DOMAIN calls' : UnderWay(c, k)' /\ calls'[c].pc \in Late
  BY DEF FullInHand
<1>1. k \notin raced /\ ~ CutOff(k)
  BY NextCrowded
<1>2. MaxAttempts \in Nat \ {0} /\ Counted(k) \in Nat
  BY IncrementedFacts
<1>3. Counted(k)' \in Nat
  <2>1. RedisTyped'
    BY StepTypes
  <2>2. QED
    BY <2>1 DEF RedisTyped, IsTable, Counted
<1>4. CASE Counted(k) >= MaxAttempts
  <2>1. PICK c \in DOMAIN calls : UnderWay(c, k) /\ calls[c].pc \in Late
    BY <1>1, <1>4 DEF FullInHand
  <2>2. CASE c \in DOMAIN calls' /\ calls'[c] = calls[c]
    BY <2>1, <2>2 DEF UnderWay
  <2>3. CASE c \in Calls /\ CallStep(c)
    <3>1. calls[c] \in Call /\ CallShape(calls[c]) /\ calls[c].request.key = k
      BY <2>1, CallFacts DEF UnderWay
    <3>2. CASE calls[c].pc = "expire"
      <4>1. ExpireAttempts(c)
        BY <2>3, <3>2, StatementAt
      <4>2. calls'[c] = Judged(calls[c], 1) /\ c \in DOMAIN calls'
        BY <2>3, <4>1, ExpireEffect
      <4>3. Counted(k) <= 1
        BY <1>1, <2>1, <3>1, <3>2 DEF FirstCounted
      <4>4. Verdict(calls[c], 1) # "unknown"
        BY <1>2, <1>4, <4>3 DEF Verdict, Exceeded, LastGuess
      <4>5. calls'[c].pc = "forget" /\ calls'[c].request.key = k
        BY <3>1, <4>2, <4>4 DEF Judged, Call
      <4>6. QED
        BY <4>2, <4>5 DEF UnderWay
    <3>3. CASE calls[c].pc = "forget"
      <4>1. calls'[c] = [calls[c] EXCEPT !.pc = "forgetCount"] /\ c \in DOMAIN calls'
        BY <2>3, <3>3, StatementAt, ForgetCodeEffect
      <4>2. calls'[c].pc = "forgetCount" /\ calls'[c].request.key = k
        BY <3>1, <4>1 DEF Call
      <4>3. QED
        BY <4>1, <4>2 DEF UnderWay
    <3>4. CASE calls[c].pc = "forgetCount"
      <4>1. k \notin DOMAIN attempts'
        BY <2>3, <3>1, <3>4, StatementAt, ForgetAttemptsEffect
      <4>2. Counted(k)' = 0
        BY <4>1 DEF Counted
      <4>3. QED
        BY <1>2, <4>2
    <3>5. QED
      BY <2>1, <3>2, <3>3, <3>4
  <2>4. ~ (Busy(c) /\ VerificationRestart /\ c \notin DOMAIN calls')
    BY <1>1, <2>1 DEF CutOff, Lost
  <2>5. Busy(c)
    BY <2>1 DEF Busy
  <2>6. QED
    BY <2>2, <2>3, <2>4, <2>5, CallMoves
<1>5. CASE ~ (Counted(k) >= MaxAttempts)
  <2>1. PICK c \in Calls : /\ CountAttempt(c) /\ UnderWay(c, k) /\ calls[c].pc = "count"
                           /\ Counted(k)' = Incremented(Counted(k))
    BY <1>2, <1>3, <1>5, CountGrows
  <2> DEFINE n == Incremented(Counted(k))
  <2>2. n = MaxAttempts
    BY <1>2, <1>5, <2>1 DEF Incremented
  <2>3. /\ calls[c] \in Call /\ calls[c].request.key = k /\ c \in DOMAIN calls'
    BY <2>1, CallFacts, CountEffect DEF UnderWay
  <2>4. CASE n = 1
    <3>1. calls'[c] = [calls[c] EXCEPT !.pc = "expire"]
      BY <2>1, <2>3, <2>4, CountEffect
    <3>2. QED
      BY <2>3, <3>1 DEF UnderWay, Call
  <2>5. CASE n # 1
    <3>1. calls'[c] = Judged(calls[c], n)
      BY <2>1, <2>3, <2>5, CountEffect
    <3>2. Verdict(calls[c], n) # "unknown"
      BY <1>2, <2>2 DEF Verdict, Exceeded, LastGuess
    <3>3. calls'[c].pc = "forget" /\ calls'[c].request.key = k
      <4> HIDE DEF n
      <4> QED
        BY <2>3, <3>1, <3>2 DEF Judged, Call
    <3>4. QED
      BY <2>3, <3>3 DEF UnderWay
  <2>6. QED
    BY <2>4, <2>5
<1>6. QED
  BY <1>4, <1>5

LEMMA NextFirst ==
  ASSUME TypesInv, CrowdedRaced, FirstCounted, Step, Remember
  PROVE  FirstCounted'
<1> SUFFICES ASSUME NEW c, c \in DOMAIN calls', calls'[c].pc = "expire",
                    NEW k, k = calls'[c].request.key, k \notin raced'
             PROVE  Counted(k)' <= 1
  BY DEF FirstCounted
<1>1. c \in Calls /\ CallShape(calls'[c]) /\ calls'[c].request \in Request
  BY StepTypes DEF CallsTyped, IsTable, Shapes, Call
<1>2. k \in Key
  BY <1>1, RequestType DEF CallShape
<1>3. k \notin raced
  BY <1>2, NextCrowded
<1>4. CASE c \in DOMAIN calls /\ calls'[c] = calls[c]
  <2>1. Counted(k) <= 1 /\ UnderWay(c, k)
    BY <1>3, <1>4 DEF FirstCounted, UnderWay
  <2>2. CASE Counted(k)' <= Counted(k)
    <3>1. Counted(k) \in Nat /\ Counted(k)' \in Nat
      <4>1. RedisTyped'
        BY StepTypes
      <4>2. QED
        BY <4>1, IncrementedFacts DEF RedisTyped, IsTable, Counted
    <3>2. QED
      BY <2>1, <2>2, <3>1
  <2>3. ASSUME NEW d \in Calls, UnderWay(d, k), calls[d].pc = "count" PROVE FALSE
    <3>1. d # c /\ d \in DOMAIN calls
      BY <1>4, <2>3 DEF UnderWay
    <3>2. Crowded(k)
      BY <1>4, <2>1, <2>3, <3>1 DEF Crowded
    <3>3. QED
      BY <1>2, <1>3, <3>2 DEF CrowdedRaced
  <2>4. QED
    BY <2>2, <2>3, CountGrows
<1>5. CASE c \in DOMAIN calls /\ CallStep(c)
  <2>1. /\ CountAttempt(c) /\ Incremented(Counted(k)) = 1 /\ calls[c].request.key = k
    BY <1>1, <1>5, VerifyMoves
  <2>2. k \in DOMAIN attempts' /\ attempts'[k].count = 1
    BY <1>1, <2>1, CountEffect
  <2>3. QED
    BY <2>2 DEF Counted
<1>6. ~ \E q \in Requests : c \in Calls /\ Receive(c, q)
  BY <1>1, ReceivedFacts
<1>7. QED
  BY <1>4, <1>5, <1>6, CallComesFrom

LEMMA NextRight ==
  ASSUME TypesInv, CrowdedRaced, FullInHand, RightCodeAccepted, Step, Remember
  PROVE  RightCodeAccepted'
<1> SUFFICES ASSUME NEW c, c \in DOMAIN calls', calls'[c].answer = "exceeded",
                    calls'[c].request.code = calls'[c].read
             PROVE  calls'[c].request.key \in raced'
  BY DEF RightCodeAccepted
<1>1. c \in Calls /\ CallShape(calls'[c]) /\ raced \subseteq raced'
  BY StepTypes, NextCrowded DEF CallsTyped, IsTable, Shapes
<1>2. CASE c \in DOMAIN calls /\ calls'[c] = calls[c]
  BY <1>1, <1>2 DEF RightCodeAccepted
<1>3. CASE c \in DOMAIN calls /\ CallStep(c)
  <2> DEFINE k == calls[c].request.key
             n == Incremented(Counted(k))
  <2>1. calls'[c].request = calls[c].request
    BY <1>1, <1>3, VerifyMoves
  <2>2. CASE calls'[c].pc = "forget"
    <3>1. /\ calls[c].pc \in {"count", "expire"} /\ calls[c].request.code = calls[c].read
          /\ calls[c].pc = "count" => Verdict(calls[c], n) = "exceeded"
          /\ calls[c].pc = "expire" => Verdict(calls[c], 1) = "exceeded"
      BY <1>1, <1>3, <2>1, <2>2, VerifyMoves
    <3>2. calls[c].pc = "count" /\ Exceeded(n)
      BY <3>1, IncrementedFacts DEF Verdict, Exceeded
    <3>3. Counted(k) >= MaxAttempts /\ k \in Key /\ UnderWay(c, k)
      BY <1>1, <1>3, <3>2, IncrementedFacts, CallFacts DEF UnderWay, CallShape
    <3>4. k \in raced
      <4> SUFFICES ASSUME k \notin raced PROVE FALSE
        OBVIOUS
      <4>1. PICK d \in DOMAIN calls :
              UnderWay(d, k) /\ calls[d].pc \in {"expire", "forget", "forgetCount"}
        BY <3>3 DEF FullInHand
      <4>2. Crowded(k)
        BY <1>3, <3>2, <3>3, <4>1 DEF Crowded
      <4>3. QED
        BY <3>3, <4>2 DEF CrowdedRaced
    <3>5. QED
      BY <1>1, <2>1, <3>4
  <2>3. CASE calls'[c].pc \in {"forgetCount", "done"}
    <3>1. calls[c].answer = "exceeded" /\ calls'[c].read = calls[c].read
      BY <1>1, <1>3, <2>3, VerifyMoves
    <3>2. QED
      BY <1>1, <1>3, <2>1, <3>1 DEF RightCodeAccepted
  <2>4. QED
    BY <1>1, <2>2, <2>3 DEF CallShape
<1>4. ~ \E q \in Requests : c \in Calls /\ Receive(c, q)
  BY <1>1, ReceivedFacts
<1>5. QED
  BY <1>2, <1>3, <1>4, CallComesFrom

(***************************************************************************)
(* While the calls on a key come one after the other, whoever gives the    *)
(* right code is never told that there were too many attempts, however     *)
(* many guesses and codes came before.                                     *)
(***************************************************************************)
THEOREM RightCodesAccepted == VerificationSpec => []RightCodeAccepted
<1>1. VerificationInit => RightInv
  <2> SUFFICES ASSUME VerificationInit PROVE RightInv
    OBVIOUS
  <2>1. DOMAIN calls = {} /\ \A k : Counted(k) = 0
    BY DEF VerificationInit, Empty, Counted
  <2>2. MaxAttempts \in Nat \ {0}
    BY VerificationAssumption
  <2>3. QED
    BY <2>1, <2>2 DEF RightInv, CrowdedRaced, Crowded, FullInHand, FirstCounted,
       RightCodeAccepted
<1>2. TypesInv /\ RightInv /\ [VerificationNext]_verificationVars => RightInv'
  <2> SUFFICES ASSUME TypesInv, RightInv, [VerificationNext]_verificationVars PROVE RightInv'
    OBVIOUS
  <2>1. CASE VerificationNext
    BY <2>1, NextCrowded, NextFull, NextFirst, NextRight DEF VerificationNext, RightInv
  <2>2. CASE UNCHANGED verificationVars
    BY <2>2 DEF verificationVars, redis, history, RightInv, CrowdedRaced, Crowded,
       UnderWay, FullInHand, FirstCounted, RightCodeAccepted, Counted
  <2>3. QED
    BY <2>1, <2>2
<1>3. RightInv => RightCodeAccepted
  BY DEF RightInv
<1>4. QED
  BY <1>1, <1>2, <1>3, TypesHold, PTL DEF VerificationSpec

----------------------------------------------------------------------------
(* What is used once is gone, or about to go, and a call that comes in for  *)
(* it later finds nothing at each of its statements.                        *)

SpentHeld ==
  \A x \in spent : Stored(x) =>
    x \in spared \/ \E c \in DOMAIN calls : ToDelete(c, x)

\* How far a call gets whose code or token should be gone when it came in.
LateShape(call) ==
  /\ call.request.op \in {"verify", "reset"}
  /\ call.request.op = "verify" =>
       \/ call.pc = "code"
       \/ call.pc \in {"count", "expire"} /\ call.read # call.request.code
       \/ call.pc \in {"forget", "forgetCount", "done"}
          /\ call.answer \notin {"verified", "nobody"}
  /\ call.request.op = "reset" =>
       call.pc = "token" \/ (call.pc = "done" /\ call.answer = "400")

LateInv ==
  \A c \in late : /\ c \in DOMAIN calls /\ LateShape(calls[c])
                  /\ ~ Stored(CredentialOf(calls[c].request))

(* Redis has nothing new but what is issued. *)
LEMMA StoredBefore ==
  ASSUME TypesInv, Step, NEW x, x \notin Issued, Stored(x)'
  PROVE  Stored(x)
<1>1. CASE x \in DOMAIN tokens'
  BY <1>1 DEF Issued, Stored
<1>2. ASSUME NEW k \in DOMAIN codes', x = <<k, codes'[k]>>
      PROVE  Stored(x)
  <2>1. k \in Key
    BY StepTypes DEF RedisTyped, IsTable
  <2>2. ~ Sent(k)
    BY <1>2, <2>1 DEF Issued
  <2>3. k \in DOMAIN codes /\ codes'[k] = codes[k]
    BY <2>2, CodesStay
  <2>4. QED
    BY <1>2, <2>3 DEF Stored
<1>3. QED
  BY <1>1, <1>2 DEF Stored

(* A call that uses something has its DEL before it. *)
LEMMA UserDeletes ==
  ASSUME TypesInv, Step, NEW c \in Calls, Uses(c)
  PROVE  c \in DOMAIN calls' /\ ToDelete(c, CredentialOf(calls[c].request))'
<1>1. CallStep(c) /\ OneMoves(c) /\ c \in DOMAIN calls' /\ c \in DOMAIN calls
  BY MoverSteps, CallStepEffect DEF Uses, Moves, At
<1>2. calls'[c].request = calls[c].request
  BY <1>1 DEF OneMoves
<1>3. CASE Moves(c, "password")
  <2>1. SetPassword(c) /\ calls[c] \in Call
    BY <1>1, <1>3, StatementAt, CallFacts DEF Moves, At
  <2>2. calls'[c].pc = "forgetToken"
    BY <1>1, <2>1 DEF SetPassword, Advance, Call
  <2>3. QED
    BY <1>1, <1>2, <2>2 DEF ToDelete, At, CredentialOf
<1>4. CASE calls'[c].pc = "forget" /\ calls'[c].answer = "verified"
  BY <1>1, <1>2, <1>4 DEF ToDelete, At, CredentialOf
<1>5. QED
  BY <1>3, <1>4 DEF Uses

(* After the DEL it is not there. *)
LEMMA DeletedGoes ==
  ASSUME TypesInv, Step, NEW c \in Calls, CallStep(c), NEW x, ToDelete(c, x)
  PROVE  ~ Stored(x)'
<1>1. c \in DOMAIN calls /\ x = CredentialOf(calls[c].request)
  BY DEF ToDelete, At
<1>2. RedisTyped'
  BY StepTypes
<1>3. CASE calls[c].pc = "forgetToken"
  <2>1. ForgetToken(c)
    BY <1>3, StatementAt
  <2>2. x = calls[c].request.token /\ x \in Tokens
    BY <1>1, <2>1, ForgetTokenEffect, CallFacts DEF CredentialOf
  <2>3. x \notin DOMAIN tokens'
    BY <2>1, <2>2, ForgetTokenEffect
  <2>4. x \notin Key \X Codes
    BY <2>2, VerificationAssumption
  <2>5. QED
    BY <1>2, <2>3, <2>4 DEF Stored, RedisTyped, IsTable
<1>4. CASE calls[c].pc = "forget"
  <2>1. ForgetCode(c)
    BY <1>4, StatementAt
  <2>2. calls[c].request.op = "verify" /\ calls[c].request.code \in Codes
        /\ calls[c].request.key \in Key
    BY <1>1, <1>4, CallFacts DEF CallShape
  <2>3. x = <<calls[c].request.key, calls[c].request.code>>
    BY <1>1, <2>2 DEF CredentialOf
  <2>4. calls[c].request.key \notin DOMAIN codes'
    BY <2>1, ForgetCodeEffect
  <2>5. x \in Key \X Codes
    BY <2>2, <2>3
  <2>6. x \notin Tokens
    BY <2>5, VerificationAssumption
  <2>7. QED
    BY <1>2, <2>3, <2>4, <2>6 DEF Stored, RedisTyped, IsTable
<1>5. QED
  BY <1>3, <1>4 DEF ToDelete, At

LEMMA NextSpent ==
  ASSUME TypesInv, SpentHeld, Step, Remember
  PROVE  SpentHeld'
<1> SUFFICES ASSUME NEW x, x \in spent', Stored(x)'
             PROVE  x \in spared' \/ \E c \in DOMAIN calls' : ToDelete(c, x)'
  BY DEF SpentHeld
<1>1. x \in (spent \cup Used) \ Issued
  BY DEF Remember
<1>2. Stored(x)
  BY <1>1, StoredBefore
<1>3. x \in spared \/ (\E c \in Lost : ToDelete(c, x)) => x \in spared'
  BY DEF Remember
<1>4. CASE x \in Used
  <2>1. PICK c \in Calls : Uses(c) /\ x = CredentialOf(calls[c].request)
    BY <1>4 DEF Used
  <2>2. c \in DOMAIN calls' /\ ToDelete(c, CredentialOf(calls[c].request))'
    BY <2>1, UserDeletes
  <2>3. ToDelete(c, x)'
    BY <2>1, <2>2, CallStepEffect, MoverSteps DEF ToDelete, At, OneMoves, Uses
  <2>4. QED
    BY <2>2, <2>3
<1>5. ASSUME NEW c \in DOMAIN calls, ToDelete(c, x)
      PROVE  x \in spared' \/ (ToDelete(c, x)' /\ c \in DOMAIN calls')
  <2>1. CASE c \in DOMAIN calls' /\ calls'[c] = calls[c]
    BY <1>5, <2>1 DEF ToDelete, At, CredentialOf
  <2>2. CASE c \in Calls /\ CallStep(c)
    BY <1>5, <2>2, DeletedGoes
  <2>3. CASE c \notin DOMAIN calls'
    BY <1>3, <1>5, <2>3 DEF Lost
  <2>4. Busy(c)
    BY <1>5 DEF ToDelete, At, Busy
  <2>5. QED
    BY <2>1, <2>2, <2>3, <2>4, CallMoves
<1>6. QED
  BY <1>1, <1>2, <1>3, <1>4, <1>5 DEF SpentHeld

LEMMA NextLate ==
  ASSUME TypesInv, SpentHeld, LateInv, Step, Remember
  PROVE  LateInv'
<1> SUFFICES ASSUME NEW c, c \in DOMAIN calls', LateNow(c),
                    NEW x, x = CredentialOf(calls'[c].request)
             PROVE  LateShape(calls'[c]) /\ ~ Stored(x)'
  BY DEF Remember, LateInv, LateShape, CredentialOf
<1> DEFINE q == calls'[c].request
<1>1. c \in Calls /\ calls'[c] \in Call /\ CallShape(calls'[c])
  BY StepTypes DEF CallsTyped, IsTable, Shapes
<1>2. /\ q.op \in {"verify", "reset"} /\ x \notin Issued
      /\ IF Begins(c) THEN ShouldBeGone(x) ELSE c \in late
  BY DEF LateNow
<1> HIDE DEF q
<1>0. Stored(x)' => Stored(x)
  BY <1>2, StoredBefore
<1> USE DEF q
<1>3. CASE \E r \in Requests : Receive(c, r)
  <2>1. PICK r \in Requests : Receive(c, r)
    BY <1>3
  <2>2. /\ calls'[c].request = r /\ calls'[c].pc # "done"
        /\ r.op = "verify" => calls'[c].pc = "code"
        /\ r.op = "reset" => calls'[c].pc = "token"
    BY <1>1, <2>1, ReceivedFacts
  <2>3. Begins(c)
    BY <2>1, <2>2 DEF Receive, Begins, Busy
  <2>4. ~ Stored(x)
    BY <1>2, <2>3 DEF ShouldBeGone, SpentHeld
  <2>5. QED
    BY <1>0, <1>2, <2>2, <2>4 DEF LateShape
<1>4. CASE c \in DOMAIN calls /\ calls'[c] = calls[c]
  <2>1. ~ Begins(c)
    BY <1>4 DEF Begins, Busy
  <2>2. QED
    BY <1>0, <1>2, <1>4, <2>1 DEF LateInv
<1>5. CASE c \in DOMAIN calls /\ CallStep(c)
  <2>1. /\ Busy(c) /\ calls'[c].request = calls[c].request
        /\ calls[c] \in Call /\ CallShape(calls[c])
    BY <1>1, <1>5, CallStepEffect, CallFacts DEF OneMoves
  <2>2. c \in late /\ ~ Stored(x) /\ ~ Stored(x)' /\ LateShape(calls[c])
    BY <1>0, <1>2, <2>1 DEF Begins, LateInv
  <2>3. CASE q.op = "reset"
    <3>1. calls[c].pc = "token" /\ calls[c].request.token \notin DOMAIN tokens
      BY <2>1, <2>2, <2>3 DEF LateShape, Busy, Stored, CredentialOf
    <3>2. calls'[c] = [calls[c] EXCEPT !.pc = "done", !.answer = "400"]
      BY <1>1, <1>5, <3>1, StatementAt, ReadTokenEffect
    <3>3. QED
      BY <2>1, <2>2, <2>3, <3>2 DEF LateShape, Call
  <2>4. CASE q.op = "verify"
    <3> DEFINE k == calls[c].request.key
    <3>1. /\ x = <<k, calls[c].request.code>>
          /\ k \in DOMAIN codes => codes[k] # calls[c].request.code
      BY <2>1, <2>2, <2>4 DEF CredentialOf, Stored
    <3>2. CASE calls[c].pc = "code"
      <4>1. ReadCode(c)
        BY <1>5, <3>2, StatementAt
      <4>2. CASE k \in DOMAIN codes /\ calls'[c] = [calls[c] EXCEPT !.read = codes[k], !.pc = "count"]
        <5>1. calls'[c].pc = "count" /\ calls'[c].read = codes[k]
          BY <2>1, <4>2 DEF Call
        <5>2. QED
          BY <2>1, <2>2, <2>4, <3>1, <4>2, <5>1 DEF LateShape
      <4>3. CASE calls'[c] = [calls[c] EXCEPT !.pc = "done", !.answer = "unknown"]
        BY <2>1, <2>2, <2>4, <4>3 DEF LateShape, Call
      <4>4. QED
        BY <1>1, <4>1, <4>2, <4>3, ReadCodeEffect
    <3>3. CASE calls[c].pc \in {"count", "expire"}
      <4>1. calls[c].read # calls[c].request.code
        BY <2>1, <2>2, <2>4, <3>3 DEF LateShape
      <4>2. \A n : Verdict(calls[c], n) \in {"unknown", "exceeded"}
        BY <4>1 DEF Verdict
      <4>3. \/ calls'[c] = [calls[c] EXCEPT !.pc = "expire"]
            \/ \E n : calls'[c] = Judged(calls[c], n)
        BY <1>1, <1>5, <3>3, StatementAt, CountEffect, ExpireEffect
      <4>4. CASE calls'[c] = [calls[c] EXCEPT !.pc = "expire"]
        BY <2>1, <2>2, <2>4, <4>1, <4>4 DEF LateShape, Call
      <4>5. ASSUME NEW n, calls'[c] = Judged(calls[c], n)
            PROVE  LateShape(calls'[c])
        <5>1. calls'[c].pc \in {"done", "forget"}
              /\ calls'[c].answer = Verdict(calls[c], n)
          BY <2>1, <4>5 DEF Judged, Call
        <5>2. QED
          BY <2>1, <2>4, <4>2, <5>1 DEF LateShape
      <4>6. QED
        BY <2>2, <4>3, <4>4, <4>5
    <3>4. CASE calls[c].pc = "forget"
      <4>1. calls'[c] = [calls[c] EXCEPT !.pc = "forgetCount"]
        BY <1>1, <1>5, <3>4, StatementAt, ForgetCodeEffect
      <4>2. QED
        BY <2>1, <2>2, <2>4, <3>4, <4>1 DEF LateShape, Call
    <3>5. CASE calls[c].pc = "forgetCount"
      <4>1. calls[c].answer # "verified"
        BY <2>1, <2>2, <2>4, <3>5 DEF LateShape
      <4>2. calls'[c] = [calls[c] EXCEPT !.pc = "done"]
        BY <1>1, <1>5, <3>5, <4>1, StatementAt, ForgetAttemptsEffect
      <4>3. QED
        BY <2>1, <2>2, <2>4, <3>5, <4>2 DEF LateShape, Call
    <3>6. QED
      BY <2>1, <2>2, <2>4, <3>2, <3>3, <3>4, <3>5 DEF LateShape, Busy
  <2>5. QED
    BY <1>2, <2>3, <2>4
<1>6. QED
  BY <1>3, <1>4, <1>5, CallComesFrom

(***************************************************************************)
(* A code found right, and a token with which a password was set, are      *)
(* refused to every call that comes in after the DEL, and after the use    *)
(* itself unless the DEL is still to come or a restart has prevented it,   *)
(* whatever else is under way.                                             *)
(***************************************************************************)
THEOREM CredentialsUsedOnce == VerificationSpec => []UsedOnce
<1>1. VerificationInit => SpentHeld /\ LateInv
  BY DEF VerificationInit, Empty, SpentHeld, LateInv
<1>2. TypesInv /\ SpentHeld /\ LateInv /\ [VerificationNext]_verificationVars
        => (SpentHeld /\ LateInv)'
  <2> SUFFICES ASSUME TypesInv, SpentHeld, LateInv, [VerificationNext]_verificationVars
               PROVE  (SpentHeld /\ LateInv)'
    OBVIOUS
  <2>1. CASE VerificationNext
    BY <2>1, NextSpent, NextLate DEF VerificationNext
  <2>2. CASE UNCHANGED verificationVars
    BY <2>2 DEF verificationVars, redis, history, SpentHeld, LateInv, Stored, ToDelete, At
  <2>3. QED
    BY <2>1, <2>2
<1>3. TypesInv /\ LateInv => UsedOnce
  BY DEF TypesInv, Shapes, CallShape, LateInv, LateShape, UsedOnce, Busy
<1>4. QED
  BY <1>1, <1>2, <1>3, TypesHold, PTL DEF VerificationSpec
=============================================================================
