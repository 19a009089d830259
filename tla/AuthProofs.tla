----------------------------- MODULE AuthProofs -----------------------------
(***************************************************************************)
(* Theorems about accounts and their sessions, for every number of         *)
(* requests, administrators, users and attempts.                           *)
(***************************************************************************)
EXTENDS Auth, FiniteSetTheorems, SequenceTheorems, WellFoundedInduction, TLAPS

-----------------------------------------------------------------------------
(* Numbers and sequences *)

\* A bounded set of natural numbers that is not empty has a greatest member.
LEMMA GreatestNat ==
  ASSUME NEW n \in Nat, NEW S \in SUBSET (0 .. n), S # {}
  PROVE  Max(S) \in S /\ \A y \in S : y <= Max(S)
<1> DEFINE T == {n - x : x \in S}
<1>1. T \in SUBSET Nat /\ T # {}
  <2>1. \A x \in S : n - x \in Nat
    OBVIOUS
  <2>2. QED
    BY <2>1
<1>2. PICK t \in T : \A u \in T : ~ (<<u, t>> \in OpToRel(<, Nat))
  BY <1>1, NatLessThanWellFounded, WFMin
<1>3. PICK x \in S : t = n - x
  OBVIOUS
<1>4. \A y \in S : y <= x
  <2> SUFFICES ASSUME NEW y \in S PROVE y <= x
    OBVIOUS
  <2>1. n - y \in T
    OBVIOUS
  <2>2. ~ (n - y < n - x)
    BY <1>1, <1>2, <1>3, <2>1 DEF OpToRel
  <2>3. QED
    BY <2>2
<1>5. \E m \in S : \A y \in S : m >= y
  BY <1>4
<1>6. QED
  BY <1>5 DEF Max

\* A function on 1 .. n is a sequence of length n.
LEMMA FunctionIsSeq ==
  ASSUME NEW S, NEW n \in Nat, NEW f \in [1 .. n -> S]
  PROVE  f \in Seq(S) /\ Len(f) = n /\ DOMAIN f = 1 .. n
  BY SeqDef, LenProperties

-----------------------------------------------------------------------------
(* The type invariant *)

\* Request r goes on to statement p, with call c and answer a.
Moves(r, p, c, a) ==
  /\ pc' = [pc EXCEPT ![r] = p]
  /\ call' = [call EXCEPT ![r] = c]
  /\ answer' = [answer EXCEPT ![r] = a]

\* A step of one request keeps the type invariant if the tables keep their types,
\* no code is removed from its table, a token appears only for a request that is
\* answered with it, and the request's call fits its new statement and answer.
LEMMA StepType ==
  ASSUME TypeOK, NEW r \in Requests, NEW p \in Statements, NEW c \in Calls,
         NEW a \in Answers, Moves(r, p, c, a),
         admin' \in [Admins -> [password : Passwords, active : BOOLEAN]],
         user' \in [Users -> UserStates],
         codes' \in Seq(Code), DOMAIN codes \subseteq DOMAIN codes',
         tokens' \in [Requests -> TokenStates],
         \A t \in Requests :
           tokens'[t] # "none" => tokens[t] # "none" \/ (t = r /\ a = "tokens"),
         pc[r] # "done",
         Fits(p, c, a)
  PROVE  TypeOK'
<1>1. pc' \in [Requests -> Statements] /\ call' \in [Requests -> Calls]
        /\ answer' \in [Requests -> Answers]
  BY DEF TypeOK, Moves
<1>2. tokens[r] = "none"
  BY DEF TypeOK, Fits
<1>3. Fits(p, c, a)'
  BY DEF Fits
<1>4. ASSUME NEW q \in Requests
      PROVE  /\ Fits(pc[q], call[q], answer[q])'
             /\ tokens'[q] # "none" => answer'[q] = "tokens"
  <2>1. CASE q = r
    BY <1>2, <1>3, <2>1 DEF TypeOK, Moves
  <2>2. CASE q # r
    <3>1. pc'[q] = pc[q] /\ call'[q] = call[q] /\ answer'[q] = answer[q]
      BY <2>2 DEF TypeOK, Moves
    <3>2. Fits(pc[q], call[q], answer[q])
      BY DEF TypeOK
    <3>3. Fits(pc[q], call[q], answer[q])'
      BY <3>1, <3>2 DEF Fits
    <3>4. QED
      BY <2>2, <3>1, <3>3 DEF TypeOK
  <2>3. QED
    BY <2>1, <2>2
<1>5. QED
  BY <1>1, <1>4 DEF TypeOK

\* What a step leaves alone keeps its type.
LEMMA UnchangedTypes ==
  ASSUME TypeOK
  PROVE  /\ UNCHANGED admin => admin' \in [Admins -> [password : Passwords, active : BOOLEAN]]
         /\ UNCHANGED user => user' \in [Users -> UserStates]
         /\ UNCHANGED codes => codes' \in Seq(Code) /\ DOMAIN codes \subseteq DOMAIN codes'
         /\ UNCHANGED tokens =>
              /\ tokens' \in [Requests -> TokenStates]
              /\ \A t \in Requests : tokens'[t] # "none" => tokens[t] # "none"
  BY DEF TypeOK

\* The same for a step that writes no table.
LEMMA QuietStepType ==
  ASSUME TypeOK, NEW r \in Requests, NEW p \in Statements, NEW c \in Calls,
         NEW a \in Answers, Moves(r, p, c, a),
         UNCHANGED <<admin, user, codes, tokens>>,
         pc[r] # "done", Fits(p, c, a)
  PROVE  TypeOK'
<1>1. /\ admin' \in [Admins -> [password : Passwords, active : BOOLEAN]]
      /\ user' \in [Users -> UserStates]
      /\ codes' \in Seq(Code) /\ DOMAIN codes \subseteq DOMAIN codes'
      /\ tokens' \in [Requests -> TokenStates]
      /\ \A t \in Requests :
           tokens'[t] # "none" => tokens[t] # "none" \/ (t = r /\ a = "tokens")
  BY DEF TypeOK
<1>2. QED
  BY <1>1, StepType

\* How the helpers move a request.
LEMMA Moving ==
  ASSUME TypeOK, NEW r \in Requests
  PROVE  /\ \A c, next : Proceed(r, c, next) => pc[r] = "idle" /\ Moves(r, next, c, "none")
         /\ \A c, a : AnswerNow(r, c, a) => pc[r] = "idle" /\ Moves(r, "done", c, a)
         /\ \A next : pc[r] # "done" /\ GoOn(r, next) => Moves(r, next, call[r], "none")
         /\ \A a : Finish(r, a) => Moves(r, "done", call[r], a)
<1>1. pc[r] # "done" => answer = [answer EXCEPT ![r] = "none"]
  BY DEF TypeOK, Fits
<1>2. call = [call EXCEPT ![r] = call[r]]
  BY DEF TypeOK
<1>3. QED
  BY <1>1, <1>2 DEF Proceed, AnswerNow, GoOn, Finish, Moves

\* A request that has made a call, and the call itself.
LEMMA OwnCall ==
  ASSUME TypeOK, NEW r \in Requests
  PROVE  call[r] \in Calls /\ pc[r] \in Statements /\ Fits(pc[r], call[r], answer[r])
  BY DEF TypeOK

\* The table of codes, as a function.
LEMMA CodesTable ==
  ASSUME TypeOK
  PROVE  /\ Len(codes) \in Nat /\ DOMAIN codes = 1 .. Len(codes)
         /\ codes \in [1 .. Len(codes) -> Code]
         /\ Fresh \in SUBSET (0 .. Len(codes))
  BY SeqDef, LenProperties DEF TypeOK, Fresh

\* Replacing a code, or all of them, leaves a table of as many codes.
LEMMA CodesReplaced ==
  ASSUME TypeOK, codes' \in [1 .. Len(codes) -> Code]
  PROVE  codes' \in Seq(Code) /\ Len(codes') = Len(codes) /\ DOMAIN codes' = DOMAIN codes
  BY CodesTable, FunctionIsSeq

LEMMA InitType == Init => TypeOK
  BY SeededAssumption DEF Init, TypeOK, Fits, Calls, Statements, Answers, TokenStates,
     UserStates

\* Asking for a code, and using one, keep the type invariant.
LEMMA CodeStepsType ==
  ASSUME TypeOK, NEW r \in Requests
  PROVE  /\ InvalidateCodes(r) => TypeOK'
         /\ StoreCode(r) => TypeOK'
         /\ \A typed : FindCode(r, typed) => TypeOK'
         /\ BurnCode(r) => TypeOK'
         /\ CountAttempt(r) => TypeOK'
         /\ ConsumeCode(r) => TypeOK'
<1>1. ASSUME InvalidateCodes(r) PROVE TypeOK'
  <2>1. pc[r] = "idle" /\ Moves(r, "store", [kind |-> "code"], "none")
    BY <1>1, Moving DEF InvalidateCodes
  <2>2. codes' \in [1 .. Len(codes) -> Code]
    BY <1>1, CodesTable DEF InvalidateCodes, Code
  <2>3. codes' \in Seq(Code) /\ DOMAIN codes' = DOMAIN codes
    BY <2>2, CodesReplaced
  <2>4. [kind |-> "code"] \in Calls /\ Fits("store", [kind |-> "code"], "none")
    BY DEF Calls, Fits
  <2>5. UNCHANGED <<admin, user, tokens>>
    BY <1>1 DEF InvalidateCodes
  <2>6. QED
    BY <2>1, <2>3, <2>4, <2>5, UnchangedTypes, StepType DEF Statements, Answers
<1>2. ASSUME StoreCode(r) PROVE TypeOK'
  <2>1. pc[r] = "store" /\ \E a \in {"done", "UNSENT"} : Moves(r, "done", call[r], a)
    BY <1>2, Moving DEF StoreCode
  <2>2. PICK a \in {"done", "UNSENT"} : Moves(r, "done", call[r], a)
    BY <2>1
  <2>3. [state |-> "fresh", attempts |-> 0] \in Code
    BY DEF Code
  <2>4. codes' \in Seq(Code) /\ DOMAIN codes \subseteq DOMAIN codes'
    BY <1>2, <2>3, CodesTable, AppendProperties DEF StoreCode, TypeOK
  <2>5. Fits("done", call[r], a)
    BY DEF Fits
  <2>6. UNCHANGED <<admin, user, tokens>>
    BY <1>2 DEF StoreCode
  <2>7. "done" \in Statements /\ a \in Answers /\ a # "tokens" /\ pc[r] # "done"
    BY <2>1, <2>2 DEF Statements, Answers
  <2>8. QED
    BY <2>1, <2>2, <2>4, <2>5, <2>6, OwnCall, <2>7, UnchangedTypes, StepType
<1>3. ASSUME NEW typed, FindCode(r, typed) PROVE TypeOK'
  <2> DEFINE c(n) == [kind |-> "verify", code |-> n, owner |-> NoUser, session |-> r]
  <2>1. \A n \in Nat : c(n) \in Verifications /\ c(n) \in Calls
    BY DEF Verifications, Calls
  <2>2. UNCHANGED <<admin, user, codes, tokens>>
    BY <1>3 DEF FindCode
  <2>3. CASE Fresh = {}
    <3>1. pc[r] = "idle" /\ Moves(r, "done", c(0), "BAD_CODE")
      BY <1>3, <2>3, Moving DEF FindCode
    <3>2. Fits("done", c(0), "BAD_CODE")
      BY DEF Fits
    <3>3. QED
      BY <2>1, <2>2, <3>1, <3>2, QuietStepType DEF Statements, Answers
  <2>4. CASE Fresh # {}
    <3>1. Max(Fresh) \in DOMAIN codes /\ Max(Fresh) \in Nat
      <4>1. Max(Fresh) \in Fresh
        BY <2>4, CodesTable, GreatestNat
      <4>2. QED
        BY <4>1, CodesTable DEF Fresh
    <3>2. PICK p \in {"burn", "consume", "miss"} : Proceed(r, c(Max(Fresh)), p)
      BY <1>3, <2>4 DEF FindCode
    <3>3. pc[r] = "idle" /\ Moves(r, p, c(Max(Fresh)), "none")
      BY <3>2, Moving
    <3>4. Fits(p, c(Max(Fresh)), "none")
      BY <2>1, <3>1 DEF Fits
    <3>5. QED
      BY <2>1, <2>2, <3>1, <3>3, <3>4, QuietStepType DEF Statements, Answers
  <2>5. QED
    BY <2>3, <2>4
<1>4. ASSUME NEW code \in Code, NEW next \in {"done", "user"}, NEW a \in {"none", "BAD_CODE", "WRONG_CODE"},
             next = "user" <=> a = "none",
             pc[r] \in {"burn", "miss", "consume"}, UpdateCode(r, code, next, a)
      PROVE  TypeOK'
  <2>1. call[r] \in Verifications /\ call[r].code \in DOMAIN codes
    BY <1>4, OwnCall DEF Fits
  <2>2. UNCHANGED <<admin, user, tokens>>
    BY <1>4 DEF UpdateCode
  <2>3. CASE codes[call[r].code].state # "gone"
    <3>1. codes' \in [1 .. Len(codes) -> Code]
      BY <1>4, <2>3, CodesTable DEF UpdateCode
    <3>2. codes' \in Seq(Code) /\ DOMAIN codes' = DOMAIN codes
      BY <3>1, CodesReplaced
    <3>3. Moves(r, next, call[r], a)
      BY <1>4, <2>3, Moving DEF UpdateCode
    <3>4. Fits(next, call[r], a)
      BY <1>4, <2>1 DEF Fits
    <3>5. QED
      <4>1. next \in Statements /\ a \in Answers /\ a # "tokens" /\ pc[r] # "done"
        BY <1>4 DEF Statements, Answers
      <4>2. /\ admin' \in [Admins -> [password : Passwords, active : BOOLEAN]]
            /\ user' \in [Users -> UserStates]
            /\ tokens' \in [Requests -> TokenStates]
            /\ \A t \in Requests : tokens'[t] # "none" => tokens[t] # "none"
        BY <2>2 DEF TypeOK
      <4>3. QED
        BY <3>2, <3>3, <3>4, <4>1, <4>2, OwnCall, StepType
  <2>4. CASE codes[call[r].code].state = "gone"
    <3>1. Moves(r, "done", call[r], "NOT_FOUND") /\ UNCHANGED codes
      BY <1>4, <2>4, Moving DEF UpdateCode
    <3>2. Fits("done", call[r], "NOT_FOUND")
      BY DEF Fits
    <3>3. QED
      BY <1>4, <2>2, <3>1, <3>2, OwnCall, QuietStepType DEF Statements, Answers
  <2>5. QED
    BY <2>3, <2>4
<1>5. ASSUME pc[r] \in {"burn", "miss", "consume"}
      PROVE  /\ [codes[call[r].code] EXCEPT !.state = "used"] \in Code
             /\ [codes[call[r].code] EXCEPT !.attempts = @ + 1] \in Code
  <2>1. codes[call[r].code] \in Code
    BY <1>5, OwnCall, CodesTable DEF Fits
  <2>2. QED
    BY <2>1 DEF Code
<1>6. BurnCode(r) => TypeOK'
  BY <1>4, <1>5 DEF BurnCode
<1>7. CountAttempt(r) => TypeOK'
  BY <1>4, <1>5 DEF CountAttempt
<1>8. ConsumeCode(r) => TypeOK'
  BY <1>4, <1>5 DEF ConsumeCode
<1>9. QED
  BY <1>1, <1>2, <1>3, <1>6, <1>7, <1>8

\* Signing in keeps the type invariant.
LEMMA SignInStepsType ==
  ASSUME TypeOK, NEW r \in Requests
  PROVE  /\ FindUser(r) => TypeOK'
         /\ CreateUser(r) => TypeOK'
         /\ IssueToken(r) => TypeOK'
         /\ \A a \in Admins, p \in Passwords : ReadForLogin(r, a, p) => TypeOK'
<1>1. ASSUME pc[r] \in {"user", "create"}, NEW u \in Users
      PROVE  /\ [call[r] EXCEPT !.owner = u] \in Calls
             /\ Fits("issue", [call[r] EXCEPT !.owner = u], "none")
             /\ pc[r] # "done"
  <2>1. call[r] \in Verifications
    BY <1>1, OwnCall DEF Fits
  <2>2. [call[r] EXCEPT !.owner = u] \in Verifications
    BY <2>1 DEF Verifications
  <2>3. [call[r] EXCEPT !.owner = u].owner \in Owners
    BY <2>1 DEF Verifications, Owners
  <2>4. QED
    BY <1>1, <2>2, <2>3 DEF Calls, Fits, TokenCalls
<1>2. ASSUME NEW u \in Users, pc[r] \in {"user", "create"},
             call' = [call EXCEPT ![r].owner = u],
             pc' = [pc EXCEPT ![r] = "issue"], UNCHANGED answer
      PROVE  Moves(r, "issue", [call[r] EXCEPT !.owner = u], "none")
  BY <1>2 DEF Moves, TypeOK, Fits
<1>3. ASSUME FindUser(r) PROVE TypeOK'
  <2>1. pc[r] = "user" /\ UNCHANGED <<admin, user, codes, tokens>>
    BY <1>3 DEF FindUser
  <2>2. CASE Holder = {} /\ GoOn(r, "create")
    <3>1. Moves(r, "create", call[r], "none")
      BY <2>1, <2>2, Moving
    <3>2. Fits("create", call[r], "none")
      BY <2>1, OwnCall DEF Fits
    <3>3. QED
      BY <2>1, <3>1, <3>2, OwnCall, QuietStepType DEF Statements, Answers
  <2>3. CASE \E u \in Holder : /\ call' = [call EXCEPT ![r].owner = u]
                               /\ pc' = [pc EXCEPT ![r] = "issue"]
                               /\ UNCHANGED answer
    <3>1. PICK u \in Users : /\ call' = [call EXCEPT ![r].owner = u]
                             /\ pc' = [pc EXCEPT ![r] = "issue"]
                             /\ UNCHANGED answer
      BY <2>3 DEF Holder
    <3>2. QED
      BY <1>1, <1>2, <2>1, <3>1, QuietStepType DEF Statements, Answers
  <2>4. QED
    BY <1>3, <2>2, <2>3 DEF FindUser
<1>4. ASSUME CreateUser(r) PROVE TypeOK'
  <2>1. pc[r] = "create" /\ UNCHANGED <<admin, codes, tokens>>
    BY <1>4 DEF CreateUser
  <2>2. CASE Holder # {} /\ Finish(r, "CONFLICT") /\ UNCHANGED user
    <3>1. Moves(r, "done", call[r], "CONFLICT") /\ Fits("done", call[r], "CONFLICT")
      BY <2>2, Moving DEF Fits
    <3>2. QED
      BY <2>1, <2>2, <3>1, OwnCall, QuietStepType DEF Statements, Answers
  <2>3. CASE \E u \in Users : /\ user' = [user EXCEPT ![u] = "open"]
                              /\ call' = [call EXCEPT ![r].owner = u]
                              /\ pc' = [pc EXCEPT ![r] = "issue"]
                              /\ UNCHANGED answer
    <3>1. PICK u \in Users : /\ user' = [user EXCEPT ![u] = "open"]
                             /\ call' = [call EXCEPT ![r].owner = u]
                             /\ pc' = [pc EXCEPT ![r] = "issue"]
                             /\ UNCHANGED answer
      BY <2>3
    <3>2. user' \in [Users -> UserStates]
      BY <3>1 DEF TypeOK, UserStates
    <3>3. QED
      BY <1>1, <1>2, <2>1, <3>1, <3>2, UnchangedTypes, StepType DEF Statements, Answers
  <2>4. QED
    BY <1>4, <2>2, <2>3 DEF CreateUser
<1>5. ASSUME IssueToken(r) PROVE TypeOK'
  <2>1. pc[r] = "issue" /\ UNCHANGED <<admin, user, codes>> /\ call[r] \in TokenCalls
    BY <1>5, OwnCall DEF IssueToken, Fits
  <2>2. CASE tokens' = [tokens EXCEPT ![r] = "live"] /\ Finish(r, "tokens")
    <3>1. Moves(r, "done", call[r], "tokens") /\ Fits("done", call[r], "tokens")
      BY <2>1, <2>2, Moving DEF Fits
    <3>2. /\ tokens' \in [Requests -> TokenStates]
          /\ \A t \in Requests : tokens'[t] # "none" => tokens[t] # "none" \/ t = r
      BY <2>2 DEF TypeOK, TokenStates
    <3>3. "done" \in Statements /\ "tokens" \in Answers /\ pc[r] # "done"
      BY <2>1 DEF Statements, Answers
    <3>4. QED
      BY <2>1, <3>1, <3>2, OwnCall, <3>3, UnchangedTypes, StepType
  <2>3. CASE Finish(r, "BAD_LINK") /\ UNCHANGED tokens
    <3>1. Moves(r, "done", call[r], "BAD_LINK") /\ Fits("done", call[r], "BAD_LINK")
      BY <2>3, Moving DEF Fits
    <3>2. QED
      BY <2>1, <2>3, <3>1, OwnCall, QuietStepType DEF Statements, Answers
  <2>4. QED
    BY <1>5, <2>2, <2>3 DEF IssueToken
<1>6. ASSUME NEW a \in Admins, NEW p \in Passwords, ReadForLogin(r, a, p) PROVE TypeOK'
  <2> DEFINE c == [kind |-> "login", owner |-> a, session |-> r]
  <2>1. c \in Calls /\ c \in TokenCalls
    BY DEF Logins, Calls, TokenCalls, Owners
  <2>2. UNCHANGED <<admin, user, codes, tokens>>
    BY <1>6 DEF ReadForLogin
  <2>3. PICK q \in {"done", "issue"}, x \in {"none", "UNAUTHORIZED"} :
          pc[r] = "idle" /\ Moves(r, q, c, x) /\ (q # "done" => x = "none")
    BY <1>6, Moving DEF ReadForLogin
  <2>4. Fits(q, c, x)
    BY <2>1, <2>3 DEF Fits
  <2>5. QED
    BY <2>1, <2>2, <2>3, <2>4, QuietStepType DEF Statements, Answers
<1>7. QED
  BY <1>3, <1>4, <1>5, <1>6

\* Refreshing and signing out keep the type invariant.
LEMMA TokenStepsType ==
  ASSUME TypeOK, NEW r \in Requests
  PROVE  /\ \A t \in Requests : FindToken(r, t) => TypeOK'
         /\ RevokeToken(r) => TypeOK'
         /\ ReadOwner(r) => TypeOK'
         /\ \A t \in Requests : FindForLogout(r, t) => TypeOK'
         /\ RevokeForLogout(r) => TypeOK'
<1>1. ASSUME NEW t \in Requests, FindToken(r, t) PROVE TypeOK'
  <2> DEFINE c == [kind |-> "refresh", token |-> t, owner |-> call[t].owner,
                   session |-> call[t].session]
  <2>1. c \in Refreshes
    <3>1. call[t] \in TokenCalls
      BY <1>1, OwnCall DEF FindToken, Given, Fits
    <3>2. QED
      BY <3>1 DEF TokenCalls, Verifications, Logins, Refreshes
  <2>2. UNCHANGED <<admin, user, codes, tokens>>
    BY <1>1 DEF FindToken
  <2>3. PICK q \in {"done", "revoke"}, x \in {"none", "UNAUTHORIZED"} :
          pc[r] = "idle" /\ Moves(r, q, c, x) /\ (q # "done" => x = "none")
    BY <1>1, Moving DEF FindToken
  <2>4. Fits(q, c, x)
    BY <2>1, <2>3 DEF Fits
  <2>5. c \in Calls
    BY <2>1 DEF Calls
  <2>6. QED
    BY <2>2, <2>3, <2>4, <2>5, QuietStepType DEF Statements, Answers
<1>2. ASSUME NEW t \in Requests, Revoke(r, t)
      PROVE  /\ tokens' \in [Requests -> TokenStates]
             /\ \A q \in Requests : tokens'[q] # "none" => tokens[q] # "none"
  BY <1>2 DEF Revoke, TypeOK, TokenStates
<1>3. ASSUME RevokeToken(r) PROVE TypeOK'
  <2>1. pc[r] = "revoke" /\ UNCHANGED <<admin, user, codes>> /\ call[r] \in Refreshes
    BY <1>3, OwnCall DEF RevokeToken, Fits
  <2>2. call[r].token \in Requests
    BY <2>1 DEF Refreshes
  <2>3. PICK q \in {"done", "owner"}, x \in {"none", "NOT_FOUND"} :
          Moves(r, q, call[r], x) /\ (q # "done" => x = "none")
    BY <1>3, <2>1, Moving DEF RevokeToken
  <2>4. Fits(q, call[r], x)
    BY <2>1, <2>3 DEF Fits
  <2>5. /\ tokens' \in [Requests -> TokenStates]
        /\ \A t \in Requests : tokens'[t] # "none" => tokens[t] # "none"
    BY <1>2, <1>3, <2>2 DEF RevokeToken
  <2>6. q \in Statements /\ x \in Answers /\ x # "tokens" /\ pc[r] # "done"
    BY <2>1, <2>3 DEF Statements, Answers
  <2>7. QED
    BY <2>1, <2>3, <2>4, <2>5, OwnCall, <2>6, UnchangedTypes, StepType
<1>4. ASSUME ReadOwner(r) PROVE TypeOK'
  <2>1. pc[r] = "owner" /\ UNCHANGED <<admin, user, codes, tokens>> /\ call[r] \in Refreshes
    BY <1>4, OwnCall DEF ReadOwner, Fits
  <2>2. call[r] \in TokenCalls
    BY <2>1 DEF TokenCalls, Refreshes
  <2>3. PICK q \in {"done", "issue"}, x \in {"none", "UNAUTHORIZED"} :
          Moves(r, q, call[r], x) /\ (q # "done" => x = "none")
    BY <1>4, <2>1, Moving DEF ReadOwner
  <2>4. Fits(q, call[r], x)
    BY <2>2, <2>3 DEF Fits
  <2>5. QED
    BY <2>1, <2>3, <2>4, OwnCall, QuietStepType DEF Statements, Answers
<1>5. ASSUME NEW t \in Requests, FindForLogout(r, t) PROVE TypeOK'
  <2> DEFINE c == [kind |-> "logout", token |-> t]
  <2>1. c \in Logouts /\ c \in Calls
    BY DEF Logouts, Calls
  <2>2. UNCHANGED <<admin, user, codes, tokens>>
    BY <1>5 DEF FindForLogout
  <2>3. PICK q \in {"done", "logout"}, x \in {"none", "done"} :
          pc[r] = "idle" /\ Moves(r, q, c, x) /\ (q # "done" => x = "none")
    BY <1>5, Moving DEF FindForLogout
  <2>4. Fits(q, c, x)
    BY <2>1, <2>3 DEF Fits
  <2>5. QED
    BY <2>1, <2>2, <2>3, <2>4, QuietStepType DEF Statements, Answers
<1>6. ASSUME RevokeForLogout(r) PROVE TypeOK'
  <2>1. pc[r] = "logout" /\ UNCHANGED <<admin, user, codes>> /\ call[r] \in Logouts
    BY <1>6, OwnCall DEF RevokeForLogout, Fits
  <2>2. call[r].token \in Requests
    BY <2>1 DEF Logouts
  <2>3. PICK x \in {"done", "NOT_FOUND"} : Moves(r, "done", call[r], x)
    BY <1>6, Moving DEF RevokeForLogout
  <2>4. Fits("done", call[r], x)
    BY <2>3 DEF Fits
  <2>5. /\ tokens' \in [Requests -> TokenStates]
        /\ \A t \in Requests : tokens'[t] # "none" => tokens[t] # "none"
    BY <1>2, <1>6, <2>2 DEF RevokeForLogout
  <2>6. "done" \in Statements /\ x \in Answers /\ x # "tokens" /\ pc[r] # "done"
    BY <2>1, <2>3 DEF Statements, Answers
  <2>7. QED
    BY <2>1, <2>3, <2>4, <2>5, OwnCall, <2>6, UnchangedTypes, StepType
<1>7. QED
  BY <1>1, <1>3, <1>4, <1>5, <1>6

\* Changing and resetting a password keep the type invariant.
LEMMA PasswordStepsType ==
  ASSUME TypeOK, NEW r \in Requests
  PROVE  /\ \A a \in Admins, p, q \in Passwords : ReadForChange(r, a, p, q) => TypeOK'
         /\ \A a \in Admins, p \in Passwords : ReadForReset(r, a, p) => TypeOK'
         /\ CommitPassword(r) => TypeOK'
<1>1. ASSUME NEW c \in PasswordCalls, NEW q \in {"done", "password"},
             NEW x \in {"none", "UNAUTHORIZED"}, q # "done" => x = "none",
             pc[r] = "idle", Moves(r, q, c, x), UNCHANGED <<admin, user, codes, tokens>>
      PROVE  TypeOK'
  <2>1. Fits(q, c, x)
    BY <1>1 DEF Fits
  <2>2. c \in Calls
    BY DEF Calls
  <2>3. QED
    BY <1>1, <2>1, <2>2, QuietStepType DEF Statements, Answers
<1>2. ASSUME NEW a \in Admins, NEW p \in Passwords, NEW q \in Passwords,
             ReadForChange(r, a, p, q)
      PROVE  TypeOK'
  <2> DEFINE c == [kind |-> "change", owner |-> a, new |-> q, ends |-> {}]
  <2>1. c \in PasswordCalls
    BY DEF PasswordCalls
  <2>2. UNCHANGED <<admin, user, codes, tokens>> /\ pc[r] = "idle"
    BY <1>2 DEF ReadForChange, AnswerNow, Proceed
  <2>3. Moves(r, "done", c, "UNAUTHORIZED") \/ Moves(r, "password", c, "none")
    BY <1>2, Moving DEF ReadForChange
  <2>4. QED
    BY <1>1, <2>1, <2>2, <2>3
<1>3. ASSUME NEW a \in Admins, NEW p \in Passwords, ReadForReset(r, a, p) PROVE TypeOK'
  <2> DEFINE c == [kind |-> "reset", owner |-> a, new |-> p, ends |-> {}]
  <2>1. c \in PasswordCalls
    BY DEF PasswordCalls
  <2>2. UNCHANGED <<admin, user, codes, tokens>> /\ pc[r] = "idle"
    BY <1>3 DEF ReadForReset, Proceed
  <2>3. Moves(r, "password", c, "none")
    BY <1>3, Moving DEF ReadForReset
  <2>4. QED
    BY <1>1, <2>1, <2>2, <2>3
<1>4. ASSUME CommitPassword(r) PROVE TypeOK'
  <2> DEFINE c == [call[r] EXCEPT !.ends = SignIns(call[r].owner)]
  <2>1. pc[r] = "password" /\ UNCHANGED <<user, codes>> /\ call[r] \in PasswordCalls
    BY <1>4, OwnCall DEF CommitPassword, Fits
  <2>2. c \in PasswordCalls
    BY <2>1 DEF PasswordCalls, SignIns, Given
  <2>3. Moves(r, "done", c, "password set")
    BY <1>4 DEF CommitPassword, Moves, TypeOK
  <2>4. Fits("done", c, "password set")
    BY <2>2 DEF Fits
  <2>5. admin' \in [Admins -> [password : Passwords, active : BOOLEAN]]
    BY <1>4, <2>1 DEF CommitPassword, PasswordCalls, TypeOK
  <2>6. /\ tokens' \in [Requests -> TokenStates]
        /\ \A t \in Requests : tokens'[t] # "none" => tokens[t] # "none"
    BY <1>4 DEF CommitPassword, TypeOK, TokenStates
  <2>7. c \in Calls
    BY <2>2 DEF Calls
  <2> HIDE DEF c
  <2>8. "done" \in Statements /\ "password set" \in Answers /\ pc[r] # "done"
    BY <2>1 DEF Statements, Answers
  <2>9. QED
    BY <2>1, <2>3, <2>4, <2>5, <2>6, <2>7, <2>8, UnchangedTypes, StepType
<1>5. QED
  BY <1>2, <1>3, <1>4

\* What others do to accounts keeps the type invariant.
LEMMA AccountStepsType ==
  ASSUME TypeOK, NEW r \in Requests
  PROVE  /\ \A a \in Admins, on \in BOOLEAN : SetActive(r, a, on) => TypeOK'
         /\ \A u \in Users : ReadForBlock(r, u) => TypeOK'
         /\ \A u \in Users : ReadForDelete(r, u) => TypeOK'
         /\ WriteBlock(r) => TypeOK'
         /\ DeleteAccount(r) => TypeOK'
<1>1. ASSUME NEW a \in Admins, NEW on \in BOOLEAN, SetActive(r, a, on) PROVE TypeOK'
  <2> DEFINE c == [kind |-> "active"]
  <2>1. c \in Calls /\ Fits("done", c, "done")
    BY DEF Calls, Fits
  <2>2. pc[r] = "idle" /\ Moves(r, "done", c, "done") /\ UNCHANGED <<user, codes, tokens>>
    BY <1>1, Moving DEF SetActive
  <2>3. admin' \in [Admins -> [password : Passwords, active : BOOLEAN]]
    BY <1>1 DEF SetActive, TypeOK
  <2>4. QED
    BY <2>1, <2>2, <2>3, UnchangedTypes, StepType DEF Statements, Answers
<1>2. ASSUME NEW u \in Users, ReadForBlock(r, u) PROVE TypeOK'
  <2> DEFINE c == [kind |-> "block", user |-> u, blocked |-> user[u] = "open"]
  <2>1. c \in Blocks
    BY DEF Blocks
  <2>2. UNCHANGED <<admin, user, codes, tokens>>
    BY <1>2 DEF ReadForBlock
  <2>3. PICK q \in {"done", "block"}, x \in {"none", "NOT_FOUND"} :
          pc[r] = "idle" /\ Moves(r, q, c, x) /\ (q # "done" => x = "none")
    BY <1>2, Moving DEF ReadForBlock
  <2>4. Fits(q, c, x) /\ c \in Calls
    BY <2>1, <2>3 DEF Fits, Calls
  <2> HIDE DEF c
  <2>5. QED
    BY <2>2, <2>3, <2>4, QuietStepType DEF Statements, Answers
<1>3. ASSUME NEW u \in Users, ReadForDelete(r, u) PROVE TypeOK'
  <2> DEFINE c == [kind |-> "delete", user |-> u]
  <2>1. c \in Deletions
    BY DEF Deletions
  <2>2. UNCHANGED <<admin, user, codes, tokens>>
    BY <1>3 DEF ReadForDelete
  <2>3. PICK q \in {"done", "delete"}, x \in {"none", "NOT_FOUND"} :
          pc[r] = "idle" /\ Moves(r, q, c, x) /\ (q # "done" => x = "none")
    BY <1>3, Moving DEF ReadForDelete
  <2>4. Fits(q, c, x) /\ c \in Calls
    BY <2>1, <2>3 DEF Fits, Calls
  <2>5. QED
    BY <2>2, <2>3, <2>4, QuietStepType DEF Statements, Answers
<1>4. ASSUME NEW x \in {"done", "NOT_FOUND"}, Finish(r, x)
      PROVE  Moves(r, "done", call[r], x) /\ Fits("done", call[r], x)
  BY <1>4, Moving DEF Fits
<1>5. ASSUME WriteBlock(r) PROVE TypeOK'
  <2>1. pc[r] = "block" /\ UNCHANGED <<admin, codes, tokens>>
    BY <1>5 DEF WriteBlock
  <2>2. user' \in [Users -> UserStates]
    BY <1>5 DEF WriteBlock, TypeOK, UserStates
  <2>3. PICK x \in {"done", "NOT_FOUND"} : Finish(r, x)
    BY <1>5 DEF WriteBlock
  <2>4. QED
    BY <1>4, <2>1, <2>2, <2>3, OwnCall, UnchangedTypes, StepType DEF Statements, Answers
<1>6. ASSUME DeleteAccount(r) PROVE TypeOK'
  <2>1. pc[r] = "delete" /\ UNCHANGED admin
    BY <1>6 DEF DeleteAccount
  <2>2. user' \in [Users -> UserStates]
    BY <1>6 DEF DeleteAccount, TypeOK, UserStates
  <2>3. codes' \in Seq(Code) /\ DOMAIN codes' = DOMAIN codes
    <3>1. codes' \in [1 .. Len(codes) -> Code]
      BY <1>6, CodesTable DEF DeleteAccount, Code
    <3>2. QED
      BY <3>1, CodesReplaced
  <2>4. /\ tokens' \in [Requests -> TokenStates]
        /\ \A t \in Requests : tokens'[t] # "none" => tokens[t] # "none"
    BY <1>6 DEF DeleteAccount, TypeOK, TokenStates
  <2>5. PICK x \in {"done", "NOT_FOUND"} : Finish(r, x)
    BY <1>6 DEF DeleteAccount
  <2>6. "done" \in Statements /\ x \in Answers /\ x # "tokens" /\ pc[r] # "done"
    BY <2>1, <2>5 DEF Statements, Answers
  <2>7. QED
    BY <1>4, <2>1, <2>2, <2>3, <2>4, <2>5, OwnCall, <2>6, UnchangedTypes, StepType
<1>7. QED
  BY <1>1, <1>2, <1>3, <1>5, <1>6

LEMMA NextType == TypeOK /\ [Next]_vars => TypeOK'
<1> SUFFICES ASSUME TypeOK, [Next]_vars PROVE TypeOK'
  OBVIOUS
<1>1. CASE UNCHANGED vars
  BY <1>1 DEF vars, TypeOK, Fits
<1>2. CASE Next
  BY <1>1, <1>2, CodeStepsType, SignInStepsType, TokenStepsType, PasswordStepsType,
     AccountStepsType DEF Next, Spent
<1>3. QED
  BY <1>1, <1>2

\* Every table, call and answer has its type in every state, and a statement finds
\* the call that it belongs to, however the handlers of AuthService interleave.
THEOREM TypeCorrect == Spec => []TypeOK
  BY InitType, NextType, PTL DEF Spec

-----------------------------------------------------------------------------
(* What any step does to the requests and to the tokens *)

\* A step of request r.
Step(r) ==
  \/ InvalidateCodes(r) \/ StoreCode(r)
  \/ \E typed \in 0 .. Len(codes) : FindCode(r, typed)
  \/ BurnCode(r) \/ CountAttempt(r) \/ ConsumeCode(r)
  \/ FindUser(r) \/ CreateUser(r) \/ IssueToken(r)
  \/ \E a \in Admins, p \in Passwords : ReadForLogin(r, a, p)
  \/ \E t \in Requests : FindToken(r, t) \/ FindForLogout(r, t)
  \/ RevokeToken(r) \/ ReadOwner(r) \/ RevokeForLogout(r)
  \/ \E a \in Admins, p, q \in Passwords : ReadForChange(r, a, p, q)
  \/ \E a \in Admins, p \in Passwords : ReadForReset(r, a, p)
  \/ CommitPassword(r)
  \/ \E a \in Admins, on \in BOOLEAN : SetActive(r, a, on)
  \/ \E u \in Users : ReadForBlock(r, u) \/ ReadForDelete(r, u)
  \/ WriteBlock(r) \/ DeleteAccount(r)

LEMMA NextIsStep ==
  ASSUME [Next]_vars
  PROVE  UNCHANGED vars \/ \E r \in Requests : Step(r)
  BY DEF Next, Spent, Step

\* The request that takes a step is not answered yet, and no other changes.
LEMMA OneMoves ==
  ASSUME TypeOK, NEW r \in Requests, Step(r)
  PROVE  /\ pc[r] # "done"
         /\ \A q \in Requests \ {r} :
              pc'[q] = pc[q] /\ call'[q] = call[q] /\ answer'[q] = answer[q]
<1> DEFINE Alone ==
      /\ pc[r] # "done"
      /\ \A q \in Requests \ {r} :
           pc'[q] = pc[q] /\ call'[q] = call[q] /\ answer'[q] = answer[q]
<1>1. /\ \A c, next : Proceed(r, c, next) => Alone
      /\ \A c, a : AnswerNow(r, c, a) => Alone
      /\ \A next : pc[r] # "done" /\ GoOn(r, next) => Alone
      /\ \A a : pc[r] # "done" /\ Finish(r, a) => Alone
  BY DEF TypeOK, Proceed, AnswerNow, GoOn, Finish
<1>2. \A code, next, a : pc[r] # "done" /\ UpdateCode(r, code, next, a) => Alone
  BY <1>1 DEF UpdateCode
<1>3. /\ InvalidateCodes(r) \/ StoreCode(r) => Alone
      /\ \A typed : FindCode(r, typed) => Alone
      /\ BurnCode(r) \/ CountAttempt(r) \/ ConsumeCode(r) => Alone
  BY <1>1, <1>2 DEF InvalidateCodes, StoreCode, FindCode, BurnCode, CountAttempt,
     ConsumeCode
<1>4. FindUser(r) => Alone
  BY <1>1 DEF FindUser, TypeOK
<1>5. CreateUser(r) => Alone
  BY <1>1 DEF CreateUser, TypeOK
<1>6. /\ IssueToken(r) => Alone
      /\ \A a, p : ReadForLogin(r, a, p) => Alone
  BY <1>1 DEF IssueToken, ReadForLogin
<1>7. /\ \A t : FindToken(r, t) \/ FindForLogout(r, t) => Alone
      /\ RevokeToken(r) \/ ReadOwner(r) \/ RevokeForLogout(r) => Alone
  BY <1>1 DEF FindToken, FindForLogout, RevokeToken, ReadOwner, RevokeForLogout
<1>8. /\ \A a, p, q : ReadForChange(r, a, p, q) => Alone
      /\ \A a, p : ReadForReset(r, a, p) => Alone
  BY <1>1 DEF ReadForChange, ReadForReset
<1>9. CommitPassword(r) => Alone
  BY DEF CommitPassword, TypeOK
<1>10. /\ \A a, on : SetActive(r, a, on) => Alone
       /\ \A u : ReadForBlock(r, u) \/ ReadForDelete(r, u) => Alone
       /\ WriteBlock(r) \/ DeleteAccount(r) => Alone
  BY <1>1 DEF SetActive, ReadForBlock, ReadForDelete, WriteBlock, DeleteAccount
<1> HIDE DEF Alone
<1>11. Alone
  BY <1>3, <1>4, <1>5, <1>6, <1>7, <1>8, <1>9, <1>10 DEF Step
<1>12. QED
  BY <1>11 DEF Alone

\* A request that has been answered keeps its answer and its call.
LEMMA DoneStays ==
  ASSUME TypeOK, [Next]_vars, NEW r \in Requests, pc[r] = "done"
  PROVE  pc'[r] = "done" /\ call'[r] = call[r] /\ answer'[r] = answer[r]
  BY NextIsStep, OneMoves DEF vars

\* A request that has been answered with anything is done.
LEMMA AnsweredIsDone ==
  ASSUME TypeOK, NEW r \in Requests, answer[r] # "none"
  PROVE  pc[r] = "done"
  BY DEF TypeOK, Fits

\* The two answers that the properties of sessions are about, and the commits that
\* give them.
LEMMA NewAnswer ==
  ASSUME TypeOK, [Next]_vars, NEW r \in Requests, answer'[r] # answer[r]
  PROVE  /\ answer'[r] = "tokens" => IssueToken(r)
         /\ answer'[r] = "password set" => CommitPassword(r)
         /\ answer'[r] = "WRONG_CODE" => CountAttempt(r)
<1>1. Step(r)
  BY NextIsStep, OneMoves DEF vars
<1>2. /\ \A a : Finish(r, a) => answer'[r] = a
      /\ \A c, a : AnswerNow(r, c, a) => answer'[r] = a
      /\ \A c, next : ~Proceed(r, c, next)
      /\ \A next : ~GoOn(r, next)
  BY DEF TypeOK, Finish, AnswerNow, Proceed, GoOn
<1>3. \A code, next, a : UpdateCode(r, code, next, a) => answer'[r] \in {a, "NOT_FOUND"}
  BY <1>2 DEF UpdateCode
<1> DEFINE Other == answer'[r] \notin {"tokens", "password set", "WRONG_CODE"}
<1>4. /\ InvalidateCodes(r) \/ StoreCode(r) \/ BurnCode(r) \/ ConsumeCode(r) => Other
      /\ \A typed : FindCode(r, typed) => Other
  <2>1. InvalidateCodes(r) \/ StoreCode(r) => Other
    BY <1>2 DEF InvalidateCodes, StoreCode
  <2>2. BurnCode(r) => Other
    BY <1>2 DEF BurnCode, UpdateCode
  <2>3. ConsumeCode(r) => Other
    BY <1>2 DEF ConsumeCode, UpdateCode
  <2>4. \A typed : FindCode(r, typed) => Other
    BY <1>2 DEF FindCode
  <2>5. QED
    BY <2>1, <2>2, <2>3, <2>4
<1>5. /\ FindUser(r) \/ CreateUser(r) => Other
      /\ \A a, p : ReadForLogin(r, a, p) => Other
  BY <1>2 DEF FindUser, CreateUser, ReadForLogin
<1>6. /\ \A t : FindToken(r, t) \/ FindForLogout(r, t) => Other
      /\ RevokeToken(r) \/ ReadOwner(r) \/ RevokeForLogout(r) => Other
  BY <1>2 DEF FindToken, FindForLogout, RevokeToken, ReadOwner, RevokeForLogout
<1>7. /\ \A a, p, q : ReadForChange(r, a, p, q) => Other
      /\ \A a, p : ReadForReset(r, a, p) => Other
  BY <1>2 DEF ReadForChange, ReadForReset
<1>8. /\ \A a, on : SetActive(r, a, on) => Other
      /\ \A u : ReadForBlock(r, u) \/ ReadForDelete(r, u) => Other
      /\ WriteBlock(r) \/ DeleteAccount(r) => Other
  BY <1>2 DEF SetActive, ReadForBlock, ReadForDelete, WriteBlock, DeleteAccount
<1>9. /\ IssueToken(r) => answer'[r] \in {"tokens", "BAD_LINK"}
      /\ CommitPassword(r) => answer'[r] = "password set"
      /\ CountAttempt(r) => answer'[r] \in {"WRONG_CODE", "NOT_FOUND"}
  BY <1>2, <1>3 DEF IssueToken, CommitPassword, CountAttempt, TypeOK
<1>10. Other \/ IssueToken(r) \/ CommitPassword(r) \/ CountAttempt(r)
  <2> HIDE DEF Other
  <2>1. QED
    BY <1>1, <1>4, <1>5, <1>6, <1>7, <1>8 DEF Step
<1>11. QED
  BY <1>9, <1>10

\* A token that is live after a step was live before it, or has just been issued to
\* a request whose owner, if a user, is not deleted.
LEMMA LiveTokens ==
  ASSUME TypeOK, [Next]_vars, NEW t \in Requests, tokens'[t] = "live"
  PROVE  \/ tokens[t] = "live"
         \/ /\ IssueToken(t) /\ call'[t] = call[t] /\ UNCHANGED user
            /\ call[t].owner \in Users => user[call[t].owner] # "deleted"
<1> DEFINE Fine == \/ tokens[t] = "live"
                   \/ /\ IssueToken(t) /\ call'[t] = call[t] /\ UNCHANGED user
                      /\ call[t].owner \in Users => user[call[t].owner] # "deleted"
<1>1. UNCHANGED tokens => Fine
  OBVIOUS
<1>2. ASSUME NEW r \in Requests
      PROVE  /\ InvalidateCodes(r) \/ StoreCode(r) => UNCHANGED tokens
             /\ \A typed : FindCode(r, typed) => UNCHANGED tokens
             /\ BurnCode(r) \/ CountAttempt(r) \/ ConsumeCode(r) => UNCHANGED tokens
             /\ FindUser(r) \/ CreateUser(r) => UNCHANGED tokens
             /\ \A a, p : ReadForLogin(r, a, p) => UNCHANGED tokens
             /\ \A q : FindToken(r, q) \/ FindForLogout(r, q) => UNCHANGED tokens
             /\ ReadOwner(r) => UNCHANGED tokens
             /\ \A a, p, q : ReadForChange(r, a, p, q) => UNCHANGED tokens
             /\ \A a, p : ReadForReset(r, a, p) => UNCHANGED tokens
             /\ \A a, on : SetActive(r, a, on) => UNCHANGED tokens
             /\ \A u : ReadForBlock(r, u) \/ ReadForDelete(r, u) => UNCHANGED tokens
             /\ WriteBlock(r) => UNCHANGED tokens
  BY DEF InvalidateCodes, StoreCode, FindCode, BurnCode, CountAttempt, ConsumeCode,
     UpdateCode, FindUser, CreateUser, ReadForLogin, FindToken, FindForLogout, ReadOwner,
     ReadForChange, ReadForReset, SetActive, ReadForBlock, ReadForDelete, WriteBlock
<1>3. ASSUME NEW r \in Requests, IssueToken(r) PROVE Fine
  BY <1>3 DEF IssueToken, Finish, TypeOK
<1>4. ASSUME NEW r \in Requests, RevokeToken(r) \/ RevokeForLogout(r) PROVE Fine
  BY <1>4 DEF RevokeToken, RevokeForLogout, Revoke, TypeOK
<1>5. ASSUME NEW r \in Requests, CommitPassword(r) \/ DeleteAccount(r) PROVE Fine
  BY <1>5 DEF CommitPassword, DeleteAccount, TypeOK
<1> HIDE DEF Fine
<1>6. CASE UNCHANGED tokens
  BY <1>1, <1>6 DEF Fine
<1>7. CASE ~ UNCHANGED tokens
  <2>1. \E r \in Requests : \/ IssueToken(r) \/ RevokeToken(r) \/ RevokeForLogout(r)
                            \/ CommitPassword(r) \/ DeleteAccount(r)
    BY <1>2, <1>7 DEF Next, Spent, vars
  <2>2. QED
    BY <1>3, <1>4, <1>5, <2>1 DEF Fine
<1>8. QED
  BY <1>6, <1>7

-----------------------------------------------------------------------------
(* Deletion of an account *)

\* A user who is deleted after a step was deleted before it, or keeps no live token.
LEMMA NewlyDeleted ==
  ASSUME TypeOK, [Next]_vars, NEW u \in Users, user'[u] = "deleted", user[u] # "deleted"
  PROVE  \A t \in Requests : tokens'[t] = "live" => call[t].owner # u
<1>1. ASSUME NEW r \in Requests
      PROVE  /\ InvalidateCodes(r) \/ StoreCode(r) => UNCHANGED user
             /\ \A typed : FindCode(r, typed) => UNCHANGED user
             /\ BurnCode(r) \/ CountAttempt(r) \/ ConsumeCode(r) => UNCHANGED user
             /\ FindUser(r) \/ IssueToken(r) => UNCHANGED user
             /\ \A a, p : ReadForLogin(r, a, p) => UNCHANGED user
             /\ \A q : FindToken(r, q) \/ FindForLogout(r, q) => UNCHANGED user
             /\ RevokeToken(r) \/ ReadOwner(r) \/ RevokeForLogout(r) => UNCHANGED user
             /\ \A a, p, q : ReadForChange(r, a, p, q) => UNCHANGED user
             /\ \A a, p : ReadForReset(r, a, p) => UNCHANGED user
             /\ CommitPassword(r) => UNCHANGED user
             /\ \A a, on : SetActive(r, a, on) => UNCHANGED user
             /\ \A v : ReadForBlock(r, v) \/ ReadForDelete(r, v) => UNCHANGED user
  BY DEF InvalidateCodes, StoreCode, FindCode, BurnCode, CountAttempt, ConsumeCode,
     UpdateCode, FindUser, IssueToken, ReadForLogin, FindToken, FindForLogout,
     RevokeToken, ReadOwner, RevokeForLogout, ReadForChange, ReadForReset,
     CommitPassword, SetActive, ReadForBlock, ReadForDelete
<1>2. PICK r \in Requests : CreateUser(r) \/ WriteBlock(r) \/ DeleteAccount(r)
  BY <1>1 DEF Next, Spent, vars
<1>3. ~CreateUser(r) /\ ~WriteBlock(r)
  BY DEF CreateUser, WriteBlock, TypeOK
<1>4. user' = [user EXCEPT ![call[r].user] = "deleted"]
        /\ tokens' = [t \in Requests |->
                        IF tokens[t] # "none" /\ call[t].owner = call[r].user THEN "none"
                        ELSE tokens[t]]
  BY <1>2, <1>3 DEF DeleteAccount
<1>5. call[r].user = u
  BY <1>4 DEF TypeOK
<1>6. QED
  BY <1>4, <1>5

\* No token of a deleted account works, whatever sign-in, refresh or second deletion
\* was under way when deleteAccount committed.
THEOREM DeletionEnds == Spec => []DeletionEndsSessions
<1>1. Init => DeletionEndsSessions
  BY DEF Init, DeletionEndsSessions
<1>2. ASSUME TypeOK, DeletionEndsSessions, [Next]_vars PROVE DeletionEndsSessions'
  <2> SUFFICES ASSUME NEW t \in Requests, tokens'[t] = "live", call'[t].owner \in Users
               PROVE  user'[call'[t].owner] # "deleted"
    BY DEF DeletionEndsSessions
  <2>1. CASE tokens[t] = "live"
    <3>1. pc[t] = "done"
      BY <1>2, <2>1, AnsweredIsDone DEF TypeOK
    <3>2. call'[t] = call[t]
      BY <1>2, <3>1, DoneStays
    <3>3. user[call[t].owner] # "deleted"
      BY <1>2, <2>1, <3>2 DEF DeletionEndsSessions
    <3>4. QED
      BY <1>2, <3>2, <3>3, NewlyDeleted
  <2>2. CASE tokens[t] # "live"
    BY <1>2, <2>2, LiveTokens
  <2>3. QED
    BY <2>1, <2>2
<1>3. DeletionEndsSessions /\ TypeOK /\ [Next]_vars => DeletionEndsSessions'
  BY <1>2
<1>4. QED
  BY <1>1, <1>3, TypeCorrect, PTL DEF Spec

-----------------------------------------------------------------------------
(* Sessions *)

\* The statements of a request that is on its way to a token.
OnTheWay == {"consume", "user", "create", "revoke", "owner", "issue"}

\* The request r sets out on a sign-in, which opens the session that bears its name.
SignsIn(r) ==
  pc[r] = "idle" /\ pc'[r] \in OnTheWay /\ call'[r].session = r /\ call'[r].kind # "refresh"

\* The request r sets out to refresh token t.
SetsOutToRefresh(r, t) ==
  /\ pc[r] = "idle" /\ pc'[r] \in OnTheWay
  /\ t \in Given /\ tokens[t] = "live"
  /\ call'[r].kind = "refresh"
  /\ call'[r].session = call[t].session /\ call'[r].owner = call[t].owner

\* The request r goes on, in the session in which it set out.
StaysInSession(r) ==
  /\ pc[r] \in OnTheWay
  /\ call'[r].session = call[r].session /\ call'[r].kind = call[r].kind
  /\ call[r].kind = "refresh" => call'[r] = call[r]

\* How a request comes to be on its way to a token.
LEMMA WaysToAToken ==
  ASSUME TypeOK, [Next]_vars, NEW r \in Requests, pc'[r] \in OnTheWay
  PROVE  SignsIn(r) \/ (\E t \in Requests : SetsOutToRefresh(r, t)) \/ StaysInSession(r)
<1> DEFINE Goal == \/ SignsIn(r)
                   \/ \E t \in Requests : SetsOutToRefresh(r, t)
                   \/ StaysInSession(r)
<1>1. pc'[r] = pc[r] /\ call'[r] = call[r] => Goal
  BY DEF StaysInSession
<1>2. pc[r] \in OnTheWay /\ call'[r] = call[r] => Goal
  BY DEF StaysInSession
<1>3. /\ \A next : GoOn(r, next) => call'[r] = call[r] /\ pc'[r] = next
      /\ \A a : ~Finish(r, a)
      /\ \A c, a : ~AnswerNow(r, c, a)
      /\ \A c, next : Proceed(r, c, next) => pc[r] = "idle" /\ call'[r] = c /\ pc'[r] = next
  BY DEF TypeOK, GoOn, Finish, AnswerNow, Proceed, OnTheWay
<1>4. /\ ~InvalidateCodes(r) /\ ~StoreCode(r)
      /\ \A u : ~ReadForBlock(r, u) /\ ~ReadForDelete(r, u)
      /\ ~WriteBlock(r) /\ ~DeleteAccount(r)
      /\ \A a, on : ~SetActive(r, a, on)
      /\ \A t : ~FindForLogout(r, t)
      /\ ~RevokeForLogout(r)
      /\ \A a, p, q : ~ReadForChange(r, a, p, q)
      /\ \A a, p : ~ReadForReset(r, a, p)
  BY <1>3 DEF InvalidateCodes, StoreCode, ReadForBlock, ReadForDelete, WriteBlock,
     DeleteAccount, SetActive, FindForLogout, RevokeForLogout, ReadForChange, ReadForReset,
     OnTheWay
<1>5. ~CommitPassword(r)
  BY DEF CommitPassword, TypeOK, OnTheWay
<1>6. ASSUME NEW typed, FindCode(r, typed) PROVE Goal
  BY <1>3, <1>6 DEF FindCode, SignsIn, OnTheWay
<1>7. ~BurnCode(r) /\ ~CountAttempt(r)
  BY <1>3 DEF BurnCode, CountAttempt, UpdateCode
<1>8. ConsumeCode(r) => Goal
  BY <1>2, <1>3 DEF ConsumeCode, UpdateCode, OnTheWay
<1>9. ASSUME NEW u \in Users, pc[r] \in {"user", "create"},
             call' = [call EXCEPT ![r].owner = u]
      PROVE  Goal
  <2>1. call[r] \in Verifications /\ call'[r] = [call[r] EXCEPT !.owner = u]
    BY <1>9, OwnCall DEF Fits, TypeOK
  <2>2. QED
    BY <1>9, <2>1 DEF StaysInSession, OnTheWay, Verifications
<1>10. FindUser(r) \/ CreateUser(r) => Goal
  <2>1. FindUser(r) => Goal
    BY <1>2, <1>3, <1>9 DEF FindUser, Holder, OnTheWay
  <2>2. CreateUser(r) => Goal
    BY <1>2, <1>3, <1>9 DEF CreateUser, OnTheWay
  <2>3. QED
    BY <2>1, <2>2
<1>11. ~IssueToken(r)
  BY <1>3 DEF IssueToken
<1>12. ASSUME NEW a, NEW p, ReadForLogin(r, a, p) PROVE Goal
  BY <1>3, <1>12 DEF ReadForLogin, SignsIn, OnTheWay
<1>13. ASSUME NEW t \in Requests, FindToken(r, t) PROVE Goal
  BY <1>3, <1>13 DEF FindToken, SetsOutToRefresh, OnTheWay
<1>14. RevokeToken(r) \/ ReadOwner(r) => Goal
  BY <1>2, <1>3 DEF RevokeToken, ReadOwner, OnTheWay
<1> HIDE DEF Goal
<1>15. ASSUME Step(r) PROVE Goal
  BY <1>4, <1>5, <1>6, <1>7, <1>8, <1>10, <1>11, <1>12, <1>13, <1>14, <1>15 DEF Step
<1>16. Goal
  BY <1>1, <1>15, NextIsStep, OneMoves DEF vars
<1>17. QED
  BY <1>16 DEF Goal

\* Nothing brings back a session that has neither a live token nor a request under way.
LEMMA DeadStaysDead ==
  ASSUME TypeOK, [Next]_vars, NEW s \in Sessions
  PROVE  /\ (\A t \in Given : call[t].session = s => tokens'[t] # "live") /\ ~Busy(s)
              => Dead(s)'
         /\ Dead(s) => Dead(s)'
<1>1. s \in Requests /\ pc[s] = "done"
  BY AnsweredIsDone DEF Sessions, Given
<1>2. ASSUME ~Busy(s), NEW t \in Requests, tokens'[t] = "live", call'[t].session = s
      PROVE  t \in Given /\ call[t].session = s
  <2>1. ~(IssueToken(t) /\ call'[t] = call[t])
    BY <1>2 DEF IssueToken, Busy
  <2>2. tokens[t] = "live"
    BY <1>2, <2>1, LiveTokens
  <2>3. t \in Given
    BY <2>2 DEF TypeOK, Given
  <2>4. QED
    BY <1>2, <2>3, AnsweredIsDone, DoneStays DEF Given
<1>3. ASSUME ~Busy(s), NEW r \in Requests, pc'[r] \in OnTheWay, call'[r].session = s
      PROVE  \E t \in Given : call[t].session = s /\ tokens[t] = "live" /\ UNCHANGED tokens
  <2>1. ~StaysInSession(r)
    BY <1>3 DEF StaysInSession, Busy, OnTheWay
  <2>2. ~SignsIn(r)
    BY <1>1, <1>3 DEF SignsIn
  <2>3. PICK t \in Requests : SetsOutToRefresh(r, t)
    BY <1>3, <2>1, <2>2, WaysToAToken
  <2>4. UNCHANGED tokens
    <3>1. Step(r)
      <4>1. pc'[r] # pc[r]
        BY <2>3 DEF SetsOutToRefresh, OnTheWay
      <4>2. QED
        BY <4>1, NextIsStep, OneMoves DEF vars
    <3>2. pc[r] = "idle" /\ pc'[r] # "done"
      BY <2>3 DEF SetsOutToRefresh, OnTheWay
    <3>3. ~IssueToken(r) /\ ~RevokeToken(r) /\ ~RevokeForLogout(r) /\ ~CommitPassword(r)
            /\ ~DeleteAccount(r)
      BY <3>2 DEF IssueToken, RevokeToken, RevokeForLogout, CommitPassword, DeleteAccount
    <3>4. QED
      BY <3>1, <3>3 DEF Step, InvalidateCodes, StoreCode, FindCode, BurnCode, CountAttempt,
         ConsumeCode, UpdateCode, FindUser, CreateUser, ReadForLogin, FindToken,
         FindForLogout, ReadOwner, ReadForChange, ReadForReset, SetActive, ReadForBlock,
         ReadForDelete, WriteBlock
  <2>5. QED
    BY <1>3, <2>3, <2>4 DEF SetsOutToRefresh
<1>4. ASSUME \A t \in Given : call[t].session = s => tokens'[t] # "live", ~Busy(s)
      PROVE  Dead(s)'
  <2>1. ~(Busy(s)')
    BY <1>3, <1>4 DEF Busy, OnTheWay
  <2>2. ASSUME NEW t \in Requests, call'[t].session = s PROVE tokens'[t] # "live"
    BY <1>2, <1>4, <2>2
  <2>3. QED
    BY <2>1, <2>2 DEF Dead, Given
<1>5. ASSUME Dead(s) PROVE Dead(s)'
  <2>1. ASSUME NEW t \in Given, call[t].session = s PROVE tokens'[t] # "live"
    <3>1. t \in Requests /\ ~IssueToken(t)
      BY AnsweredIsDone DEF Given, IssueToken
    <3>2. QED
      BY <1>5, <2>1, <3>1, LiveTokens DEF Dead
  <2>2. QED
    BY <1>4, <1>5, <2>1 DEF Dead
<1>6. QED
  BY <1>4, <1>5

\* A session that is over is over for good: no replay of an old token, retry or later
\* refresh makes generateTokens add a token to it.
THEOREM DeadSessionsStayDead == Spec => SessionStaysDead
<1>1. TypeOK /\ [Next]_vars => \A s \in Sessions : Dead(s) => Dead(s)'
  BY DeadStaysDead
<1>2. TypeOK /\ [Next]_vars => [\A s \in Sessions : Dead(s) => Dead(s)']_vars
  BY <1>1
<1>3. QED
  BY <1>2, TypeCorrect, PTL DEF Spec, SessionStaysDead

\* The request r is past the statement that settles its session.
Settled(r) == pc[r] \in OnTheWay \/ answer[r] = "tokens"

\* A sign-in opens the session that bears its name; a refresh stays in a session that
\* a sign-in of the same owner opened.
SessionInv ==
  \A r \in Requests : Settled(r) =>
    /\ call[r].kind # "refresh" => call[r].session = r
    /\ call[r].kind = "refresh" =>
         call[r].session \in Sessions /\ call[call[r].session].owner = call[r].owner

LEMMA SessionInvKept ==
  ASSUME TypeOK, SessionInv, [Next]_vars
  PROVE  SessionInv'
<1>1. ASSUME NEW s \in Sessions
      PROVE  s \in Sessions' /\ call'[s] = call[s]
  BY <1>1, AnsweredIsDone, DoneStays DEF Sessions, Given
<1> DEFINE Good(r) ==
      /\ call'[r].kind # "refresh" => call'[r].session = r
      /\ call'[r].kind = "refresh" =>
           call'[r].session \in Sessions' /\ call'[call'[r].session].owner = call'[r].owner
<1>3. ASSUME NEW r \in Requests, Settled(r), call'[r].kind = call[r].kind,
             call'[r].session = call[r].session, call[r].kind = "refresh" => call'[r] = call[r]
      PROVE  Good(r)
  BY <1>1, <1>3 DEF SessionInv
<1>4. ASSUME NEW r \in Requests, pc'[r] \in OnTheWay PROVE Good(r)
  <2>1. CASE SignsIn(r)
    BY <2>1 DEF SignsIn
  <2>2. CASE \E t \in Requests : SetsOutToRefresh(r, t)
    <3>1. PICK t \in Requests : SetsOutToRefresh(r, t)
      BY <2>2
    <3>2. t \in Given /\ Settled(t)
      BY <3>1 DEF SetsOutToRefresh, Settled, Given
    <3>3. call[t].session \in Sessions /\ call[call[t].session].owner = call[t].owner
      BY <3>2 DEF SessionInv, Sessions
    <3>4. QED
      BY <1>1, <3>1, <3>3 DEF SetsOutToRefresh
  <2>3. CASE StaysInSession(r)
    BY <1>3, <2>3 DEF StaysInSession, Settled
  <2>4. QED
    BY <1>4, <2>1, <2>2, <2>3, WaysToAToken
<1>5. ASSUME NEW r \in Requests, answer'[r] = "tokens" PROVE Good(r)
  <2>1. CASE answer[r] = "tokens"
    BY <1>3, <2>1, AnsweredIsDone, DoneStays DEF Settled
  <2>2. CASE answer[r] # "tokens"
    <3>1. IssueToken(r)
      BY <1>5, <2>2, NewAnswer
    <3>2. call'[r] = call[r] /\ pc[r] \in OnTheWay
      BY <3>1, <1>5 DEF IssueToken, Finish, OnTheWay
    <3>3. QED
      BY <1>3, <3>2 DEF Settled
  <2>3. QED
    BY <2>1, <2>2
<1>6. QED
  BY <1>4, <1>5 DEF SessionInv, Settled

\* A change or a reset of a password ends every session of the account that has no
\* request on its way to a token, at whichever of its tokens the session has arrived.
THEOREM PasswordEnds == Spec => PasswordEndsIdleSessions
<1>1. Init => SessionInv
  BY DEF Init, SessionInv, Settled, OnTheWay
<1>2. TypeOK /\ SessionInv /\ [Next]_vars => SessionInv'
  BY SessionInvKept
<1>3. ASSUME TypeOK, SessionInv, [Next]_vars, NEW r \in Requests,
             answer'[r] = "password set", answer[r] # "password set",
             NEW s \in Sessions, call[s].owner = call[r].owner, ~Busy(s)
      PROVE  Dead(s)'
  <2>1. CommitPassword(r)
    BY <1>3, NewAnswer
  <2>2. ASSUME NEW t \in Given, call[t].session = s PROVE tokens'[t] # "live"
    <3>1. call[t].owner = call[r].owner
      BY <1>3, <2>2 DEF SessionInv, Settled, Given
    <3>2. QED
      BY <2>1, <3>1 DEF CommitPassword, Given
  <2>3. QED
    BY <1>3, <2>2, DeadStaysDead
<1>4. TypeOK /\ SessionInv /\ [Next]_vars =>
        [\A r \in Requests :
           answer'[r] = "password set" /\ answer[r] # "password set" =>
             \A s \in Sessions :
               call[s].owner = call[r].owner /\ ~Busy(s) => Dead(s)']_vars
  BY <1>3
<1>5. QED
  BY <1>1, <1>2, <1>4, TypeCorrect, PTL DEF Spec, PasswordEndsIdleSessions

-----------------------------------------------------------------------------
(* Wrong attempts *)

\* The requests that were told that code n is not what they typed.
Counted(n) == {r \in Requests : answer[r] = "WRONG_CODE" /\ call[r].code = n}

\* The count, and that there is one: finitely many requests have been answered.
CountInv ==
  \A n \in DOMAIN codes :
    IsFiniteSet(Counted(n)) /\ codes[n].attempts = Cardinality(Counted(n))

\* What a step does to the codes: nothing to their counters, a new code, or a count.
LEMMA CodesStep ==
  ASSUME TypeOK, [Next]_vars
  PROVE  \/ /\ DOMAIN codes' = DOMAIN codes
            /\ \A n \in DOMAIN codes : codes'[n].attempts = codes[n].attempts
         \/ codes' = Append(codes, [state |-> "fresh", attempts |-> 0])
         \/ \E r \in Requests :
              /\ CountAttempt(r) /\ answer'[r] = "WRONG_CODE"
              /\ codes' = [codes EXCEPT ![call[r].code].attempts = @ + 1]
<1> DEFINE Same == /\ DOMAIN codes' = DOMAIN codes
                   /\ \A n \in DOMAIN codes : codes'[n].attempts = codes[n].attempts
<1>1. UNCHANGED codes => Same
  OBVIOUS
<1>2. ASSUME NEW r \in Requests, pc[r] \in {"burn", "miss", "consume"}
      PROVE  call[r].code \in DOMAIN codes /\ codes[call[r].code] \in Code
  BY <1>2, OwnCall, CodesTable DEF Fits
<1>3. ASSUME NEW r \in Requests PROVE InvalidateCodes(r) => Same
  BY CodesTable DEF InvalidateCodes, Code
<1>4. ASSUME NEW r \in Requests, BurnCode(r) \/ ConsumeCode(r) PROVE Same
  <2>1. \/ UNCHANGED codes
        \/ codes' = [codes EXCEPT ![call[r].code] = [codes[call[r].code] EXCEPT !.state = "used"]]
    BY <1>4 DEF BurnCode, ConsumeCode, UpdateCode
  <2>2. call[r].code \in DOMAIN codes /\ codes[call[r].code] \in Code
    BY <1>2, <1>4 DEF BurnCode, ConsumeCode
  <2>3. QED
    BY <2>1, <2>2, CodesTable DEF Code
<1>5. ASSUME NEW r \in Requests, CountAttempt(r)
      PROVE  \/ Same
             \/ /\ answer'[r] = "WRONG_CODE"
                /\ codes' = [codes EXCEPT ![call[r].code].attempts = @ + 1]
  <2>1. \/ UNCHANGED codes
        \/ /\ codes' = [codes EXCEPT ![call[r].code] =
                          [codes[call[r].code] EXCEPT !.attempts = @ + 1]]
           /\ Finish(r, "WRONG_CODE")
    BY <1>5 DEF CountAttempt, UpdateCode
  <2>2. call[r].code \in DOMAIN codes
    BY <1>2, <1>5 DEF CountAttempt
  <2>3. QED
    BY <1>1, <2>1, <2>2 DEF Finish, TypeOK
<1>6. ASSUME NEW r \in Requests PROVE DeleteAccount(r) => Same
  <2>1. CASE DeleteAccount(r) /\ ~UNCHANGED codes
    <3>1. codes' = [n \in DOMAIN codes |-> [codes[n] EXCEPT !.state = "gone"]]
      BY <2>1 DEF DeleteAccount
    <3>2. QED
      BY <3>1, CodesTable DEF Code
  <2>2. QED
    BY <1>1, <2>1
<1>7. ASSUME NEW r \in Requests
      PROVE  /\ \A typed : FindCode(r, typed) => UNCHANGED codes
             /\ FindUser(r) \/ CreateUser(r) \/ IssueToken(r) => UNCHANGED codes
             /\ \A a, p : ReadForLogin(r, a, p) => UNCHANGED codes
             /\ \A q : FindToken(r, q) \/ FindForLogout(r, q) => UNCHANGED codes
             /\ RevokeToken(r) \/ ReadOwner(r) \/ RevokeForLogout(r) => UNCHANGED codes
             /\ \A a, p, q : ReadForChange(r, a, p, q) => UNCHANGED codes
             /\ \A a, p : ReadForReset(r, a, p) => UNCHANGED codes
             /\ CommitPassword(r) => UNCHANGED codes
             /\ \A a, on : SetActive(r, a, on) => UNCHANGED codes
             /\ \A v : ReadForBlock(r, v) \/ ReadForDelete(r, v) => UNCHANGED codes
             /\ WriteBlock(r) => UNCHANGED codes
  BY DEF FindCode, FindUser, CreateUser, IssueToken, ReadForLogin, FindToken,
     FindForLogout, RevokeToken, ReadOwner, RevokeForLogout, ReadForChange, ReadForReset,
     CommitPassword, SetActive, ReadForBlock, ReadForDelete, WriteBlock
<1>8. CASE UNCHANGED codes
  BY <1>1, <1>8
<1>9. CASE ~UNCHANGED codes
  <2>1. PICK r \in Requests : \/ InvalidateCodes(r) \/ StoreCode(r) \/ BurnCode(r)
                              \/ ConsumeCode(r) \/ CountAttempt(r) \/ DeleteAccount(r)
    BY <1>7, <1>9, NextIsStep DEF Step, vars
  <2>2. StoreCode(r) => codes' = Append(codes, [state |-> "fresh", attempts |-> 0])
    BY DEF StoreCode
  <2> HIDE DEF Same
  <2>3. \/ Same \/ codes' = Append(codes, [state |-> "fresh", attempts |-> 0])
        \/ /\ CountAttempt(r) /\ answer'[r] = "WRONG_CODE"
           /\ codes' = [codes EXCEPT ![call[r].code].attempts = @ + 1]
    BY <1>3, <1>4, <1>5, <1>6, <2>1, <2>2
  <2>4. QED
    BY <2>3 DEF Same
<1>10. QED
  BY <1>8, <1>9

LEMMA CountKept ==
  ASSUME TypeOK, CountInv, [Next]_vars
  PROVE  CountInv'
<1>1. ASSUME NEW r \in Requests, answer[r] = "WRONG_CODE"
      PROVE  /\ answer'[r] = "WRONG_CODE" /\ call'[r] = call[r]
             /\ call[r].code \in DOMAIN codes
  BY <1>1, AnsweredIsDone, DoneStays DEF TypeOK, Fits
<1>2. ASSUME NEW r \in Requests, CountAttempt(r), answer'[r] = "WRONG_CODE",
             codes' = [codes EXCEPT ![call[r].code].attempts = @ + 1]
      PROVE  CountInv'
  <2> DEFINE k == call[r].code
  <2>1. k \in DOMAIN codes /\ pc[r] = "miss" /\ answer[r] = "none" /\ call'[r] = call[r]
    BY <1>2, OwnCall DEF CountAttempt, UpdateCode, Finish, Fits
  <2>2. \A q \in Requests \ {r} : answer'[q] = answer[q] /\ call'[q] = call[q]
    BY <1>2, OneMoves DEF Step
  <2>3. DOMAIN codes' = DOMAIN codes
    BY <1>2
  <2>4. ASSUME NEW n \in DOMAIN codes
        PROVE  IsFiniteSet(Counted(n)') /\ codes'[n].attempts = Cardinality(Counted(n)')
    <3>1. IsFiniteSet(Counted(n)) /\ codes[n].attempts = Cardinality(Counted(n))
      BY DEF CountInv
    <3>2. CASE n = k
      <4>1. Counted(n)' = Counted(n) \cup {r} /\ r \notin Counted(n)
        BY <1>2, <2>1, <2>2, <3>2 DEF Counted
      <4>2. codes'[n].attempts = codes[n].attempts + 1
        <5>1. codes[n] \in Code /\ codes \in [1 .. Len(codes) -> Code]
          BY CodesTable
        <5>2. QED
          BY <1>2, <2>1, <3>2, <5>1 DEF Code
      <4>3. QED
        BY <3>1, <4>1, <4>2, FS_AddElement
    <3>3. CASE n # k
      <4>1. Counted(n)' = Counted(n)
        BY <1>2, <2>1, <2>2, <3>3 DEF Counted
      <4>2. codes'[n] = codes[n]
        BY <1>2, <3>3, CodesTable
      <4>3. QED
        BY <3>1, <4>1, <4>2
    <3>4. QED
      BY <3>2, <3>3
  <2>5. QED
    BY <2>3, <2>4 DEF CountInv
<1>3. ASSUME NEW r \in Requests, CountAttempt(r), answer'[r] = "WRONG_CODE" PROVE CountInv'
  <2>1. codes' = [codes EXCEPT ![call[r].code] = [codes[call[r].code] EXCEPT !.attempts = @ + 1]]
    BY <1>3 DEF CountAttempt, UpdateCode, Finish, TypeOK
  <2>2. call[r].code \in DOMAIN codes
    BY <1>3, OwnCall DEF CountAttempt, Fits
  <2>3. codes' = [codes EXCEPT ![call[r].code].attempts = @ + 1]
    BY <2>1, <2>2
  <2>4. QED
    BY <1>2, <1>3, <2>3
<1>4. CASE \A r \in Requests : ~(CountAttempt(r) /\ answer'[r] = "WRONG_CODE")
  <2>1. \A n : Counted(n)' = Counted(n)
    BY <1>1, <1>4, NewAnswer DEF Counted
  <2>2. CASE /\ DOMAIN codes' = DOMAIN codes
             /\ \A n \in DOMAIN codes : codes'[n].attempts = codes[n].attempts
    BY <2>1, <2>2 DEF CountInv
  <2>3. CASE codes' = Append(codes, [state |-> "fresh", attempts |-> 0])
    <3>1. ASSUME NEW n \in DOMAIN codes'
          PROVE  IsFiniteSet(Counted(n)') /\ codes'[n].attempts = Cardinality(Counted(n)')
      <4>1. CASE n \in DOMAIN codes
        <5>1. codes'[n] = codes[n]
          BY <2>3, <4>1, CodesTable, AppendProperties DEF TypeOK, Code
        <5>2. QED
          BY <2>1, <4>1, <5>1 DEF CountInv
      <4>2. CASE n \notin DOMAIN codes
        <5>1. codes'[n].attempts = 0
          <6>1. [state |-> "fresh", attempts |-> 0] \in Code
            BY DEF Code
          <6>2. codes \in Seq(Code) /\ DOMAIN codes' = 1 .. Len(codes) + 1
            BY <2>3, <6>1, AppendProperties DEF TypeOK
          <6>3. n = Len(codes) + 1
            BY <4>2, <6>2, CodesTable
          <6>4. QED
            BY <2>3, <6>1, <6>2, <6>3, AppendProperties
        <5>2. Counted(n) = {}
          BY <1>1, <4>2 DEF Counted
        <5>3. QED
          BY <2>1, <5>1, <5>2, FS_EmptySet
      <4>3. QED
        BY <4>1, <4>2
    <3>2. QED
      BY <3>1 DEF CountInv
  <2>4. QED
    BY <1>4, <2>2, <2>3, CodesStep
<1>5. QED
  BY <1>3, <1>4

\* verifyOtp increments a code's counter in the database, so of wrong attempts that
\* run together none is lost, however many there are.
THEOREM AttemptsCount == Spec => []EveryWrongAttemptCounts
<1>1. Init => CountInv
  BY DEF Init, CountInv
<1>2. TypeOK /\ CountInv /\ [Next]_vars => CountInv'
  BY CountKept
<1>3. CountInv => EveryWrongAttemptCounts
  BY DEF CountInv, EveryWrongAttemptCounts, Counted
<1>4. QED
  BY <1>1, <1>2, <1>3, TypeCorrect, PTL DEF Spec
=============================================================================
