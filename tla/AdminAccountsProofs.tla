------------------------ MODULE AdminAccountsProofs ------------------------
(***************************************************************************)
(* Theorems about administrator accounts and roles, for every number of    *)
(* requests, administrators, roles and providers.                          *)
(***************************************************************************)
EXTENDS AdminAccounts, TLAPS

-----------------------------------------------------------------------------
(* The type invariant *)

\* Request r goes on to statement p, with call c and answer a.
Moves(r, p, c, a) ==
  /\ pc' = [pc EXCEPT ![r] = p]
  /\ call' = [call EXCEPT ![r] = c]
  /\ answer' = [answer EXCEPT ![r] = a]

\* A step of one request keeps the type invariant if the tables keep their types,
\* no account is removed, and the request's call fits its new statement and answer.
LEMMA StepType ==
  ASSUME TypeOK, NEW r \in Requests, NEW p \in Statements, NEW c \in Calls,
         NEW a \in Answers, Moves(r, p, c, a),
         accounts' \in [Admins -> Account \cup {NoAccount}], Live \subseteq Live',
         roles' \in [Roles -> RoleStates],
         trail' \subseteq Requests, crossed' \subseteq Requests, changed' \subseteq Requests,
         Fits(p, c, a)
  PROVE  TypeOK'
<1>1. pc' \in [Requests -> Statements] /\ call' \in [Requests -> Calls]
        /\ answer' \in [Requests -> Answers]
  BY DEF TypeOK, Moves
<1>2. ASSUME NEW q \in Requests PROVE Fits(pc[q], call[q], answer[q])'
  <2>1. CASE q = r
    <3>1. pc'[q] = p /\ call'[q] = c /\ answer'[q] = a
      BY <2>1 DEF TypeOK, Moves
    <3>2. QED
      BY <3>1 DEF Fits
  <2>2. CASE q # r
    <3>1. pc'[q] = pc[q] /\ call'[q] = call[q] /\ answer'[q] = answer[q]
      BY <2>2 DEF TypeOK, Moves
    <3>2. Fits(pc[q], call[q], answer[q])
      BY DEF TypeOK
    <3>3. QED
      BY <3>1, <3>2 DEF Fits
  <2>3. QED
    BY <2>1, <2>2
<1>3. QED
  BY <1>1, <1>2 DEF TypeOK

\* The same for a step that writes no table.
LEMMA QuietStepType ==
  ASSUME TypeOK, NEW r \in Requests, NEW p \in Statements, NEW c \in Calls,
         NEW a \in Answers, Moves(r, p, c, a),
         UNCHANGED <<accounts, roles, trail, crossed, changed>>,
         Fits(p, c, a)
  PROVE  TypeOK'
<1>1. /\ accounts' \in [Admins -> Account \cup {NoAccount}]
      /\ roles' \in [Roles -> RoleStates]
      /\ trail' \subseteq Requests /\ crossed' \subseteq Requests /\ changed' \subseteq Requests
  BY DEF TypeOK
<1>2. Live \subseteq Live'
  BY DEF Live
<1>3. QED
  BY <1>1, <1>2, StepType

\* A request that has made a call, and the call itself.
LEMMA OwnCall ==
  ASSUME TypeOK, NEW r \in Requests
  PROVE  /\ call[r] \in Calls /\ pc[r] \in Statements /\ answer[r] \in Answers
         /\ Fits(pc[r], call[r], answer[r])
         /\ call[r].kind = "create" => call[r] \in Creations
         /\ call[r].kind = "update" => call[r] \in Updates
         /\ call[r].kind \in {"addrole", "editrole"} => call[r] \in RoleCalls
         /\ call[r].kind = "removerole" => call[r] \in Removals
  BY DEF TypeOK, Calls, Creations, Updates, RoleCalls, Removals, NoCall

\* How the helpers move a request.
LEMMA Moving ==
  ASSUME TypeOK, NEW r \in Requests
  PROVE  /\ \A next : pc[r] \notin {"log", "done"} /\ GoOn(r, next)
                        => Moves(r, next, call[r], "none")
         /\ \A a : Finish(r, a) => Moves(r, "done", call[r], a)
<1>1. pc[r] \notin {"log", "done"} => answer = [answer EXCEPT ![r] = "none"]
  BY DEF TypeOK, Fits
<1>2. call = [call EXCEPT ![r] = call[r]]
  BY DEF TypeOK
<1>3. QED
  BY <1>1, <1>2 DEF GoOn, Finish, Moves

\* A refusal keeps the type invariant, and so does a test that is passed.
LEMMA QuietMoves ==
  ASSUME TypeOK, NEW r \in Requests, UNCHANGED <<accounts, roles, trail, crossed, changed>>
  PROVE  /\ \A a \in Answers : Finish(r, a) => TypeOK'
         /\ \A next \in Statements :
              /\ pc[r] \notin {"log", "done"} /\ GoOn(r, next)
              /\ Fits(next, call[r], "none")
              => TypeOK'
<1>1. ASSUME NEW a \in Answers, Finish(r, a) PROVE TypeOK'
  <2>1. Fits("done", call[r], a)
    BY DEF Fits
  <2>2. "done" \in Statements
    BY DEF Statements
  <2>3. QED
    BY <1>1, <2>1, <2>2, Moving, OwnCall, QuietStepType
<1>2. ASSUME NEW next \in Statements, pc[r] \notin {"log", "done"}, GoOn(r, next),
             Fits(next, call[r], "none")
      PROVE  TypeOK'
  <2>1. "none" \in Answers
    BY DEF Answers
  <2>2. QED
    BY <1>2, <2>1, Moving, OwnCall, QuietStepType
<1>3. QED
  BY <1>1, <1>2

LEMMA InitType == Init => TypeOK
  BY DEF Init, TypeOK, Fits, Calls, Statements, Answers, NoCall, Updates

\* The guards keep the type invariant.
LEMMA AdmitType ==
  ASSUME TypeOK, NEW r \in Requests, NEW by, NEW c \in Calls, NEW next \in Statements,
         Fits(next, c, "none"), Admit(r, by, c, next)
  PROVE  TypeOK'
<1>1. UNCHANGED <<accounts, roles, trail, crossed, changed>> /\ pc[r] = "idle"
  BY DEF Admit
<1>2. CASE Moves(r, next, c, "none")
  BY <1>1, <1>2, QuietStepType DEF Answers
<1>3. CASE Finish(r, "FORBIDDEN")
  BY <1>1, <1>3, QuietMoves DEF Answers
<1>4. answer = [answer EXCEPT ![r] = "none"]
  BY <1>1 DEF TypeOK, Fits
<1>5. QED
  BY <1>2, <1>3, <1>4 DEF Admit, Moves, Finish

LEMMA AskStepsType ==
  ASSUME TypeOK, NEW r \in Requests, NEW by \in Admins
  PROVE  /\ \A who \in Admins, role \in Roles, p \in Providers \cup {NoProvider} :
              AskCreate(r, by, who, role, p) => TypeOK'
         /\ \A who \in Admins, edit \in Edits : AskUpdate(r, by, who, edit) => TypeOK'
         /\ \A id \in Roles, to \in {"plain", "manages"} :
              AskAddRole(r, by, id, to) \/ AskEditRole(r, by, id, to) => TypeOK'
         /\ \A id \in Roles : AskRemoveRole(r, by, id) => TypeOK'
<1>1. "find" \in Statements /\ "insert" \in Statements
  BY DEF Statements
<1>2. ASSUME NEW who \in Admins, NEW role \in Roles,
             NEW p \in Providers \cup {NoProvider}, AskCreate(r, by, who, role, p)
      PROVE  TypeOK'
  <2> DEFINE c == [kind |-> "create", who |-> who, role |-> role, provider |-> p]
  <2>1. c \in Calls /\ Fits("find", c, "none")
    BY DEF Calls, Creations, Fits
  <2>2. QED
    BY <1>1, <1>2, <2>1, AdmitType DEF AskCreate
<1>3. ASSUME NEW who \in Admins, NEW edit \in Edits, AskUpdate(r, by, who, edit)
      PROVE  TypeOK'
  <2> DEFINE c == [kind |-> "update", who |-> who, self |-> by = who, edit |-> edit,
                   had |-> Keep]
  <2>1. c \in Calls /\ Fits("find", c, "none")
    <3>1. c.self \in BOOLEAN /\ edit \in AllEdits
      BY EditsAssumption
    <3>2. c \in Updates
      BY <3>1 DEF Updates
    <3>3. QED
      BY <3>2 DEF Calls, Fits
  <2>2. QED
    BY <1>1, <1>3, <2>1, AdmitType DEF AskUpdate
<1>4. ASSUME NEW id \in Roles, NEW to \in {"plain", "manages"},
             AskAddRole(r, by, id, to) \/ AskEditRole(r, by, id, to)
      PROVE  TypeOK'
  <2> DEFINE c(k) == [kind |-> k, id |-> id, to |-> to]
  <2>1. \A k \in {"addrole", "editrole"} : c(k) \in Calls /\ c(k).kind = k /\ c(k) \notin Updates
    BY DEF Calls, RoleCalls, Updates
  <2>2. Fits("insert", c("addrole"), "none") /\ Fits("find", c("editrole"), "none")
    BY <2>1 DEF Fits
  <2>3. QED
    BY <1>1, <1>4, <2>1, <2>2, AdmitType DEF AskAddRole, AskEditRole
<1>5. ASSUME NEW id \in Roles, AskRemoveRole(r, by, id) PROVE TypeOK'
  <2> DEFINE c == [kind |-> "removerole", id |-> id]
  <2>1. c \in Calls /\ Fits("find", c, "none")
    BY DEF Calls, Removals, Fits
  <2>2. QED
    BY <1>1, <1>5, <2>1, AdmitType DEF AskRemoveRole
<1>6. QED
  BY <1>2, <1>3, <1>4, <1>5

\* Where the tests of an account's fields lead.
LEMMA NextTests ==
  ASSUME TypeOK, NEW r \in Requests, pc[r] \in {"find", "role", "provider"},
         NEW c \in Creations \cup Updates,
         c \in Updates => c.who \in Live /\ c.had # Keep
  PROVE  /\ AfterProvider(c) \in {"insert", "write", "last", "capable"}
         /\ AfterRole(c) \in {"provider", "insert", "write", "last", "capable"}
         /\ Fits(AfterProvider(c), c, "none") /\ Fits(AfterRole(c), c, "none")
<1>1. AfterProvider(c) \in {"insert", "write", "last", "capable"}
  BY DEF AfterProvider
<1>2. Fits(AfterProvider(c), c, "none")
  <2>1. CASE c \in Creations
    <3>1. c.kind = "create" /\ c \notin Updates
      BY <2>1 DEF Creations, Updates
    <3>2. QED
      BY <2>1, <3>1 DEF AfterProvider, Fits
  <2>2. CASE c \in Updates
    <3>1. c.kind = "update"
      BY <2>2 DEF Updates
    <3>2. AfterProvider(c) \in {"write", "last", "capable"}
      BY <3>1 DEF AfterProvider
    <3>3. AfterProvider(c) = "capable" => c.edit.role # Keep
      BY <3>1 DEF AfterProvider, LosesRights
    <3>4. QED
      BY <2>2, <3>2, <3>3 DEF Fits
  <2>3. QED
    BY <2>1, <2>2
<1>3. Fits("provider", c, "none")
  BY DEF Fits
<1>4. QED
  BY <1>1, <1>2, <1>3 DEF AfterRole

LEMMA TestStepsType ==
  ASSUME TypeOK, NEW r \in Requests
  PROVE  /\ FindAccount(r) => TypeOK'
         /\ CheckRole(r) => TypeOK'
         /\ CheckProvider(r) => TypeOK'
         /\ CheckCapable(r) => TypeOK'
         /\ CheckLast(r) => TypeOK'
<1>1. /\ {"insert", "write", "last", "capable", "provider", "role"} \subseteq Statements
      /\ {"none", "CONFLICT", "FORBIDDEN", "NOT_FOUND", "BAD_ROLE", "LAST_MANAGER"} \subseteq Answers
  BY DEF Statements, Answers
<1>2. ASSUME FindAccount(r) PROVE TypeOK'
  <2>1. pc[r] = "find" /\ UNCHANGED <<accounts, roles, trail, crossed, changed>>
    BY <1>2 DEF FindAccount
  <2>2. CASE call[r].kind = "create"
    <3>1. Finish(r, "CONFLICT") \/ GoOn(r, "role")
      BY <1>2, <2>2 DEF FindAccount
    <3>2. call[r] \in Creations /\ call[r] \notin Updates
      BY <2>2, OwnCall DEF Updates
    <3>3. Fits("role", call[r], "none")
      BY <3>2 DEF Fits
    <3>4. QED
      BY <1>1, <2>1, <3>1, <3>3, QuietMoves
  <2>3. CASE call[r].kind = "update"
    <3> DEFINE c == [call[r] EXCEPT !.had = accounts[call[r].who].role]
    <3>1. call[r] \in Updates
      BY <2>3, OwnCall
    <3>2. CASE \E a \in Answers : Finish(r, a)
      BY <2>1, <3>2, QuietMoves
    <3>3. CASE ~ \E a \in Answers : Finish(r, a)
      <4>1. /\ call[r].who \in Live
            /\ call' = [call EXCEPT ![r] = c]
            /\ pc' = [pc EXCEPT ![r] = IF c.edit.role # Keep THEN "role" ELSE AfterRole(c)]
            /\ UNCHANGED answer
        BY <1>1, <1>2, <2>3, <3>1, <3>3 DEF FindAccount, Updates
      <4>2. accounts[call[r].who].role \in Roles
        BY <4>1 DEF TypeOK, Live, Account
      <4>3. c \in Updates /\ c.who = call[r].who /\ c.had # Keep
        BY <3>1, <4>2, NullAssumption DEF Updates
      <4> HIDE DEF c
      <4> DEFINE p == IF c.edit.role # Keep THEN "role" ELSE AfterRole(c)
      <4>4. p \in Statements /\ Fits(p, c, "none")
        <5>1. AfterRole(c) \in Statements /\ Fits(AfterRole(c), c, "none")
          BY <1>1, <2>1, <4>1, <4>3, NextTests
        <5>2. c.edit.role # Keep => Fits("role", c, "none")
          BY <4>1, <4>3 DEF Fits
        <5>3. QED
          BY <1>1, <5>1, <5>2
      <4>5. answer = [answer EXCEPT ![r] = "none"]
        BY <2>1 DEF TypeOK, Fits
      <4>6. Moves(r, p, c, "none")
        BY <4>1, <4>5 DEF Moves
      <4>7. QED
        BY <1>1, <2>1, <4>3, <4>4, <4>6, QuietStepType DEF Calls
    <3>4. QED
      BY <3>2, <3>3
  <2>4. QED
    BY <1>2, <2>2, <2>3 DEF FindAccount
<1>3. ASSUME CheckRole(r) PROVE TypeOK'
  <2>1. pc[r] = "role" /\ UNCHANGED <<accounts, roles, trail, crossed, changed>>
    BY <1>3 DEF CheckRole
  <2>2. /\ AfterRole(call[r]) \in Statements
        /\ Fits(AfterRole(call[r]), call[r], "none")
    BY <1>1, <2>1, OwnCall, NextTests DEF Fits
  <2>3. Finish(r, "BAD_ROLE") \/ GoOn(r, AfterRole(call[r]))
    BY <1>3 DEF CheckRole
  <2>4. QED
    BY <1>1, <2>1, <2>2, <2>3, QuietMoves
<1>4. ASSUME CheckProvider(r) PROVE TypeOK'
  <2>1. pc[r] = "provider" /\ UNCHANGED <<accounts, roles, trail, crossed, changed>>
    BY <1>4 DEF CheckProvider
  <2>2. /\ AfterProvider(call[r]) \in Statements
        /\ Fits(AfterProvider(call[r]), call[r], "none")
    BY <1>1, <2>1, OwnCall, NextTests DEF Fits
  <2>3. Finish(r, "CONFLICT") \/ GoOn(r, AfterProvider(call[r]))
    BY <1>4 DEF CheckProvider
  <2>4. QED
    BY <1>1, <2>1, <2>2, <2>3, QuietMoves
<1>5. ASSUME pc[r] \in {"capable", "last"}
      PROVE  Fits("write", call[r], "none") /\ Fits("last", call[r], "none")
  BY <1>5, OwnCall DEF Fits
<1>6. ASSUME CheckCapable(r) PROVE TypeOK'
  <2>1. /\ pc[r] = "capable" /\ UNCHANGED <<accounts, roles, trail, crossed, changed>>
        /\ GoOn(r, "write") \/ GoOn(r, "last")
    BY <1>6 DEF CheckCapable
  <2>2. QED
    BY <1>1, <1>5, <2>1, QuietMoves
<1>7. ASSUME CheckLast(r) PROVE TypeOK'
  <2>1. /\ pc[r] = "last" /\ UNCHANGED <<accounts, roles, trail, crossed, changed>>
        /\ Finish(r, "LAST_MANAGER") \/ GoOn(r, "write")
    BY <1>7 DEF CheckLast
  <2>2. QED
    BY <1>1, <1>5, <2>1, QuietMoves
<1>8. QED
  BY <1>2, <1>3, <1>4, <1>6, <1>7

\* What Store does: it refuses, or it writes a row that breaks no key.
LEMMA StoreCases ==
  ASSUME NEW r, NEW who, NEW row, Store(r, who, row)
  PROVE  /\ UNCHANGED <<roles, trail>>
         /\ \/ /\ Finish(r, "BAD_ROLE") \/ Finish(r, "CONFLICT")
               /\ UNCHANGED <<accounts, crossed, changed>>
            \/ /\ accounts' = [accounts EXCEPT ![who] = row]
               /\ Cross(r) /\ GoOn(r, "audit")
               /\ roles[row.role] # "none"
               /\ row.provider \notin Providers \/ BoundTo(row.provider, who) = {}
  BY DEF Store

LEMMA StoreType ==
  ASSUME TypeOK, NEW r \in Requests, pc[r] \in {"insert", "write"},
         call[r] \in Creations \cup Updates,
         NEW row \in Account, Store(r, call[r].who, row)
  PROVE  TypeOK'
<1>1. UNCHANGED <<roles, trail>> /\ {"BAD_ROLE", "CONFLICT", "none"} \subseteq Answers
        /\ "audit" \in Statements
  BY StoreCases DEF Answers, Statements
<1>2. CASE (Finish(r, "BAD_ROLE") \/ Finish(r, "CONFLICT")) /\ UNCHANGED <<accounts, crossed, changed>>
  BY <1>1, <1>2, QuietMoves
<1>3. CASE /\ accounts' = [accounts EXCEPT ![call[r].who] = row]
           /\ Cross(r) /\ GoOn(r, "audit")
  <2>1. call[r].who \in Admins
    BY DEF Creations, Updates
  <2>2. accounts' \in [Admins -> Account \cup {NoAccount}]
    BY <1>3 DEF TypeOK
  <2>3. Live \subseteq Live'
    BY <1>3, <2>1, NullAssumption DEF TypeOK, Live
  <2>4. crossed' \subseteq Requests /\ changed' \subseteq Requests
          /\ roles' \in [Roles -> RoleStates]
          /\ trail' \subseteq Requests
    BY <1>1, <1>3 DEF TypeOK, Cross
  <2>5. Moves(r, "audit", call[r], "none")
    BY <1>3, Moving
  <2>6. call[r] \in Updates => call[r].who \in Live /\ call[r].had # Keep
    BY OwnCall DEF Fits, Updates
  <2>7. Fits("audit", call[r], "none")
    BY <2>6 DEF Fits
  <2>8. QED
    BY <1>1, <2>2, <2>3, <2>4, <2>5, <2>7, OwnCall, StepType
<1>4. QED
  BY <1>2, <1>3, StoreCases

\* The row that an update writes.
NewRow(c) ==
  [role |-> Given(c.edit.role, accounts[c.who].role),
   active |-> Given(c.edit.active, accounts[c.who].active),
   provider |-> Given(c.edit.provider, accounts[c.who].provider)]

LEMMA NewRowType ==
  ASSUME TypeOK, NEW c \in Updates, c.who \in Live
  PROVE  NewRow(c) \in Account
<1>1. accounts[c.who] \in Account
  BY DEF TypeOK, Live
<1>2. c.edit \in AllEdits
  BY DEF Updates
<1>3. QED
  BY <1>1, <1>2 DEF NewRow, Given, Account, AllEdits

LEMMA AccountStepsType ==
  ASSUME TypeOK, NEW r \in Requests
  PROVE  /\ InsertAccount(r) => TypeOK'
         /\ WriteAccount(r) => TypeOK'
         /\ Audit(r) => TypeOK'
<1>1. ASSUME InsertAccount(r) PROVE TypeOK'
  <2> DEFINE row == [role |-> call[r].role, active |-> TRUE, provider |-> call[r].provider]
  <2>1. pc[r] = "insert" /\ call[r] \in Creations
    BY <1>1, OwnCall DEF InsertAccount
  <2>2. row \in Account
    BY <2>1 DEF Creations, Account
  <2>3. CASE Finish(r, "CONFLICT") /\ UNCHANGED <<accounts, roles, trail, crossed, changed>>
    BY <2>3, QuietMoves DEF Answers
  <2>4. CASE Store(r, call[r].who, row)
    BY <2>1, <2>2, <2>4, StoreType
  <2>5. QED
    BY <1>1, <2>3, <2>4 DEF InsertAccount
<1>2. ASSUME WriteAccount(r) PROVE TypeOK'
  <2>1. pc[r] = "write" /\ call[r] \in Updates /\ call[r].who \in Live
    BY <1>2, OwnCall DEF WriteAccount, Fits
  <2>2. Store(r, call[r].who, NewRow(call[r]))
    BY <1>2 DEF WriteAccount, NewRow
  <2>3. QED
    BY <2>1, <2>2, NewRowType, StoreType
<1>3. ASSUME Audit(r) PROVE TypeOK'
  <2>1. PICK a \in {"done", "ERROR"} : Moves(r, "done", call[r], a)
    BY <1>3, Moving DEF Audit
  <2>2. /\ accounts' \in [Admins -> Account \cup {NoAccount}] /\ Live \subseteq Live'
        /\ roles' \in [Roles -> RoleStates]
        /\ trail' \subseteq Requests /\ crossed' \subseteq Requests /\ changed' \subseteq Requests
    BY <1>3 DEF Audit, TypeOK, Live
  <2>3. "done" \in Statements /\ a \in Answers /\ Fits("done", call[r], a)
    BY DEF Statements, Answers, Fits
  <2>4. QED
    BY <2>1, <2>2, <2>3, OwnCall, StepType
<1>4. QED
  BY <1>1, <1>2, <1>3

LEMMA RoleStepsType ==
  ASSUME TypeOK, NEW r \in Requests
  PROVE  /\ FindRole(r) => TypeOK'
         /\ InsertRole(r) => TypeOK'
         /\ UpdateRole(r) => TypeOK'
         /\ DeleteRole(r) => TypeOK'
         /\ LogRoleChange(r) => TypeOK'
<1>1. /\ {"update", "delete", "log", "done"} \subseteq Statements
      /\ {"none", "done", "CONFLICT", "NOT_FOUND", "BAD_ROLE", "ROLE_IN_USE"} \subseteq Answers
  BY DEF Statements, Answers
<1>2. ASSUME FindRole(r) PROVE TypeOK'
  <2>1. pc[r] = "find" /\ UNCHANGED <<accounts, roles, trail, crossed, changed>>
    BY <1>2 DEF FindRole
  <2>2. CASE Finish(r, "NOT_FOUND") \/ Finish(r, "ROLE_IN_USE")
    BY <1>1, <2>1, <2>2, QuietMoves
  <2>3. CASE \/ call[r].kind = "editrole" /\ GoOn(r, "update")
             \/ call[r].kind = "removerole" /\ GoOn(r, "delete")
    <3>1. call[r] \notin Updates
      BY <2>3 DEF Updates
    <3>2. /\ call[r].kind = "editrole" => Fits("update", call[r], "none")
          /\ call[r].kind = "removerole" => Fits("delete", call[r], "none")
      BY <3>1 DEF Fits
    <3>3. QED
      BY <1>1, <2>1, <2>3, <3>2, QuietMoves
  <2>4. QED
    BY <1>2, <2>2, <2>3 DEF FindRole
<1>3. ASSUME pc[r] \in {"insert", "update", "delete"}, call[r] \in RoleCalls \cup Removals,
             UNCHANGED <<accounts, trail>>, roles' \in [Roles -> RoleStates], AnswerThenLog(r)
      PROVE  TypeOK'
  <2>1. Fits("log", call[r], "done")
    BY <1>3 DEF Fits, RoleCalls, Removals, Updates
  <2>2. Moves(r, "log", call[r], "done")
    BY <1>3 DEF AnswerThenLog, Moves, TypeOK
  <2>3. /\ accounts' \in [Admins -> Account \cup {NoAccount}] /\ Live \subseteq Live'
        /\ trail' \subseteq Requests /\ crossed' \subseteq Requests /\ changed' \subseteq Requests
    BY <1>3 DEF TypeOK, Live, AnswerThenLog, Cross
  <2>4. QED
    BY <1>1, <1>3, <2>1, <2>2, <2>3, OwnCall, StepType
<1>4. ASSUME \E a \in {"NOT_FOUND", "CONFLICT", "BAD_ROLE"} : Finish(r, a),
             UNCHANGED <<accounts, roles, trail, crossed, changed>>
      PROVE  TypeOK'
  BY <1>1, <1>4, QuietMoves
<1>5. ASSUME InsertRole(r) PROVE TypeOK'
  <2>1. call[r] \in RoleCalls /\ pc[r] = "insert"
    BY <1>5, OwnCall DEF InsertRole
  <2>2. call[r].to \in RoleStates
    BY <2>1 DEF RoleCalls, RoleStates
  <2>3. CASE roles' = [roles EXCEPT ![call[r].id] = call[r].to] /\ AnswerThenLog(r)
    BY <1>3, <2>1, <2>2, <2>3 DEF AnswerThenLog, TypeOK
  <2>4. QED
    BY <1>4, <1>5, <2>3 DEF InsertRole
<1>6. ASSUME UpdateRole(r) PROVE TypeOK'
  <2>1. call[r] \in RoleCalls /\ pc[r] = "update"
    BY <1>6, OwnCall DEF UpdateRole, Fits
  <2>2. call[r].to \in RoleStates
    BY <2>1 DEF RoleCalls, RoleStates
  <2>3. CASE roles' = [roles EXCEPT ![call[r].id] = call[r].to] /\ AnswerThenLog(r)
    BY <1>3, <2>1, <2>2, <2>3 DEF AnswerThenLog, TypeOK
  <2>4. QED
    BY <1>4, <1>6, <2>3 DEF UpdateRole
<1>7. ASSUME DeleteRole(r) PROVE TypeOK'
  <2>1. call[r] \in Removals /\ pc[r] = "delete"
    BY <1>7, OwnCall DEF DeleteRole, Fits
  <2>2. CASE roles' = [roles EXCEPT ![call[r].id] = "none"] /\ AnswerThenLog(r)
    BY <1>3, <2>1, <2>2 DEF AnswerThenLog, TypeOK, RoleStates
  <2>3. QED
    BY <1>4, <1>7, <2>2 DEF DeleteRole
<1>8. ASSUME LogRoleChange(r) PROVE TypeOK'
  <2>1. answer = [answer EXCEPT ![r] = "done"] /\ call = [call EXCEPT ![r] = call[r]]
    BY <1>8 DEF LogRoleChange, TypeOK, Fits
  <2>2. Moves(r, "done", call[r], "done") /\ Fits("done", call[r], "done")
    BY <1>8, <2>1 DEF LogRoleChange, GoOn, Moves, Fits
  <2>3. /\ accounts' \in [Admins -> Account \cup {NoAccount}] /\ Live \subseteq Live'
        /\ roles' \in [Roles -> RoleStates]
        /\ trail' \subseteq Requests /\ crossed' \subseteq Requests /\ changed' \subseteq Requests
    BY <1>8 DEF LogRoleChange, TypeOK, Live
  <2>4. QED
    BY <1>1, <2>2, <2>3, OwnCall, StepType
<1>9. QED
  BY <1>2, <1>5, <1>6, <1>7, <1>8

LEMMA StutterType == TypeOK /\ UNCHANGED vars => TypeOK'
<1> SUFFICES ASSUME TypeOK, UNCHANGED vars PROVE TypeOK'
  OBVIOUS
<1>1. \A r \in Requests : Fits(pc[r], call[r], answer[r])'
  BY DEF TypeOK, vars, Fits, Live
<1>2. QED
  BY <1>1 DEF TypeOK, vars

\* The handlers of /admin/admin-users and /admin/roles keep their tables' columns, and
\* each reaches a statement only with the call, and after the reads, that it needs there.
THEOREM TypeCorrect == Spec => []TypeOK
<1>1. TypeOK /\ [Next]_vars => TypeOK'
  <2> SUFFICES ASSUME TypeOK, [Next]_vars PROVE TypeOK'
    OBVIOUS
  <2>1. CASE UNCHANGED vars
    BY <2>1, StutterType
  <2>2. CASE Next
    BY <2>1, <2>2, AskStepsType, TestStepsType, AccountStepsType, RoleStepsType
       DEF Next, Spent
  <2>3. QED
    BY <2>1, <2>2
<1>2. QED
  BY <1>1, InitType, PTL DEF Spec

-----------------------------------------------------------------------------
(* Steps *)

Step(r) ==
  \/ \E by \in Admins :
       \/ \E who \in Admins, role \in Roles, p \in Providers \cup {NoProvider} :
            AskCreate(r, by, who, role, p)
       \/ \E who \in Admins, edit \in Edits : AskUpdate(r, by, who, edit)
       \/ \E id \in Roles, to \in {"plain", "manages"} :
            AskAddRole(r, by, id, to) \/ AskEditRole(r, by, id, to)
       \/ \E id \in Roles : AskRemoveRole(r, by, id)
  \/ FindAccount(r) \/ CheckRole(r) \/ CheckProvider(r)
  \/ CheckCapable(r) \/ CheckLast(r)
  \/ InsertAccount(r) \/ WriteAccount(r) \/ Audit(r)
  \/ FindRole(r) \/ InsertRole(r) \/ UpdateRole(r) \/ DeleteRole(r)
  \/ LogRoleChange(r)

LEMMA NextIsStep ==
  ASSUME [Next]_vars
  PROVE  UNCHANGED vars \/ \E r \in Requests : Step(r)
  BY DEF Next, Spent, Step

\* The step by which the guards admit or refuse request r.
Asks(r) == \E by, c, next : pc[r] = "idle" /\ next \in {"find", "insert"} /\ Admit(r, by, c, next)

LEMMA StepAsks ==
  ASSUME NEW r, Step(r)
  PROVE  \/ Asks(r)
         \/ FindAccount(r) \/ CheckRole(r) \/ CheckProvider(r)
         \/ CheckCapable(r) \/ CheckLast(r)
         \/ InsertAccount(r) \/ WriteAccount(r) \/ Audit(r)
         \/ FindRole(r) \/ InsertRole(r) \/ UpdateRole(r) \/ DeleteRole(r)
         \/ LogRoleChange(r)
<1>1. \A by, c, next : next \in {"find", "insert"} /\ Admit(r, by, c, next) => Asks(r)
  BY DEF Asks, Admit
<1>2. QED
  BY <1>1 DEF Step, AskCreate, AskUpdate, AskAddRole, AskEditRole, AskRemoveRole

\* The request that takes a step is not done yet, and no other changes.
LEMMA OneMoves ==
  ASSUME TypeOK, NEW r \in Requests, Step(r)
  PROVE  /\ pc[r] # "done"
         /\ \A q \in Requests \ {r} :
              pc'[q] = pc[q] /\ call'[q] = call[q] /\ answer'[q] = answer[q]
<1> DEFINE Alone ==
      \A q \in Requests \ {r} :
        pc'[q] = pc[q] /\ call'[q] = call[q] /\ answer'[q] = answer[q]
<1>1. /\ \A next : GoOn(r, next) => Alone
      /\ \A a : Finish(r, a) => Alone
      /\ AnswerThenLog(r) => Alone
      /\ Asks(r) => Alone
  BY DEF TypeOK, GoOn, Finish, AnswerThenLog, Asks, Admit
<1>2. \A who, row : Store(r, who, row) => Alone
  BY <1>1 DEF Store
<1>3. ASSUME FindAccount(r) PROVE Alone
  <2>1. \/ \E a : Finish(r, a)
        \/ \E next : GoOn(r, next)
        \/ /\ \E c : call' = [call EXCEPT ![r] = c]
           /\ \E p : pc' = [pc EXCEPT ![r] = p]
           /\ UNCHANGED answer
    BY <1>3 DEF FindAccount
  <2>2. QED
    BY <1>1, <2>1 DEF TypeOK
<1> HIDE DEF Alone
<1>4. CheckRole(r) \/ CheckProvider(r) \/ CheckCapable(r) \/ CheckLast(r) => Alone
  BY <1>1 DEF CheckRole, CheckProvider, CheckCapable, CheckLast
<1>5. InsertAccount(r) \/ WriteAccount(r) \/ Audit(r) => Alone
  BY <1>1, <1>2 DEF InsertAccount, WriteAccount, Audit
<1>6. FindRole(r) \/ InsertRole(r) \/ UpdateRole(r) \/ DeleteRole(r) \/ LogRoleChange(r) => Alone
  BY <1>1 DEF FindRole, InsertRole, UpdateRole, DeleteRole, LogRoleChange
<1>7. pc[r] # "done"
  BY StepAsks DEF Asks, FindAccount, CheckRole, CheckProvider, CheckCapable, CheckLast,
     InsertAccount, WriteAccount, Audit, FindRole, InsertRole, UpdateRole, DeleteRole,
     LogRoleChange
<1>8. QED
  BY <1>1, <1>3, <1>4, <1>5, <1>6, <1>7, StepAsks DEF Alone

\* Request r writes row as the account of who, and no key refuses it.
Writes(r, who, row) ==
  /\ row \in Account /\ who \in Admins
  /\ accounts' = [accounts EXCEPT ![who] = row]
  /\ roles[row.role] # "none"
  /\ row.provider \notin Providers \/ BoundTo(row.provider, who) = {}
  /\ \/ pc[r] = "insert" /\ who \notin Live
     \/ /\ pc[r] = "write" /\ call[r] \in Updates
        /\ who = call[r].who /\ who \in Live /\ row = NewRow(call[r])
  /\ pc' = [pc EXCEPT ![r] = "audit"]
  /\ Cross(r)
  /\ UNCHANGED <<roles, call, answer, trail>>

\* Request r writes row id of the roles table: a new role, an edit, or a deletion, which
\* the foreign key refuses while an account has the role.
SetsRole(r, id, to) ==
  /\ id \in Roles /\ to \in RoleStates
  /\ roles' = [roles EXCEPT ![id] = to]
  /\ \/ roles[id] = "none" /\ to # "none"
     \/ pc[r] = "update" /\ to # "none"
     \/ to = "none" /\ Holders(id) = {}
  /\ call[r] \in RoleCalls \cup Removals
  /\ pc' = [pc EXCEPT ![r] = "log"]
  /\ answer' = [answer EXCEPT ![r] = "done"]
  /\ Cross(r)
  /\ UNCHANGED <<accounts, call, trail>>

\* What a step does to the tables and to the answer of its request.
LEMMA StepCases ==
  ASSUME TypeOK, NEW r \in Requests, Step(r)
  PROVE  \/ /\ UNCHANGED <<accounts, roles, trail, crossed, changed>>
            /\ pc[r] \notin {"audit", "log"} /\ pc'[r] \notin {"audit", "log"}
            /\ answer'[r] # "done"
         \/ \E who, row : Writes(r, who, row)
         \/ \E id, to : SetsRole(r, id, to)
         \/ Audit(r)
         \/ LogRoleChange(r)
<1> DEFINE Quiet == /\ UNCHANGED <<accounts, roles, trail, crossed, changed>>
                    /\ pc[r] \notin {"audit", "log"} /\ pc'[r] \notin {"audit", "log"}
                    /\ answer'[r] # "done"
<1>1. pc[r] # "log" => answer[r] # "done"
  BY OneMoves DEF TypeOK, Fits
<1>2. ASSUME UNCHANGED <<accounts, roles, trail, crossed, changed>>,
             pc[r] \notin {"audit", "log"}
      PROVE  /\ \A next : next \notin {"audit", "log"} /\ GoOn(r, next) => Quiet
             /\ \A a : a # "done" /\ Finish(r, a) => Quiet
             /\ UNCHANGED answer /\ pc'[r] \notin {"audit", "log"} => Quiet
  BY <1>1, <1>2 DEF GoOn, Finish, TypeOK
<1>3. Asks(r) => Quiet
  BY <1>1 DEF Asks, Admit, TypeOK
<1> DEFINE Tests == {"provider", "insert", "write", "last", "capable"}
<1>14. \A c : AfterRole(c) \in Tests /\ AfterProvider(c) \in Tests
  BY DEF AfterRole, AfterProvider
<1>4. FindAccount(r) => Quiet
  BY <1>1, <1>2, <1>14 DEF FindAccount, TypeOK
<1>5. CheckRole(r) \/ CheckProvider(r) \/ CheckCapable(r) \/ CheckLast(r) => Quiet
  BY <1>2, <1>14 DEF CheckRole, CheckProvider, CheckCapable, CheckLast
<1>6. FindRole(r) => Quiet
  BY <1>2 DEF FindRole
<1>7. ASSUME InsertAccount(r) PROVE Quiet \/ \E who, row : Writes(r, who, row)
  <2> DEFINE row == [role |-> call[r].role, active |-> TRUE, provider |-> call[r].provider]
  <2>1. pc[r] = "insert" /\ call[r] \in Creations
    BY <1>7, OwnCall DEF InsertAccount
  <2>2. row \in Account /\ call[r].who \in Admins
    BY <2>1 DEF Creations, Account
  <2>3. CASE Finish(r, "CONFLICT") /\ UNCHANGED <<accounts, roles, trail, crossed, changed>>
    BY <1>2, <2>1, <2>3
  <2>4. CASE call[r].who \notin Live /\ Store(r, call[r].who, row)
    <3>1. CASE (Finish(r, "BAD_ROLE") \/ Finish(r, "CONFLICT")) /\ UNCHANGED <<accounts, crossed, changed>>
      BY <1>2, <2>1, <2>4, <3>1, StoreCases
    <3>2. CASE ~((Finish(r, "BAD_ROLE") \/ Finish(r, "CONFLICT")) /\ UNCHANGED <<accounts, crossed, changed>>)
      <4> HIDE DEF row
      <4>1. Writes(r, call[r].who, row)
        BY <2>1, <2>2, <2>4, <3>2, StoreCases DEF Writes, GoOn
      <4>2. QED
        BY <4>1
    <3>3. QED
      BY <3>1, <3>2
  <2>5. QED
    BY <1>7, <2>3, <2>4 DEF InsertAccount
<1>8. ASSUME WriteAccount(r) PROVE Quiet \/ \E who, row : Writes(r, who, row)
  <2> DEFINE row == NewRow(call[r])
  <2>1. pc[r] = "write" /\ call[r] \in Updates /\ call[r].who \in Live
    BY <1>8, OwnCall DEF WriteAccount, Fits
  <2>2. row \in Account /\ call[r].who \in Admins
    BY <2>1, NewRowType DEF Updates
  <2>3. Store(r, call[r].who, row)
    BY <1>8 DEF WriteAccount, NewRow
  <2>4. CASE (Finish(r, "BAD_ROLE") \/ Finish(r, "CONFLICT")) /\ UNCHANGED <<accounts, crossed, changed>>
    BY <1>2, <2>1, <2>3, <2>4, StoreCases
  <2>5. CASE ~((Finish(r, "BAD_ROLE") \/ Finish(r, "CONFLICT")) /\ UNCHANGED <<accounts, crossed, changed>>)
    <3>1. Writes(r, call[r].who, row)
      BY <2>1, <2>2, <2>3, <2>5, StoreCases DEF Writes, GoOn
    <3>2. QED
      BY <3>1
  <2>6. QED
    BY <2>4, <2>5
<1> HIDE DEF Quiet
<1>9. ASSUME NEW id \in Roles, NEW to \in RoleStates, call[r] \in RoleCalls \cup Removals,
             roles' = [roles EXCEPT ![id] = to], AnswerThenLog(r),
             \/ roles[id] = "none" /\ to # "none"
             \/ pc[r] = "update" /\ to # "none"
             \/ to = "none" /\ Holders(id) = {}
      PROVE  \E i, t : SetsRole(r, i, t)
  <2>1. SetsRole(r, id, to)
    BY <1>9 DEF SetsRole, AnswerThenLog
  <2>2. QED
    BY <2>1
<1>10. ASSUME InsertRole(r) PROVE Quiet \/ \E id, to : SetsRole(r, id, to)
  <2>1. pc[r] = "insert" /\ call[r] \in RoleCalls
    BY <1>10, OwnCall DEF InsertRole
  <2>2. call[r].id \in Roles /\ call[r].to \in RoleStates /\ call[r].to # "none"
    BY <2>1 DEF RoleCalls, RoleStates
  <2>3. QED
    BY <1>2, <1>9, <1>10, <2>1, <2>2 DEF InsertRole
<1>11. ASSUME UpdateRole(r) PROVE Quiet \/ \E id, to : SetsRole(r, id, to)
  <2>1. pc[r] = "update" /\ call[r] \in RoleCalls
    BY <1>11, OwnCall DEF UpdateRole, Fits
  <2>2. call[r].id \in Roles /\ call[r].to \in RoleStates /\ call[r].to # "none"
    BY <2>1 DEF RoleCalls, RoleStates
  <2>3. QED
    BY <1>2, <1>9, <1>11, <2>1, <2>2 DEF UpdateRole
<1>12. ASSUME DeleteRole(r) PROVE Quiet \/ \E id, to : SetsRole(r, id, to)
  <2>1. pc[r] = "delete" /\ call[r] \in Removals
    BY <1>12, OwnCall DEF DeleteRole, Fits
  <2>2. call[r].id \in Roles /\ "none" \in RoleStates
    BY <2>1 DEF Removals, RoleStates
  <2>3. QED
    BY <1>2, <1>9, <1>12, <2>1, <2>2 DEF DeleteRole
<1>13. QED
  BY <1>3, <1>4, <1>5, <1>6, <1>7, <1>8, <1>10, <1>11, <1>12, StepAsks DEF Quiet

-----------------------------------------------------------------------------
(* What the keys of the tables guarantee *)

LEMMA BindingsKept ==
  ASSUME TypeOK, BindingsHold, [Next]_vars
  PROVE  BindingsHold'
<1>1. CASE UNCHANGED <<accounts, roles>>
  BY <1>1 DEF BindingsHold, Live
<1>2. ASSUME NEW r, NEW who, NEW row, Writes(r, who, row) PROVE BindingsHold'
  <2>1. \A a \in Live' : \/ a = who /\ accounts'[a] = row
                         \/ a \in Live \ {who} /\ accounts'[a] = accounts[a]
    BY <1>2 DEF Writes, Live, TypeOK
  <2>2. \A a \in Live' : roles'[accounts'[a].role] # "none"
    BY <1>2, <2>1 DEF Writes, BindingsHold
  <2>3. \A a \in Live \ {who} : row.provider \in Providers => accounts[a].provider # row.provider
    BY <1>2 DEF Writes, BoundTo
  <2>4. ASSUME NEW a \in Live', NEW b \in Live', a # b, accounts'[a].provider \in Providers
        PROVE  accounts'[a].provider # accounts'[b].provider
    BY <2>1, <2>3, <2>4 DEF BindingsHold
  <2>5. QED
    BY <2>2, <2>4 DEF BindingsHold
<1>3. ASSUME NEW r, NEW id, NEW to, SetsRole(r, id, to) PROVE BindingsHold'
  <2>1. Live' = Live
    BY <1>3 DEF SetsRole, Live
  <2>2. ASSUME NEW a \in Live PROVE roles'[accounts[a].role] # "none"
    <3>1. accounts[a].role \in Roles /\ roles[accounts[a].role] # "none"
      BY DEF TypeOK, Live, Account, BindingsHold
    <3>2. accounts[a].role = id => to # "none"
      BY <1>3, <3>1 DEF SetsRole, Holders
    <3>3. QED
      BY <1>3, <3>1, <3>2 DEF SetsRole, TypeOK
  <2>3. QED
    BY <1>3, <2>1, <2>2 DEF BindingsHold, SetsRole
<1>4. QED
  BY <1>1, <1>2, <1>3, NextIsStep, StepCases DEF vars, Audit, LogRoleChange

\* The foreign key of role_id and the unique provider_id hold what assertRoleExists,
\* assertProviderFree and the count of RolesService.remove read too early to hold: every
\* account has a role, and no two accounts a provider.
THEOREM BindingsAlwaysHold == Spec => []BindingsHold
<1>1. Init => BindingsHold
  <2> SUFFICES ASSUME Init PROVE BindingsHold
    OBVIOUS
  <2>1. \A a \in Live : accounts[a].provider = NoProvider
    BY DEF Init, Live
  <2>2. QED
    BY <2>1, NullAssumption DEF Init, BindingsHold
<1>2. QED
  BY <1>1, BindingsKept, TypeCorrect, PTL DEF Spec

-----------------------------------------------------------------------------
(* The audit trail *)

\* A request has changed a table exactly when its write is behind it: from the
\* statement that records the change on, and in no earlier one.
ChangedWhenWritten ==
  \A r \in Requests :
    /\ pc[r] \in {"audit", "log"} => r \in changed
    /\ r \in changed => pc[r] \in {"audit", "log", "done"}

TrailInv == TrailMatchesChanges /\ ChangedWhenWritten

LEMMA TrailKept ==
  ASSUME TypeOK, TrailInv, [Next]_vars
  PROVE  TrailInv'
<1>1. CASE UNCHANGED vars
  BY <1>1 DEF vars, TrailInv, TrailMatchesChanges, ChangedWhenWritten
<1>2. ASSUME NEW r \in Requests, Step(r) PROVE TrailInv'
  <2> DEFINE Good(q) ==
        /\ q \in trail' => q \in changed'
        /\ answer'[q] = "done" => q \in changed'
        /\ answer'[q] \notin {"none", "done", "ERROR"} => q \notin changed'
        /\ pc'[q] = "done" /\ q \in changed' \ trail' =>
             answer'[q] = "ERROR" \/ call'[q].kind \notin {"create", "update"}
        /\ pc'[q] \in {"audit", "log"} => q \in changed'
        /\ q \in changed' => pc'[q] \in {"audit", "log", "done"}
  <2>1. /\ trail \subseteq trail' /\ trail' \subseteq trail \cup {r}
        /\ changed \subseteq changed' /\ changed' \subseteq changed \cup {r}
    BY <1>2, StepCases DEF Writes, SetsRole, Audit, LogRoleChange, Cross
  <2>2. ASSUME NEW q \in Requests, q # r PROVE Good(q)
    <3>1. pc'[q] = pc[q] /\ call'[q] = call[q] /\ answer'[q] = answer[q]
      BY <1>2, <2>2, OneMoves
    <3>2. (q \in trail' <=> q \in trail) /\ (q \in changed' <=> q \in changed)
      BY <2>1, <2>2
    <3>3. QED
      BY <3>1, <3>2 DEF TrailInv, TrailMatchesChanges, ChangedWhenWritten
  <2>3. pc[r] # "log" => answer[r] = "none"
    BY <1>2, OneMoves DEF TypeOK, Fits
  <2>4. /\ pc[r] \in {"audit", "log"} => r \in changed
        /\ r \in changed => pc[r] \in {"audit", "log"}
        /\ r \in trail => r \in changed
    BY <1>2, OneMoves DEF TrailInv, TrailMatchesChanges, ChangedWhenWritten
  <2>5. ASSUME UNCHANGED <<trail, changed>>, pc[r] \notin {"audit", "log"},
               pc'[r] \notin {"audit", "log"}, answer'[r] # "done"
        PROVE  Good(r)
    BY <2>4, <2>5
  <2>6. ASSUME NEW who, NEW row, Writes(r, who, row) PROVE Good(r)
    <3>1. pc'[r] = "audit" /\ answer'[r] = "none" /\ r \in changed'
      BY <2>3, <2>6 DEF Writes, Cross, TypeOK
    <3>2. QED
      BY <3>1
  <2>7. ASSUME NEW id, NEW to, SetsRole(r, id, to) PROVE Good(r)
    <3>1. pc'[r] = "log" /\ answer'[r] = "done" /\ r \in changed'
      BY <2>7 DEF SetsRole, Cross, TypeOK
    <3>2. QED
      BY <3>1
  <2>8. ASSUME Audit(r) PROVE Good(r)
    <3>1. pc'[r] = "done" /\ r \in changed'
      BY <2>4, <2>8 DEF Audit, Finish, TypeOK
    <3>2. \/ answer'[r] = "done" /\ r \in trail'
          \/ answer'[r] = "ERROR"
      BY <2>8 DEF Audit, Finish, TypeOK
    <3>3. QED
      BY <3>1, <3>2
  <2>9. ASSUME LogRoleChange(r) PROVE Good(r)
    <3>1. call'[r] \in RoleCalls \cup Removals /\ answer'[r] = "done" /\ pc'[r] = "done"
            /\ r \in changed'
      BY <2>4, <2>9, OwnCall DEF LogRoleChange, GoOn, Fits, TypeOK
    <3>2. call'[r].kind \notin {"create", "update"}
      BY <3>1 DEF RoleCalls, Removals
    <3>3. QED
      BY <3>1, <3>2
  <2>10. Good(r)
    BY <1>2, <2>5, <2>6, <2>7, <2>8, <2>9, StepCases
  <2>11. \A q \in Requests : Good(q)
    BY <2>2, <2>10
  <2>12. QED
    BY <2>11 DEF TrailInv, TrailMatchesChanges, ChangedWhenWritten
<1>3. QED
  BY <1>1, <1>2, NextIsStep

\* AdminUsersService awaits its audit entry outside the transaction of the account: whom
\* it answers "done" has changed the account and is in the trail, whom it refuses has
\* changed nothing, and when the entry cannot be written the change stays and the caller
\* is told of an error.  No entry stands for a change that did not happen.
THEOREM ChangesAudited == Spec => []TrailMatchesChanges
<1>1. Init => TrailInv
  BY DEF Init, TrailInv, TrailMatchesChanges, ChangedWhenWritten
<1>2. TrailInv => TrailMatchesChanges
  BY DEF TrailInv
<1>3. QED
  BY <1>1, <1>2, TrailKept, TypeCorrect, PTL DEF Spec

-----------------------------------------------------------------------------
(* The last manager *)

\* The statements between an update's reading of the account and its writing of it.
Checking == {"role", "provider", "capable", "last", "write"}

\* What an update read still holds while no other request has changed a table beside
\* it: the role of the account, and by "write" either that it takes no rights away, or
\* gives a role that manages, or that another manager is left.
ReadsHold ==
  \A r \in Requests \ crossed :
    call[r] \in Updates =>
      /\ pc[r] \in Checking => call[r].had = accounts[call[r].who].role
      /\ pc[r] = "capable" => call[r].edit.active # FALSE
      /\ pc[r] = "write" =>
           \/ ~LosesRights(call[r])
           \/ call[r].edit.active # FALSE /\ roles[call[r].edit.role] = "manages"
           \/ Managers # {call[r].who}

\* How a request comes to one of these statements: by its own tests.
LEMMA ChecksOnly ==
  ASSUME TypeOK, NEW r \in Requests, Step(r), pc'[r] \in Checking
  PROVE  FindAccount(r) \/ CheckRole(r) \/ CheckProvider(r) \/ CheckCapable(r) \/ CheckLast(r)
<1>1. ~Asks(r)
  BY DEF Asks, Admit, Checking, TypeOK
<1>2. ~InsertAccount(r) /\ ~WriteAccount(r) /\ ~Audit(r)
  BY DEF InsertAccount, WriteAccount, Audit, Store, Finish, GoOn, Checking, TypeOK
<1>3. ~FindRole(r) /\ ~InsertRole(r) /\ ~UpdateRole(r) /\ ~DeleteRole(r) /\ ~LogRoleChange(r)
  BY DEF FindRole, InsertRole, UpdateRole, DeleteRole, LogRoleChange, AnswerThenLog, Finish,
     GoOn, Checking, TypeOK
<1>4. QED
  BY <1>1, <1>2, <1>3, StepAsks

LEMMA ReadsKept ==
  ASSUME TypeOK, ReadsHold, [Next]_vars
  PROVE  ReadsHold'
<1>1. CASE UNCHANGED vars
  BY <1>1 DEF vars, ReadsHold, Managers, Live
<1> DEFINE Holds(q) ==
      call'[q] \in Updates =>
        /\ pc'[q] \in Checking => call'[q].had = accounts'[call'[q].who].role
        /\ pc'[q] = "capable" => call'[q].edit.active # FALSE
        /\ pc'[q] = "write" =>
             \/ ~LosesRights(call'[q])
             \/ call'[q].edit.active # FALSE /\ roles'[call'[q].edit.role] = "manages"
             \/ Managers' # {call'[q].who}
<1>2. ASSUME NEW r \in Requests, Step(r) PROVE ReadsHold'
  <2>1. UNCHANGED <<accounts, roles, crossed, changed>> \/ Cross(r)
    BY <1>2, StepCases DEF Writes, SetsRole, Audit, LogRoleChange
  <2>2. ASSUME NEW q \in Requests \ crossed', q # r PROVE Holds(q)
    <3>1. q \notin crossed /\ pc'[q] = pc[q] /\ call'[q] = call[q]
      BY <1>2, <2>1, <2>2, OneMoves DEF Cross
    <3>2. CASE pc[q] \notin Checking
      BY <3>1, <3>2 DEF Checking
    <3>3. CASE pc[q] \in Checking
      <4>1. UNCHANGED <<accounts, roles>>
        BY <2>1, <2>2, <3>3 DEF Cross, Checking
      <4>2. Managers' = Managers
        BY <4>1 DEF Managers, Live
      <4>3. QED
        BY <3>1, <4>1, <4>2 DEF ReadsHold
    <3>4. QED
      BY <3>2, <3>3
  <2>3. ASSUME r \notin crossed', call'[r] \in Updates, pc'[r] \in Checking PROVE Holds(r)
    <3>1. FindAccount(r) \/ CheckRole(r) \/ CheckProvider(r) \/ CheckCapable(r) \/ CheckLast(r)
      BY <1>2, <2>3, ChecksOnly
    <3>2. UNCHANGED <<accounts, roles, crossed, changed>>
      BY <3>1 DEF FindAccount, CheckRole, CheckProvider, CheckCapable, CheckLast
    <3>3. Managers' = Managers
      BY <3>2 DEF Managers, Live
    <3>4. LosesRights(call'[r]) /\ AfterProvider(call'[r]) = "capable"
            => call'[r].edit.active # FALSE
      BY DEF AfterProvider
    <3>5. call'[r].kind = "update"
      BY <2>3 DEF Updates
    <3>6. CASE FindAccount(r)
      <4>1. /\ call'[r].had = accounts[call'[r].who].role
            /\ pc'[r] \in {"role", AfterRole(call'[r])}
        <5>1. call[r].kind = "update"
          BY <2>3, <3>5, <3>6 DEF FindAccount, Finish, GoOn, Checking
        <5>2. call[r] \in Updates
          BY <5>1, OwnCall
        <5>3. call'[r] = [call[r] EXCEPT !.had = accounts[call[r].who].role]
                /\ pc'[r] \in {"role", AfterRole(call'[r])}
          BY <2>3, <3>6, <5>1 DEF FindAccount, Finish, TypeOK, Checking
        <5>4. QED
          BY <5>2, <5>3 DEF Updates
      <4>2. pc'[r] = "write" => ~LosesRights(call'[r])
        BY <3>5, <4>1 DEF AfterRole, AfterProvider
      <4>3. pc'[r] = "capable" => call'[r].edit.active # FALSE
        BY <3>5, <4>1 DEF AfterRole, AfterProvider
      <4>4. QED
        BY <3>2, <4>1, <4>2, <4>3
    <3>7. CASE ~FindAccount(r)
      <4>1. call'[r] = call[r] /\ pc[r] \in Checking
        BY <2>3, <3>1, <3>7 DEF CheckRole, CheckProvider, CheckCapable, CheckLast, Finish,
           GoOn, Checking
      <4>2. call[r].had = accounts[call[r].who].role
        BY <2>3, <3>2, <4>1 DEF ReadsHold
      <4>3. CASE CheckRole(r) \/ CheckProvider(r)
        <5>1. pc'[r] \in {AfterRole(call[r]), AfterProvider(call[r])}
          BY <2>3, <4>3 DEF CheckRole, CheckProvider, Finish, GoOn, TypeOK, Checking
        <5>2. pc'[r] = "write" => ~LosesRights(call[r])
          BY <3>5, <4>1, <5>1 DEF AfterRole, AfterProvider
        <5>3. pc'[r] = "capable" => call[r].edit.active # FALSE
          BY <3>5, <4>1, <5>1 DEF AfterRole, AfterProvider
        <5>4. QED
          BY <3>2, <4>1, <4>2, <5>2, <5>3
      <4>4. CASE CheckCapable(r)
        <5>1. /\ pc'[r] = "write" => roles[call[r].edit.role] = "manages"
              /\ pc'[r] # "capable"
          BY <4>4 DEF CheckCapable, GoOn, TypeOK
        <5>2. call[r].edit.active # FALSE
          BY <2>3, <3>2, <4>1, <4>4 DEF ReadsHold, CheckCapable
        <5>3. QED
          BY <3>2, <4>1, <4>2, <5>1, <5>2
      <4>5. CASE CheckLast(r)
        <5>1. pc'[r] = "write" /\ Managers # {call[r].who}
          BY <2>3, <4>5 DEF CheckLast, Finish, GoOn, TypeOK, Checking
        <5>2. QED
          BY <3>2, <3>3, <4>1, <4>2, <5>1
      <4>6. QED
        BY <3>1, <3>7, <4>3, <4>4, <4>5
    <3>8. QED
      BY <3>6, <3>7
  <2>4. \A q \in Requests \ crossed' : Holds(q)
    BY <2>2, <2>3 DEF Checking
  <2>5. QED
    BY <2>4 DEF ReadsHold, LosesRights
<1>3. QED
  BY <1>1, <1>2, NextIsStep

\* The write of an update that nothing crossed leaves a manager.
LEMMA WriteLeavesManager ==
  ASSUME TypeOK, ReadsHold, NEW r \in Requests, NEW who, NEW row, Writes(r, who, row),
         Managers # {}, Managers' = {}
  PROVE  pc[r] = "write" /\ r \in crossed
<1>1. \A a \in Live \ {who} : a \in Live' /\ accounts'[a] = accounts[a]
  BY DEF Writes, Live, TypeOK
<1>2. \A a \in Managers \ {who} : a \in Managers'
  BY <1>1 DEF Managers, Writes
<1>3. Managers = {who}
  BY <1>2
<1>4. pc[r] = "write" /\ call[r] \in Updates /\ who = call[r].who /\ row = NewRow(call[r])
  BY <1>3 DEF Writes, Managers
<1>5. accounts'[who] = row /\ who \in Live'
  BY <1>3, NullAssumption DEF Writes, Live, TypeOK
<1>6. ~(row.active /\ roles[row.role] = "manages")
  BY <1>5 DEF Managers, Writes
<1>7. accounts[who].active /\ roles[accounts[who].role] = "manages"
  BY <1>3 DEF Managers
<1>8. call[r].edit \in AllEdits
  BY <1>4 DEF Updates
<1>9. call[r].edit.active # FALSE => row.active
  <2>1. call[r].edit.active \in {TRUE, FALSE, Keep}
    BY <1>8 DEF AllEdits
  <2>2. QED
    BY <1>4, <1>7, <2>1 DEF NewRow, Given
<1>10. row.role \in {accounts[who].role, call[r].edit.role}
         /\ (call[r].edit.role = Keep => row.role = accounts[who].role)
         /\ (call[r].edit.role # Keep => row.role = call[r].edit.role)
  BY <1>4 DEF NewRow, Given
<1>11. SUFFICES ASSUME r \notin crossed PROVE FALSE
  BY <1>4
<1>12. /\ call[r].had = accounts[who].role
       /\ \/ ~LosesRights(call[r])
          \/ call[r].edit.active # FALSE /\ roles[call[r].edit.role] = "manages"
  BY <1>3, <1>4, <1>11 DEF ReadsHold, Checking
<1>13. CASE ~LosesRights(call[r])
  BY <1>6, <1>7, <1>9, <1>10, <1>12, <1>13 DEF LosesRights
<1>14. CASE call[r].edit.active # FALSE /\ roles[call[r].edit.role] = "manages"
  BY <1>6, <1>7, <1>9, <1>10, <1>14
<1>15. QED
  BY <1>12, <1>13, <1>14

\* A change of the roles table takes the last manager away only as the edit of a role.
LEMMA RoleLeavesManager ==
  ASSUME TypeOK, NEW r \in Requests, NEW id, NEW to, SetsRole(r, id, to),
         Managers # {}, Managers' = {}
  PROVE  pc[r] = "update" /\ pc'[r] = "log"
<1>1. PICK a \in Managers : TRUE
  OBVIOUS
<1>2. a \in Live /\ a \in Live' /\ accounts'[a] = accounts[a] /\ accounts[a].role \in Roles
  BY DEF Managers, Live, SetsRole, TypeOK, Account
<1>3. roles'[accounts[a].role] # "manages" /\ roles[accounts[a].role] = "manages"
  BY <1>2 DEF Managers
<1>4. accounts[a].role = id
  BY <1>2, <1>3 DEF SetsRole, TypeOK
<1>5. roles[id] # "none" /\ a \in Holders(id)
  BY <1>2, <1>3, <1>4 DEF Holders
<1>6. QED
  BY <1>5 DEF SetsRole, TypeOK

\* assertNotLastManager reads before it writes, in no transaction: an update beside
\* which nothing else changed never takes the last manager away, whatever fields it
\* changes; only overlap does, or the edit of a role, which RolesService does not guard.
THEOREM LastManagerKept == Spec => LastManagerOnlyByOverlap
<1>1. Init => ReadsHold
  BY DEF Init, ReadsHold, Checking
<1>2. ASSUME TypeOK, ReadsHold, [Next]_vars, Managers # {}, Managers' = {}
      PROVE  \E r \in Requests :
               \/ pc[r] = "write" /\ pc'[r] = "audit" /\ r \in crossed
               \/ pc[r] = "update" /\ pc'[r] = "log"
  <2>1. ~UNCHANGED <<accounts, roles>>
    BY <1>2 DEF Managers, Live
  <2>2. PICK r \in Requests : \/ \E who, row : Writes(r, who, row)
                              \/ \E id, to : SetsRole(r, id, to)
    BY <1>2, <2>1, NextIsStep, StepCases DEF vars, Audit, LogRoleChange
  <2>3. ASSUME NEW who, NEW row, Writes(r, who, row) PROVE pc'[r] = "audit"
    BY <1>2, <2>3 DEF Writes, TypeOK
  <2>4. QED
    BY <1>2, <2>2, <2>3, WriteLeavesManager, RoleLeavesManager
<1>3. TypeOK /\ ReadsHold /\ [Next]_vars =>
        [Managers # {} /\ Managers' = {} =>
           \E r \in Requests :
             \/ pc[r] = "write" /\ pc'[r] = "audit" /\ r \in crossed
             \/ pc[r] = "update" /\ pc'[r] = "log"]_vars
  BY <1>2
<1>4. QED
  BY <1>1, <1>3, ReadsKept, TypeCorrect, PTL DEF Spec, LastManagerOnlyByOverlap
=============================================================================
