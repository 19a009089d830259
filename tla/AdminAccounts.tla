--------------------------- MODULE AdminAccounts ---------------------------
(***************************************************************************)
(* Administrator accounts and roles: /admin/admin-users (create, update)   *)
(* and /admin/roles (create, update, delete), with the guard in front of   *)
(* them and the audit trail behind them.                                   *)
(*                                                                         *)
(* A request is one handler invocation, made by one administrator; each    *)
(* statement it awaits is one step.  Of a role's permissions only          *)
(* roles:write matters, which reaches all of these routes: a role manages  *)
(* or is plain.  Accounts are named by their e-mail address.               *)
(***************************************************************************)

CONSTANTS
  Requests,     \* concurrent handler invocations
  Admins,       \* addresses that accounts have or may be given
  Roles,        \* ids that roles have or may be given
  Providers,    \* service providers an account may be bound to
  Edits,        \* bodies of PATCH /admin/admin-users/:id that callers send
  Kinds,        \* the kinds of call made: a subset of AllKinds
  NoAccount, NoProvider, Keep

AllKinds == {"create", "update", "addrole", "editrole", "removerole"}

\* A body leaves out the fields it keeps.
AllEdits == [role : Roles \cup {Keep}, active : BOOLEAN \cup {Keep},
             provider : Providers \cup {NoProvider, Keep}]

Account == [role : Roles, active : BOOLEAN, provider : Providers \cup {NoProvider}]

ASSUME EditsAssumption == Edits \subseteq AllEdits
ASSUME KindsAssumption == Kinds \subseteq AllKinds
ASSUME NullAssumption ==
  /\ Keep \notin Roles \cup BOOLEAN \cup Providers \cup {NoProvider}
  /\ NoProvider \notin Providers
  /\ NoAccount \notin Account

VARIABLES
  accounts,     \* the admin_users table
  roles,        \* the roles table
  trail,        \* the activity_log table: the requests it has an entry of
  pc,           \* the statement each request executes next
  call,         \* the arguments of its call, and what its reads found
  answer,       \* what its caller is told
  crossed,      \* history: the requests that another request changed a
                \* table beside, before their own write
  changed       \* history: the requests that changed a table

vars == <<accounts, roles, trail, pc, call, answer, crossed, changed>>

-----------------------------------------------------------------------------
(* Types *)

RoleStates == {"none", "plain", "manages"}

Creations == [kind : {"create"}, who : Admins, role : Roles,
              provider : Providers \cup {NoProvider}]
\* Of the caller only `self` is kept, that it is the account to be changed;
\* `had` is the role that the handler read.
Updates == [kind : {"update"}, who : Admins, self : BOOLEAN, edit : AllEdits,
            had : Roles \cup {Keep}]
RoleCalls == [kind : {"addrole", "editrole"}, id : Roles, to : {"plain", "manages"}]
Removals == [kind : {"removerole"}, id : Roles]
NoCall == [kind |-> "none"]
Calls == Creations \cup Updates \cup RoleCalls \cup Removals \cup {NoCall}

Answers == {"none", "done", "FORBIDDEN", "NOT_FOUND", "BAD_ROLE", "CONFLICT",
            "LAST_MANAGER", "ROLE_IN_USE", "ERROR"}

Statements == {"idle", "find", "role", "provider", "capable", "last", "insert",
               "update", "write", "delete", "audit", "log", "done"}

Live == {a \in Admins : accounts[a] # NoAccount}

\* The call c that fits statement p and answer a.
Fits(p, c, a) ==
  /\ p = "idle" => c = NoCall
  /\ p = "find" => c.kind \notin {"none", "addrole"}
  /\ p = "insert" => c.kind \in {"create", "addrole"}
  /\ p \in {"role", "provider", "audit"} => c \in Creations \cup Updates
  /\ p \in {"capable", "last", "write"} => c \in Updates
  /\ c \in Updates /\ p \in {"role", "capable"} => c.edit.role # Keep
  /\ c \in Updates /\ p \notin {"find", "done"} => c.who \in Live /\ c.had # Keep
  /\ p = "update" => c.kind = "editrole"
  /\ p = "delete" => c.kind = "removerole"
  /\ p = "log" => c \in RoleCalls \cup Removals /\ a = "done"
  /\ p \notin {"log", "done"} => a = "none"

TypeOK ==
  /\ accounts \in [Admins -> Account \cup {NoAccount}]
  /\ roles \in [Roles -> RoleStates]
  /\ trail \subseteq Requests
  /\ pc \in [Requests -> Statements]
  /\ call \in [Requests -> Calls]
  /\ answer \in [Requests -> Answers]
  /\ crossed \subseteq Requests /\ changed \subseteq Requests
  /\ \A r \in Requests : Fits(pc[r], call[r], answer[r])

-----------------------------------------------------------------------------

\* Active accounts whose role has roles:write.
Managers == {a \in Live : accounts[a].active /\ roles[accounts[a].role] = "manages"}

\* The seed leaves one manager; some accounts may have been added since.
Init ==
  /\ roles \in [Roles -> RoleStates]
  /\ accounts \in [Admins -> {NoAccount} \cup
                     {a \in Account : a.active /\ a.provider = NoProvider}]
  /\ \A a \in Live : roles[accounts[a].role] # "none"
  /\ Managers # {}
  /\ trail = {}
  /\ pc = [r \in Requests |-> "idle"]
  /\ call = [r \in Requests |-> NoCall]
  /\ answer = [r \in Requests |-> "none"]
  /\ crossed = {} /\ changed = {}

\* Request r, made by account `by`, passes the guards and goes on with call c
\* to statement next, or is refused: JwtAccessStrategy, JwtAuthGuard and
\* RolesGuard read the caller's account and role together.
Admit(r, by, c, next) ==
  /\ pc[r] = "idle"
  /\ c.kind \in Kinds
  /\ by \in Live
  /\ \/ /\ by \in Managers
        /\ call' = [call EXCEPT ![r] = c]
        /\ pc' = [pc EXCEPT ![r] = next]
        /\ UNCHANGED answer
     \/ /\ by \notin Managers
        /\ pc' = [pc EXCEPT ![r] = "done"]
        /\ answer' = [answer EXCEPT ![r] = "FORBIDDEN"]
        /\ UNCHANGED call
  /\ UNCHANGED <<accounts, roles, trail, crossed, changed>>

\* Request r changes a table.
Cross(r) ==
  /\ changed' = changed \cup {r}
  /\ crossed' = crossed \cup
       {q \in Requests \ {r} : pc[q] \notin {"idle", "audit", "log", "done"}}

GoOn(r, next) ==
  /\ pc' = [pc EXCEPT ![r] = next]
  /\ UNCHANGED <<call, answer>>

Finish(r, a) ==
  /\ pc' = [pc EXCEPT ![r] = "done"]
  /\ answer' = [answer EXCEPT ![r] = a]
  /\ UNCHANGED call

-----------------------------------------------------------------------------
(* POST and PATCH /admin/admin-users: AdminUsersService.create and update *)

RoleOf(c) == IF c.kind = "create" THEN c.role ELSE c.edit.role
ProviderOf(c) == IF c.kind = "create" THEN c.provider ELSE c.edit.provider

\* Mutant: a change of role is not thought to take rights away.
LosesRightsIfDisabled(c) == c.edit.active = FALSE

\* Whether update takes the account's rights away, by what it read before.
LosesRights(c) ==
  c.edit.active = FALSE \/ (c.edit.role # Keep /\ c.edit.role # c.had)

\* The tests that follow each other, in the order of the code; they skip the
\* fields a body leaves out.
AfterProvider(c) ==
  IF c.kind = "create" THEN "insert"
  ELSE IF ~LosesRights(c) THEN "write"
  ELSE IF c.edit.active = FALSE THEN "last" ELSE "capable"

AfterRole(c) ==
  IF ProviderOf(c) \in Providers THEN "provider" ELSE AfterProvider(c)

AskCreate(r, by, who, role, provider) ==
  Admit(r, by, [kind |-> "create", who |-> who, role |-> role,
                provider |-> provider], "find")

AskUpdate(r, by, who, edit) ==
  Admit(r, by, [kind |-> "update", who |-> who, self |-> by = who, edit |-> edit,
                had |-> Keep], "find")

\* create looks for the address, update for the account and its role.
FindAccount(r) ==
  LET c == call[r]
      read == [c EXCEPT !.had = accounts[c.who].role]
  IN
  /\ pc[r] = "find"
  /\ \/ /\ c.kind = "create"
        /\ IF c.who \in Live THEN Finish(r, "CONFLICT") ELSE GoOn(r, "role")
     \/ c.kind = "update" /\ c.who \notin Live /\ Finish(r, "NOT_FOUND")
     \/ /\ c.kind = "update" /\ c.who \in Live
        /\ c.edit.active = FALSE /\ c.self
        /\ Finish(r, "FORBIDDEN")
     \/ /\ c.kind = "update" /\ c.who \in Live
        /\ ~(c.edit.active = FALSE /\ c.self)
        /\ call' = [call EXCEPT ![r] = read]
        /\ pc' = [pc EXCEPT ![r] = IF c.edit.role # Keep THEN "role"
                                   ELSE AfterRole(read)]
        /\ UNCHANGED answer
  /\ UNCHANGED <<accounts, roles, trail, crossed, changed>>

\* assertRoleExists
CheckRole(r) ==
  /\ pc[r] = "role"
  /\ IF roles[RoleOf(call[r])] = "none" THEN Finish(r, "BAD_ROLE")
     ELSE GoOn(r, AfterRole(call[r]))
  /\ UNCHANGED <<accounts, roles, trail, crossed, changed>>

\* The accounts other than who that are bound to provider p.
BoundTo(p, who) == {a \in Live \ {who} : accounts[a].provider = p}

\* assertProviderFree; the provider itself exists.
CheckProvider(r) ==
  LET c == call[r] IN
  /\ pc[r] = "provider"
  /\ IF BoundTo(ProviderOf(c), c.who) # {} THEN Finish(r, "CONFLICT")
     ELSE GoOn(r, AfterProvider(c))
  /\ UNCHANGED <<accounts, roles, trail, crossed, changed>>

\* roleCanManage
CheckCapable(r) ==
  /\ pc[r] = "capable"
  /\ GoOn(r, IF roles[call[r].edit.role] = "manages" THEN "write" ELSE "last")
  /\ UNCHANGED <<accounts, roles, trail, crossed, changed>>

\* assertNotLastManager
CheckLast(r) ==
  /\ pc[r] = "last"
  /\ IF Managers = {call[r].who} THEN Finish(r, "LAST_MANAGER") ELSE GoOn(r, "write")
  /\ UNCHANGED <<accounts, roles, trail, crossed, changed>>

\* The table takes row as the account of who, unless a foreign key or a unique
\* index refuses it: P2003 for the role, P2002 for the provider.
Store(r, who, row) ==
  /\ \/ /\ roles[row.role] = "none"
        /\ Finish(r, "BAD_ROLE")
        /\ UNCHANGED <<accounts, crossed, changed>>
     \/ /\ roles[row.role] # "none"
        /\ row.provider \in Providers /\ BoundTo(row.provider, who) # {}
        /\ Finish(r, "CONFLICT")
        /\ UNCHANGED <<accounts, crossed, changed>>
     \/ /\ roles[row.role] # "none"
        /\ row.provider \notin Providers \/ BoundTo(row.provider, who) = {}
        /\ accounts' = [accounts EXCEPT ![who] = row]
        /\ Cross(r)
        /\ GoOn(r, "audit")
  /\ UNCHANGED <<roles, trail>>

InsertAccount(r) ==
  LET c == call[r] IN
  /\ pc[r] = "insert" /\ c.kind = "create"
  /\ \/ /\ c.who \in Live    \* the address is unique
        /\ Finish(r, "CONFLICT")
        /\ UNCHANGED <<accounts, roles, trail, crossed, changed>>
     \/ /\ c.who \notin Live
        /\ Store(r, c.who, [role |-> c.role, active |-> TRUE, provider |-> c.provider])

Given(value, old) == IF value = Keep THEN old ELSE value

\* Mutant: the binding is written even when the body leaves it out.
WriteAccountUnbinding(r) ==
  LET e == call[r].edit
      old == accounts[call[r].who]
  IN
  /\ pc[r] = "write"
  /\ Store(r, call[r].who, [role |-> Given(e.role, old.role),
                            active |-> Given(e.active, old.active),
                            provider |-> e.provider])

WriteAccount(r) ==
  LET e == call[r].edit
      old == accounts[call[r].who]
  IN
  /\ pc[r] = "write"
  /\ Store(r, call[r].who, [role |-> Given(e.role, old.role),
                            active |-> Given(e.active, old.active),
                            provider |-> Given(e.provider, old.provider)])

\* Mutant: a failure of the insert is swallowed, as the interceptor does.
AuditSwallowing(r) ==
  /\ pc[r] = "audit"
  /\ trail' \in {trail, trail \cup {r}}
  /\ Finish(r, "done")
  /\ UNCHANGED <<accounts, roles, crossed, changed>>

\* The service writes the audit entry before it answers, but in no transaction
\* with the account: when the insert fails the caller is told of an error, and
\* the account stays as it was written.
Audit(r) ==
  /\ pc[r] = "audit"
  /\ \/ trail' = trail \cup {r} /\ Finish(r, "done")
     \/ Finish(r, "ERROR") /\ UNCHANGED trail
  /\ UNCHANGED <<accounts, roles, crossed, changed>>

-----------------------------------------------------------------------------
(* /admin/roles: RolesService.create, update and remove *)

AskAddRole(r, by, id, to) ==
  Admit(r, by, [kind |-> "addrole", id |-> id, to |-> to], "insert")

AskEditRole(r, by, id, to) ==
  Admit(r, by, [kind |-> "editrole", id |-> id, to |-> to], "find")

AskRemoveRole(r, by, id) ==
  Admit(r, by, [kind |-> "removerole", id |-> id], "find")

Holders(id) == {a \in Live : accounts[a].role = id}

\* findOne, and remove's own reading, which counts the accounts of the role.
FindRole(r) ==
  LET c == call[r] IN
  /\ pc[r] = "find"
  /\ \/ /\ c.kind \in {"editrole", "removerole"} /\ roles[c.id] = "none"
        /\ Finish(r, "NOT_FOUND")
     \/ c.kind = "editrole" /\ roles[c.id] # "none" /\ GoOn(r, "update")
     \/ /\ c.kind = "removerole" /\ roles[c.id] # "none"
        /\ IF Holders(c.id) # {} THEN Finish(r, "ROLE_IN_USE") ELSE GoOn(r, "delete")
  /\ UNCHANGED <<accounts, roles, trail, crossed, changed>>

\* The answer leaves while the interceptor's entry is still to be written.
AnswerThenLog(r) ==
  /\ Cross(r)
  /\ pc' = [pc EXCEPT ![r] = "log"]
  /\ answer' = [answer EXCEPT ![r] = "done"]
  /\ UNCHANGED <<call, accounts, trail>>

\* A new role has a new id.
InsertRole(r) ==
  LET c == call[r] IN
  /\ pc[r] = "insert" /\ c.kind = "addrole"
  /\ \/ /\ roles[c.id] = "none"
        /\ roles' = [roles EXCEPT ![c.id] = c.to]
        /\ AnswerThenLog(r)
     \/ /\ roles[c.id] # "none"    \* its name is taken
        /\ Finish(r, "CONFLICT")
        /\ UNCHANGED <<accounts, roles, trail, crossed, changed>>

UpdateRole(r) ==
  LET c == call[r] IN
  /\ pc[r] = "update"
  /\ \/ /\ roles[c.id] # "none"
        /\ roles' = [roles EXCEPT ![c.id] = c.to]
        /\ AnswerThenLog(r)
     \/ /\ roles[c.id] = "none"
        /\ Finish(r, "NOT_FOUND")
        /\ UNCHANGED <<accounts, roles, trail, crossed, changed>>

\* Mutant: role_id has no foreign key.
DeleteRoleUnlinked(r) ==
  /\ pc[r] = "delete"
  /\ roles' = [roles EXCEPT ![call[r].id] = "none"]
  /\ AnswerThenLog(r)

\* The foreign key refuses a role that an account was given meanwhile.
DeleteRole(r) ==
  LET c == call[r] IN
  /\ pc[r] = "delete"
  /\ \/ /\ roles[c.id] # "none" /\ Holders(c.id) = {}
        /\ roles' = [roles EXCEPT ![c.id] = "none"]
        /\ AnswerThenLog(r)
     \/ /\ roles[c.id] = "none" \/ Holders(c.id) # {}
        /\ Finish(r, IF roles[c.id] = "none" THEN "NOT_FOUND" ELSE "BAD_ROLE")
        /\ UNCHANGED <<accounts, roles, trail, crossed, changed>>

\* ActivityLogInterceptor swallows a failure of its insert.
LogRoleChange(r) ==
  /\ pc[r] = "log"
  /\ trail' \in {trail, trail \cup {r}}
  /\ GoOn(r, "done")
  /\ UNCHANGED <<accounts, roles, crossed, changed>>

-----------------------------------------------------------------------------

\* Every call answered: the requests are spent, a bound of the model.
Spent ==
  /\ \A r \in Requests : pc[r] = "done"
  /\ UNCHANGED vars

Next ==
  \/ \E r \in Requests, by \in Admins :
       \/ \E who \in Admins, role \in Roles, p \in Providers \cup {NoProvider} :
            AskCreate(r, by, who, role, p)
       \/ \E who \in Admins, edit \in Edits : AskUpdate(r, by, who, edit)
       \/ \E id \in Roles, to \in {"plain", "manages"} :
            AskAddRole(r, by, id, to) \/ AskEditRole(r, by, id, to)
       \/ \E id \in Roles : AskRemoveRole(r, by, id)
  \/ \E r \in Requests :
       \/ FindAccount(r) \/ CheckRole(r) \/ CheckProvider(r)
       \/ CheckCapable(r) \/ CheckLast(r)
       \/ InsertAccount(r) \/ WriteAccount(r) \/ Audit(r)
       \/ FindRole(r) \/ InsertRole(r) \/ UpdateRole(r) \/ DeleteRole(r)
       \/ LogRoleChange(r)
  \/ Spent

Spec == Init /\ [][Next]_vars
-----------------------------------------------------------------------------
(* Properties *)

\* Every account has a role that exists, and no provider is bound to two accounts
\* ("a provider cannot be bound to two accounts", assertProviderFree), however
\* updates, creations and the deletion of a role counted unused run together.
BindingsHold ==
  /\ \A a \in Live : roles[accounts[a].role] # "none"
  /\ \A a, b \in Live :
       a # b /\ accounts[a].provider \in Providers =>
         accounts[a].provider # accounts[b].provider

\* Only overlap, or the edit of a role, takes the last manager away: an update
\* beside which nothing else changed never does, whatever its fields.
LastManagerOnlyByOverlap ==
  [][Managers # {} /\ Managers' = {} =>
       \E r \in Requests :
         \/ pc[r] = "write" /\ pc'[r] = "audit" /\ r \in crossed
         \/ pc[r] = "update" /\ pc'[r] = "log"]_vars

\* Who was answered, the tables and the audit trail agree, also when the entry
\* cannot be written: a call answered "done" changed its table, and one of an
\* account is in the trail; a call refused changed nothing; whatever is in the
\* trail did happen; and an account changed without an entry cost its caller an
\* error ("Every mutating admin action writes an activity log entry", BACKEND.md,
\* is not kept then, nor when the interceptor swallows the failure).
TrailMatchesChanges ==
  \A r \in Requests :
    /\ r \in trail => r \in changed
    /\ answer[r] = "done" => r \in changed
    /\ answer[r] \notin {"none", "done", "ERROR"} => r \notin changed
    /\ pc[r] = "done" /\ r \in changed \ trail =>
         answer[r] = "ERROR" \/ call[r].kind \notin {"create", "update"}

=============================================================================
