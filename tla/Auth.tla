-------------------------------- MODULE Auth --------------------------------
(***************************************************************************)
(* Accounts and their sessions: sign-in of app users with a mailed code    *)
(* (POST /auth/otp/request, /verify), of administrators with a password    *)
(* (POST /admin/auth/login), refresh and logout, and everything that ends  *)
(* sessions from outside: change and reset of a password, deactivation,    *)
(* blocking, and deletion of an account.                                   *)
(*                                                                         *)
(* A request is one handler invocation and each statement or transaction   *)
(* it awaits is one step.  A request issues one refresh token at most and  *)
(* lends it its own name; a session is the chain of tokens that begins     *)
(* with a sign-in, and bears the name of that sign-in.  All codes are      *)
(* mailed to one address, which belongs to one user at a time.             *)
(***************************************************************************)
EXTENDS Naturals, Sequences, FiniteSets, FiniteSetsExt

CONSTANTS
  Requests,      \* concurrent handler invocations, names of tokens and sessions
  Admins,        \* administrator accounts
  Users,         \* ids that accounts of the address may be given
  Passwords,
  Seeded,        \* the password every administrator starts with
  MaxAttempts,   \* wrong codes after which a code is refused: 5 in verifyOtp
  Kinds,         \* the kinds of call made: a subset of AllKinds
  NoUser

AllKinds == {"code", "verify", "login", "change", "reset", "active", "refresh",
             "logout", "delete", "block"}
Owners == Admins \cup Users

ASSUME SeededAssumption == Seeded \in Passwords
ASSUME AttemptsAssumption == MaxAttempts \in Nat
ASSUME KindsAssumption == Kinds \subseteq AllKinds
ASSUME OwnersAssumption == Admins \cap Users = {} /\ NoUser \notin Owners

VARIABLES
  admin,        \* the admin_users table: password and active
  user,         \* the users table
  codes,        \* the otp_codes table, oldest first
  tokens,       \* the refresh_tokens table: token of each request
  pc,           \* the statement each request executes next
  call,         \* the arguments of its call, and what its reads found
  answer        \* what its caller is told

vars == <<admin, user, codes, tokens, pc, call, answer>>

-----------------------------------------------------------------------------
(* Types *)

UserStates == {"unused", "open", "blocked", "deleted"}
Code == [state : {"fresh", "used", "gone"}, attempts : Nat]
TokenStates == {"none", "live", "revoked"}

\* A call that ends with tokens knows whose they are and of which session.
Verifications == [kind : {"verify"}, code : Nat, owner : Users \cup {NoUser},
                  session : Requests]
Logins == [kind : {"login"}, owner : Admins, session : Requests]
Refreshes == [kind : {"refresh"}, token : Requests, owner : Owners,
              session : Requests]
\* A password call notes the sessions that its revocation is meant to end.
PasswordCalls == [kind : {"change", "reset"}, owner : Admins, new : Passwords,
                  ends : SUBSET Requests]
Logouts == [kind : {"logout"}, token : Requests]
Deletions == [kind : {"delete"}, user : Users]
Blocks == [kind : {"block"}, user : Users, blocked : BOOLEAN]
NoCall == [kind |-> "none"]
Calls == Verifications \cup Logins \cup Refreshes \cup PasswordCalls \cup Logouts
           \cup Deletions \cup Blocks \cup [kind : {"code", "active"}] \cup {NoCall}

Answers == {"none", "done", "tokens", "password set", "UNSENT", "BAD_CODE",
            "WRONG_CODE", "UNAUTHORIZED", "NOT_FOUND", "CONFLICT", "BAD_LINK"}

Statements == {"idle", "store", "burn", "miss", "consume", "user", "create", "issue",
               "password", "revoke", "owner", "logout", "delete", "block", "done"}

\* A call that may end with tokens, once it knows whose they are.
TokenCalls == {c \in Verifications \cup Logins \cup Refreshes : c.owner \in Owners}

\* The call c that fits statement p and answer a.
Fits(p, c, a) ==
  /\ p = "idle" => c = NoCall
  /\ p # "done" => a = "none"
  /\ \/ p \in {"burn", "miss", "consume", "user", "create"}
     \/ a = "WRONG_CODE"
     => c \in Verifications /\ c.code \in DOMAIN codes
  /\ p \in {"revoke", "owner"} => c \in Refreshes
  /\ p = "issue" \/ a = "tokens" => c \in TokenCalls
  /\ p = "logout" => c \in Logouts
  /\ p = "password" \/ a = "password set" => c \in PasswordCalls
  /\ p = "delete" => c \in Deletions
  /\ p = "block" => c \in Blocks

TypeOK ==
  /\ admin \in [Admins -> [password : Passwords, active : BOOLEAN]]
  /\ user \in [Users -> UserStates]
  /\ codes \in Seq(Code)
  /\ tokens \in [Requests -> TokenStates]
  /\ pc \in [Requests -> Statements]
  /\ call \in [Requests -> Calls]
  /\ answer \in [Requests -> Answers]
  /\ \A r \in Requests :
       Fits(pc[r], call[r], answer[r]) /\ (tokens[r] # "none" => answer[r] = "tokens")

-----------------------------------------------------------------------------

Init ==
  /\ admin = [a \in Admins |-> [password |-> Seeded, active |-> TRUE]]
  /\ user = [u \in Users |-> "unused"]
  /\ codes = <<>>
  /\ tokens = [r \in Requests |-> "none"]
  /\ pc = [r \in Requests |-> "idle"]
  /\ call = [r \in Requests |-> NoCall]
  /\ answer = [r \in Requests |-> "none"]

\* Request r makes call c and goes on to statement next.
Proceed(r, c, next) ==
  /\ pc[r] = "idle"
  /\ c.kind \in Kinds
  /\ call' = [call EXCEPT ![r] = c]
  /\ pc' = [pc EXCEPT ![r] = next]
  /\ UNCHANGED answer

\* Request r makes call c, whose only statement decides answer a.
AnswerNow(r, c, a) ==
  /\ pc[r] = "idle"
  /\ c.kind \in Kinds
  /\ call' = [call EXCEPT ![r] = c]
  /\ pc' = [pc EXCEPT ![r] = "done"]
  /\ answer' = [answer EXCEPT ![r] = a]

\* Request r, under way, goes on to statement next.
GoOn(r, next) ==
  /\ pc' = [pc EXCEPT ![r] = next]
  /\ UNCHANGED <<call, answer>>

\* Request r, under way, is answered a.
Finish(r, a) ==
  /\ pc' = [pc EXCEPT ![r] = "done"]
  /\ answer' = [answer EXCEPT ![r] = a]
  /\ UNCHANGED call

-----------------------------------------------------------------------------
(* POST /auth/otp/request: AuthService.requestOtp *)

Fresh == {n \in DOMAIN codes : codes[n].state = "fresh"}

InvalidateCodes(r) ==
  /\ Proceed(r, [kind |-> "code"], "store")
  /\ codes' = [n \in DOMAIN codes |->
                 IF n \in Fresh THEN [codes[n] EXCEPT !.state = "used"] ELSE codes[n]]
  /\ UNCHANGED <<admin, user, tokens>>

\* The code is stored and mailed; a mail that fails leaves the code behind.
StoreCode(r) ==
  /\ pc[r] = "store"
  /\ codes' = Append(codes, [state |-> "fresh", attempts |-> 0])
  /\ \E a \in {"done", "UNSENT"} : Finish(r, a)
  /\ UNCHANGED <<admin, user, tokens>>

-----------------------------------------------------------------------------
(* POST /auth/otp/verify: AuthService.verifyOtp.  The caller types code n,  *)
(* or, as 0, digits nobody mailed.                                          *)

FindCode(r, typed) ==
  LET latest == Max(Fresh)
      c == [kind |-> "verify", code |-> latest, owner |-> NoUser, session |-> r]
  IN
  /\ \/ Fresh = {} /\ AnswerNow(r, [kind |-> "verify", code |-> 0, owner |-> NoUser,
                                    session |-> r], "BAD_CODE")
     \/ Fresh # {} /\ Proceed(r, c, "burn")    \* expired, or out of attempts
     \/ /\ Fresh # {} /\ codes[latest].attempts < MaxAttempts
        /\ Proceed(r, c, IF typed = latest THEN "consume" ELSE "miss")
  /\ UNCHANGED <<admin, user, codes, tokens>>

\* UPDATE otp_codes ... WHERE id, of a row an account deletion may have
\* removed: then P2025.
UpdateCode(r, code, next, a) ==
  LET n == call[r].code IN
  /\ \/ /\ codes[n].state # "gone"
        /\ codes' = [codes EXCEPT ![n] = code]
        /\ IF next = "done" THEN Finish(r, a) ELSE GoOn(r, next)
     \/ /\ codes[n].state = "gone"
        /\ Finish(r, "NOT_FOUND")
        /\ UNCHANGED codes
  /\ UNCHANGED <<admin, user, tokens>>

BurnCode(r) ==
  /\ pc[r] = "burn"
  /\ UpdateCode(r, [codes[call[r].code] EXCEPT !.state = "used"], "done", "BAD_CODE")

\* Mutant: the counter is set to one, not incremented.
CountAttemptLost(r) ==
  /\ pc[r] = "miss"
  /\ UpdateCode(r, [codes[call[r].code] EXCEPT !.attempts = 1], "done", "WRONG_CODE")

CountAttempt(r) ==
  /\ pc[r] = "miss"
  /\ UpdateCode(r, [codes[call[r].code] EXCEPT !.attempts = @ + 1],
                "done", "WRONG_CODE")

ConsumeCode(r) ==
  /\ pc[r] = "consume"
  /\ UpdateCode(r, [codes[call[r].code] EXCEPT !.state = "used"], "user", "none")

\* The user who has the address, if any.
Holder == {u \in Users : user[u] \in {"open", "blocked"}}

FindUser(r) ==
  /\ pc[r] = "user"
  /\ \/ Holder = {} /\ GoOn(r, "create")
     \/ \E u \in Holder :
          /\ call' = [call EXCEPT ![r].owner = u]
          /\ pc' = [pc EXCEPT ![r] = "issue"]
          /\ UNCHANGED answer
  /\ UNCHANGED <<admin, user, codes, tokens>>

\* Mutant: the result of the creation is not assigned to `user`.
CreateUserUnassigned(r) ==
  /\ pc[r] = "create"
  /\ \/ \E u \in Users :
          /\ Holder = {} /\ user[u] = "unused"
          /\ user' = [user EXCEPT ![u] = "open"]
          /\ GoOn(r, "issue")
     \/ Holder # {} /\ Finish(r, "CONFLICT") /\ UNCHANGED user
  /\ UNCHANGED <<admin, codes, tokens>>

\* The address is unique: of two sign-ins that both found no user, the second
\* gets P2002.
CreateUser(r) ==
  /\ pc[r] = "create"
  /\ \/ \E u \in Users :
          /\ Holder = {} /\ user[u] = "unused"
          /\ user' = [user EXCEPT ![u] = "open"]
          /\ call' = [call EXCEPT ![r].owner = u]
          /\ pc' = [pc EXCEPT ![r] = "issue"]
          /\ UNCHANGED answer
     \/ Holder # {} /\ Finish(r, "CONFLICT") /\ UNCHANGED user
  /\ UNCHANGED <<admin, codes, tokens>>

-----------------------------------------------------------------------------
(* generateTokens, the end of every sign-in and refresh *)

\* Mutant: the refresh_tokens table has no foreign key.
IssueTokenUnlinked(r) ==
  /\ pc[r] = "issue"
  /\ tokens' = [tokens EXCEPT ![r] = "live"]
  /\ Finish(r, "tokens")
  /\ UNCHANGED <<admin, user, codes>>

\* The foreign key refuses the token of a user who was deleted meanwhile.
IssueToken(r) ==
  /\ pc[r] = "issue"
  /\ \/ /\ call[r].owner \in Users => user[call[r].owner] # "deleted"
        /\ tokens' = [tokens EXCEPT ![r] = "live"]
        /\ Finish(r, "tokens")
     \/ /\ call[r].owner \in Users /\ user[call[r].owner] = "deleted"
        /\ Finish(r, "BAD_LINK")
        /\ UNCHANGED tokens
  /\ UNCHANGED <<admin, user, codes>>

-----------------------------------------------------------------------------
(* POST /admin/auth/login: AuthService.adminLogin *)

ReadForLogin(r, a, password) ==
  LET c == [kind |-> "login", owner |-> a, session |-> r]
      welcome == admin[a].active /\ admin[a].password = password
  IN
  /\ \/ ~welcome /\ AnswerNow(r, c, "UNAUTHORIZED")
     \/ welcome /\ Proceed(r, c, "issue")
  /\ UNCHANGED <<admin, user, codes, tokens>>

-----------------------------------------------------------------------------
(* POST /auth/refresh: AuthService.refreshTokens.  Callers present tokens   *)
(* they were given.                                                         *)

Given == {t \in Requests : answer[t] = "tokens"}

\* Whoever was given tokens holds an access token, which no revocation reaches.
HasAccess(o) == \E t \in Given : call[t].owner = o

\* Mutant: a token is looked up, but not whether it was revoked.
FindTokenIgnoringRevoked(r, t) ==
  LET c == [kind |-> "refresh", token |-> t, owner |-> call[t].owner,
            session |-> call[t].session]
  IN
  /\ t \in Given
  /\ \/ AnswerNow(r, c, "UNAUTHORIZED")
     \/ tokens[t] # "none" /\ Proceed(r, c, "revoke")
  /\ UNCHANGED <<admin, user, codes, tokens>>

\* A token may also have expired.
FindToken(r, t) ==
  LET c == [kind |-> "refresh", token |-> t, owner |-> call[t].owner,
            session |-> call[t].session]
  IN
  /\ t \in Given
  /\ \/ AnswerNow(r, c, "UNAUTHORIZED")
     \/ tokens[t] = "live" /\ Proceed(r, c, "revoke")
  /\ UNCHANGED <<admin, user, codes, tokens>>

\* UPDATE refresh_tokens SET revoked WHERE id: P2025 when the row is gone.
Revoke(r, t) ==
  IF tokens[t] = "none" THEN UNCHANGED tokens
  ELSE tokens' = [tokens EXCEPT ![t] = "revoked"]

RevokeToken(r) ==
  LET t == call[r].token IN
  /\ pc[r] = "revoke"
  /\ Revoke(r, t)
  /\ IF tokens[t] = "none" THEN Finish(r, "NOT_FOUND") ELSE GoOn(r, "owner")
  /\ UNCHANGED <<admin, user, codes>>

ReadOwner(r) ==
  LET o == call[r].owner
      welcome == IF o \in Admins THEN admin[o].active ELSE user[o] = "open"
  IN
  /\ pc[r] = "owner"
  /\ IF welcome THEN GoOn(r, "issue") ELSE Finish(r, "UNAUTHORIZED")
  /\ UNCHANGED <<admin, user, codes, tokens>>

-----------------------------------------------------------------------------
(* POST /auth/logout: AuthService.logout *)

FindForLogout(r, t) ==
  LET c == [kind |-> "logout", token |-> t] IN
  /\ t \in Given
  /\ \/ tokens[t] # "live" /\ AnswerNow(r, c, "done")
     \/ tokens[t] = "live" /\ Proceed(r, c, "logout")
  /\ UNCHANGED <<admin, user, codes, tokens>>

RevokeForLogout(r) ==
  LET t == call[r].token IN
  /\ pc[r] = "logout"
  /\ Revoke(r, t)
  /\ Finish(r, IF tokens[t] = "none" THEN "NOT_FOUND" ELSE "done")
  /\ UNCHANGED <<admin, user, codes>>

-----------------------------------------------------------------------------
(* POST /admin/auth/change-password and /admin/admin-users/:id/reset-       *)
(* password: AuthService.changeAdminPassword, AdminUsersService.            *)
(* resetPassword.  They differ in what they read.                           *)

\* The access guard and the handler both read the account; refused by either,
\* the caller gets the same answer, so they are one step.
ReadForChange(r, a, current, new) ==
  LET c == [kind |-> "change", owner |-> a, new |-> new, ends |-> {}]
      welcome == admin[a].active /\ admin[a].password = current
  IN
  /\ HasAccess(a)
  /\ new # current
  /\ \/ ~welcome /\ AnswerNow(r, c, "UNAUTHORIZED")
     \/ welcome /\ Proceed(r, c, "password")
  /\ UNCHANGED <<admin, user, codes, tokens>>

ReadForReset(r, a, new) ==
  /\ Proceed(r, [kind |-> "reset", owner |-> a, new |-> new, ends |-> {}], "password")
  /\ UNCHANGED <<admin, user, codes, tokens>>

\* The sign-ins of administrator a so far, each the name of a session.
SignIns(a) == {s \in Given : call[s].kind = "login" /\ call[s].owner = a}

\* Mutant: only the tokens issued at a sign-in are revoked.
CommitPasswordFirstTokens(r) ==
  LET a == call[r].owner IN
  /\ pc[r] = "password"
  /\ admin' = [admin EXCEPT ![a].password = call[r].new]
  /\ tokens' = [t \in Requests |->
                  IF t \in SignIns(a) /\ tokens[t] = "live" THEN "revoked"
                  ELSE tokens[t]]
  /\ call' = [call EXCEPT ![r].ends = SignIns(a)]
  /\ pc' = [pc EXCEPT ![r] = "done"]
  /\ answer' = [answer EXCEPT ![r] = "password set"]
  /\ UNCHANGED <<user, codes>>

\* One transaction: the hash, and every token of the account not yet revoked.
CommitPassword(r) ==
  LET a == call[r].owner IN
  /\ pc[r] = "password"
  /\ admin' = [admin EXCEPT ![a].password = call[r].new]
  /\ tokens' = [t \in Requests |->
                  IF tokens[t] = "live" /\ call[t].owner = a THEN "revoked"
                  ELSE tokens[t]]
  /\ call' = [call EXCEPT ![r].ends = SignIns(a)]
  /\ pc' = [pc EXCEPT ![r] = "done"]
  /\ answer' = [answer EXCEPT ![r] = "password set"]
  /\ UNCHANGED <<user, codes>>

-----------------------------------------------------------------------------
(* Accounts changed by others *)

\* AdminUsersService.update, by its effect on sign-in and refresh.
SetActive(r, a, on) ==
  /\ AnswerNow(r, [kind |-> "active"], "done")
  /\ admin' = [admin EXCEPT ![a].active = on]
  /\ UNCHANGED <<user, codes, tokens>>

\* UsersService.toggleBlock writes the opposite of what it read.
ReadForBlock(r, u) ==
  LET c == [kind |-> "block", user |-> u, blocked |-> user[u] = "open"] IN
  /\ \/ u \notin Holder /\ AnswerNow(r, c, "NOT_FOUND")
     \/ u \in Holder /\ Proceed(r, c, "block")
  /\ UNCHANGED <<admin, user, codes, tokens>>

WriteBlock(r) ==
  LET u == call[r].user IN
  /\ pc[r] = "block"
  /\ \/ /\ u \in Holder
        /\ user' = [user EXCEPT ![u] = IF call[r].blocked THEN "blocked" ELSE "open"]
        /\ Finish(r, "done")
     \/ u \notin Holder /\ Finish(r, "NOT_FOUND") /\ UNCHANGED user
  /\ UNCHANGED <<admin, codes, tokens>>

\* UsersService.deleteAccount.
ReadForDelete(r, u) ==
  LET c == [kind |-> "delete", user |-> u] IN
  /\ HasAccess(u)
  /\ \/ u \notin Holder /\ AnswerNow(r, c, "NOT_FOUND")
     \/ u \in Holder /\ Proceed(r, c, "delete")
  /\ UNCHANGED <<admin, user, codes, tokens>>

\* One transaction: the codes of the address, the user, and by cascade the
\* user's tokens.  It rolls back when the user is gone already.
DeleteAccount(r) ==
  LET u == call[r].user IN
  /\ pc[r] = "delete"
  /\ \/ /\ u \in Holder
        /\ user' = [user EXCEPT ![u] = "deleted"]
        /\ codes' = [n \in DOMAIN codes |-> [codes[n] EXCEPT !.state = "gone"]]
        /\ tokens' = [t \in Requests |->
                        IF tokens[t] # "none" /\ call[t].owner = u THEN "none"
                        ELSE tokens[t]]
        /\ Finish(r, "done")
     \/ u \notin Holder /\ Finish(r, "NOT_FOUND") /\ UNCHANGED <<user, codes, tokens>>
  /\ UNCHANGED admin

-----------------------------------------------------------------------------

\* Every call answered: the requests are spent, a bound of the model.
Spent ==
  /\ \A r \in Requests : pc[r] = "done"
  /\ UNCHANGED vars

Next ==
  \/ \E r \in Requests :
       \/ InvalidateCodes(r) \/ StoreCode(r)
       \/ \E typed \in 0 .. Len(codes) : FindCode(r, typed)
       \/ BurnCode(r) \/ CountAttempt(r) \/ ConsumeCode(r)
       \/ FindUser(r) \/ CreateUser(r) \/ IssueToken(r)
       \/ \E a \in Admins, p \in Passwords : ReadForLogin(r, a, p)
       \/ \E t \in Requests : FindToken(r, t)
       \/ RevokeToken(r) \/ ReadOwner(r)
       \/ \E t \in Requests : FindForLogout(r, t)
       \/ RevokeForLogout(r)
       \/ \E a \in Admins, p, q \in Passwords : ReadForChange(r, a, p, q)
       \/ \E a \in Admins, p \in Passwords : ReadForReset(r, a, p)
       \/ CommitPassword(r)
       \/ \E a \in Admins, on \in BOOLEAN : SetActive(r, a, on)
       \/ \E u \in Users : ReadForBlock(r, u) \/ ReadForDelete(r, u)
       \/ WriteBlock(r) \/ DeleteAccount(r)
  \/ Spent

Spec == Init /\ [][Next]_vars
-----------------------------------------------------------------------------
(* Properties *)

\* A request is on its way to a token of session s.
Busy(s) ==
  \E r \in Requests :
    /\ pc[r] \in {"consume", "user", "create", "revoke", "owner", "issue"}
    /\ call[r].session = s

Sessions == {s \in Given : call[s].session = s}

Dead(s) ==
  /\ ~Busy(s)
  /\ \A t \in Given : call[t].session = s => tokens[t] # "live"

\* A session that has neither a live token nor a request under way is over for
\* good: no replay of an old token, retry or later refresh brings it back.
SessionStaysDead ==
  [][\A s \in Sessions : Dead(s) => Dead(s)']_vars

\* A change or a reset of a password ends every session of the account that
\* has no request under way, whichever of its tokens is the live one.
PasswordEndsIdleSessions ==
  [][\A r \in Requests :
       answer'[r] = "password set" /\ answer[r] # "password set" =>
         \A s \in Sessions :
           call[s].owner = call[r].owner /\ ~Busy(s) => Dead(s)']_vars

\* No token of a deleted account works, even one whose sign-in or refresh was
\* under way when the account went: "which is also what ends every session
\* they had open" (deleteAccount).
DeletionEndsSessions ==
  \A t \in Requests :
    tokens[t] = "live" /\ call[t].owner \in Users => user[call[t].owner] # "deleted"

\* Wrong attempts at one code that run together are all counted.
EveryWrongAttemptCounts ==
  \A n \in DOMAIN codes :
    codes[n].attempts =
      Cardinality({r \in Requests : answer[r] = "WRONG_CODE" /\ call[r].code = n})

=============================================================================
