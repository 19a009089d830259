\* Five requests: a sign-in, two refreshes of it, and two more beside or after
\* them. With two attempts the counter is used up and two wrong codes overlap.
CONSTANTS
  Requests = {r1, r2, r3, r4, r5}
  Admins = {a1}
  Users = {u1, u2}
  Passwords = {p1, p2}
  Seeded = p1
  MaxAttempts = 2
  Kinds = {"code", "verify", "login", "change", "reset", "active", "refresh", "logout", "delete", "block"}
  NoUser = NoUser
SPECIFICATION Spec
INVARIANTS
  TypeOK
  DeletionEndsSessions
  EveryWrongAttemptCounts
PROPERTIES
  SessionStaysDead
  PasswordEndsIdleSessions
SYMMETRY Interchangeable
