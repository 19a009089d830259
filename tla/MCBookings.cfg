\* Five requests: enough for create, confirm, a second status change in flight,
\* a cancellation, and the slot booked again. Under p1's service the portal of
\* p1 does all an admin can; under p2's it is refused.
CONSTANTS
  Requests = {r1, r2, r3, r4, r5}
  Providers = {p1, p2}
  Services = {s1}
  Phones = {ph1}
  Dates = {d1}
  Times = {t1, t2}
  Kinds = {"create", "status", "move"}
  Callers = {p1}
  SlotIndex = TRUE
  NoRow = NoRow
  NoCall = NoCall
  Admin = Admin
SPECIFICATION Spec
INVARIANTS
  TypeOK
  AnsweredChangesStand
  CompletedWasConfirmed
PROPERTIES
  SlotLedgerSpec
SYMMETRY Interchangeable
