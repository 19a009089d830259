\* Create calls and catalogue changes alone, and no booking_slot_unique: the
\* SERIALIZABLE transaction is the only protection.
CONSTANTS
  Requests = {r1, r2, r3, r4}
  Providers = {p1, p2}
  Services = {s1}
  Phones = {ph1, ph2}
  Dates = {d1}
  Times = {t1, t2}
  Kinds = {"create", "catalog"}
  Callers = {}
  SlotIndex = FALSE
  NoRow = NoRow
  NoCall = NoCall
  Admin = Admin
SPECIFICATION Spec
INVARIANTS
  SlotHeldOnce
  NoDuplicateBooking
SYMMETRY Interchangeable
