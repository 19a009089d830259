\* Three calls at a time over one category or two, one service and one provider that
\* exist, and one of each that may be created.
CONSTANTS
  r1 = r1
  r2 = r2
  r3 = r3
  c1 = c1
  c2 = c2
  s1 = s1
  s2 = s2
  p1 = p1
  p2 = p2
  Requests = {r1, r2, r3}
  Categories = {c1, c2}
  Services = {s1, s2}
  Providers = {p1, p2}
  Fields = {"phone", "file"}
  FieldSets <- MCFieldSets
  Dates = {0, 1}
  Times = {1, 2, 3}
  Weeks <- MCWeeks
  InitialWeek <- MCInitialWeek
  Kinds <- MCKinds
  Before = 2
  After = 2
  Change = 0
  None = None
  NoCall = NoCall
SPECIFICATION Spec
CHECK_DEADLOCK FALSE
SYMMETRY Interchangeable
INVARIANTS
  TypeOK
  LinksResolve
  AvailabilityIsCurrent
  EntriesWereAccepted
