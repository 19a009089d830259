\* Two rows handed in, and two erasures or two calls of the back office, all at
\* once, over one mailbox whose owner may come back twice.
CONSTANTS
  r1 = r1
  r2 = r2
  r3 = r3
  r4 = r4
  Requests = {r1, r2, r3, r4}
  Accounts = {a1, a2}
  Addresses = {"me@x", "Me@X"}
  Normal <- MCNormal
  Records = {i1, i2}
  Providers = {p1}
  Items = {x1}
  Kinds <- MCKinds
  None = None
  NoCall = NoCall
SPECIFICATION Spec
CHECK_DEADLOCK FALSE
INVARIANTS
  TypeOK
  ErasureReachesRows
  RequestsFindTheirAccount
  ScheduledIsArranged
