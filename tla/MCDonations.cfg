\* Four requests: a gift, two reviews in flight, and a deletion, a callback or
\* another gift between them; or a creation, an update of what was created, and
\* a deletion beside it.  With a column that ends at 3, a total of 1 to start
\* from takes two credits of 1 and no third, one typed in at 3 takes none, and a
\* gift of 4 fits no column.
CONSTANTS
  Requests = {r1, r2, r3, r4}
  Cases = {c1, c2}
  Projects = {j1}
  Amounts = {1, 4}
  TxIds = {t1, t2}
  Existing = {c1, j1}
  Opening = 1
  TypedIn = {3}
  MaxInt = 3
  Kinds = {"give", "review", "webhook", "create", "edit", "delete", "note"}
  NoCause = NoCause
  NoTx = NoTx
  NoCall = NoCall
SPECIFICATION Spec
INVARIANTS
  TypeOK
  LinksResolve
  BooksBalance
  TotalsCoverApprovals
  GatewayOnlyAfterAdmin
SYMMETRY Interchangeable
