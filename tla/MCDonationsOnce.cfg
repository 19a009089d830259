\* Two admins review one donation at the same time.
CONSTANTS
  Requests = {r1, r2, r3}
  Cases = {c1}
  Projects = {}
  Amounts = {1}
  TxIds = {}
  Existing = {c1}
  Opening = 1
  TypedIn = {}
  MaxInt = 3
  Kinds = {"give", "review"}
  NoCause = NoCause
  NoTx = NoTx
  NoCall = NoCall
SPECIFICATION Spec
INVARIANT CreditedOnce
