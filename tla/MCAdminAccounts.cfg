\* Two requests, of any kind and any two of three administrators: a change and
\* another that makes what it read stale.
CONSTANTS
  Requests = {r1, r2}
  Admins = {a1, a2, a3}
  Roles = {m, w}
  Providers = {p1}
  Edits <- SentEdits
  Kinds = {"create", "update", "addrole", "editrole", "removerole"}
  NoAccount = NoAccount
  NoProvider = NoProvider
  Keep = Keep
SPECIFICATION Spec
INVARIANTS
  TypeOK
  BindingsHold
  TrailMatchesChanges
PROPERTIES
  LastManagerOnlyByOverlap
SYMMETRY Interchangeable
