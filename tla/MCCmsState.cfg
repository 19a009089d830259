\* Three requests: an edit that has read, one that overtakes it, and a third
\* beside or after them.
CONSTANTS
  Requests = {r1, r2, r3}
  Ids = {"app", "en"}
  AppKeys = {"app"}
  EnglishKeys = {"en"}
  Edits <- AllEdits
  FirstRows <- Rows
  NoRow = NoRow
SPECIFICATION Spec
INVARIANTS
  TypeOK
  SnapshotCompletes
  MigratesOnce
  TypeKeysUnique
PROPERTIES
  EditsMeetOnlyInTheirSection
  MediaInUseStays
SYMMETRY Interchangeable
