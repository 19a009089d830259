------------------------------ MODULE CmsState ------------------------------
(***************************************************************************)
(* The headless CMS: one row of JSON columns that every editor reads,      *)
(* changes in memory and writes back, its migration on read and on import, *)
(* and the removal of a file of the media library.                         *)
(*                                                                         *)
(* A request is one handler invocation and each statement it awaits is one *)
(* step.  Texts matter by what they show: of the media library one file is *)
(* followed, which a text may show by its URL or name by its id.           *)
(***************************************************************************)
EXTENDS Naturals, Sequences, SequencesExt, FiniteSets

CONSTANTS
  Requests,       \* concurrent handler invocations
  Ids,            \* ids of pages and keys of consultation types
  AppKeys,        \* the keys of DEFAULT_CONSULTATION_TYPES
  EnglishKeys,    \* the keys that migration 8 -> 9 seeded
  Edits,          \* the bodies of the calls that editors make
  FirstRows,      \* what cms_state holds at the start
  NoRow

(* Columns of cms_state.  A document, or a part of one that a body carries, *)
(* is a function on the columns that it has.                                *)
Columns == {"version", "settings", "menu", "home", "pages", "types", "payments"}

\* Settings: one required, one optional, and the old name of the latter.
Fields == {"splashText", "hotline", "contactPhone"}
Required == {"splashText"}
SettingsTexts == {"blank", "written", "default"}
Settings == UNION {[S -> SettingsTexts] : S \in SUBSET Fields}

Tabs == {"Home", "Discover", "ServicesBrowse", "Unknown"}

\* A form from before migration 9 is bare; the forms it seeded are legacy: they
\* have a disclaimer, but no consent field.
PageTexts == {"plain", "url", "id"}
TypeTexts == {"bare", "legacy", "plain", "url"}
Page == [id : Ids, status : {"draft", "published"}, text : PageTexts]
Type == [id : Ids, text : TypeTexts]

Row == [version : Nat, settings : Settings, menu : SUBSET Tabs, home : PageTexts,
        pages : Seq(Page), types : Seq(Type), payments : {"latin", "arabic"}]

ASSUME KeysAssumption ==
  /\ AppKeys \subseteq Ids /\ EnglishKeys \subseteq Ids /\ AppKeys \cap EnglishKeys = {}
  /\ IsFiniteSet(AppKeys) /\ IsFiniteSet(EnglishKeys)
ASSUME RowsAssumption == FirstRows \subseteq Row \cup {NoRow} /\ NoRow \notin Row

VARIABLES
  row,        \* the cms_state row, or NoRow
  file,       \* the followed file: its record and what is on disk
  pc,         \* the statement each request executes next
  call,       \* its edit, and the columns it is about to write
  answer,     \* what its caller is told
  crossed     \* history: requests about to write a section that another
              \* request has written since they read it

vars == <<row, file, pc, call, answer, crossed>>

-----------------------------------------------------------------------------
(* CmsMigrationService.migrate *)

\* JavaScript's { ...f, ...g }.
Override(f, g) ==
  [x \in DOMAIN f \cup DOMAIN g |-> IF x \in DOMAIN g THEN g[x] ELSE f[x]]

CurrentVersion == 11

\* Mutant: every run stamps the next version.
VersionAfterBumped(v) == v + 1

VersionAfter(v) == IF v < CurrentVersion THEN CurrentVersion ELSE v

\* 5 -> 6: fields take the app's names, unless they have a value already.
Renamed(v, s) ==
  IF v < 6 /\ "contactPhone" \in DOMAIN s
  THEN Override([hotline |-> s.contactPhone],
                [f \in DOMAIN s \ {"contactPhone"} |-> s[f]])
  ELSE s

\* Mutant: only absent fields are filled.
EnsuredIfAbsent(s) ==
  Override([f \in Required |-> "default"], s)

\* ensureSettingsInvariants: absent and empty fields are filled, at any version.
Ensured(s) ==
  [f \in DOMAIN s \cup Required |->
     IF f \in Required /\ (f \notin DOMAIN s \/ s[f] = "blank") THEN "default" ELSE s[f]]

SettingsAfter(b) ==
  Ensured(Renamed(b.version, IF "settings" \in DOMAIN b THEN b.settings ELSE <<>>))

FormsOf(keys, text) ==
  LET inOrder == SetToSeq(keys) IN
  [n \in DOMAIN inOrder |-> [id |-> inOrder[n], text |-> text]]

Canonical(types) ==
  /\ Len(types) = Cardinality(AppKeys)
  /\ \A n \in DOMAIN types :
       types[n].id \in AppKeys /\ types[n].text \notin {"bare", "legacy"}

\* 8 -> 9: without a single disclaimer, five forms with English keys.
Seeded9(v, types) ==
  IF v < 9 /\ \A n \in DOMAIN types : types[n].text = "bare"
  THEN FormsOf(EnglishKeys, "legacy") ELSE types

\* DEFAULT_CONSULTATION_TYPES: for each key of the app a whole form.
DefaultTypes == FormsOf(AppKeys, "plain")

\* 10 -> 11: the app's own forms, unless the set is theirs already.
Repaired11(v, types) ==
  IF v < 11 /\ ~Canonical(types) THEN DefaultTypes ELSE types

TypesAfter(b) ==
  Repaired11(b.version,
             Seeded9(b.version, IF "types" \in DOMAIN b THEN b.types ELSE <<>>))

\* 4 -> 5 and 9 -> 10.
PaymentsAfter(b) ==
  IF "payments" \notin DOMAIN b \/ (b.version < 10 /\ b.payments = "latin")
  THEN "arabic" ELSE b.payments

\* Every gated step looks at the version the document came with.
Migrate(b) ==
  LET filled == {"version", "settings"}
                  \cup (IF b.version < 11 THEN {"types"} ELSE {})
                  \cup (IF b.version < 5 THEN {"payments"} ELSE {})
  IN
  [c \in DOMAIN b \cup filled |->
     CASE c = "version" -> VersionAfter(b.version)
       [] c = "settings" -> SettingsAfter(b)
       [] c = "types" -> TypesAfter(b)
       [] c = "payments" -> PaymentsAfter(b)
       [] OTHER -> b[c]]

\* What getState stores when there is no row.
DefaultRow ==
  [version |-> CurrentVersion,
   settings |-> [splashText |-> "default", hotline |-> "blank"],
   menu |-> {}, home |-> "plain", pages |-> <<>>, types |-> <<>>,
   payments |-> "arabic"]

\* What GET /cms shows of a stored document.
PublicSnapshot(doc) ==
  [Migrate(doc) EXCEPT !.pages = SelectSeq(@, LAMBDA page : page.status = "published")]

-----------------------------------------------------------------------------
(* What editors send *)

PageCalls ==
  [kind : {"add"}, list : {"pages"}, item : Page]
    \cup [kind : {"edit"}, list : {"pages"}, id : Ids, updates : [text : PageTexts]]
    \cup [kind : {"remove", "toggle"}, list : {"pages"}, id : Ids]

TypeCalls ==
  [kind : {"add"}, list : {"types"}, item : Type]
    \cup [kind : {"edit"}, list : {"types"}, id : Ids, updates : [text : TypeTexts]]
    \cup [kind : {"remove"}, list : {"types"}, id : Ids]

SectionCalls ==
  [kind : {"settings"}, change : Settings] \cup [kind : {"menu"}, tabs : SUBSET Tabs]
    \cup [kind : {"home"}, text : PageTexts]

\* "show" is every read: the public snapshot, a list or an export.
ToolCalls == [kind : {"show", "backup"}]

\* ImportCmsSchema: a version, and whichever other columns the caller sends.
IsBody(b) == "version" \in DOMAIN b /\ Override(DefaultRow, b) \in Row

ASSUME EditsAssumption ==
  \A e \in Edits :
    \/ e \in PageCalls \cup TypeCalls \cup SectionCalls \cup ToolCalls
    \/ /\ e = [kind |-> e.kind, blob |-> e.blob]
       /\ e.kind \in {"replace", "import"} /\ IsBody(e.blob)

-----------------------------------------------------------------------------
(* What an edit makes of a document *)

\* The columns that an edit writes.
Section(e) ==
  CASE e.kind = "settings" -> {"settings"}
    [] e.kind \in {"add", "edit", "remove", "toggle"} -> {e.list}
    [] e.kind \in {"replace", "import"} -> Columns
    [] OTHER -> {}

\* The place of the first item with the id, or 0.
PlaceOf(items, id) == SelectInSeq(items, LAMBDA item : item.id = id)

\* Mutant: the key of a new consultation type is not looked for.
RefusalOfMissing(e, doc) ==
  IF e.kind \in {"edit", "remove", "toggle"} /\ PlaceOf(doc[e.list], e.id) = 0
  THEN "NOT_FOUND" ELSE "none"

\* Why an edit is refused on this document.
Refusal(e, doc) ==
  CASE e.kind \in {"edit", "remove", "toggle"} /\ PlaceOf(doc[e.list], e.id) = 0 ->
         "NOT_FOUND"
    [] e.kind = "add" /\ e.list = "types" /\ PlaceOf(doc.types, e.item.id) # 0 ->
         "KEY_TAKEN"
    [] OTHER -> "none"

\* Mutant: the page is flagged, not given a status.
ToggledToFlag(status) == IF status = "published" THEN "hidden" ELSE "published"

Toggled(status) == IF status = "published" THEN "draft" ELSE "published"

\* The list after an edit of it.
Items(e, items) ==
  LET n == PlaceOf(items, e.id) IN
  CASE e.kind = "add" -> Append(items, e.item)
    [] e.kind = "edit" -> [items EXCEPT ![n] = Override(@, e.updates)]
    [] e.kind = "remove" -> RemoveAt(items, n)
    [] e.kind = "toggle" -> [items EXCEPT ![n].status = Toggled(@)]

\* Mutant: settings are saved with the rest of the row that was read.
EditedWholeRow(e, doc) ==
  CASE e.kind = "settings" -> [doc EXCEPT !.settings = Override(@, e.change)]
    [] e.kind \in {"replace", "import"} -> Override(doc, Migrate(e.blob))
    [] OTHER -> [c \in Section(e) |-> Items(e, doc[c])]

\* The columns that an edit, computed on this document, writes.
Edited(e, doc) ==
  CASE e.kind = "settings" -> [settings |-> Override(doc.settings, e.change)]
    [] e.kind \in {"replace", "import"} -> Override(doc, Migrate(e.blob))
    [] OTHER -> [c \in Section(e) |-> Items(e, doc[c])]

-----------------------------------------------------------------------------
(* Types *)

NoCall == [edit |-> [kind |-> "none"], changes |-> <<>>]

Statements == {"idle", "create", "backup", "reread", "write", "refs", "unlink",
               "delete", "done"}
Answers == {"none", "done", "NOT_FOUND", "KEY_TAKEN", "CONFLICT", "BAD_TAB", "IN_USE"}

Writers == {e \in Edits : e.kind \in {"settings", "add", "edit", "remove", "toggle",
                                     "replace", "import"}}
Importers == {e \in Edits : e.kind = "import"}

\* The edit and changes c that fit statement p when the row is doc: between its
\* statements a request holds an edit that goes on there, and by "write" columns
\* that leave a row.
Fits(p, c, doc) ==
  CASE p = "create" -> c.edit \in {e \in Edits : e.kind \notin {"menu", "home"}}
    [] p = "backup" -> /\ doc # NoRow
                       /\ c.edit \in {e \in Edits : e.kind \in {"backup", "import"}}
    [] p = "reread" -> doc # NoRow /\ c.edit \in Importers
    [] p = "write" -> /\ doc # NoRow /\ c.edit \in Writers
                      /\ DOMAIN c.changes = Section(c.edit)
                      /\ Override(doc, c.changes) \in Row
    [] OTHER -> c = NoCall

TypeOK ==
  /\ row \in Row \cup {NoRow}
  /\ file \in {"none", "stored", "unlinked", "removed"}
  /\ pc \in [Requests -> Statements]
  /\ call = [r \in Requests |-> [edit |-> call[r].edit, changes |-> call[r].changes]]
  /\ \A r \in Requests : Fits(pc[r], call[r], row)
  /\ answer \in [Requests -> Answers]
  /\ crossed \subseteq Requests

Init ==
  /\ row \in FirstRows
  /\ file \in {"none", "stored"}
  /\ pc = [r \in Requests |-> "idle"]
  /\ call = [r \in Requests |-> NoCall]
  /\ answer = [r \in Requests |-> "none"]
  /\ crossed = {}

Finish(r, a) ==
  /\ pc' = [pc EXCEPT ![r] = "done"]
  /\ call' = [call EXCEPT ![r] = NoCall]
  /\ answer' = [answer EXCEPT ![r] = a]

GoOn(r, next, c) ==
  /\ pc' = [pc EXCEPT ![r] = next]
  /\ call' = [call EXCEPT ![r] = c]
  /\ UNCHANGED answer

\* The columns whose content request q has read and is about to act on.
Held(q) ==
  CASE pc[q] = "write" -> Section(call[q].edit)
    [] pc[q] = "unlink" -> {"settings", "menu", "home", "pages"}
    [] OTHER -> {}

\* Request r writes these columns.
Cross(r, columns) ==
  crossed' = crossed \cup {q \in Requests \ {r} : Held(q) \cap columns # {}}

\* Request r has computed its edit on document doc.
Compute(r, e, doc) ==
  \/ Refusal(e, doc) # "none" /\ Finish(r, Refusal(e, doc))
  \/ /\ Refusal(e, doc) = "none"
     /\ GoOn(r, "write", [edit |-> e, changes |-> Edited(e, doc)])

\* What request r does with the row that getState found or created.
Continue(r, e, doc) ==
  \/ e.kind = "show" /\ Finish(r, "done")
  \/ e.kind \in {"backup", "import"} /\ GoOn(r, "backup", [edit |-> e, changes |-> <<>>])
  \/ e.kind \notin {"show", "backup", "import"} /\ Compute(r, e, doc)

-----------------------------------------------------------------------------
(* CmsService *)

\* Everything but the menu and the home page begins with getState.
ReadRow(r, e) ==
  /\ pc[r] = "idle"
  /\ e.kind \notin {"menu", "home"}
  /\ \/ row # NoRow /\ Continue(r, e, row)
     \/ row = NoRow /\ GoOn(r, "create", [edit |-> e, changes |-> <<>>])
  /\ UNCHANGED <<row, file, crossed>>

\* Of two requests that both found no row, the second gets P2002.
CreateRow(r) ==
  /\ pc[r] = "create"
  /\ \/ row = NoRow /\ row' = DefaultRow /\ Continue(r, call[r].edit, DefaultRow)
     \/ row # NoRow /\ Finish(r, "CONFLICT") /\ UNCHANGED row
  /\ UNCHANGED <<file, crossed>>

\* createBackup: the log entry names an actor who is no administrator, so the
\* foreign key refuses it and the failure is swallowed.
Backup(r) ==
  /\ pc[r] = "backup"
  /\ \/ call[r].edit.kind = "backup" /\ Finish(r, "done")
     \/ call[r].edit.kind = "import" /\ GoOn(r, "reread", call[r])
  /\ UNCHANGED <<row, file, crossed>>

\* importState migrates before replaceState, which migrates again and reads.
Reread(r) ==
  /\ pc[r] = "reread"
  /\ LET migrated == [call[r].edit EXCEPT !.blob = Migrate(@)] IN
     GoOn(r, "write", [edit |-> call[r].edit, changes |-> Edited(migrated, row)])
  /\ UNCHANGED <<row, file, crossed>>

Write(r) ==
  /\ pc[r] = "write"
  /\ row' = Override(row, call[r].changes)
  /\ Cross(r, DOMAIN call[r].changes)
  /\ Finish(r, "done")
  /\ UNCHANGED file

\* TAB_REMAPS
Remapped(tab) == IF tab = "Discover" THEN "ServicesBrowse" ELSE tab

\* validateMenuTabs refuses a tab that is neither valid nor a remapped one.
ReplaceMenu(r, e) ==
  /\ pc[r] = "idle"
  /\ e.kind = "menu"
  /\ \/ "Unknown" \in e.tabs /\ Finish(r, "BAD_TAB") /\ UNCHANGED <<row, crossed>>
     \/ /\ "Unknown" \notin e.tabs /\ row = NoRow
        /\ Finish(r, "NOT_FOUND")
        /\ UNCHANGED <<row, crossed>>
     \/ /\ "Unknown" \notin e.tabs /\ row # NoRow
        /\ row' = [row EXCEPT !.menu = {Remapped(tab) : tab \in e.tabs}]
        /\ Cross(r, {"menu"})
        /\ Finish(r, "done")
  /\ UNCHANGED file

ReplaceHome(r, e) ==
  /\ pc[r] = "idle"
  /\ e.kind = "home"
  /\ \/ row = NoRow /\ Finish(r, "NOT_FOUND") /\ UNCHANGED <<row, crossed>>
     \/ /\ row # NoRow
        /\ row' = [row EXCEPT !.home = e.text]
        /\ Cross(r, {"home"})
        /\ Finish(r, "done")
  /\ UNCHANGED file

-----------------------------------------------------------------------------
(* CmsMediaService: upload and remove *)

Upload(r) ==
  /\ pc[r] = "idle" /\ file = "none"
  /\ file' = "stored"
  /\ Finish(r, "done")
  /\ UNCHANGED <<row, crossed>>

FindMedia(r) ==
  /\ pc[r] = "idle"
  /\ \/ file \in {"none", "removed"} /\ Finish(r, "NOT_FOUND")
     \/ file \in {"stored", "unlinked"} /\ GoOn(r, "refs", NoCall)
  /\ UNCHANGED <<row, file, crossed>>

\* Mutant: only the pages are searched.
ShowsUrlOnPages(doc) == \E n \in DOMAIN doc.pages : doc.pages[n].text = "url"

\* isMediaReferenced: the URL stands in the settings, menu, home or pages; of
\* these only home and pages have a URL here.
ShowsUrl(doc) ==
  doc.home = "url" \/ \E n \in DOMAIN doc.pages : doc.pages[n].text = "url"

CheckReferences(r) ==
  /\ pc[r] = "refs"
  /\ LET inUse == IF row = NoRow THEN FALSE ELSE ShowsUrl(row) IN
     \/ inUse /\ Finish(r, "IN_USE")
     \/ ~inUse /\ GoOn(r, "unlink", NoCall)
  /\ UNCHANGED <<row, file, crossed>>

\* The document may have changed by the time its answer reaches the server.
Unlink(r) ==
  /\ pc[r] = "unlink"
  /\ file' = IF file = "stored" THEN "unlinked" ELSE file
  /\ GoOn(r, "delete", NoCall)
  /\ UNCHANGED <<row, crossed>>

DeleteMedia(r) ==
  /\ pc[r] = "delete"
  /\ file' = "removed"
  /\ Finish(r, IF file = "removed" THEN "NOT_FOUND" ELSE "done")
  /\ UNCHANGED <<row, crossed>>

-----------------------------------------------------------------------------

\* Every call answered: the requests are spent, a bound of the model.
Spent ==
  /\ \A r \in Requests : pc[r] = "done"
  /\ UNCHANGED vars

Next ==
  \/ \E r \in Requests :
       \/ \E e \in Edits : ReadRow(r, e) \/ ReplaceMenu(r, e) \/ ReplaceHome(r, e)
       \/ CreateRow(r) \/ Backup(r) \/ Reread(r) \/ Write(r)
       \/ Upload(r) \/ FindMedia(r) \/ CheckReferences(r) \/ Unlink(r) \/ DeleteMedia(r)
  \/ Spent

Spec == Init /\ [][Next]_vars
-----------------------------------------------------------------------------
(* Properties *)

\* The public snapshot of any stored document has a value for every setting that
\* the app cannot render without, and leaves "anything an admin has set exactly
\* as it is", whatever version it was imported at (migrate).
SnapshotCompletes ==
  row # NoRow =>
    LET shown == PublicSnapshot(row).settings IN
    /\ \A f \in Required : f \in DOMAIN shown /\ shown[f] # "blank"
    /\ \A f \in DOMAIN row.settings \ {"contactPhone"} :
         row.settings[f] = "written" => shown[f] = "written"

\* "Each migration is safe to re-run" (migrate): an import migrates twice and
\* every read migrates again, with the same result, whatever a caller sends.
MigratesOnce ==
  \A doc \in ({row} \ {NoRow})
               \cup {call[r].edit.blob :
                       r \in {q \in Requests : call[q].edit.kind \in {"replace", "import"}}} :
    Migrate(Migrate(doc)) = Migrate(doc)

\* No two consultation types have one key: creations that overlap may lose a
\* type, but never store a key twice ("Ensure unique key",
\* createConsultationType).
TypeKeysUnique ==
  row # NoRow =>
    \A m, n \in DOMAIN row.types : m # n => row.types[m].id # row.types[n].id

\* Editors of different sections never undo each other's work; and an edit does
\* exactly what it would do to the document as it is by then, unless another
\* write of its own section came between its reading and its writing.
EditsMeetOnlyInTheirSection ==
  [][\A r \in Requests :
       pc[r] = "write" /\ pc'[r] = "done" =>
         LET e == call[r].edit IN
         /\ \A c \in Columns \ Section(e) : row'[c] = row[c]
         /\ r \notin crossed => row' = Override(row, Edited(e, row))]_vars

\* The sections with a text that shows the file by its URL.
ShownIn(doc) ==
  {c \in {"home"} : doc[c] = "url"}
    \cup {c \in {"pages", "types"} : \E n \in DOMAIN doc[c] : doc[c][n].text = "url"}

\* No file is unlinked while the home page or a page shows it by its URL, unless
\* a write of the document came between the search for references and the
\* unlinking.  The code promises more, "anywhere in the CMS state JSON columns"
\* (isMediaReferenced), as does BACKEND.md, "fails if still referenced"; but it
\* searches neither the consultation types nor the payment methods, and nowhere
\* for the file's id, so what only they use is unlinked.
MediaInUseStays ==
  [][\A r \in Requests :
       pc[r] = "unlink" /\ pc'[r] = "delete" /\ r \notin crossed /\ row # NoRow =>
         ShownIn(row) \subseteq {"types"}]_vars

=============================================================================
