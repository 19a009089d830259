--------------------------- MODULE CmsStateProofs ---------------------------
(***************************************************************************)
(* Theorems about the CMS, for every number of requests, whatever editors  *)
(* send, and every document that the row may hold.                         *)
(***************************************************************************)
EXTENDS CmsState, FiniteSetTheorems, SequenceTheorems, WellFoundedInduction, TLAPS

-----------------------------------------------------------------------------
(* Documents and their parts *)

\* A value that column c may have.
Fills(c, x) ==
  CASE c = "version" -> x \in Nat
    [] c = "settings" -> x \in Settings
    [] c = "menu" -> x \in SUBSET Tabs
    [] c = "home" -> x \in PageTexts
    [] c = "pages" -> x \in Seq(Page)
    [] c = "types" -> x \in Seq(Type)
    [] c = "payments" -> x \in {"latin", "arabic"}

\* A row has every column, and a value of its own in each.
LEMMA RowColumns ==
  ASSUME NEW f
  PROVE  f \in Row <=> /\ f = [c \in Columns |-> f[c]]
                       /\ \A c \in Columns : Fills(c, f[c])
<1>1. ASSUME f \in Row PROVE f = [c \in Columns |-> f[c]] /\ \A c \in Columns : Fills(c, f[c])
  BY <1>1 DEF Row, Columns, Fills
<1>2. ASSUME f = [c \in Columns |-> f[c]], \A c \in Columns : Fills(c, f[c]) PROVE f \in Row
  <2>1. /\ f["version"] \in Nat /\ f["settings"] \in Settings
        /\ f["menu"] \in SUBSET Tabs /\ f["home"] \in PageTexts
        /\ f["pages"] \in Seq(Page) /\ f["types"] \in Seq(Type)
        /\ f["payments"] \in {"latin", "arabic"}
    BY <1>2 DEF Columns, Fills
  <2>2. QED
    BY <1>2, <2>1 DEF Row, Columns
<1>3. QED
  BY <1>1, <1>2

LEMMA OverrideValues ==
  ASSUME NEW f, NEW g
  PROVE  /\ DOMAIN Override(f, g) = DOMAIN f \cup DOMAIN g
         /\ \A x \in DOMAIN g : Override(f, g)[x] = g[x]
         /\ \A x \in DOMAIN f \ DOMAIN g : Override(f, g)[x] = f[x]
  BY DEF Override

\* A row overridden by g is a row if g has no other columns, and fills its own.
LEMMA OverrideRow ==
  ASSUME NEW doc \in Row, NEW g
  PROVE  Override(doc, g) \in Row <=>
           DOMAIN g \subseteq Columns /\ \A c \in DOMAIN g : Fills(c, g[c])
<1>1. DOMAIN doc = Columns /\ \A c \in Columns : Fills(c, doc[c])
  BY RowColumns
<1>2. ASSUME DOMAIN g \subseteq Columns, \A c \in DOMAIN g : Fills(c, g[c])
      PROVE  Override(doc, g) \in Row
  <2>1. Override(doc, g) = [c \in Columns |-> Override(doc, g)[c]]
    BY <1>1, <1>2 DEF Override
  <2>2. \A c \in Columns : Fills(c, Override(doc, g)[c])
    BY <1>1, <1>2, OverrideValues
  <2>3. QED
    BY <2>1, <2>2, RowColumns
<1>3. ASSUME Override(doc, g) \in Row
      PROVE  DOMAIN g \subseteq Columns /\ \A c \in DOMAIN g : Fills(c, g[c])
  <2> DEFINE f == Override(doc, g)
  <2>1. f = [c \in Columns |-> f[c]] /\ \A c \in Columns : Fills(c, f[c])
    BY <1>3, RowColumns
  <2>2. DOMAIN f = Columns
    BY <2>1
  <2>3. DOMAIN g \subseteq DOMAIN f /\ \A c \in DOMAIN g : f[c] = g[c]
    BY OverrideValues
  <2> HIDE DEF f
  <2>4. ASSUME NEW c \in DOMAIN g PROVE c \in Columns /\ Fills(c, g[c])
    <3>1. c \in Columns /\ f[c] = g[c]
      BY <2>2, <2>3
    <3>2. Fills(c, f[c])
      BY <2>1, <3>1
    <3>3. QED
      BY <3>1, <3>2
  <2>5. QED
    BY <2>4
<1>4. QED
  BY <1>2, <1>3

\* Writing the same columns again changes nothing.
LEMMA OverrideTwice ==
  ASSUME NEW f, NEW g, NEW h, DOMAIN f \subseteq DOMAIN h, DOMAIN g \subseteq DOMAIN h
  PROVE  Override(f, h) = Override(g, h)
  BY DEF Override

LEMMA OverrideSettings ==
  ASSUME NEW s \in Settings, NEW t \in Settings
  PROVE  Override(s, t) \in Settings
<1>1. PICK S \in SUBSET Fields : s \in [S -> SettingsTexts]
  BY DEF Settings
<1>2. PICK T \in SUBSET Fields : t \in [T -> SettingsTexts]
  BY DEF Settings
<1>3. Override(s, t) \in [S \cup T -> SettingsTexts]
  BY <1>1, <1>2 DEF Override
<1>4. QED
  BY <1>3 DEF Settings

LEMMA DefaultIsRow == DefaultRow \in Row
<1>1. [splashText |-> "default", hotline |-> "blank"] \in Settings
  <2>1. [splashText |-> "default", hotline |-> "blank"] \in
          [{"splashText", "hotline"} -> SettingsTexts]
    BY DEF SettingsTexts
  <2>2. QED
    BY <2>1 DEF Settings, Fields
<1>2. QED
  BY <1>1 DEF DefaultRow, Row, CurrentVersion, PageTexts

-----------------------------------------------------------------------------
(* The migration *)

\* A body, of a call or of the row: a version, and columns that are well filled.
LEMMA BodyColumns ==
  ASSUME NEW b
  PROVE  /\ IsBody(b) <=> /\ "version" \in DOMAIN b /\ DOMAIN b \subseteq Columns
                          /\ \A c \in DOMAIN b : Fills(c, b[c])
         /\ b \in Row => IsBody(b)
<1>1. IsBody(b) <=> /\ "version" \in DOMAIN b /\ DOMAIN b \subseteq Columns
                    /\ \A c \in DOMAIN b : Fills(c, b[c])
  BY DefaultIsRow, OverrideRow DEF IsBody
<1>2. b \in Row => /\ "version" \in DOMAIN b /\ DOMAIN b \subseteq Columns
                   /\ \A c \in DOMAIN b : Fills(c, b[c])
  <2>1. b \in Row => DOMAIN b = Columns
    BY DEF Row, Columns
  <2>2. QED
    BY <2>1, RowColumns DEF Columns
<1>3. QED
  BY <1>1, <1>2

LEMMA EnsuredSettings ==
  ASSUME NEW s \in Settings
  PROVE  /\ Ensured(s) \in Settings
         /\ \A f \in Required : f \in DOMAIN Ensured(s) /\ Ensured(s)[f] # "blank"
         /\ DOMAIN s \subseteq DOMAIN Ensured(s)
         /\ \A f \in DOMAIN s : s[f] # "blank" => Ensured(s)[f] = s[f]
         /\ Ensured(Ensured(s)) = Ensured(s)
<1>1. PICK S \in SUBSET Fields : s \in [S -> SettingsTexts]
  BY DEF Settings
<1>2. Ensured(s) \in [S \cup Required -> SettingsTexts]
  BY <1>1 DEF Ensured, SettingsTexts
<1>3. Ensured(s) \in Settings
  BY <1>1, <1>2 DEF Settings, Required, Fields
<1>4. /\ \A f \in Required : f \in DOMAIN Ensured(s) /\ Ensured(s)[f] # "blank"
      /\ DOMAIN s \subseteq DOMAIN Ensured(s)
      /\ \A f \in DOMAIN s : s[f] # "blank" => Ensured(s)[f] = s[f]
  BY <1>1 DEF Ensured
<1>5. Ensured(Ensured(s)) = Ensured(s)
  <2> DEFINE t == Ensured(s)
  <2>1. DOMAIN t = S \cup Required
    BY <1>2
  <2>2. t = [f \in DOMAIN t |-> t[f]]
    BY <1>2
  <2>3. \A f \in Required : f \in DOMAIN t /\ t[f] # "blank"
    BY <1>4
  <2> HIDE DEF t
  <2>4. DOMAIN t \cup Required = DOMAIN t
    BY <2>1
  <2>5. Ensured(t) = t
    BY <2>2, <2>3, <2>4 DEF Ensured
  <2>6. QED
    BY <2>5 DEF t
<1>6. QED
  BY <1>3, <1>4, <1>5

LEMMA RenamedSettings ==
  ASSUME NEW s \in Settings, NEW v \in Nat
  PROVE  /\ Renamed(v, s) \in Settings
         /\ \A f \in DOMAIN s \ {"contactPhone"} :
              f \in DOMAIN Renamed(v, s) /\ Renamed(v, s)[f] = s[f]
<1>1. PICK S \in SUBSET Fields : s \in [S -> SettingsTexts]
  BY DEF Settings
<1>2. CASE ~(v < 6 /\ "contactPhone" \in DOMAIN s)
  BY <1>2 DEF Renamed
<1>3. CASE v < 6 /\ "contactPhone" \in DOMAIN s
  <2> DEFINE p == [hotline |-> s.contactPhone]
             q == [f \in DOMAIN s \ {"contactPhone"} |-> s[f]]
  <2>1. Renamed(v, s) = Override(p, q)
    BY <1>3 DEF Renamed
  <2>2. s.contactPhone \in SettingsTexts
    BY <1>1, <1>3
  <2>3. p \in [{"hotline"} -> SettingsTexts]
    BY <2>2
  <2>4. p \in Settings
    BY <2>3 DEF Settings, Fields
  <2>5. q \in [S \ {"contactPhone"} -> SettingsTexts]
    BY <1>1
  <2>6. q \in Settings
    BY <2>5 DEF Settings
  <2>7. \A f \in DOMAIN s \ {"contactPhone"} : f \in DOMAIN q /\ q[f] = s[f]
    OBVIOUS
  <2> HIDE DEF p, q
  <2>8. Override(p, q) \in Settings
    BY <2>4, <2>6, OverrideSettings
  <2>9. \A f \in DOMAIN q : f \in DOMAIN Override(p, q) /\ Override(p, q)[f] = q[f]
    BY DEF Override
  <2>10. QED
    BY <2>1, <2>7, <2>8, <2>9
<1>4. QED
  BY <1>2, <1>3

\* The settings that a body brings.
SettingsOf(b) == IF "settings" \in DOMAIN b THEN b.settings ELSE <<>>

LEMMA SettingsOfBody ==
  ASSUME NEW b, IsBody(b)
  PROVE  SettingsOf(b) \in Settings /\ b.version \in Nat
<1>1. <<>> \in Settings
  <2>1. <<>> \in [{} -> SettingsTexts]
    OBVIOUS
  <2>2. QED
    BY <2>1 DEF Settings
<1>2. QED
  BY <1>1, BodyColumns DEF SettingsOf, Fills, Columns

LEMMA SettingsAfterBody ==
  ASSUME NEW b, IsBody(b)
  PROVE  /\ SettingsAfter(b) \in Settings
         /\ \A f \in Required : f \in DOMAIN SettingsAfter(b) /\ SettingsAfter(b)[f] # "blank"
         /\ \A f \in DOMAIN SettingsOf(b) \ {"contactPhone"} :
              SettingsOf(b)[f] = "written" => SettingsAfter(b)[f] = "written"
         /\ Ensured(SettingsAfter(b)) = SettingsAfter(b)
<1> DEFINE s == Renamed(b.version, SettingsOf(b))
<1>1. s \in Settings
  BY SettingsOfBody, RenamedSettings
<1>2. SettingsAfter(b) = Ensured(s)
  BY DEF SettingsAfter, SettingsOf
<1>3. \A f \in DOMAIN SettingsOf(b) \ {"contactPhone"} : f \in DOMAIN s /\ s[f] = SettingsOf(b)[f]
  BY SettingsOfBody, RenamedSettings
<1> HIDE DEF s
<1>4. QED
  BY <1>1, <1>2, <1>3, EnsuredSettings

\* SetToSeq lists a finite set without repetition.
LEMMA ListedOnce ==
  ASSUME NEW S, IsFiniteSet(S)
  PROVE  /\ SetToSeq(S) \in [1 .. Cardinality(S) -> S]
         /\ Cardinality(S) \in Nat
         /\ \A m, n \in 1 .. Cardinality(S) : m # n => SetToSeq(S)[m] # SetToSeq(S)[n]
<1>1. Cardinality(S) \in Nat /\ ExistsBijection(1 .. Cardinality(S), S)
  BY FS_CardinalityType
<1>2. \E g \in [1 .. Cardinality(S) -> S] : IsInjective(g)
  BY <1>1 DEF ExistsBijection, Bijection, Injection
<1>3. SetToSeq(S) \in [1 .. Cardinality(S) -> S] /\ IsInjective(SetToSeq(S))
  BY <1>2 DEF SetToSeq
<1>4. QED
  BY <1>1, <1>3 DEF SetToSeq, IsInjective

\* No key stands in a list of types twice.
KeysOnce(types) == \A m, n \in DOMAIN types : m # n => types[m].id # types[n].id

LEMMA FormsListed ==
  ASSUME NEW S \in SUBSET Ids, IsFiniteSet(S), NEW text \in TypeTexts
  PROVE  FormsOf(S, text) \in Seq(Type) /\ KeysOnce(FormsOf(S, text))
<1> DEFINE n == Cardinality(S)
           forms == FormsOf(S, text)
<1>1. n \in Nat /\ SetToSeq(S) \in [1 .. n -> S]
        /\ \A k, m \in 1 .. n : k # m => SetToSeq(S)[k] # SetToSeq(S)[m]
  BY ListedOnce
<1>2. forms = [k \in 1 .. n |-> [id |-> SetToSeq(S)[k], text |-> text]]
  BY <1>1 DEF FormsOf
<1> HIDE DEF n, forms
<1>3. forms \in [1 .. n -> Type]
  BY <1>1, <1>2 DEF Type
<1>4. forms \in Seq(Type)
  BY <1>1, <1>3, SeqDef
<1>5. KeysOnce(forms)
  BY <1>1, <1>2 DEF KeysOnce
<1>6. QED
  BY <1>4, <1>5 DEF forms

\* The types that a body brings.
TypesOf(b) == IF "types" \in DOMAIN b THEN b.types ELSE <<>>

LEMMA TypesAfterBody ==
  ASSUME NEW b, IsBody(b)
  PROVE  /\ TypesAfter(b) \in Seq(Type)
         /\ KeysOnce(TypesOf(b)) => KeysOnce(TypesAfter(b))
         /\ b.version >= 11 /\ "types" \in DOMAIN b => TypesAfter(b) = b.types
<1>1. TypesOf(b) \in Seq(Type) /\ b.version \in Nat
  <2>1. "types" \in DOMAIN b => b.types \in Seq(Type)
    BY BodyColumns DEF Fills, Columns
  <2>2. b.version \in Nat
    BY SettingsOfBody
  <2>3. QED
    BY <2>1, <2>2 DEF TypesOf
<1>2. /\ FormsOf(EnglishKeys, "legacy") \in Seq(Type) /\ KeysOnce(FormsOf(EnglishKeys, "legacy"))
      /\ DefaultTypes \in Seq(Type) /\ KeysOnce(DefaultTypes)
  BY KeysAssumption, FormsListed DEF DefaultTypes, TypeTexts
<1>3. TypesAfter(b) \in {TypesOf(b), FormsOf(EnglishKeys, "legacy"), DefaultTypes}
  BY DEF TypesAfter, TypesOf, Repaired11, Seeded9
<1>4. b.version >= 11 => TypesAfter(b) = TypesOf(b)
  BY <1>1 DEF TypesAfter, TypesOf, Repaired11, Seeded9
<1>5. QED
  BY <1>1, <1>2, <1>3, <1>4 DEF TypesOf

LEMMA PaymentsAfterBody ==
  ASSUME NEW b, IsBody(b)
  PROVE  /\ PaymentsAfter(b) \in {"latin", "arabic"}
         /\ b.version >= 10 /\ "payments" \in DOMAIN b => PaymentsAfter(b) = b.payments
<1>1. "payments" \in DOMAIN b => b.payments \in {"latin", "arabic"}
  BY BodyColumns DEF Fills, Columns
<1>2. b.version \in Nat
  BY SettingsOfBody
<1>3. QED
  BY <1>1, <1>2 DEF PaymentsAfter

\* The columns that migrate adds to a body.
Filled(b) == {"version", "settings"} \cup (IF b.version < 11 THEN {"types"} ELSE {})
               \cup (IF b.version < 5 THEN {"payments"} ELSE {})

LEMMA MigratedColumns ==
  ASSUME NEW b
  PROVE  /\ Migrate(b) = [c \in DOMAIN b \cup Filled(b) |-> Migrate(b)[c]]
         /\ Migrate(b).version = VersionAfter(b.version)
         /\ Migrate(b).settings = SettingsAfter(b)
         /\ "types" \in DOMAIN b \cup Filled(b) => Migrate(b).types = TypesAfter(b)
         /\ "payments" \in DOMAIN b \cup Filled(b) => Migrate(b).payments = PaymentsAfter(b)
         /\ \A c \in DOMAIN b \ {"version", "settings", "types", "payments"} :
              Migrate(b)[c] = b[c]
  BY DEF Migrate, Filled

LEMMA MigratedBody ==
  ASSUME NEW b, IsBody(b)
  PROVE  IsBody(Migrate(b))
<1>1. DOMAIN Migrate(b) = DOMAIN b \cup Filled(b)
  BY MigratedColumns
<1>2. "version" \in DOMAIN Migrate(b) /\ DOMAIN Migrate(b) \subseteq Columns
  BY <1>1, BodyColumns DEF Filled, Columns
<1>3. VersionAfter(b.version) \in Nat
  BY SettingsOfBody DEF VersionAfter, CurrentVersion
<1>4. ASSUME NEW c \in DOMAIN Migrate(b) PROVE Fills(c, Migrate(b)[c])
  <2>1. CASE c = "version"
    BY <1>3, <2>1, MigratedColumns DEF Fills
  <2>2. CASE c = "settings"
    BY <2>2, MigratedColumns, SettingsAfterBody DEF Fills
  <2>3. CASE c = "types"
    BY <1>1, <2>3, MigratedColumns, TypesAfterBody DEF Fills
  <2>4. CASE c = "payments"
    BY <1>1, <2>4, MigratedColumns, PaymentsAfterBody DEF Fills
  <2>5. CASE c \notin {"version", "settings", "types", "payments"}
    <3>1. c \in DOMAIN b
      BY <1>1, <2>5 DEF Filled
    <3>2. Migrate(b)[c] = b[c]
      BY <2>5, <3>1, MigratedColumns
    <3>3. Fills(c, b[c])
      BY <3>1, BodyColumns
    <3>4. QED
      BY <3>2, <3>3
  <2>6. QED
    BY <2>1, <2>2, <2>3, <2>4, <2>5
<1>5. QED
  BY <1>2, <1>4, BodyColumns

\* A migrated body is migrated as it is: migrate may run again.
LEMMA MigratedTwice ==
  ASSUME NEW b, IsBody(b)
  PROVE  Migrate(Migrate(b)) = Migrate(b)
<1> DEFINE d == Migrate(b)
<1>1. IsBody(d)
  BY MigratedBody
<1>2. /\ DOMAIN d = DOMAIN b \cup Filled(b)
      /\ d.version = VersionAfter(b.version) /\ d.settings = SettingsAfter(b)
      /\ d = [c \in DOMAIN d |-> d[c]]
  BY MigratedColumns
<1>3. b.version \in Nat /\ d.version \in Nat /\ d.version >= 11 /\ VersionAfter(d.version) = d.version
  BY <1>2, SettingsOfBody DEF VersionAfter, CurrentVersion
<1> HIDE DEF d
<1>4. Filled(d) = {"version", "settings"}
  BY <1>3 DEF Filled
<1>5. DOMAIN d \cup Filled(d) = DOMAIN d
  BY <1>2, <1>4 DEF Filled
<1>6. SettingsAfter(d) = d.settings
  <2>1. Renamed(d.version, d.settings) = d.settings
    BY <1>3 DEF Renamed
  <2>2. SettingsAfter(d) = Ensured(d.settings)
    BY <1>2, <2>1 DEF SettingsAfter, Filled
  <2>3. QED
    BY <1>2, <2>2, SettingsAfterBody
<1>7. "types" \in DOMAIN d => TypesAfter(d) = d.types
  BY <1>1, <1>3, TypesAfterBody
<1>8. "payments" \in DOMAIN d => PaymentsAfter(d) = d.payments
  BY <1>1, <1>3, PaymentsAfterBody
<1>9. \A c \in DOMAIN d : Migrate(d)[c] = d[c]
  BY <1>3, <1>5, <1>6, <1>7, <1>8, MigratedColumns
<1>10. Migrate(d) = [c \in DOMAIN d |-> Migrate(d)[c]]
  BY <1>5, MigratedColumns
<1>11. Migrate(d) = d
  BY <1>2, <1>9, <1>10
<1>12. QED
  BY <1>11 DEF d

-----------------------------------------------------------------------------
(* Edits *)

\* What the fields of an edit are.
LEMMA EditFields ==
  ASSUME NEW e \in Edits
  PROVE  /\ e.kind \in {"settings", "menu", "home", "add", "edit", "remove", "toggle",
                        "show", "backup", "replace", "import"}
         /\ e.kind = "settings" => e.change \in Settings
         /\ e.kind = "menu" => e.tabs \in SUBSET Tabs
         /\ e.kind = "home" => e.text \in PageTexts
         /\ e.kind \in {"replace", "import"} =>
              e = [kind |-> e.kind, blob |-> e.blob] /\ IsBody(e.blob)
         /\ e.kind \in {"add", "edit", "remove", "toggle"} => e.list \in {"pages", "types"}
         /\ e.kind = "add" /\ e.list = "pages" => e.item \in Page
         /\ e.kind = "add" /\ e.list = "types" => e.item \in Type
         /\ e.kind = "edit" /\ e.list = "pages" => e.updates \in [text : PageTexts]
         /\ e.kind = "edit" /\ e.list = "types" => e.updates \in [text : TypeTexts]
         /\ e.kind = "toggle" => e.list = "pages"
<1> DEFINE Sections == e \in SectionCalls
           Tools == e \in ToolCalls
           Pages == e \in PageCalls
           Types == e \in TypeCalls
           Bodies == /\ e = [kind |-> e.kind, blob |-> e.blob]
                     /\ e.kind \in {"replace", "import"} /\ IsBody(e.blob)
<1>1. Sections \/ Tools \/ Pages \/ Types \/ Bodies
  BY EditsAssumption
<1>2. CASE Sections
  BY <1>2 DEF SectionCalls
<1>3. CASE Tools
  BY <1>3 DEF ToolCalls
<1>4. CASE Pages
  BY <1>4 DEF PageCalls
<1>5. CASE Types
  BY <1>5 DEF TypeCalls
<1>6. CASE Bodies
  BY <1>6
<1>7. QED
  BY <1>1, <1>2, <1>3, <1>4, <1>5, <1>6

\* A set of natural numbers that is not empty has a least member.
LEMMA LeastNat ==
  ASSUME NEW S \in SUBSET Nat, S # {}
  PROVE  Min(S) \in S
<1>1. PICK x \in S : \A y \in S : ~ (<<y, x>> \in OpToRel(<, Nat))
  BY NatLessThanWellFounded, WFMin
<1>2. ASSUME NEW y \in S PROVE x <= y
  <2>1. ~ (y < x)
    BY <1>1 DEF OpToRel
  <2>2. QED
    BY <2>1
<1>3. QED
  BY <1>2 DEF Min

\* PlaceOf finds an item with the id, if there is one.
LEMMA PlaceFound ==
  ASSUME NEW items, Len(items) \in Nat, NEW id
  PROVE  /\ PlaceOf(items, id) # 0 =>
              PlaceOf(items, id) \in 1 .. Len(items) /\ items[PlaceOf(items, id)].id = id
         /\ PlaceOf(items, id) = 0 => \A n \in 1 .. Len(items) : items[n].id # id
<1> DEFINE I == {n \in 1 .. Len(items) : items[n].id = id}
<1>1. PlaceOf(items, id) = IF I # {} THEN Min(I) ELSE 0
  BY DEF PlaceOf, SelectInSeq
<1>2. I \in SUBSET Nat
  OBVIOUS
<1>3. I # {} => Min(I) \in I
  BY <1>2, LeastNat
<1> HIDE DEF I
<1>4. CASE I = {}
  BY <1>1, <1>4 DEF I
<1>5. CASE I # {}
  BY <1>1, <1>3, <1>5 DEF I
<1>6. QED
  BY <1>4, <1>5

LEMMA Removed ==
  ASSUME NEW S, NEW s \in Seq(S), NEW n \in 1 .. Len(s)
  PROVE  /\ RemoveAt(s, n) \in Seq(S)
         /\ Len(RemoveAt(s, n)) = Len(s) - 1
         /\ \A i \in 1 .. Len(s) - 1 :
              RemoveAt(s, n)[i] = IF i < n THEN s[i] ELSE s[i + 1]
<1> DEFINE a == SubSeq(s, 1, n - 1)
           b == SubSeq(s, n + 1, Len(s))
<1>1. Len(s) \in Nat /\ n \in Nat /\ 1 <= n /\ n <= Len(s)
  BY LenProperties
<1>2. a \in Seq(S) /\ Len(a) = n - 1 /\ \A i \in 1 .. n - 1 : a[i] = s[i]
  BY <1>1, SubSeqProperties
<1>3. b \in Seq(S) /\ Len(b) = Len(s) - n /\ \A i \in 1 .. Len(s) - n : b[i] = s[n + i]
  BY <1>1, SubSeqProperties
<1>4. RemoveAt(s, n) = a \o b
  BY DEF RemoveAt
<1> HIDE DEF a, b
<1>5. a \o b \in Seq(S) /\ Len(a \o b) = Len(s) - 1
  <2>1. a \o b \in Seq(S) /\ Len(a \o b) = Len(a) + Len(b)
    BY <1>2, <1>3, ConcatProperties
  <2>2. Len(a) + Len(b) = Len(s) - 1
    BY <1>1, <1>2, <1>3
  <2>3. QED
    BY <2>1, <2>2
<1>6. ASSUME NEW i \in 1 .. Len(s) - 1
      PROVE  (a \o b)[i] = IF i < n THEN s[i] ELSE s[i + 1]
  <2>1. CASE i < n
    BY <1>1, <1>2, <1>3, <2>1, ConcatProperties
  <2>2. CASE ~(i < n)
    <3> DEFINE k == i - (n - 1)
    <3>1. k \in 1 .. Len(s) - n /\ n + k = i + 1
      BY <1>1, <2>2
    <3>2. (a \o b)[i] = b[k]
      BY <1>1, <1>2, <1>3, <2>2, ConcatProperties
    <3>3. b[k] = s[i + 1]
      BY <1>3, <3>1
    <3>4. QED
      BY <2>2, <3>2, <3>3
  <2>3. QED
    BY <2>1, <2>2
<1>7. QED
  BY <1>4, <1>5, <1>6

\* The list of a document that an edit is about, and the place it finds there.
LEMMA EditPlace ==
  ASSUME NEW e \in Edits, NEW doc \in Row, Refusal(e, doc) = "none",
         e.kind \in {"edit", "remove", "toggle"}, NEW S, doc[e.list] \in Seq(S)
  PROVE  PlaceOf(doc[e.list], e.id) \in 1 .. Len(doc[e.list])
<1>1. PlaceOf(doc[e.list], e.id) # 0
  BY DEF Refusal
<1>2. QED
  BY <1>1, PlaceFound, LenProperties

\* An edit of a list leaves a list of the same kind, and no key twice.
LEMMA EditedPages ==
  ASSUME NEW e \in Edits, NEW doc \in Row, Refusal(e, doc) = "none",
         e.kind \in {"add", "edit", "remove", "toggle"}, e.list = "pages"
  PROVE  Items(e, doc.pages) \in Seq(Page)
<1> DEFINE n == PlaceOf(doc.pages, e.id)
<1>1. doc.pages \in Seq(Page) /\ doc[e.list] = doc.pages
  BY DEF Row
<1>2. CASE e.kind = "add"
  BY <1>1, <1>2, EditFields, AppendProperties DEF Items
<1>3. e.kind # "add" => n \in 1 .. Len(doc.pages)
  BY <1>1, EditPlace
<1>4. e.kind # "add" => doc.pages[n] \in Page
  BY <1>1, <1>3, ElementOfSeq
<1> HIDE DEF n
<1>5. CASE e.kind = "edit"
  <2>1. e.updates \in [text : PageTexts]
    BY <1>5, EditFields
  <2>2. Override(doc.pages[n], e.updates) \in Page
    BY <1>4, <1>5, <2>1 DEF Override, Page
  <2>3. Items(e, doc.pages) = [doc.pages EXCEPT ![n] = Override(doc.pages[n], e.updates)]
    BY <1>1, <1>3, <1>5 DEF Items, n
  <2> DEFINE p == Override(doc.pages[n], e.updates)
  <2>4. p \in Page /\ Items(e, doc.pages) = [doc.pages EXCEPT ![n] = p]
    BY <2>2, <2>3
  <2> HIDE DEF p
  <2>5. QED
    BY <1>1, <1>3, <1>5, <2>4, ExceptSeq
<1>6. CASE e.kind = "remove"
  BY <1>1, <1>3, <1>6, Removed DEF Items, n
<1>7. CASE e.kind = "toggle"
  <2> DEFINE p == [doc.pages[n] EXCEPT !.status = Toggled(@)]
  <2>1. p \in Page
    BY <1>4, <1>7 DEF Page, Toggled
  <2>2. Items(e, doc.pages) = [doc.pages EXCEPT ![n] = p]
    BY <1>1, <1>3, <1>7 DEF Items, n
  <2> HIDE DEF p
  <2>3. QED
    BY <1>1, <1>3, <1>7, <2>1, <2>2, ExceptSeq
<1>8. QED
  BY <1>2, <1>5, <1>6, <1>7

LEMMA EditedTypes ==
  ASSUME NEW e \in Edits, NEW doc \in Row, Refusal(e, doc) = "none",
         e.kind \in {"add", "edit", "remove", "toggle"}, e.list = "types"
  PROVE  /\ Items(e, doc.types) \in Seq(Type)
         /\ KeysOnce(doc.types) => KeysOnce(Items(e, doc.types))
<1> DEFINE n == PlaceOf(doc.types, e.id)
           types == Items(e, doc.types)
<1>1. /\ doc.types \in Seq(Type) /\ doc[e.list] = doc.types
      /\ Len(doc.types) \in Nat /\ DOMAIN doc.types = 1 .. Len(doc.types)
  <2>1. doc.types \in Seq(Type) /\ doc[e.list] = doc.types
    BY DEF Row
  <2>2. QED
    BY <2>1, LenProperties
<1>2. CASE e.kind = "add"
  <2>1. e.item \in Type
    BY <1>2, EditFields
  <2>2. \A m \in 1 .. Len(doc.types) : doc.types[m].id # e.item.id
    BY <1>1, <1>2, PlaceFound DEF Refusal
  <2>3. types = Append(doc.types, e.item)
    BY <1>2 DEF Items
  <2>4. /\ types \in Seq(Type) /\ DOMAIN types = 1 .. Len(doc.types) + 1
        /\ \A m \in 1 .. Len(doc.types) : types[m] = doc.types[m]
        /\ types[Len(doc.types) + 1] = e.item
    BY <1>1, <2>1, <2>3, AppendProperties, LenProperties
  <2> HIDE DEF types
  <2>5. KeysOnce(doc.types) => KeysOnce(types)
    <3> SUFFICES ASSUME KeysOnce(doc.types), NEW k \in DOMAIN types, NEW m \in DOMAIN types,
                        k # m
                 PROVE  types[k].id # types[m].id
      BY DEF KeysOnce
    <3>1. CASE k = Len(doc.types) + 1
      BY <1>1, <2>2, <2>4, <3>1
    <3>2. CASE m = Len(doc.types) + 1
      BY <1>1, <2>2, <2>4, <3>2
    <3>3. CASE k # Len(doc.types) + 1 /\ m # Len(doc.types) + 1
      <4>1. k \in 1 .. Len(doc.types) /\ m \in 1 .. Len(doc.types)
        BY <1>1, <2>4, <3>3
      <4>2. QED
        BY <1>1, <2>4, <4>1 DEF KeysOnce
    <3>4. QED
      BY <3>1, <3>2, <3>3
  <2>6. QED
    BY <2>4, <2>5 DEF types
<1>3. e.kind # "add" => n \in 1 .. Len(doc.types)
  BY <1>1, EditPlace
<1>4. e.kind # "add" => doc.types[n] \in Type
  BY <1>1, <1>3, ElementOfSeq
<1> HIDE DEF n
<1>5. CASE e.kind = "edit"
  <2> DEFINE t == Override(doc.types[n], e.updates)
  <2>1. e.updates \in [text : TypeTexts]
    BY <1>5, EditFields
  <2>2. t \in Type /\ t.id = doc.types[n].id
    BY <1>4, <1>5, <2>1 DEF Override, Type
  <2>3. types = [doc.types EXCEPT ![n] = t]
    BY <1>1, <1>3, <1>5 DEF Items, n
  <2> HIDE DEF t
  <2>4. /\ types \in Seq(Type) /\ DOMAIN types = DOMAIN doc.types
        /\ \A m \in DOMAIN types : types[m].id = doc.types[m].id
    BY <1>1, <1>3, <1>5, <2>2, <2>3, ExceptSeq
  <2> HIDE DEF types
  <2>5. KeysOnce(doc.types) => KeysOnce(types)
    BY <2>4 DEF KeysOnce
  <2>6. QED
    BY <2>4, <2>5 DEF types
<1>6. CASE e.kind = "remove"
  <2>1. types = RemoveAt(doc.types, n)
    BY <1>6 DEF Items, n
  <2>2. /\ types \in Seq(Type) /\ Len(types) = Len(doc.types) - 1
        /\ \A i \in 1 .. Len(doc.types) - 1 :
             types[i] = IF i < n THEN doc.types[i] ELSE doc.types[i + 1]
    BY <1>1, <1>3, <1>6, <2>1, Removed
  <2>3. DOMAIN types = 1 .. Len(doc.types) - 1
    BY <2>2, LenProperties
  <2> HIDE DEF types
  <2>4. KeysOnce(doc.types) => KeysOnce(types)
    <3> SUFFICES ASSUME KeysOnce(doc.types), NEW k \in DOMAIN types, NEW m \in DOMAIN types,
                        k # m
                 PROVE  types[k].id # types[m].id
      BY DEF KeysOnce
    <3> DEFINE from(i) == IF i < n THEN i ELSE i + 1
    <3>1. /\ from(k) \in DOMAIN doc.types /\ from(m) \in DOMAIN doc.types
          /\ from(k) # from(m)
      BY <1>1, <1>3, <1>6, <2>3
    <3>2. types[k] = doc.types[from(k)] /\ types[m] = doc.types[from(m)]
      BY <2>2, <2>3
    <3> HIDE DEF from
    <3>3. QED
      BY <3>1, <3>2 DEF KeysOnce
  <2>5. QED
    BY <2>2, <2>4 DEF types
<1>7. e.kind # "toggle"
  BY EditFields
<1>8. QED
  BY <1>2, <1>5, <1>6, <1>7

\* The columns that an edit writes fill a row.
LEMMA EditedColumns ==
  ASSUME NEW e \in Writers, NEW doc \in Row, Refusal(e, doc) = "none"
  PROVE  DOMAIN Edited(e, doc) = Section(e) /\ Override(doc, Edited(e, doc)) \in Row
<1> DEFINE changes == Edited(e, doc)
<1>1. e \in Edits /\ e.kind \in {"settings", "add", "edit", "remove", "toggle", "replace", "import"}
  BY DEF Writers
<1>2. CASE e.kind = "settings"
  <2>1. changes = [settings |-> Override(doc.settings, e.change)] /\ Section(e) = {"settings"}
    BY <1>2 DEF Edited, Section
  <2>2. Override(doc.settings, e.change) \in Settings
    BY <1>1, <1>2, EditFields, OverrideSettings DEF Row
  <2>3. \A c \in DOMAIN changes : Fills(c, changes[c])
    BY <2>1, <2>2 DEF Fills
  <2>4. QED
    BY <2>1, <2>3, OverrideRow DEF Columns
<1>3. CASE e.kind \in {"add", "edit", "remove", "toggle"}
  <2>1. changes = [c \in {e.list} |-> Items(e, doc[c])] /\ Section(e) = {e.list}
    BY <1>3 DEF Edited, Section
  <2>2. e.list \in {"pages", "types"}
    BY <1>1, <1>3, EditFields
  <2>3. Fills(e.list, Items(e, doc[e.list]))
    <3>1. CASE e.list = "pages"
      BY <1>1, <1>3, <3>1, EditedPages DEF Fills
    <3>2. CASE e.list = "types"
      BY <1>1, <1>3, <3>2, EditedTypes DEF Fills
    <3>3. QED
      BY <2>2, <3>1, <3>2
  <2>4. \A c \in DOMAIN changes : Fills(c, changes[c])
    BY <2>1, <2>3
  <2>5. QED
    BY <2>1, <2>2, <2>4, OverrideRow DEF Columns
<1>4. CASE e.kind \in {"replace", "import"}
  <2>1. changes = Override(doc, Migrate(e.blob)) /\ Section(e) = Columns
    BY <1>4 DEF Edited, Section
  <2>2. IsBody(Migrate(e.blob))
    BY <1>1, <1>4, EditFields, MigratedBody
  <2>3. changes \in Row
    BY <2>1, <2>2, BodyColumns, OverrideRow
  <2>4. DOMAIN changes = Columns /\ \A c \in DOMAIN changes : Fills(c, changes[c])
    BY <2>3, RowColumns
  <2>5. QED
    BY <2>1, <2>4, OverrideRow
<1>5. QED
  BY <1>1, <1>2, <1>3, <1>4

\* A body that is migrated before it replaces the document replaces it as it would
\* have otherwise: importState and replaceState both migrate.
LEMMA ImportedTwice ==
  ASSUME NEW e \in Importers, NEW doc
  PROVE  /\ Edited([e EXCEPT !.blob = Migrate(@)], doc) = Edited(e, doc)
         /\ Refusal(e, doc) = "none" /\ e \in Writers
<1>1. e \in Edits /\ e.kind = "import"
  BY DEF Importers
<1>2. e = [kind |-> e.kind, blob |-> e.blob] /\ IsBody(e.blob)
  BY <1>1, EditFields
<1>3. [e EXCEPT !.blob = Migrate(@)] = [kind |-> "import", blob |-> Migrate(e.blob)]
  BY <1>1, <1>2
<1>4. Migrate(Migrate(e.blob)) = Migrate(e.blob)
  BY <1>2, MigratedTwice
<1>5. Edited(e, doc) = Override(doc, Migrate(e.blob))
  BY <1>1 DEF Edited
<1>6. Edited([kind |-> "import", blob |-> Migrate(e.blob)], doc)
        = Override(doc, Migrate(Migrate(e.blob)))
  BY DEF Edited
<1>7. Refusal(e, doc) = "none" /\ e \in Writers
  BY <1>1 DEF Refusal, Writers
<1>8. QED
  BY <1>3, <1>4, <1>5, <1>6, <1>7

-----------------------------------------------------------------------------
(* The type invariant *)

\* Request r goes on to statement p, with edit and changes c, and answer a.
Moves(r, p, c, a) ==
  /\ pc' = [pc EXCEPT ![r] = p]
  /\ call' = [call EXCEPT ![r] = c]
  /\ answer' = [answer EXCEPT ![r] = a]

\* What fits one row fits another: a request that holds columns may write them to
\* whatever row is there by then.
LEMMA FitsOtherRow ==
  ASSUME NEW p, NEW c, NEW d \in Row \cup {NoRow}, NEW e \in Row \cup {NoRow},
         d # NoRow => e # NoRow, Fits(p, c, d)
  PROVE  Fits(p, c, e)
<1>1. CASE p = "write"
  <2>1. Override(d, c.changes) \in Row /\ d \in Row /\ e \in Row
    BY <1>1 DEF Fits
  <2>2. DOMAIN c.changes \subseteq Columns /\ \A x \in DOMAIN c.changes : Fills(x, c.changes[x])
    BY <2>1, OverrideRow
  <2>3. Override(e, c.changes) \in Row
    BY <2>1, <2>2, OverrideRow
  <2>4. QED
    BY <1>1, <2>1, <2>3, RowsAssumption DEF Fits
<1>2. CASE p # "write"
  BY <1>2 DEF Fits
<1>3. QED
  BY <1>1, <1>2

\* A step of one request keeps the type invariant if the row and the file keep their
\* types, the row is not removed, and what the request holds fits its new statement.
LEMMA StepType ==
  ASSUME TypeOK, NEW r \in Requests, NEW p \in Statements, NEW c, NEW a \in Answers,
         Moves(r, p, c, a), c = [edit |-> c.edit, changes |-> c.changes],
         row' \in Row \cup {NoRow}, row # NoRow => row' # NoRow,
         file' \in {"none", "stored", "unlinked", "removed"},
         crossed' \subseteq Requests,
         Fits(p, c, row')
  PROVE  TypeOK'
<1>1. pc' \in [Requests -> Statements] /\ answer' \in [Requests -> Answers]
  BY DEF TypeOK, Moves
<1>2. \A q \in Requests :
        /\ q = r => pc'[q] = p /\ call'[q] = c
        /\ q # r => pc'[q] = pc[q] /\ call'[q] = call[q]
  BY DEF TypeOK, Moves
<1>3. ASSUME NEW q \in Requests
      PROVE  /\ Fits(pc'[q], call'[q], row')
             /\ call'[q] = [edit |-> call'[q].edit, changes |-> call'[q].changes]
  <2>1. CASE q = r
    BY <1>2, <2>1
  <2>2. CASE q # r
    <3>1. Fits(pc[q], call[q], row) /\ row \in Row \cup {NoRow}
      BY DEF TypeOK
    <3>2. Fits(pc[q], call[q], row')
      BY <3>1, FitsOtherRow
    <3>3. call[q] = [edit |-> call[q].edit, changes |-> call[q].changes]
      BY DEF TypeOK
    <3>4. QED
      BY <1>2, <2>2, <3>2, <3>3
  <2>3. QED
    BY <2>1, <2>2
<1>4. call' = [q \in Requests |-> [edit |-> call'[q].edit, changes |-> call'[q].changes]]
  <2>1. call' = [q \in Requests |-> call'[q]]
    BY DEF TypeOK, Moves
  <2>2. QED
    BY <1>3, <2>1
<1>5. QED
  BY <1>1, <1>3, <1>4 DEF TypeOK

\* Answering a request keeps the type invariant if the tables keep theirs, and so does
\* a step that writes no table.
LEMMA FinishType ==
  ASSUME TypeOK, NEW r \in Requests, NEW a \in Answers, Finish(r, a),
         row' \in Row \cup {NoRow}, row # NoRow => row' # NoRow,
         file' \in {"none", "stored", "unlinked", "removed"}, crossed' \subseteq Requests
  PROVE  TypeOK'
<1>1. Moves(r, "done", NoCall, a)
  BY DEF Finish, Moves
<1>2. NoCall = [edit |-> NoCall.edit, changes |-> NoCall.changes]
  BY DEF NoCall
<1>3. Fits("done", NoCall, row') /\ "done" \in Statements
  BY DEF Fits, Statements
<1>4. QED
  BY <1>1, <1>2, <1>3, StepType

LEMMA GoOnType ==
  ASSUME TypeOK, NEW r \in Requests, NEW next \in Statements, NEW c, GoOn(r, next, c),
         c = [edit |-> c.edit, changes |-> c.changes],
         row' \in Row \cup {NoRow}, row # NoRow => row' # NoRow,
         file' \in {"none", "stored", "unlinked", "removed"}, crossed' \subseteq Requests,
         Fits(next, c, row')
  PROVE  TypeOK'
<1>1. answer = [answer EXCEPT ![r] = answer[r]] /\ answer[r] \in Answers
  BY DEF TypeOK
<1>2. Moves(r, next, c, answer[r])
  BY <1>1 DEF GoOn, Moves
<1>3. QED
  BY <1>1, <1>2, StepType

LEMMA OwnCall ==
  ASSUME TypeOK, NEW r \in Requests
  PROVE  /\ Fits(pc[r], call[r], row)
         /\ call[r] = [edit |-> call[r].edit, changes |-> call[r].changes]
         /\ pc[r] \in Statements /\ answer[r] \in Answers
  BY DEF TypeOK

LEMMA QuietTypes ==
  ASSUME TypeOK
  PROVE  /\ UNCHANGED row => row' \in Row \cup {NoRow} /\ (row # NoRow => row' # NoRow)
         /\ UNCHANGED file => file' \in {"none", "stored", "unlinked", "removed"}
         /\ UNCHANGED crossed => crossed' \subseteq Requests
         /\ \A r \in Requests : \A columns : Cross(r, columns) => crossed' \subseteq Requests
  BY DEF TypeOK, Cross

\* What a request does with the row that it found or created.
LEMMA ContinueType ==
  ASSUME TypeOK, NEW r \in Requests, NEW e \in Edits, e.kind \notin {"menu", "home"},
         NEW doc \in Row, row' = doc, UNCHANGED <<file, crossed>>, Continue(r, e, doc)
  PROVE  TypeOK'
<1> DEFINE held == [edit |-> e, changes |-> <<>>]
<1>1. /\ row' \in Row \cup {NoRow} /\ (row # NoRow => row' # NoRow)
      /\ file' \in {"none", "stored", "unlinked", "removed"} /\ crossed' \subseteq Requests
  BY QuietTypes, RowsAssumption
<1>2. /\ \A a \in Answers : Finish(r, a) => TypeOK'
      /\ \A next \in Statements : \A c : /\ GoOn(r, next, c)
                                     /\ c = [edit |-> c.edit, changes |-> c.changes]
                                     /\ Fits(next, c, row')
                                     => TypeOK'
  BY <1>1, FinishType, GoOnType
<1>3. CASE Finish(r, "done")
  BY <1>2, <1>3 DEF Answers
<1>4. CASE e.kind \in {"backup", "import"} /\ GoOn(r, "backup", held)
  <2>1. Fits("backup", held, row')
    BY <1>4, RowsAssumption DEF Fits
  <2>2. QED
    BY <1>2, <1>4, <2>1 DEF Statements
<1>5. CASE e.kind \notin {"show", "backup", "import"} /\ Compute(r, e, doc)
  <2>1. CASE Finish(r, Refusal(e, doc))
    <3>1. Refusal(e, doc) \in Answers
      BY DEF Refusal, Answers
    <3>2. QED
      BY <1>2, <2>1, <3>1
  <2>2. CASE /\ Refusal(e, doc) = "none"
             /\ GoOn(r, "write", [edit |-> e, changes |-> Edited(e, doc)])
    <3> DEFINE c == [edit |-> e, changes |-> Edited(e, doc)]
    <3>1. e \in Writers
      BY <1>5, EditFields DEF Writers
    <3>2. DOMAIN Edited(e, doc) = Section(e) /\ Override(doc, Edited(e, doc)) \in Row
      BY <2>2, <3>1, EditedColumns
    <3>3. Fits("write", c, row')
      BY <3>1, <3>2, RowsAssumption DEF Fits
    <3>4. c = [edit |-> c.edit, changes |-> c.changes] /\ GoOn(r, "write", c)
      BY <2>2
    <3> HIDE DEF c
    <3>5. QED
      BY <1>2, <3>3, <3>4 DEF Statements
  <2>3. QED
    BY <1>5, <2>1, <2>2 DEF Compute
<1>6. QED
  BY <1>3, <1>4, <1>5 DEF Continue

LEMMA EditStepsType ==
  ASSUME TypeOK, NEW r \in Requests
  PROVE  /\ \A e \in Edits : ReadRow(r, e) \/ ReplaceMenu(r, e) \/ ReplaceHome(r, e) => TypeOK'
         /\ CreateRow(r) => TypeOK'
         /\ Backup(r) => TypeOK'
         /\ Reread(r) => TypeOK'
         /\ Write(r) => TypeOK'
<1>1. ASSUME NEW e \in Edits, ReadRow(r, e) PROVE TypeOK'
  <2>1. CASE row # NoRow /\ Continue(r, e, row)
    <3>1. row \in Row /\ row' = row
      BY <1>1, <2>1 DEF ReadRow, TypeOK
    <3>2. QED
      BY <1>1, <2>1, <3>1, ContinueType DEF ReadRow
  <2>2. CASE GoOn(r, "create", [edit |-> e, changes |-> <<>>])
    <3>1. Fits("create", [edit |-> e, changes |-> <<>>], row')
      BY <1>1 DEF ReadRow, Fits
    <3>2. UNCHANGED <<row, file, crossed>> /\ "create" \in Statements
      BY <1>1 DEF ReadRow, Statements
    <3> DEFINE c == [edit |-> e, changes |-> <<>>]
    <3>3. c = [edit |-> c.edit, changes |-> c.changes] /\ GoOn(r, "create", c)
            /\ Fits("create", c, row')
      BY <2>2, <3>1
    <3> HIDE DEF c
    <3>4. QED
      BY <3>2, <3>3, QuietTypes, GoOnType
  <2>3. QED
    BY <1>1, <2>1, <2>2 DEF ReadRow
<1>2. ASSUME \E a \in {"done", "NOT_FOUND", "CONFLICT", "BAD_TAB"} : Finish(r, a),
             row' \in Row \cup {NoRow}, row # NoRow => row' # NoRow, UNCHANGED file,
             crossed' \subseteq Requests
      PROVE  TypeOK'
  BY <1>2, QuietTypes, FinishType DEF Answers
<1>3. ASSUME NEW e \in Edits, ReplaceMenu(r, e) PROVE TypeOK'
  <2>1. e.tabs \in SUBSET Tabs
    BY <1>3, EditFields DEF ReplaceMenu
  <2>2. CASE UNCHANGED <<row, crossed>>
    BY <1>2, <1>3, <2>2, QuietTypes DEF ReplaceMenu
  <2>3. CASE /\ row # NoRow /\ Cross(r, {"menu"})
             /\ row' = [row EXCEPT !.menu = {Remapped(tab) : tab \in e.tabs}]
    <3>1. {Remapped(tab) : tab \in e.tabs} \in SUBSET Tabs
      BY <2>1 DEF Remapped, Tabs
    <3>2. row \in Row
      BY <2>3 DEF TypeOK
    <3>3. row' \in Row
      BY <2>3, <3>1, <3>2 DEF Row
    <3>4. QED
      BY <1>2, <1>3, <2>3, <3>3, QuietTypes, RowsAssumption DEF ReplaceMenu
  <2>4. QED
    BY <1>3, <2>2, <2>3 DEF ReplaceMenu
<1>4. ASSUME NEW e \in Edits, ReplaceHome(r, e) PROVE TypeOK'
  <2>1. e.text \in PageTexts
    BY <1>4, EditFields DEF ReplaceHome
  <2>2. CASE UNCHANGED <<row, crossed>>
    BY <1>2, <1>4, <2>2, QuietTypes DEF ReplaceHome
  <2>3. CASE row # NoRow /\ Cross(r, {"home"}) /\ row' = [row EXCEPT !.home = e.text]
    <3>1. row \in Row
      BY <2>3 DEF TypeOK
    <3>2. row' \in Row
      BY <2>1, <2>3, <3>1 DEF Row
    <3>3. QED
      BY <1>2, <1>4, <2>3, <3>2, QuietTypes, RowsAssumption DEF ReplaceHome
  <2>4. QED
    BY <1>4, <2>2, <2>3 DEF ReplaceHome
<1>5. ASSUME CreateRow(r) PROVE TypeOK'
  <2>1. call[r].edit \in Edits /\ call[r].edit.kind \notin {"menu", "home"}
    BY <1>5, OwnCall DEF CreateRow, Fits
  <2>2. CASE Continue(r, call[r].edit, DefaultRow) /\ row' = DefaultRow
    BY <1>5, <2>1, <2>2, DefaultIsRow, ContinueType DEF CreateRow
  <2>3. CASE Finish(r, "CONFLICT") /\ UNCHANGED row
    BY <1>2, <1>5, <2>3, QuietTypes DEF CreateRow
  <2>4. QED
    BY <1>5, <2>2, <2>3 DEF CreateRow
<1>6. ASSUME Backup(r) PROVE TypeOK'
  <2>1. UNCHANGED <<row, file, crossed>> /\ Fits("backup", call[r], row)
    BY <1>6, OwnCall DEF Backup
  <2>2. CASE Finish(r, "done")
    BY <1>2, <2>1, <2>2, QuietTypes
  <2>3. CASE call[r].edit.kind = "import" /\ GoOn(r, "reread", call[r])
    <3>1. Fits("reread", call[r], row')
      BY <2>1, <2>3 DEF Fits, Importers
    <3>2. QED
      BY <2>1, <2>3, <3>1, OwnCall, QuietTypes, GoOnType DEF Statements
  <2>4. QED
    BY <1>6, <2>2, <2>3 DEF Backup
<1>7. ASSUME Reread(r) PROVE TypeOK'
  <2> DEFINE e == call[r].edit
             c == [edit |-> e, changes |-> Edited(e, row)]
  <2>1. UNCHANGED <<row, file, crossed>> /\ row \in Row /\ row # NoRow /\ e \in Importers
    BY <1>7, OwnCall DEF Reread, Fits, TypeOK
  <2>2. GoOn(r, "write", c)
    BY <1>7, <2>1, ImportedTwice DEF Reread
  <2>3. e \in Writers /\ DOMAIN Edited(e, row) = Section(e) /\ Override(row, Edited(e, row)) \in Row
    BY <2>1, ImportedTwice, EditedColumns
  <2>4. Fits("write", c, row')
    BY <2>1, <2>3 DEF Fits
  <2>5. c = [edit |-> c.edit, changes |-> c.changes]
    OBVIOUS
  <2> HIDE DEF c
  <2>6. QED
    BY <2>1, <2>2, <2>4, <2>5, QuietTypes, GoOnType DEF Statements
<1>8. ASSUME Write(r) PROVE TypeOK'
  <2>1. row # NoRow /\ Override(row, call[r].changes) \in Row
    BY <1>8, OwnCall DEF Write, Fits
  <2>2. row' \in Row
    BY <1>8, <2>1 DEF Write
  <2>3. QED
    BY <1>2, <1>8, <2>2, QuietTypes, RowsAssumption DEF Write
<1>9. QED
  BY <1>1, <1>3, <1>4, <1>5, <1>6, <1>7, <1>8

LEMMA MediaStepsType ==
  ASSUME TypeOK, NEW r \in Requests
  PROVE  Upload(r) \/ FindMedia(r) \/ CheckReferences(r) \/ Unlink(r) \/ DeleteMedia(r)
           => TypeOK'
<1> SUFFICES ASSUME Upload(r) \/ FindMedia(r) \/ CheckReferences(r) \/ Unlink(r)
                      \/ DeleteMedia(r)
             PROVE  TypeOK'
  OBVIOUS
<1>1. /\ UNCHANGED <<row, crossed>>
      /\ file' \in {"none", "stored", "unlinked", "removed"}
      /\ \/ \E a \in {"done", "NOT_FOUND", "IN_USE"} : Finish(r, a)
         \/ \E next \in {"refs", "unlink", "delete"} : GoOn(r, next, NoCall)
  BY DEF Upload, FindMedia, CheckReferences, Unlink, DeleteMedia, TypeOK
<1>2. ASSUME NEW next \in {"refs", "unlink", "delete"}
      PROVE  next \in Statements /\ Fits(next, NoCall, row')
  BY DEF Statements, Fits
<1>3. NoCall = [edit |-> NoCall.edit, changes |-> NoCall.changes]
  BY DEF NoCall
<1>4. {"done", "NOT_FOUND", "IN_USE"} \subseteq Answers
  BY DEF Answers
<1>5. QED
  BY <1>1, <1>2, <1>3, <1>4, QuietTypes, FinishType, GoOnType

\* Whatever editors send and however their calls meet, the row keeps a value of its
\* type in every column, a request never goes on to write columns that would not leave
\* a row, and migrate turns every document that can be stored into one.
THEOREM TypeCorrect == Spec => []TypeOK
<1>1. Init => TypeOK
  BY RowsAssumption DEF Init, TypeOK, Fits, Statements, Answers, NoCall
<1>2. TypeOK /\ [Next]_vars => TypeOK'
  <2> SUFFICES ASSUME TypeOK, [Next]_vars PROVE TypeOK'
    OBVIOUS
  <2>1. CASE UNCHANGED vars
    BY <2>1 DEF vars, TypeOK
  <2>2. CASE Next
    BY <2>1, <2>2, EditStepsType, MediaStepsType DEF Next, Spent
  <2>3. QED
    BY <2>1, <2>2
<1>3. QED
  BY <1>1, <1>2, PTL DEF Spec

-----------------------------------------------------------------------------
(* What migrate promises *)

LEMMA StoredBodies ==
  ASSUME TypeOK
  PROVE  /\ row # NoRow => row \in Row /\ IsBody(row)
         /\ \A r \in Requests : call[r].edit.kind \in {"replace", "import"}
                                  => IsBody(call[r].edit.blob)
<1>1. row # NoRow => row \in Row /\ IsBody(row)
  BY BodyColumns DEF TypeOK
<1>2. ASSUME NEW r \in Requests, call[r].edit.kind \in {"replace", "import"}
      PROVE  call[r].edit \in Edits
  <2>1. call[r] # NoCall
    BY <1>2 DEF NoCall
  <2>2. QED
    BY <2>1, OwnCall DEF Fits, Importers, Writers
<1>3. QED
  BY <1>1, <1>2, EditFields

\* migrate may run again, as an import and then every read make it: on every document
\* that can be stored, and on every body that a caller may send, the second run changes
\* nothing.
THEOREM MigratesOnceOnly == Spec => []MigratesOnce
<1>1. TypeOK => MigratesOnce
  BY StoredBodies, MigratedTwice DEF MigratesOnce
<1>2. QED
  BY <1>1, TypeCorrect, PTL

\* The public snapshot of every document that can be stored has the settings that the
\* app needs, and keeps every text an editor wrote under a name the app knows.
THEOREM SnapshotIsComplete == Spec => []SnapshotCompletes
<1>1. ASSUME TypeOK, row # NoRow
      PROVE  /\ \A f \in Required : f \in DOMAIN PublicSnapshot(row).settings
                                    /\ PublicSnapshot(row).settings[f] # "blank"
             /\ \A f \in DOMAIN row.settings \ {"contactPhone"} :
                  row.settings[f] = "written" => PublicSnapshot(row).settings[f] = "written"
  <2>1. row \in Row /\ IsBody(row)
    BY <1>1, StoredBodies
  <2>2. "settings" \in DOMAIN row /\ SettingsOf(row) = row.settings
    BY <2>1 DEF Row, SettingsOf
  <2>3. PublicSnapshot(row).settings = SettingsAfter(row)
    BY <2>1, MigratedColumns DEF PublicSnapshot, Migrate
  <2>4. QED
    BY <2>1, <2>2, <2>3, SettingsAfterBody
<1>2. TypeOK => SnapshotCompletes
  BY <1>1 DEF SnapshotCompletes
<1>3. QED
  BY <1>2, TypeCorrect, PTL

-----------------------------------------------------------------------------
(* Steps *)

Step(r) ==
  \/ \E e \in Edits : ReadRow(r, e) \/ ReplaceMenu(r, e) \/ ReplaceHome(r, e)
  \/ CreateRow(r) \/ Backup(r) \/ Reread(r) \/ Write(r)
  \/ Upload(r) \/ FindMedia(r) \/ CheckReferences(r) \/ Unlink(r) \/ DeleteMedia(r)

LEMMA NextIsStep ==
  ASSUME [Next]_vars
  PROVE  UNCHANGED vars \/ \E r \in Requests : Step(r)
  BY DEF Next, Spent, Step

\* Each step answers a request or lets it go on, with some edit and changes.
LEMMA StepMoves ==
  ASSUME NEW r, Step(r)
  PROVE  (\E a : Finish(r, a)) \/ (\E next, c : GoOn(r, next, c))
<1> DEFINE Moved == (\E a : Finish(r, a)) \/ (\E next, c : GoOn(r, next, c))
<1>1. (\A a : Finish(r, a) => Moved) /\ (\A next, c : GoOn(r, next, c) => Moved)
  OBVIOUS
<1> HIDE DEF Moved
<1>2. \A e, doc : Continue(r, e, doc) => Moved
  BY <1>1 DEF Continue, Compute
<1>3. \A e : ReadRow(r, e) \/ ReplaceMenu(r, e) \/ ReplaceHome(r, e) => Moved
  BY <1>1, <1>2 DEF ReadRow, ReplaceMenu, ReplaceHome
<1>4. CreateRow(r) \/ Backup(r) \/ Reread(r) \/ Write(r) => Moved
  BY <1>1, <1>2 DEF CreateRow, Backup, Reread, Write
<1>5. Upload(r) \/ FindMedia(r) \/ CheckReferences(r) \/ Unlink(r) \/ DeleteMedia(r) => Moved
  BY <1>1 DEF Upload, FindMedia, CheckReferences, Unlink, DeleteMedia
<1>6. QED
  BY <1>3, <1>4, <1>5 DEF Step, Moved

LEMMA OthersStay ==
  ASSUME TypeOK, NEW r \in Requests, Step(r), NEW q \in Requests \ {r}
  PROVE  pc'[q] = pc[q] /\ call'[q] = call[q]
  BY StepMoves DEF TypeOK, Finish, GoOn

\* A request comes to "write" with the changes that its edit makes of the row.
LEMMA ToWrite ==
  ASSUME TypeOK, NEW r \in Requests, Step(r), pc'[r] = "write"
  PROVE  /\ pc[r] # "write"
         /\ \E e \in Writers : /\ row' \in Row /\ Refusal(e, row') = "none"
                               /\ call'[r] = [edit |-> e, changes |-> Edited(e, row')]
<1>1. /\ \A a : ~Finish(r, a)
      /\ \A next, c : GoOn(r, next, c) => next = "write" /\ call'[r] = c
  BY DEF TypeOK, Finish, GoOn
<1>2. ASSUME NEW e \in Edits, e.kind \notin {"menu", "home"}, NEW doc \in Row,
             row' = doc, Continue(r, e, doc)
      PROVE  \E f \in Writers : /\ row' \in Row /\ Refusal(f, row') = "none"
                                /\ call'[r] = [edit |-> f, changes |-> Edited(f, row')]
  <2>1. /\ e.kind \notin {"show", "backup", "import"} /\ Refusal(e, doc) = "none"
        /\ GoOn(r, "write", [edit |-> e, changes |-> Edited(e, doc)])
    BY <1>1, <1>2 DEF Continue, Compute
  <2>2. e \in Writers
    BY <1>2, <2>1, EditFields DEF Writers
  <2>3. QED
    BY <1>1, <1>2, <2>1, <2>2
<1>3. ASSUME NEW e \in Edits, ReadRow(r, e) PROVE row' \in Row /\ row' = row /\ Continue(r, e, row)
  BY <1>1, <1>3 DEF ReadRow, TypeOK
<1>4. ASSUME CreateRow(r)
      PROVE  /\ row' = DefaultRow /\ Continue(r, call[r].edit, DefaultRow)
             /\ call[r].edit \in Edits /\ call[r].edit.kind \notin {"menu", "home"}
  BY <1>1, <1>4, OwnCall DEF CreateRow, Fits
<1>5. ASSUME Reread(r)
      PROVE  \E f \in Writers : /\ row' \in Row /\ Refusal(f, row') = "none"
                                /\ call'[r] = [edit |-> f, changes |-> Edited(f, row')]
  <2>1. UNCHANGED row /\ row \in Row /\ call[r].edit \in Importers
    BY <1>5, OwnCall DEF Reread, Fits, TypeOK
  <2>2. GoOn(r, "write", [edit |-> call[r].edit, changes |-> Edited(call[r].edit, row)])
    BY <1>5, <2>1, ImportedTwice DEF Reread
  <2>3. QED
    BY <1>1, <2>1, <2>2, ImportedTwice
<1>6. \A e \in Edits : ~ReplaceMenu(r, e) /\ ~ReplaceHome(r, e)
  BY <1>1 DEF ReplaceMenu, ReplaceHome
<1>7. /\ ~Backup(r) /\ ~Write(r) /\ ~Upload(r) /\ ~FindMedia(r) /\ ~CheckReferences(r)
      /\ ~Unlink(r) /\ ~DeleteMedia(r)
  BY <1>1 DEF Backup, Write, Upload, FindMedia, CheckReferences, Unlink, DeleteMedia
<1>8. (\E e \in Edits : ReadRow(r, e)) \/ CreateRow(r) \/ Reread(r)
  BY <1>6, <1>7 DEF Step
<1>9. pc[r] # "write"
  BY <1>8 DEF ReadRow, CreateRow, Reread
<1>10. QED
  BY <1>2, <1>3, <1>4, <1>5, <1>8, <1>9, DefaultIsRow DEF ReadRow

\* What a step does to the row: the first request creates it, others write some columns.
LEMMA RowChange ==
  ASSUME TypeOK, NEW r \in Requests, Step(r)
  PROVE  \/ UNCHANGED <<row, crossed>>
         \/ row = NoRow /\ row' = DefaultRow /\ UNCHANGED crossed
         \/ \E X : /\ row \in Row /\ row' \in Row /\ X \subseteq Columns /\ X # {}
                   /\ \A c \in Columns \ X : row'[c] = row[c]
                   /\ Cross(r, X)
<1> DEFINE Changed ==
      \E X : /\ row \in Row /\ row' \in Row /\ X \subseteq Columns /\ X # {}
             /\ \A c \in Columns \ X : row'[c] = row[c]
             /\ Cross(r, X)
<1>1. ASSUME NEW e \in Edits, ReplaceMenu(r, e) PROVE UNCHANGED <<row, crossed>> \/ Changed
  <2>1. CASE row # NoRow /\ Cross(r, {"menu"})
             /\ row' = [row EXCEPT !.menu = {Remapped(tab) : tab \in e.tabs}]
    <3>1. row \in Row /\ e.tabs \in SUBSET Tabs
      BY <1>1, <2>1, EditFields DEF TypeOK, ReplaceMenu
    <3>2. {Remapped(tab) : tab \in e.tabs} \in SUBSET Tabs
      BY <3>1 DEF Remapped, Tabs
    <3>3. row' \in Row /\ \A c \in Columns \ {"menu"} : row'[c] = row[c]
      BY <2>1, <3>1, <3>2 DEF Row, Columns
    <3>4. QED
      BY <2>1, <3>1, <3>3 DEF Columns
  <2>2. QED
    BY <1>1, <2>1 DEF ReplaceMenu
<1>2. ASSUME NEW e \in Edits, ReplaceHome(r, e) PROVE UNCHANGED <<row, crossed>> \/ Changed
  <2>1. CASE row # NoRow /\ Cross(r, {"home"}) /\ row' = [row EXCEPT !.home = e.text]
    <3>1. row \in Row /\ e.text \in PageTexts
      BY <1>2, <2>1, EditFields DEF TypeOK, ReplaceHome
    <3>2. row' \in Row /\ \A c \in Columns \ {"home"} : row'[c] = row[c]
      BY <2>1, <3>1 DEF Row, Columns
    <3>3. QED
      BY <2>1, <3>1, <3>2 DEF Columns
  <2>2. QED
    BY <1>2, <2>1 DEF ReplaceHome
<1>3. ASSUME Write(r) PROVE Changed
  <2> DEFINE X == DOMAIN call[r].changes
  <2>1. /\ row # NoRow /\ X = Section(call[r].edit) /\ call[r].edit \in Writers
        /\ Override(row, call[r].changes) \in Row
    BY <1>3, OwnCall DEF Write, Fits
  <2>2. row \in Row /\ row' \in Row /\ row' = Override(row, call[r].changes)
    BY <1>3, <2>1 DEF Write, TypeOK
  <2>3. X \subseteq Columns
    BY <2>1, <2>2, OverrideRow
  <2>4. X # {}
    BY <2>1 DEF Section, Writers, Columns
  <2>5. \A c \in Columns \ X : row'[c] = row[c]
    BY <2>2 DEF Override, Row, Columns
  <2>6. Cross(r, X)
    BY <1>3 DEF Write
  <2> HIDE DEF X
  <2>7. QED
    BY <2>2, <2>3, <2>4, <2>5, <2>6
<1>4. CreateRow(r) => \/ UNCHANGED <<row, crossed>>
                      \/ row = NoRow /\ row' = DefaultRow /\ UNCHANGED crossed
  BY DEF CreateRow
<1>5. /\ \A e \in Edits : ReadRow(r, e) => UNCHANGED <<row, crossed>>
      /\ Backup(r) \/ Reread(r) => UNCHANGED <<row, crossed>>
      /\ Upload(r) \/ FindMedia(r) \/ CheckReferences(r) \/ Unlink(r) \/ DeleteMedia(r)
           => UNCHANGED <<row, crossed>>
  BY DEF ReadRow, Backup, Reread, Upload, FindMedia, CheckReferences, Unlink, DeleteMedia
<1> HIDE DEF Changed
<1>6. \/ UNCHANGED <<row, crossed>>
      \/ Changed
      \/ row = NoRow /\ row' = DefaultRow /\ UNCHANGED crossed
  BY <1>1, <1>2, <1>3, <1>4, <1>5 DEF Step
<1>7. QED
  BY <1>6 DEF Changed

-----------------------------------------------------------------------------
(* Editors beside each other *)

\* An edit does the same to two documents that agree on its section.
LEMMA SameSection ==
  ASSUME NEW e \in Writers, NEW d1 \in Row, NEW d2 \in Row,
         \A c \in Section(e) : d1[c] = d2[c]
  PROVE  Edited(e, d1) = Edited(e, d2)
<1>1. e \in Edits /\ e.kind \in {"settings", "add", "edit", "remove", "toggle", "replace", "import"}
  BY DEF Writers
<1>2. CASE e.kind = "settings"
  <2>1. d1.settings = d2.settings
    BY <1>2 DEF Section
  <2>2. QED
    BY <1>2, <2>1 DEF Edited
<1>3. CASE e.kind \in {"add", "edit", "remove", "toggle"}
  <2>1. Section(e) = {e.list} /\ d1[e.list] = d2[e.list]
    BY <1>3 DEF Section
  <2>2. /\ Edited(e, d1) = [c \in {e.list} |-> Items(e, d1[c])]
        /\ Edited(e, d2) = [c \in {e.list} |-> Items(e, d2[c])]
    BY <1>3, <2>1 DEF Edited
  <2>3. QED
    BY <2>1, <2>2
<1>4. CASE e.kind \in {"replace", "import"}
  <2>1. \A c \in Columns : d1[c] = d2[c]
    BY <1>4 DEF Section
  <2>2. d1 = [c \in Columns |-> d1[c]] /\ d2 = [c \in Columns |-> d2[c]]
    BY RowColumns
  <2>3. d1 = d2
    BY <2>1, <2>2
  <2>4. QED
    BY <2>3
<1>5. QED
  BY <1>1, <1>2, <1>3, <1>4

\* What a request holds while nobody has written it beside: the changes that its edit
\* makes of the row as it is, or that the row does not show the file.
HeldIsFresh ==
  \A r \in Requests \ crossed :
    /\ pc[r] = "write" => call[r].changes = Edited(call[r].edit, row)
    /\ pc[r] = "unlink" /\ row # NoRow => ~ShowsUrl(row)

LEMMA HeldStaysFresh ==
  ASSUME TypeOK, HeldIsFresh, [Next]_vars
  PROVE  HeldIsFresh'
<1>1. CASE UNCHANGED vars
  BY <1>1 DEF vars, HeldIsFresh
<1>2. ASSUME NEW r \in Requests, Step(r) PROVE HeldIsFresh'
  <2> DEFINE Fresh(q) ==
        /\ pc'[q] = "write" => call'[q].changes = Edited(call'[q].edit, row')
        /\ pc'[q] = "unlink" /\ row' # NoRow => ~ShowsUrl(row')
  <2>1. Fresh(r)
    <3>1. ASSUME pc'[r] = "write" PROVE call'[r].changes = Edited(call'[r].edit, row')
      <4>1. PICK e \in Writers : call'[r] = [edit |-> e, changes |-> Edited(e, row')]
        BY <1>2, <3>1, ToWrite
      <4>2. call'[r].edit = e /\ call'[r].changes = Edited(e, row')
        BY <4>1
      <4>3. QED
        BY <4>2
    <3>2. ASSUME pc'[r] = "unlink", row' # NoRow PROVE ~ShowsUrl(row')
      <4>1. \A a : ~Finish(r, a)
        BY <3>2 DEF Finish, TypeOK
      <4>2. \A next, c : GoOn(r, next, c) => next = "unlink"
        BY <3>2 DEF GoOn, TypeOK
      <4>3. \A e, doc : ~Continue(r, e, doc)
        BY <4>1, <4>2 DEF Continue, Compute
      <4>4. \A e \in Edits : ~ReadRow(r, e) /\ ~ReplaceMenu(r, e) /\ ~ReplaceHome(r, e)
        BY <4>1, <4>2, <4>3 DEF ReadRow, ReplaceMenu, ReplaceHome
      <4>5. /\ ~CreateRow(r) /\ ~Backup(r) /\ ~Reread(r) /\ ~Write(r) /\ ~Upload(r)
            /\ ~FindMedia(r) /\ ~Unlink(r) /\ ~DeleteMedia(r)
        BY <4>1, <4>2, <4>3 DEF CreateRow, Backup, Reread, Write, Upload, FindMedia, Unlink,
           DeleteMedia
      <4>6. CheckReferences(r)
        BY <1>2, <4>4, <4>5 DEF Step
      <4>7. QED
        BY <3>2, <4>1, <4>6 DEF CheckReferences
    <3>3. QED
      BY <3>1, <3>2
  <2>2. ASSUME NEW q \in Requests \ crossed', q # r PROVE Fresh(q)
    <3>1. pc'[q] = pc[q] /\ call'[q] = call[q]
      BY <1>2, <2>2, OthersStay
    <3>2. CASE UNCHANGED <<row, crossed>>
      BY <2>2, <3>1, <3>2 DEF HeldIsFresh
    <3>3. CASE row = NoRow /\ row' = DefaultRow /\ UNCHANGED crossed
      <4>1. pc[q] # "write"
        BY <3>3, OwnCall DEF Fits
      <4>2. ~ShowsUrl(DefaultRow)
        BY DEF ShowsUrl, DefaultRow
      <4>3. QED
        BY <3>1, <3>3, <4>1, <4>2
    <3>4. ASSUME NEW X, row \in Row, row' \in Row, X \subseteq Columns, X # {},
                 \A c \in Columns \ X : row'[c] = row[c], Cross(r, X)
          PROVE  Fresh(q)
      <4>1. q \notin crossed /\ Held(q) \cap X = {}
        BY <2>2, <3>4 DEF Cross
      <4>2. ASSUME pc[q] = "write" PROVE call[q].changes = Edited(call[q].edit, row')
        <5>1. call[q].edit \in Writers /\ Held(q) = Section(call[q].edit)
          BY <4>2, OwnCall DEF Fits, Held
        <5>2. Section(call[q].edit) \subseteq Columns
          <6>1. call[q].edit \in Edits
            BY <5>1 DEF Writers
          <6>2. QED
            BY <5>1, <6>1, EditFields DEF Section, Writers, Columns
        <5>3. \A c \in Section(call[q].edit) : row'[c] = row[c]
          BY <3>4, <4>1, <5>1, <5>2
        <5>4. Edited(call[q].edit, row') = Edited(call[q].edit, row)
          BY <3>4, <5>1, <5>3, SameSection
        <5>5. QED
          BY <4>1, <4>2, <5>4 DEF HeldIsFresh
      <4>3. ASSUME pc[q] = "unlink" PROVE ~ShowsUrl(row')
        <5>1. "home" \notin X /\ "pages" \notin X
          BY <4>1, <4>3 DEF Held
        <5>2. row'["home"] = row["home"] /\ row'["pages"] = row["pages"]
          BY <3>4, <5>1 DEF Columns
        <5>3. ~ShowsUrl(row)
          BY <3>4, <4>1, <4>3, RowsAssumption DEF HeldIsFresh
        <5>4. QED
          BY <5>2, <5>3 DEF ShowsUrl
      <4>4. QED
        BY <3>1, <4>2, <4>3
    <3>5. QED
      BY <1>2, <3>2, <3>3, <3>4, RowChange
  <2>3. \A q \in Requests \ crossed' : Fresh(q)
    BY <2>1, <2>2
  <2>4. QED
    BY <2>3 DEF HeldIsFresh
<1>3. QED
  BY <1>1, <1>2, NextIsStep

\* Whoever's statement is next at "write" or "unlink", only its own step leads on.
LEMMA OwnStep ==
  ASSUME TypeOK, [Next]_vars, NEW r \in Requests, pc'[r] # pc[r]
  PROVE  /\ pc[r] = "write" => Write(r)
         /\ pc[r] = "unlink" => UNCHANGED row
<1>1. Step(r)
  BY NextIsStep, OthersStay DEF vars
<1>2. QED
  BY <1>1 DEF Step, ReadRow, ReplaceMenu, ReplaceHome, CreateRow, Backup, Reread, Write, Upload,
     FindMedia, CheckReferences, Unlink, DeleteMedia

LEMMA HeldInit == Init => HeldIsFresh
  BY DEF Init, HeldIsFresh

\* The document is read, changed in memory and written back without a lock; but each
\* edit writes only its section's columns, so editors of different sections never undo
\* each other's work, and an edit that no other write of its section came between does
\* what it would do to the document as it is by then.
THEOREM EditorsMeet == Spec => EditsMeetOnlyInTheirSection
<1>1. ASSUME TypeOK, HeldIsFresh, [Next]_vars, NEW r \in Requests,
             pc[r] = "write", pc'[r] = "done"
      PROVE  LET e == call[r].edit IN
             /\ \A c \in Columns \ Section(e) : row'[c] = row[c]
             /\ r \notin crossed => row' = Override(row, Edited(e, row))
  <2>1. Write(r)
    BY <1>1, OwnStep
  <2>2. row \in Row /\ DOMAIN call[r].changes = Section(call[r].edit)
    BY <1>1, OwnCall DEF Fits, TypeOK
  <2>3. row' = Override(row, call[r].changes)
    BY <2>1 DEF Write
  <2>4. \A c \in Columns \ Section(call[r].edit) : row'[c] = row[c]
    BY <2>2, <2>3 DEF Override, Row, Columns
  <2>5. r \notin crossed => row' = Override(row, Edited(call[r].edit, row))
    BY <1>1, <2>3 DEF HeldIsFresh
  <2>6. QED
    BY <2>4, <2>5
<1>2. TypeOK /\ HeldIsFresh /\ [Next]_vars =>
        [\A r \in Requests :
           pc[r] = "write" /\ pc'[r] = "done" =>
             LET e == call[r].edit IN
             /\ \A c \in Columns \ Section(e) : row'[c] = row[c]
             /\ r \notin crossed => row' = Override(row, Edited(e, row))]_vars
  BY <1>1
<1>3. QED
  BY <1>2, HeldInit, HeldStaysFresh, TypeCorrect, PTL DEF Spec, EditsMeetOnlyInTheirSection

\* CmsMediaService.remove searches the home page and the pages for the file's URL,
\* and then unlinks: a file that one of them shows by its URL is unlinked only if the
\* document was written in between.  Consultation types, payment methods and ids are
\* not searched, and nothing is promised of a file that only they use.
THEOREM MediaStays == Spec => MediaInUseStays
<1>1. ASSUME TypeOK, HeldIsFresh, [Next]_vars, NEW r \in Requests,
             pc[r] = "unlink", pc'[r] = "delete", r \notin crossed, row # NoRow
      PROVE  ShownIn(row) \subseteq {"types"}
  <2>1. ~ShowsUrl(row)
    BY <1>1 DEF HeldIsFresh
  <2>2. row["home"] # "url" /\ ~ \E n \in DOMAIN row["pages"] : row["pages"][n].text = "url"
    BY <2>1 DEF ShowsUrl
  <2>3. QED
    BY <2>2 DEF ShownIn
<1>2. TypeOK /\ HeldIsFresh /\ [Next]_vars =>
        [\A r \in Requests :
           pc[r] = "unlink" /\ pc'[r] = "delete" /\ r \notin crossed /\ row # NoRow =>
             ShownIn(row) \subseteq {"types"}]_vars
  BY <1>1
<1>3. QED
  BY <1>2, HeldInit, HeldStaysFresh, TypeCorrect, PTL DEF Spec, MediaInUseStays

-----------------------------------------------------------------------------
(* Keys of consultation types *)

\* What callers send whole, and what was there at first, names no key twice: nothing
\* in replaceState or importState looks.
WholeListsKeysOnce ==
  /\ \A e \in Edits : e.kind \in {"replace", "import"} => KeysOnce(TypesOf(e.blob))
  /\ \A doc \in FirstRows \ {NoRow} : KeysOnce(doc.types)

LEMMA EditedKeys ==
  ASSUME WholeListsKeysOnce, NEW e \in Writers, NEW doc \in Row, KeysOnce(doc.types),
         Refusal(e, doc) = "none", "types" \in DOMAIN Edited(e, doc)
  PROVE  KeysOnce(Edited(e, doc).types)
<1>1. /\ e \in Edits
      /\ e.kind \in {"settings", "add", "edit", "remove", "toggle", "replace", "import"}
      /\ "types" \in Section(e)
  BY EditedColumns DEF Writers
<1>2. e.kind # "settings"
  BY <1>1 DEF Section
<1>3. CASE e.kind \in {"add", "edit", "remove", "toggle"}
  <2>1. e.list = "types" /\ Edited(e, doc) = [c \in {"types"} |-> Items(e, doc[c])]
    BY <1>1, <1>3 DEF Edited, Section
  <2>2. Edited(e, doc).types = Items(e, doc.types)
    BY <2>1
  <2>3. QED
    BY <1>1, <1>3, <2>1, <2>2, EditedTypes
<1>4. CASE e.kind \in {"replace", "import"}
  <2> DEFINE b == e.blob
  <2>1. IsBody(b) /\ KeysOnce(TypesOf(b))
    BY <1>1, <1>4, EditFields DEF WholeListsKeysOnce
  <2>2. Edited(e, doc) = Override(doc, Migrate(b))
    BY <1>4 DEF Edited
  <2>3. DOMAIN Migrate(b) = DOMAIN b \cup Filled(b)
    BY MigratedColumns
  <2>4. CASE "types" \in DOMAIN Migrate(b)
    <3>1. Migrate(b).types = TypesAfter(b)
      BY <2>3, <2>4, MigratedColumns
    <3>2. Edited(e, doc).types = Migrate(b).types
      BY <2>2, <2>4 DEF Override
    <3>3. QED
      BY <2>1, <3>1, <3>2, TypesAfterBody
  <2>5. CASE "types" \notin DOMAIN Migrate(b)
    <3>1. Edited(e, doc).types = doc.types
      BY <2>2, <2>5 DEF Override, Row
    <3>2. QED
      BY <3>1
  <2>6. QED
    BY <2>4, <2>5
<1>5. QED
  BY <1>1, <1>2, <1>3, <1>4

\* No key is in the row twice, and none in a list that a request is about to write: its
\* write puts the whole list in place of whatever is there by then.
KeysInv ==
  /\ row # NoRow => KeysOnce(row.types)
  /\ \A r \in Requests : pc[r] = "write" /\ "types" \in DOMAIN call[r].changes
                           => KeysOnce(call[r].changes.types)

LEMMA KeysKept ==
  ASSUME WholeListsKeysOnce, TypeOK, KeysInv, [Next]_vars
  PROVE  KeysInv'
<1>1. CASE UNCHANGED vars
  BY <1>1 DEF vars, KeysInv
<1>2. ASSUME NEW r \in Requests, Step(r) PROVE KeysInv'
  <2>1. row' # NoRow => KeysOnce(row'.types)
    <3>1. CASE UNCHANGED row
      BY <3>1 DEF KeysInv
    <3>2. CASE row' = DefaultRow
      BY <3>2 DEF DefaultRow, KeysOnce
    <3>3. ASSUME NEW X, row \in Row, row' \in Row, \A c \in Columns \ X : row'[c] = row[c],
                 "types" \notin X
          PROVE  KeysOnce(row'.types)
      <4>1. row'["types"] = row["types"] /\ row # NoRow
        BY <3>3, RowsAssumption DEF Columns
      <4>2. QED
        BY <4>1 DEF KeysInv
    <3>4. ASSUME NEW e, ReplaceMenu(r, e) \/ ReplaceHome(r, e), row # NoRow
          PROVE  row'.types = row.types
      <4>1. row \in Row
        BY <3>4 DEF TypeOK
      <4>2. QED
        BY <3>4, <4>1 DEF ReplaceMenu, ReplaceHome, Row
    <3>5. ASSUME Write(r) PROVE KeysOnce(row'.types)
      <4>1. row # NoRow /\ row \in Row /\ row' = Override(row, call[r].changes) /\ pc[r] = "write"
        BY <3>5, OwnCall DEF Write, Fits, TypeOK
      <4>2. CASE "types" \in DOMAIN call[r].changes
        <5>1. row'.types = call[r].changes.types
          BY <4>1, <4>2 DEF Override
        <5>2. QED
          BY <4>1, <4>2, <5>1 DEF KeysInv
      <4>3. CASE "types" \notin DOMAIN call[r].changes
        <5>1. row'.types = row.types
          BY <4>1, <4>3 DEF Override, Row
        <5>2. QED
          BY <4>1, <5>1 DEF KeysInv
      <4>4. QED
        BY <4>2, <4>3
    <3>6. \/ UNCHANGED row \/ row' = DefaultRow \/ Write(r)
          \/ row # NoRow /\ \E e \in Edits : ReplaceMenu(r, e) \/ ReplaceHome(r, e)
      BY <1>2 DEF Step, ReadRow, ReplaceMenu, ReplaceHome, CreateRow, Backup, Reread, Upload,
         FindMedia, CheckReferences, Unlink, DeleteMedia
    <3>7. QED
      BY <3>1, <3>2, <3>4, <3>5, <3>6 DEF KeysInv
  <2>2. ASSUME NEW q \in Requests, pc'[q] = "write", "types" \in DOMAIN call'[q].changes
        PROVE  KeysOnce(call'[q].changes.types)
    <3>1. CASE q = r
      <4>1. PICK e \in Writers : /\ row' \in Row /\ Refusal(e, row') = "none"
                                 /\ call'[r] = [edit |-> e, changes |-> Edited(e, row')]
        BY <1>2, <2>2, <3>1, ToWrite
      <4>2. KeysOnce(row'.types)
        BY <2>1, <4>1, RowsAssumption
      <4>3. QED
        BY <2>2, <3>1, <4>1, <4>2, EditedKeys
    <3>2. CASE q # r
      BY <1>2, <2>2, <3>2, OthersStay DEF KeysInv
    <3>3. QED
      BY <3>1, <3>2
  <2>3. QED
    BY <2>1, <2>2 DEF KeysInv
<1>3. QED
  BY <1>1, <1>2, NextIsStep

\* createConsultationType looks for the key in the document it read and writes the whole
\* list: creations that overlap may lose a type but never store a key twice. What is
\* imported or replaced whole is stored as it is sent, so it has to name no key twice.
THEOREM KeysStayUnique == WholeListsKeysOnce => (Spec => []TypeKeysUnique)
<1> SUFFICES ASSUME WholeListsKeysOnce PROVE Spec => []TypeKeysUnique
  OBVIOUS
<1>1. Init => KeysInv
  BY DEF Init, KeysInv, WholeListsKeysOnce
<1>2. TypeOK /\ KeysInv /\ [Next]_vars => KeysInv'
  BY KeysKept
<1>3. KeysInv => TypeKeysUnique
  BY DEF KeysInv, KeysOnce, TypeKeysUnique
<1>4. QED
  BY <1>1, <1>2, <1>3, TypeCorrect, PTL DEF Spec
=============================================================================
