--------------------------- MODULE CatalogueProofs ---------------------------
(***************************************************************************)
(* Theorems about what can be booked, for every number of requests,        *)
(* categories, services, providers and dates, and all schedules.           *)
(***************************************************************************)
EXTENDS Catalogue, SequenceTheorems, NaturalsInduction, WellFoundedInduction, TLAPS

-----------------------------------------------------------------------------
(* Calls, and the lookups they begin with *)

\* What a call of each kind carries.
LEMMA CallFields ==
  ASSUME NEW c \in Calls
  PROVE  /\ c.kind \in AllKinds
         /\ c.kind \in {"createCategory", "updateCategory"} =>
              c.id \in Categories /\ c.parent \in Categories \cup {None}
         /\ c.kind \in {"toggleCategory", "removeCategory"} => c.id \in Categories
         /\ c.kind = "createService" =>
              /\ c.id \in Services /\ c.category \in Categories /\ c.provider \in Providers
              /\ c.fields \in FieldSets
         /\ c.kind = "updateService" =>
              /\ c.id \in Services /\ c.category \in Categories \cup {None}
              /\ c.provider \in Providers \cup {None} /\ c.fields \in FieldSets \cup {None}
         /\ c.kind \in {"removeService", "availability"} => c.id \in Services
         /\ c.kind \in {"createProvider", "toggleAccepting", "removeProvider"} =>
              c.id \in Providers
         /\ c.kind = "updateProvider" => c.id \in Providers /\ c.active \in BOOLEAN
         /\ c.kind = "setSchedule" => c.id \in Providers /\ c.week \in Weeks
         /\ c.kind \in {"blockDate", "unblockDate"} => c.id \in Providers /\ c.date \in Dates
         /\ c.kind = "assignService" => c.id \in Providers /\ c.service \in Services
         /\ c.kind = "book" => c.id \in Services /\ c.date \in Dates /\ c.time \in Times
  BY DEF Calls, AllKinds

LEMMA CallIds == ASSUME NEW c \in Calls PROVE c.id \in Ids
  BY CallFields DEF AllKinds, Ids

\* The lookups left to call c: several for some kinds, else that of its own row.
Todo(c, todo) ==
  /\ todo \in Seq(Ids)
  /\ todo = <<>> => c.kind \in {"createCategory", "createProvider"}
  /\ c.kind = "createProvider" => todo = <<>>
  /\ c.kind \notin Several \cup {"createCategory", "createProvider"} => todo = <<c.id>>
  /\ c.kind = "createCategory" => Len(todo) <= 1

LEMMA MentionedIds ==
  ASSUME NEW id \in Ids \cup {None}
  PROVE  Mentioned(id) \in Seq(Ids) /\ Len(Mentioned(id)) <= 1
  BY DEF Mentioned

LEMMA LookupsTodo == ASSUME NEW c \in Calls PROVE Todo(c, Lookups(c))
<1>0. c.id \in Ids
  BY CallIds
<1>1. CASE c.kind = "createCategory"
  <2>1. Lookups(c) = Mentioned(c.parent)
    BY <1>1 DEF Lookups
  <2>2. c.parent \in Ids \cup {None}
    BY <1>1, CallFields DEF Ids
  <2>3. QED
    BY <1>1, <2>1, <2>2, MentionedIds DEF Todo
<1>2. CASE c.kind = "updateCategory"
  <2>1. Lookups(c) = <<c.id>> \o Mentioned(c.parent)
    BY <1>2 DEF Lookups
  <2>2. Mentioned(c.parent) \in Seq(Ids)
    BY <1>2, CallFields, MentionedIds DEF Ids
  <2>3. <<c.id>> \o Mentioned(c.parent) \in Seq(Ids) /\ <<c.id>> \o Mentioned(c.parent) # <<>>
    BY <1>0, <2>2
  <2>4. QED
    BY <1>2, <2>1, <2>3 DEF Todo, Several
<1>3. CASE c.kind = "createService"
  <2>1. Lookups(c) = <<c.category, c.provider>>
    BY <1>3 DEF Lookups
  <2>2. c.category \in Ids /\ c.provider \in Ids
    BY <1>3, CallFields DEF Ids
  <2>3. QED
    BY <1>3, <2>1, <2>2 DEF Todo, Several
<1>4. CASE c.kind = "updateService"
  <2>1. Lookups(c) = <<c.id>> \o Mentioned(c.category) \o Mentioned(c.provider)
    BY <1>4 DEF Lookups
  <2>2. Mentioned(c.category) \in Seq(Ids) /\ Mentioned(c.provider) \in Seq(Ids)
    BY <1>4, CallFields, MentionedIds DEF Ids
  <2>3. <<c.id>> \o Mentioned(c.category) \in Seq(Ids) /\ <<c.id>> \o Mentioned(c.category) # <<>>
    BY <1>0, <2>2
  <2>4. /\ <<c.id>> \o Mentioned(c.category) \o Mentioned(c.provider) \in Seq(Ids)
        /\ <<c.id>> \o Mentioned(c.category) \o Mentioned(c.provider) # <<>>
    BY <2>2, <2>3
  <2>5. QED
    BY <1>4, <2>1, <2>4 DEF Todo, Several
<1>5. CASE c.kind = "assignService"
  <2>1. Lookups(c) = <<c.id, c.service>>
    BY <1>5 DEF Lookups
  <2>2. c.service \in Ids
    BY <1>5, CallFields DEF Ids
  <2>3. QED
    BY <1>0, <1>5, <2>1, <2>2 DEF Todo, Several
<1>6. CASE c.kind = "createProvider"
  <2>1. Lookups(c) = <<>>
    BY <1>6 DEF Lookups
  <2>2. QED
    BY <1>6, <2>1 DEF Todo, Several
<1>7. CASE c.kind \notin Several \cup {"createCategory", "createProvider"}
  <2>1. Lookups(c) = <<c.id>>
    BY <1>7 DEF Lookups, Several
  <2>2. QED
    BY <1>0, <1>7, <2>1 DEF Todo
<1>8. QED
  BY <1>1, <1>2, <1>3, <1>4, <1>5, <1>6, <1>7 DEF Several

-----------------------------------------------------------------------------
(* The type invariant *)

\* Request r, asked c, goes on to statement p with f found and answer a.
Moves(r, c, p, f, a) ==
  /\ call' = [call EXCEPT ![r] = c]
  /\ pc' = [pc EXCEPT ![r] = p]
  /\ found' = [found EXCEPT ![r] = f]
  /\ answer' = [answer EXCEPT ![r] = a]

LEMMA MovesType ==
  ASSUME RequestsOK, NEW r \in Requests, NEW c \in Calls, NEW p \in Statements, NEW f,
         NEW a \in Answers, Moves(r, c, p, f, a), Fits(p, c, f, a)
  PROVE  RequestsOK'
<1>1. /\ pc' \in [Requests -> Statements] /\ call' \in [Requests -> Calls \cup {NoCall}]
      /\ answer' \in [Requests -> Answers] /\ DOMAIN found' = Requests
  BY DEF RequestsOK, Moves
<1>2. ASSUME NEW q \in Requests PROVE Fits(pc'[q], call'[q], found'[q], answer'[q])
  <2>1. CASE q = r
    BY <2>1 DEF RequestsOK, Moves
  <2>2. CASE q # r
    BY <2>2 DEF RequestsOK, Moves
  <2>3. QED
    BY <2>1, <2>2
<1>3. \A q \in Requests : Fits(pc[q], call[q], found[q], answer[q])'
  BY <1>2 DEF Fits
<1>4. QED
  BY <1>1, <1>3 DEF RequestsOK

LEMMA OwnCall ==
  ASSUME RequestsOK, NEW r \in Requests
  PROVE  /\ pc[r] \in Statements /\ answer[r] \in Answers
         /\ Fits(pc[r], call[r], found[r], answer[r])
         /\ pc[r] # "idle" => call[r] \in Calls
         /\ pc[r] # "done" => answer[r] = "none"
  BY CallsAssumption DEF RequestsOK, Fits

\* How the helpers move a request that is not done.
LEMMA Moving ==
  ASSUME RequestsOK, NEW r \in Requests, pc[r] # "done", NEW c, call' = [call EXCEPT ![r] = c]
  PROVE  /\ \A a, o : Offer(r, a, o) => Moves(r, c, "done", o, a)
         /\ \A a : Finish(r, a) => Moves(r, c, "done", None, a)
         /\ \A p, f : Proceed(r, p, f) => Moves(r, c, p, f, "none")
<1>1. answer = [answer EXCEPT ![r] = "none"]
  BY OwnCall DEF RequestsOK
<1>2. QED
  BY <1>1 DEF Offer, Finish, Proceed, Moves

\* The same for a request that is asked nothing new.
LEMMA SameCall ==
  ASSUME RequestsOK, UNCHANGED call, NEW r \in Requests
  PROVE  call' = [call EXCEPT ![r] = call[r]]
  BY DEF RequestsOK

LEMMA FinishType ==
  ASSUME RequestsOK, NEW r \in Requests, pc[r] # "done", NEW c \in Calls,
         call' = [call EXCEPT ![r] = c], NEW a \in Answers \ {"none"}
  PROVE  /\ Finish(r, a) => RequestsOK'
         /\ \A o : Offer(r, a, o) => RequestsOK'
<1>1. \A o : Fits("done", c, o, a)
  BY CallsAssumption DEF Fits, Asking
<1>2. "done" \in Statements
  BY DEF Statements
<1>3. QED
  BY <1>1, <1>2, Moving, MovesType

LEMMA ProceedType ==
  ASSUME RequestsOK, NEW r \in Requests, pc[r] # "done", NEW c \in Calls,
         call' = [call EXCEPT ![r] = c], NEW p \in Statements, NEW f,
         Fits(p, c, f, "none"), Proceed(r, p, f)
  PROVE  RequestsOK'
  BY Moving, MovesType DEF Answers

LEMMA InitType == Init => TypeOK
<1> SUFFICES ASSUME Init PROVE TypeOK
  OBVIOUS
<1> DEFINE c == CHOOSE x \in Categories : TRUE
           s == CHOOSE x \in Services : TRUE
           p == CHOOSE x \in Providers : TRUE
<1>1. c \in Categories /\ s \in Services /\ p \in Providers
  BY IdsAssumption
<1>2. /\ parent \in {[k \in {c} |-> None], [k \in Categories |-> IF k = c THEN None ELSE c]}
      /\ shown = [k \in DOMAIN parent |-> TRUE]
      /\ service = [k \in {s} |-> [category |-> c, provider |-> p, fields |-> Fields]]
      /\ provider = [k \in {p} |-> [active |-> TRUE, accepting |-> TRUE]]
      /\ week = [k \in Providers |-> IF k = p THEN InitialWeek ELSE NoWeek]
      /\ blocked = {} /\ bookings = {}
  BY DEF Init
<1>3. InitialWeek \in Week /\ NoWeek \in Week
  <2>1. InitialWeek = [d \in Weekdays |-> InitialWeek[d]]
    BY WeeksAssumption
  <2>2. QED
    BY <2>1 DEF Week, NoWeek
<1> HIDE DEF c, s, p
<1>4. cats \subseteq Categories /\ parent \in [cats -> Categories \cup {None}]
  BY <1>1, <1>2 DEF cats
<1>5. shown \in [cats -> BOOLEAN]
  BY <1>2 DEF cats
<1>6. servs \subseteq Services /\ service \in [servs -> ServiceRow]
  BY <1>1, <1>2 DEF servs, ServiceRow
<1>7. provs \subseteq Providers /\ provider \in [provs -> ProviderRow]
  BY <1>1, <1>2 DEF provs, ProviderRow
<1>8. week \in [Providers -> Week]
  BY <1>2, <1>3
<1>9. TablesOK
  BY <1>2, <1>4, <1>5, <1>6, <1>7, <1>8 DEF TablesOK
<1>10. RequestsOK
  <2>1. /\ pc = [r \in Requests |-> "idle"] /\ call = [r \in Requests |-> NoCall]
        /\ found = [r \in Requests |-> None] /\ answer = [r \in Requests |-> "none"]
    BY DEF Init
  <2>2. Fits("idle", NoCall, None, "none")
    BY DEF Fits, Asking
  <2>3. QED
    BY <2>1, <2>2 DEF RequestsOK, Statements, Answers
<1>11. QED
  BY <1>9, <1>10 DEF TypeOK

\* What exists is in the table of its kind.
LEMMA ExistsWhere ==
  ASSUME TablesOK
  PROVE  /\ \A id \in Categories : Exists(id) => id \in cats
         /\ \A id \in Services : Exists(id) => id \in servs
         /\ \A id \in Providers : Exists(id) => id \in provs
  BY IdsAssumption DEF TablesOK, Exists

LEMMA CheckType ==
  ASSUME TypeOK, NEW r \in Requests, pc[r] \in {"idle", "look"}, NEW c \in Calls,
         call' = [call EXCEPT ![r] = c], NEW todo, Todo(c, todo), Check(r, c, todo)
  PROVE  TypeOK'
<1> USE DEF TypeOK
<1>1. TablesOK'
  BY DEF Check, tables, TablesOK, cats, servs, provs
<1>2. CASE todo = <<>>
  <2>1. Proceed(r, "write", None)
    BY <1>2 DEF Check
  <2>2. Fits("write", c, None, "none")
    BY <1>2, CallsAssumption DEF Todo, Fits, Asking
  <2>3. QED
    BY <1>1, <2>1, <2>2, ProceedType DEF Statements
<1>3. CASE todo # <<>> /\ ~Exists(Head(todo))
  <2>1. Finish(r, "NOT_FOUND")
    BY <1>3 DEF Check
  <2>2. QED
    BY <1>1, <2>1, FinishType DEF Answers
<1>4. CASE todo # <<>> /\ Exists(Head(todo)) /\ Refused(c)
  <2>1. Finish(r, "REFUSED")
    BY <1>4 DEF Check
  <2>2. QED
    BY <1>1, <2>1, FinishType DEF Answers
<1>5. CASE todo # <<>> /\ Exists(Head(todo)) /\ ~Refused(c) /\ Len(todo) > 1
  <2>1. Proceed(r, "look", Tail(todo))
    BY <1>5 DEF Check
  <2>2. Tail(todo) \in Seq(Ids) /\ Tail(todo) # <<>>
    <3>1. todo \in Seq(Ids) /\ todo # <<>>
      BY <1>5 DEF Todo
    <3>2. Tail(todo) \in Seq(Ids) /\ Len(Tail(todo)) = Len(todo) - 1 /\ Len(todo) \in Nat
      BY <3>1, HeadTailProperties, LenProperties
    <3>3. Len(Tail(todo)) # 0
      BY <1>5, <3>2
    <3>4. QED
      BY <3>2, <3>3, EmptySeq
  <2>3. c.kind \in Several
    <3>1. ASSUME todo = <<c.id>> PROVE FALSE
      <4>1. Len(todo) = 1
        BY <3>1
      <4>2. Len(todo) > 1
        BY <1>5
      <4>3. QED
        BY <4>1, <4>2
    <3>2. c.kind # "createCategory"
      <4>1. todo \in Seq(Ids) /\ (c.kind = "createCategory" => Len(todo) <= 1)
        BY DEF Todo
      <4>2. Len(todo) \in Nat
        BY <4>1, LenProperties
      <4>3. QED
        BY <1>5, <4>1, <4>2
    <3>3. QED
      BY <1>5, <3>1, <3>2 DEF Todo
  <2>4. Fits("look", c, Tail(todo), "none")
    BY <2>2, <2>3, CallsAssumption DEF Fits, Asking
  <2>5. QED
    BY <1>1, <2>1, <2>4, ProceedType DEF Statements
<1>6. CASE todo # <<>> /\ Exists(Head(todo)) /\ ~Refused(c) /\ ~(Len(todo) > 1)
  <2>1. CASE c.kind = "availability" /\ ~Available(service[c.id].provider)
    <3>1. Offer(r, "OK", {})
      BY <1>6, <2>1 DEF Check
    <3>2. QED
      BY <1>1, <3>1, FinishType DEF Answers
  <2>2. CASE ~(c.kind = "availability" /\ ~Available(service[c.id].provider))
    <3>1. Proceed(r, FirstWrite(c), Remembered(c))
      BY <1>6, <2>2 DEF Check
    <3>2. ASSUME c.kind \notin Several \cup {"createCategory", "createProvider"}
          PROVE  Exists(c.id)
      <4>1. todo = <<c.id>>
        BY <3>2 DEF Todo
      <4>2. QED
        BY <1>6, <4>1
    <3>3. FirstWrite(c) \in Statements /\ Fits(FirstWrite(c), c, Remembered(c), "none")
      <4>1. CASE c.kind \in {"removeService", "setSchedule", "removeProvider"}
        <5>1. FirstWrite(c) = "clear"
          BY <4>1 DEF FirstWrite
        <5>2. QED
          BY <4>1, <5>1, CallsAssumption DEF Fits, Asking, Statements
      <4>2. CASE c.kind = "updateService"
        <5>1. FirstWrite(c) = IF c.fields # None THEN "clear" ELSE "write"
          BY <4>2 DEF FirstWrite
        <5>2. QED
          BY <4>2, <5>1, CallsAssumption DEF Fits, Asking, Statements
      <4>3. CASE c.kind \in {"blockDate", "unblockDate"}
        <5>1. FirstWrite(c) = "find"
          BY <4>3 DEF FirstWrite
        <5>2. QED
          BY <4>3, <5>1, CallsAssumption DEF Fits, Asking, Statements
      <4>4. CASE c.kind \in {"availability", "book"}
        <5>1. c.id \in servs
          BY <3>2, <4>4, CallFields, ExistsWhere DEF Several
        <5>2. Remembered(c) = service[c.id].provider
          BY <4>4 DEF Remembered
        <5>3. Remembered(c) \in Providers
          BY <5>1, <5>2 DEF TablesOK, ServiceRow
        <5>4. FirstWrite(c) = IF c.kind = "availability" THEN "schedule" ELSE "write"
          BY <4>4 DEF FirstWrite
        <5>5. QED
          BY <4>4, <5>3, <5>4, CallsAssumption DEF Fits, Asking, Statements
      <4>5. CASE c.kind = "toggleCategory"
        <5>1. c.id \in cats
          BY <3>2, <4>5, CallFields, ExistsWhere DEF Several
        <5>2. Remembered(c) = shown[c.id]
          BY <4>5 DEF Remembered
        <5>3. Remembered(c) \in BOOLEAN
          BY <5>1, <5>2 DEF TablesOK
        <5>4. FirstWrite(c) = "write"
          BY <4>5 DEF FirstWrite
        <5>5. QED
          BY <4>5, <5>3, <5>4, CallsAssumption DEF Fits, Asking, Statements
      <4>6. CASE c.kind = "toggleAccepting"
        <5>1. c.id \in provs
          BY <3>2, <4>6, CallFields, ExistsWhere DEF Several
        <5>2. Remembered(c) = provider[c.id].accepting
          BY <4>6 DEF Remembered
        <5>3. Remembered(c) \in BOOLEAN
          BY <5>1, <5>2 DEF TablesOK, ProviderRow
        <5>4. FirstWrite(c) = "write"
          BY <4>6 DEF FirstWrite
        <5>5. QED
          BY <4>6, <5>3, <5>4, CallsAssumption DEF Fits, Asking, Statements
      <4>7. CASE c.kind \in {"createCategory", "updateCategory", "removeCategory",
                             "createService", "createProvider", "updateProvider",
                             "assignService"}
        <5>1. FirstWrite(c) = "write"
          BY <4>7 DEF FirstWrite
        <5>2. QED
          BY <4>7, <5>1, CallsAssumption DEF Fits, Asking, Statements
      <4>8. QED
        BY <4>1, <4>2, <4>3, <4>4, <4>5, <4>6, <4>7, CallFields DEF AllKinds
    <3>4. QED
      BY <1>1, <3>1, <3>3, ProceedType
  <2>3. QED
    BY <2>1, <2>2
<1>7. QED
  BY <1>2, <1>3, <1>4, <1>5, <1>6

LEMMA LookupsType ==
  ASSUME TypeOK, NEW r \in Requests
  PROVE  /\ \A c \in Calls : Start(r, c) => TypeOK'
         /\ Look(r) => TypeOK'
<1>1. ASSUME NEW c \in Calls, Start(r, c) PROVE TypeOK'
  BY <1>1, LookupsTodo, CheckType DEF Start
<1>2. ASSUME Look(r) PROVE TypeOK'
  <2>1. pc[r] = "look" /\ Check(r, call[r], found[r]) /\ UNCHANGED call
    BY <1>2 DEF Look
  <2>2. /\ call[r] \in Calls /\ call[r].kind \in Several
        /\ found[r] \in Seq(Ids) /\ found[r] # <<>>
    BY <2>1, OwnCall DEF TypeOK, Fits
  <2>3. Todo(call[r], found[r])
    BY <2>2 DEF Todo, Several
  <2>4. call' = [call EXCEPT ![r] = call[r]]
    BY <2>1, SameCall DEF TypeOK
  <2>5. QED
    BY <2>1, <2>2, <2>3, <2>4, CheckType
<1>3. QED
  BY <1>1, <1>2

\* A statement that ends a request, or sends it on, and how it leaves the tables.
LEMMA GoOnType ==
  ASSUME RequestsOK, NEW r \in Requests, pc[r] \notin {"idle", "done"}, UNCHANGED call
  PROVE  /\ \A a \in Answers \ {"none"} : Finish(r, a) => RequestsOK'
         /\ \A p \in Statements : \A f :
              Proceed(r, p, f) /\ Fits(p, call[r], f, "none") => RequestsOK'
         /\ \A a \in Answers \ {"none"} : \A o : Offer(r, a, o) => RequestsOK'
<1>1. call[r] \in Calls /\ call' = [call EXCEPT ![r] = call[r]]
  BY OwnCall, SameCall
<1>2. QED
  BY <1>1, FinishType, ProceedType

Ends(r) == \E a \in {"OK", "ERROR"} : Finish(r, a)

\* The tables of categories, services and providers, as functions on their rows.
LEMMA RowsOf ==
  ASSUME TablesOK
  PROVE  /\ \A k \in cats : parent[k] \in Categories \cup {None} /\ shown[k] \in BOOLEAN
         /\ \A s \in servs : /\ service[s] \in ServiceRow /\ service[s].category \in Categories
                             /\ service[s].provider \in Providers
                             /\ service[s].fields \in SUBSET Fields
         /\ \A p \in provs : provider[p] \in ProviderRow
  BY DEF TablesOK, ServiceRow

LEMMA CategoryStepsType ==
  ASSUME TypeOK, NEW r \in Requests
  PROVE  WriteCategory(r) \/ ToggleCategory(r) \/ DeleteCategory(r) => TypeOK'
<1> USE DEF TypeOK
<1>0. /\ pc[r] = "write" => call[r] \in Calls /\ Fits("write", call[r], found[r], answer[r])
      /\ "OK" \in Answers \ {"none"} /\ "ERROR" \in Answers \ {"none"}
  BY OwnCall DEF Answers
<1>1. ASSUME parent' \in [DOMAIN parent' -> Categories \cup {None}], DOMAIN parent' \subseteq Categories,
             shown' \in [DOMAIN parent' -> BOOLEAN],
             UNCHANGED <<service, providerTables, bookings>>
      PROVE  TablesOK'
  BY <1>1 DEF TablesOK, cats, servs, provs, providerTables
<1>2. ASSUME UNCHANGED <<categoryTables, service, providerTables, bookings>>
      PROVE  TablesOK'
  BY <1>2 DEF TablesOK, cats, servs, provs, providerTables, categoryTables
<1>3. ASSUME pc[r] = "write", UNCHANGED call, Ends(r)
      PROVE  RequestsOK'
  BY <1>0, <1>3, GoOnType DEF Ends
<1>4. ASSUME WriteCategory(r) PROVE TypeOK'
  <2> DEFINE c == call[r]
  <2>1. /\ pc[r] = "write" /\ UNCHANGED call /\ Ends(r)
        /\ UNCHANGED <<service, providerTables, bookings>>
    BY <1>4 DEF WriteCategory, Ends
  <2>2. c.id \in Categories /\ c.parent \in Categories \cup {None}
    BY <1>0, <1>4, CallFields DEF WriteCategory, Ends
  <2>3. \/ /\ parent' = [k \in cats \cup {c.id} |-> IF k = c.id THEN c.parent ELSE parent[k]]
           /\ shown' = [k \in cats \cup {c.id} |-> IF k \in cats THEN shown[k] ELSE TRUE]
        \/ UNCHANGED categoryTables
    BY <1>4 DEF WriteCategory, Ends
  <2> HIDE DEF c
  <2>4. CASE /\ parent' = [k \in cats \cup {c.id} |-> IF k = c.id THEN c.parent ELSE parent[k]]
             /\ shown' = [k \in cats \cup {c.id} |-> IF k \in cats THEN shown[k] ELSE TRUE]
    <3>1. DOMAIN parent' = cats \cup {c.id} /\ cats \cup {c.id} \subseteq Categories
      BY <2>2, <2>4 DEF TablesOK
    <3>2. parent' \in [cats \cup {c.id} -> Categories \cup {None}]
      BY <2>2, <2>4, RowsOf
    <3>3. shown' \in [cats \cup {c.id} -> BOOLEAN]
      BY <2>4, RowsOf
    <3>4. QED
      BY <1>1, <1>3, <2>1, <3>1, <3>2, <3>3
  <2>5. QED
    BY <1>2, <1>3, <2>1, <2>3, <2>4
<1>5. ASSUME ToggleCategory(r) PROVE TypeOK'
  <2>1. /\ pc[r] = "write" /\ UNCHANGED call /\ Ends(r)
        /\ UNCHANGED <<parent, service, providerTables, bookings>>
        /\ (shown' = [shown EXCEPT ![call[r].id] = ~found[r]] \/ UNCHANGED shown)
    BY <1>5 DEF ToggleCategory, Ends
  <2>2. found[r] \in BOOLEAN
    BY <1>0, <1>5 DEF ToggleCategory, Fits
  <2>3. shown' \in [DOMAIN parent' -> BOOLEAN] /\ DOMAIN parent' = cats
    BY <2>1, <2>2 DEF TablesOK, cats
  <2>4. QED
    BY <1>1, <1>3, <2>1, <2>3 DEF TablesOK
<1>6. ASSUME DeleteCategory(r) PROVE TypeOK'
  <2> DEFINE id == call[r].id
  <2>1. /\ pc[r] = "write" /\ UNCHANGED call /\ Ends(r)
        /\ UNCHANGED <<service, providerTables, bookings>>
    BY <1>6 DEF DeleteCategory, Ends
  <2>2. \/ /\ parent' = [k \in cats \ {id} |-> IF parent[k] = id THEN None ELSE parent[k]]
           /\ shown' = [k \in cats \ {id} |-> shown[k]]
        \/ UNCHANGED categoryTables
    BY <1>6 DEF DeleteCategory, Ends
  <2> HIDE DEF id
  <2>3. CASE /\ parent' = [k \in cats \ {id} |-> IF parent[k] = id THEN None ELSE parent[k]]
             /\ shown' = [k \in cats \ {id} |-> shown[k]]
    <3>1. DOMAIN parent' = cats \ {id} /\ cats \ {id} \subseteq Categories
      BY <2>3 DEF TablesOK
    <3>2. parent' \in [cats \ {id} -> Categories \cup {None}]
      BY <2>3, RowsOf
    <3>3. shown' \in [cats \ {id} -> BOOLEAN]
      BY <2>3, RowsOf
    <3>4. QED
      BY <1>1, <1>3, <2>1, <3>1, <3>2, <3>3
  <2>4. QED
    BY <1>2, <1>3, <2>1, <2>2, <2>3
<1>7. QED
  BY <1>4, <1>5, <1>6

LEMMA ServiceStepsType ==
  ASSUME TypeOK, NEW r \in Requests
  PROVE  ClearFields(r) \/ WriteService(r) \/ DeleteService(r) \/ AssignService(r) => TypeOK'
<1> USE DEF TypeOK
<1>0. /\ pc[r] \in {"write", "clear"} =>
           call[r] \in Calls /\ Fits(pc[r], call[r], found[r], answer[r])
      /\ "OK" \in Answers \ {"none"} /\ "ERROR" \in Answers \ {"none"}
  BY OwnCall DEF Answers
<1>1. ASSUME service' \in [DOMAIN service' -> ServiceRow], DOMAIN service' \subseteq Services,
             UNCHANGED <<categoryTables, providerTables, bookings>>
      PROVE  TablesOK'
  BY <1>1 DEF TablesOK, cats, servs, provs, providerTables, categoryTables
<1>2. UNCHANGED service => service' \in [DOMAIN service' -> ServiceRow] /\ DOMAIN service' \subseteq Services
  BY DEF TablesOK, servs
<1>3. ASSUME pc[r] = "write", UNCHANGED call, Ends(r)
      PROVE  RequestsOK'
  BY <1>0, <1>3, GoOnType DEF Ends
<1>4. ASSUME ClearFields(r) PROVE TypeOK'
  <2> DEFINE id == call[r].id
  <2>1. /\ pc[r] = "clear" /\ UNCHANGED call /\ Proceed(r, "write", None)
        /\ UNCHANGED <<categoryTables, providerTables, bookings>>
        /\ call[r].kind \in {"updateService", "removeService"}
        /\ service' = IF id \in servs THEN [service EXCEPT ![id].fields = {}] ELSE service
    BY <1>4 DEF ClearFields
  <2> HIDE DEF id
  <2>2. \A s \in servs : [service[s] EXCEPT !.fields = {}] \in ServiceRow
    BY RowsOf DEF ServiceRow
  <2>3. service' \in [servs -> ServiceRow] /\ DOMAIN service' = servs
    BY <2>1, <2>2 DEF TablesOK
  <2>4. Fits("write", call[r], None, "none") /\ "write" \in Statements
    BY <1>0, <2>1, CallsAssumption DEF Fits, Asking, Statements
  <2>5. RequestsOK'
    BY <2>1, <2>4, GoOnType
  <2>6. QED
    BY <1>1, <2>1, <2>3, <2>5 DEF TablesOK
<1>5. ASSUME WriteService(r) PROVE TypeOK'
  <2> DEFINE c == call[r]
             old == IF c.id \in servs THEN service[c.id]
                    ELSE [category |-> None, provider |-> None, fields |-> {}]
             new == Updated(old, c)
  <2>1. /\ pc[r] = "write" /\ UNCHANGED call /\ Ends(r)
        /\ UNCHANGED <<categoryTables, providerTables, bookings>>
    BY <1>5 DEF WriteService, Ends
  <2>2. \/ /\ new.category \in cats /\ new.provider \in provs
           /\ service' = [s \in servs \cup {c.id} |-> IF s = c.id THEN new ELSE service[s]]
        \/ UNCHANGED service
    BY <1>5 DEF WriteService, Ends
  <2>3. c.id \in Services /\ c.fields \in FieldSets \cup {None}
    BY <1>0, <1>5, CallFields DEF WriteService, Ends
  <2>4. ASSUME new.category \in cats, new.provider \in provs
        PROVE  new \in ServiceRow
    <3>1. old.fields \in SUBSET Fields
      BY RowsOf
    <3>2. new = [category |-> new.category, provider |-> new.provider,
                 fields |-> old.fields \cup (IF c.fields = None THEN {} ELSE c.fields)]
      BY DEF Updated
    <3>3. old.fields \cup (IF c.fields = None THEN {} ELSE c.fields) \in SUBSET Fields
      BY <2>3, <3>1, FieldsAssumption
    <3> HIDE DEF new, old
    <3>4. QED
      BY <2>4, <3>2, <3>3 DEF ServiceRow, TablesOK
  <2> HIDE DEF new, c
  <2>5. CASE /\ new.category \in cats /\ new.provider \in provs
             /\ service' = [s \in servs \cup {c.id} |-> IF s = c.id THEN new ELSE service[s]]
    <3>1. DOMAIN service' = servs \cup {c.id} /\ servs \cup {c.id} \subseteq Services
      BY <2>3, <2>5 DEF TablesOK
    <3>2. service' \in [servs \cup {c.id} -> ServiceRow]
      BY <2>4, <2>5, RowsOf
    <3>3. QED
      BY <1>1, <1>3, <2>1, <3>1, <3>2
  <2>6. QED
    BY <1>1, <1>2, <1>3, <2>1, <2>2, <2>5
<1>6. ASSUME DeleteService(r) PROVE TypeOK'
  <2> DEFINE id == call[r].id
  <2>1. /\ pc[r] = "write" /\ UNCHANGED call /\ Ends(r)
        /\ UNCHANGED <<categoryTables, providerTables, bookings>>
        /\ (service' = [s \in servs \ {id} |-> service[s]] \/ UNCHANGED service)
    BY <1>6 DEF DeleteService, Ends
  <2> HIDE DEF id
  <2>2. CASE service' = [s \in servs \ {id} |-> service[s]]
    <3>1. DOMAIN service' = servs \ {id} /\ service' \in [servs \ {id} -> ServiceRow]
      BY <2>2, RowsOf
    <3>2. QED
      BY <1>1, <1>3, <2>1, <3>1 DEF TablesOK
  <2>3. QED
    BY <1>1, <1>2, <1>3, <2>1, <2>2
<1>7. ASSUME AssignService(r) PROVE TypeOK'
  <2> DEFINE c == call[r]
  <2>1. /\ pc[r] = "write" /\ UNCHANGED call /\ Ends(r)
        /\ UNCHANGED <<categoryTables, providerTables, bookings>>
        /\ \/ /\ c.service \in servs /\ c.id \in provs
              /\ service' = [service EXCEPT ![c.service].provider = c.id]
           \/ UNCHANGED service
    BY <1>7 DEF AssignService, Ends
  <2> HIDE DEF c
  <2>2. CASE /\ c.service \in servs /\ c.id \in provs
             /\ service' = [service EXCEPT ![c.service].provider = c.id]
    <3>1. [service[c.service] EXCEPT !.provider = c.id] \in ServiceRow
      BY <2>2, RowsOf DEF ServiceRow, TablesOK
    <3>2. service' \in [servs -> ServiceRow] /\ DOMAIN service' = servs
      BY <2>2, <3>1 DEF TablesOK
    <3>3. QED
      BY <1>1, <1>3, <2>1, <3>2 DEF TablesOK
  <2>3. QED
    BY <1>1, <1>2, <1>3, <2>1, <2>2
<1>8. QED
  BY <1>4, <1>5, <1>6, <1>7

\* Entries that are sent, alone or among those there are, make a week.
LEMMA WholeWeeks ==
  ASSUME TablesOK
  PROVE  /\ NoWeek \in Week
         /\ \A w \in Weeks \cup {InitialWeek} : w \in Week
         /\ \A p \in Providers : week[p] \in Week
<1>1. \A w \in Weeks \cup {InitialWeek} : w = [d \in Weekdays |-> w[d]]
  BY WeeksAssumption
<1>2. QED
  BY <1>1 DEF Week, NoWeek, TablesOK

LEMMA ProviderStepsType ==
  ASSUME TypeOK, NEW r \in Requests
  PROVE  /\ WriteProvider(r) \/ DeleteProvider(r) => TypeOK'
         /\ ClearSchedule(r) \/ WriteSchedule(r) => TypeOK'
         /\ ClearDates(r) \/ FindDate(r) \/ WriteDate(r) => TypeOK'
<1> USE DEF TypeOK
<1>0. /\ pc[r] \in {"write", "clear", "clearDates", "find"} =>
           call[r] \in Calls /\ Fits(pc[r], call[r], found[r], answer[r])
      /\ {"OK", "ERROR", "REFUSED", "NOT_FOUND"} \subseteq Answers \ {"none"}
  BY OwnCall DEF Answers
<1>1. ASSUME provider' \in [DOMAIN provider' -> ProviderRow], DOMAIN provider' \subseteq Providers,
             week' \in [Providers -> Week], blocked' \subseteq Providers \X Dates,
             UNCHANGED <<categoryTables, service, bookings>>
      PROVE  TablesOK'
  BY <1>1 DEF TablesOK, cats, servs, provs, categoryTables
<1>2. /\ UNCHANGED provider => provider' \in [DOMAIN provider' -> ProviderRow] /\ DOMAIN provider' \subseteq Providers
      /\ UNCHANGED week => week' \in [Providers -> Week]
      /\ UNCHANGED blocked => blocked' \subseteq Providers \X Dates
  BY DEF TablesOK, provs
<1>3. ASSUME pc[r] \in {"write", "clear"}, UNCHANGED call, Ends(r) PROVE RequestsOK'
  BY <1>0, <1>3, GoOnType DEF Ends
<1>4. ASSUME pc[r] \in {"clear", "clearDates", "find"}, UNCHANGED call,
             NEW p \in {"write", "clearDates"}, Proceed(r, p, None),
             p = "clearDates" => call[r].kind = "removeProvider",
             p = "write" => call[r].kind \in {"removeProvider", "setSchedule", "blockDate", "unblockDate"}
      PROVE  RequestsOK'
  <2>1. p \in Statements /\ Fits(p, call[r], None, "none")
    BY <1>0, <1>4, CallsAssumption DEF Statements, Fits, Asking
  <2>2. QED
    BY <1>4, <2>1, GoOnType
<1>5. ASSUME WriteProvider(r) PROVE TypeOK'
  <2> DEFINE c == call[r]
             old == IF c.id \in provs THEN provider[c.id] ELSE [active |-> TRUE, accepting |-> TRUE]
             new == CASE c.kind = "createProvider" -> old
                      [] c.kind = "updateProvider" -> [old EXCEPT !.active = c.active]
                      [] c.kind = "toggleAccepting" -> [old EXCEPT !.accepting = ~found[r]]
  <2>1. /\ pc[r] = "write" /\ UNCHANGED call /\ Ends(r)
        /\ UNCHANGED <<categoryTables, service, week, blocked, bookings>>
        /\ c.kind \in {"createProvider", "updateProvider", "toggleAccepting"}
        /\ \/ provider' = [p \in provs \cup {c.id} |-> IF p = c.id THEN new ELSE provider[p]]
           \/ UNCHANGED provider
    BY <1>5 DEF WriteProvider, Ends
  <2>2. c.id \in Providers
    BY <1>0, <2>1, CallFields
  <2>3. old \in ProviderRow
    BY RowsOf DEF ProviderRow
  <2>4. new \in ProviderRow
    <3> HIDE DEF old
    <3>1. CASE c.kind = "createProvider"
      BY <2>3, <3>1
    <3>2. CASE c.kind = "updateProvider"
      <4>1. c.active \in BOOLEAN /\ new = [old EXCEPT !.active = c.active]
        BY <1>0, <2>1, <3>2, CallFields
      <4>2. QED
        BY <2>3, <4>1 DEF ProviderRow
    <3>3. CASE c.kind = "toggleAccepting"
      <4>1. new = [old EXCEPT !.accepting = ~found[r]]
        BY <3>3
      <4>2. QED
        BY <2>3, <4>1 DEF ProviderRow
    <3>4. QED
      BY <2>1, <3>1, <3>2, <3>3
  <2> HIDE DEF new, c
  <2>5. CASE provider' = [p \in provs \cup {c.id} |-> IF p = c.id THEN new ELSE provider[p]]
    <3>1. DOMAIN provider' = provs \cup {c.id} /\ provs \cup {c.id} \subseteq Providers
      BY <2>2, <2>5 DEF TablesOK
    <3>2. provider' \in [provs \cup {c.id} -> ProviderRow]
      BY <2>4, <2>5, RowsOf
    <3>3. QED
      BY <1>1, <1>2, <1>3, <2>1, <3>1, <3>2
  <2>6. QED
    BY <1>1, <1>2, <1>3, <2>1, <2>5
<1>6. ASSUME DeleteProvider(r) PROVE TypeOK'
  <2> DEFINE id == call[r].id
  <2>1. /\ pc[r] = "write" /\ UNCHANGED call /\ Ends(r)
        /\ UNCHANGED <<categoryTables, service, bookings>>
        /\ \/ /\ provider' = [p \in provs \ {id} |-> provider[p]]
              /\ week' = [week EXCEPT ![id] = NoWeek]
              /\ blocked' = {b \in blocked : b[1] # id}
           \/ UNCHANGED <<provider, week, blocked>>
    BY <1>6 DEF DeleteProvider, Ends, providerTables
  <2> HIDE DEF id
  <2>2. CASE /\ provider' = [p \in provs \ {id} |-> provider[p]]
             /\ week' = [week EXCEPT ![id] = NoWeek]
             /\ blocked' = {b \in blocked : b[1] # id}
    <3>1. DOMAIN provider' = provs \ {id} /\ provider' \in [provs \ {id} -> ProviderRow]
      BY <2>2, RowsOf
    <3>2. week' \in [Providers -> Week] /\ blocked' \subseteq Providers \X Dates
      BY <2>2, WholeWeeks DEF TablesOK
    <3>3. QED
      BY <1>1, <1>3, <2>1, <3>1, <3>2 DEF TablesOK
  <2>3. QED
    BY <1>1, <1>2, <1>3, <2>1, <2>2
<1>7. ASSUME ClearSchedule(r) PROVE TypeOK'
  <2>1. /\ pc[r] = "clear" /\ UNCHANGED call
        /\ UNCHANGED <<categoryTables, service, provider, blocked, bookings>>
        /\ week' = [week EXCEPT ![call[r].id] = NoWeek]
        /\ call[r].kind \in {"setSchedule", "removeProvider"}
        /\ \/ call[r].kind = "removeProvider" /\ Proceed(r, "clearDates", None)
           \/ Ends(r)
           \/ call[r].kind = "setSchedule" /\ Proceed(r, "write", None)
    BY <1>7 DEF ClearSchedule, Ends
  <2>2. week' \in [Providers -> Week]
    BY <2>1, WholeWeeks DEF TablesOK
  <2>3. QED
    BY <1>1, <1>2, <1>3, <1>4, <2>1, <2>2
<1>8. ASSUME WriteSchedule(r) PROVE TypeOK'
  <2> DEFINE c == call[r]
             new == [d \in Weekdays |-> IF c.week[d] # NoEntry THEN c.week[d] ELSE week[c.id][d]]
  <2>1. /\ pc[r] = "write" /\ UNCHANGED call /\ Ends(r) /\ c.kind = "setSchedule"
        /\ UNCHANGED <<categoryTables, service, provider, blocked, bookings>>
        /\ week' = [week EXCEPT ![c.id] = new] \/ UNCHANGED week
    BY <1>8 DEF WriteSchedule, Ends
  <2>2. c.id \in Providers /\ c.week \in Weeks
    BY <1>0, <2>1, CallFields
  <2>3. c.week \in Week /\ week[c.id] \in Week
    BY <2>2, WholeWeeks
  <2> HIDE DEF c
  <2>4. new \in Week
    BY <2>3 DEF Week
  <2> HIDE DEF new
  <2>5. week' \in [Providers -> Week]
    BY <2>1, <2>4 DEF TablesOK
  <2>6. QED
    BY <1>1, <1>2, <1>3, <2>1, <2>5
<1>9. ASSUME ClearDates(r) PROVE TypeOK'
  <2>1. /\ pc[r] = "clearDates" /\ UNCHANGED call /\ Proceed(r, "write", None)
        /\ UNCHANGED <<categoryTables, service, provider, week, bookings>>
        /\ blocked' \subseteq blocked
    BY <1>9 DEF ClearDates
  <2>2. call[r].kind = "removeProvider" /\ blocked' \subseteq Providers \X Dates
    BY <1>0, <2>1 DEF Fits, TablesOK
  <2>3. QED
    BY <1>1, <1>2, <1>4, <2>1, <2>2
<1>10. ASSUME FindDate(r) PROVE TypeOK'
  <2>1. pc[r] = "find" /\ UNCHANGED <<tables, call>>
    BY <1>10 DEF FindDate
  <2>2. TablesOK'
    BY <2>1 DEF tables, TablesOK, cats, servs, provs
  <2>3. call[r].kind \in {"blockDate", "unblockDate"}
    BY <1>0, <2>1 DEF Fits
  <2>4. \/ \E a \in {"REFUSED", "NOT_FOUND"} : Finish(r, a)
        \/ Proceed(r, "write", None)
    BY <1>10 DEF FindDate
  <2>5. RequestsOK'
    BY <1>0, <1>4, <2>1, <2>3, <2>4, GoOnType
  <2>6. QED
    BY <2>2, <2>5
<1>11. ASSUME WriteDate(r) PROVE TypeOK'
  <2>1. /\ pc[r] = "write" /\ UNCHANGED call /\ Ends(r)
        /\ UNCHANGED <<categoryTables, service, provider, week, bookings>>
        /\ call[r].kind \in {"blockDate", "unblockDate"}
        /\ blocked' \subseteq blocked \cup {<<call[r].id, call[r].date>>}
    BY <1>11 DEF WriteDate, Ends
  <2>2. call[r].id \in Providers /\ call[r].date \in Dates
    BY <1>0, <2>1, CallFields
  <2>3. blocked' \subseteq Providers \X Dates
    BY <2>1, <2>2 DEF TablesOK
  <2>4. QED
    BY <1>1, <1>2, <1>3, <2>1, <2>3
<1>12. QED
  BY <1>5, <1>6, <1>7, <1>8, <1>9, <1>10, <1>11

LEMMA VisitorStepsType ==
  ASSUME TypeOK, NEW r \in Requests
  PROVE  /\ ReadSchedule(r) \/ ReadDates(r) \/ AnswerAvailability(r) => TypeOK'
         /\ Book(r) => TypeOK'
<1> USE DEF TypeOK
<1>0. /\ pc[r] \in Asking \cup {"write"} =>
           call[r] \in Calls /\ Fits(pc[r], call[r], found[r], answer[r])
      /\ {"OK", "ERROR", "REFUSED"} \subseteq Answers \ {"none"}
      /\ {"dates", "bookings"} \subseteq Statements
  BY OwnCall DEF Answers, Statements, Asking
<1>1. UNCHANGED tables => TablesOK'
  BY DEF tables, TablesOK, cats, servs, provs
<1>2. ASSUME ReadSchedule(r) PROVE TypeOK'
  <2> DEFINE f == [provider |-> found[r], week |-> week[found[r]]]
  <2>1. pc[r] = "schedule" /\ Proceed(r, "dates", f) /\ UNCHANGED <<tables, call>>
    BY <1>2 DEF ReadSchedule
  <2>2. found[r] \in Providers /\ call[r].kind = "availability" /\ week[found[r]] \in Week
    BY <1>0, <2>1, WholeWeeks DEF Fits, Asking
  <2>3. f \in [provider : Providers, week : Week]
    BY <2>2
  <2> HIDE DEF f
  <2>4. Fits("dates", call[r], f, "none")
    BY <1>0, <2>1, <2>2, <2>3, CallsAssumption DEF Fits, Asking
  <2>5. QED
    BY <1>0, <1>1, <2>1, <2>4, GoOnType
<1>3. ASSUME ReadDates(r) PROVE TypeOK'
  <2> DEFINE f == [provider |-> found[r].provider, week |-> found[r].week,
                   dates |-> {d \in Dates : <<found[r].provider, d>> \in blocked}]
  <2>1. pc[r] = "dates" /\ Proceed(r, "bookings", f) /\ UNCHANGED <<tables, call>>
    BY <1>3 DEF ReadDates
  <2>2. found[r] \in [provider : Providers, week : Week] /\ call[r].kind = "availability"
    BY <1>0, <2>1 DEF Fits, Asking
  <2>3. f \in [provider : Providers, week : Week, dates : SUBSET Dates]
    BY <2>2
  <2> HIDE DEF f
  <2>4. Fits("bookings", call[r], f, "none")
    BY <1>0, <2>1, <2>2, <2>3, CallsAssumption DEF Fits, Asking
  <2>5. QED
    BY <1>0, <1>1, <2>1, <2>4, GoOnType
<1>4. ASSUME AnswerAvailability(r) PROVE TypeOK'
  <2>1. pc[r] = "bookings" /\ (\E o : Offer(r, "OK", o)) /\ UNCHANGED <<tables, call>>
    BY <1>4 DEF AnswerAvailability
  <2>2. QED
    BY <1>0, <1>1, <2>1, GoOnType
<1>5. ASSUME Book(r) PROVE TypeOK'
  <2> DEFINE c == call[r]
             row == [service |-> c.id, provider |-> found[r], date |-> c.date, time |-> c.time]
  <2>1. /\ pc[r] = "write" /\ UNCHANGED call /\ c.kind = "book"
        /\ \E a \in {"OK", "ERROR", "REFUSED"} : Finish(r, a)
        /\ UNCHANGED <<categoryTables, service, providerTables>>
        /\ bookings' = bookings \cup {row} \/ UNCHANGED bookings
    BY <1>5 DEF Book
  <2>2. /\ c.id \in Services /\ c.date \in Dates /\ c.time \in Times
        /\ found[r] \in Providers
    BY <1>0, <2>1, CallFields DEF Fits
  <2>3. row \in BookingRow
    BY <2>2 DEF BookingRow
  <2> HIDE DEF row, c
  <2>4. bookings' \subseteq BookingRow
    BY <2>1, <2>3 DEF TablesOK
  <2>5. TablesOK'
    BY <2>1, <2>4 DEF TablesOK, cats, servs, provs, categoryTables, providerTables
  <2>6. RequestsOK'
    BY <1>0, <2>1, GoOnType
  <2>7. QED
    BY <2>5, <2>6
<1>6. QED
  BY <1>2, <1>3, <1>4, <1>5

LEMMA NextType == TypeOK /\ [Next]_vars => TypeOK'
<1> SUFFICES ASSUME TypeOK, [Next]_vars PROVE TypeOK'
  OBVIOUS
<1>1. CASE Next
  <2>1. PICK r \in Requests : (\E c \in Calls : Start(r, c)) \/ Step(r)
    BY <1>1 DEF Next
  <2>2. QED
    BY <2>1, LookupsType, CategoryStepsType, ServiceStepsType, ProviderStepsType,
       VisitorStepsType DEF Step
<1>2. CASE UNCHANGED vars
  <2>1. TablesOK'
    BY <1>2 DEF vars, tables, TypeOK, TablesOK, cats, servs, provs
  <2>2. \A r \in Requests : Fits(pc[r], call[r], found[r], answer[r])'
    BY <1>2 DEF vars, TypeOK, RequestsOK, Fits
  <2>3. RequestsOK'
    BY <1>2, <2>2 DEF vars, TypeOK, RequestsOK
  <2>4. QED
    BY <2>1, <2>3 DEF TypeOK
<1>3. QED
  BY <1>1, <1>2

\* The rows keep their columns and what a handler knows fits the statement it has
\* reached: it toggles only a flag it has read, asks for slots and books only with
\* a provider, and is told "none" for as long as it runs.
THEOREM TypeCorrect == Spec => []TypeOK
<1>1. Init => TypeOK
  BY InitType
<1>2. TypeOK /\ [Next]_vars => TypeOK'
  BY NextType
<1>3. QED
  BY <1>1, <1>2, PTL DEF Spec

-----------------------------------------------------------------------------
(* References *)

\* A step that writes none of what LinksResolve speaks of keeps it.
LEMMA SameLinks ==
  ASSUME LinksResolve, UNCHANGED <<parent, service, week, blocked, bookings>>,
         DOMAIN provider' = provs
  PROVE  LinksResolve'
  BY DEF LinksResolve, cats, servs, provs, NoWeek

LEMMA CategoryStepsLinks ==
  ASSUME TypeOK, LinksResolve, NEW r \in Requests
  PROVE  WriteCategory(r) \/ ToggleCategory(r) \/ DeleteCategory(r) => LinksResolve'
<1>1. ASSUME cats' = cats, UNCHANGED <<parent, service, providerTables, bookings>>
      PROVE  LinksResolve'
  BY <1>1, SameLinks DEF providerTables, provs
<1>2. ASSUME \A k \in cats' : parent'[k] \in cats' \cup {None},
             \A s \in servs : service[s].category \in cats',
             UNCHANGED <<service, providerTables, bookings>>
      PROVE  LinksResolve'
  BY <1>2 DEF LinksResolve, cats, servs, provs, providerTables, NoWeek
<1>3. ASSUME WriteCategory(r) PROVE LinksResolve'
  <2> DEFINE c == call[r]
  <2>1. UNCHANGED <<service, providerTables, bookings>>
    BY <1>3 DEF WriteCategory
  <2>2. CASE UNCHANGED categoryTables
    BY <1>1, <2>1, <2>2 DEF categoryTables, cats
  <2>3. CASE ~UNCHANGED categoryTables
    <3>1. /\ parent' = [k \in cats \cup {c.id} |-> IF k = c.id THEN c.parent ELSE parent[k]]
          /\ c.parent \in cats \cup {None}
      BY <1>3, <2>3 DEF WriteCategory
    <3> HIDE DEF c
    <3>2. cats' = cats \cup {c.id}
      BY <3>1 DEF cats
    <3>3. QED
      BY <1>2, <2>1, <3>1, <3>2 DEF LinksResolve
  <2>4. QED
    BY <2>2, <2>3
<1>4. ASSUME ToggleCategory(r) PROVE LinksResolve'
  BY <1>1, <1>4 DEF ToggleCategory, cats
<1>5. ASSUME DeleteCategory(r) PROVE LinksResolve'
  <2> DEFINE id == call[r].id
  <2>1. UNCHANGED <<service, providerTables, bookings>>
    BY <1>5 DEF DeleteCategory
  <2>2. CASE UNCHANGED categoryTables
    BY <1>1, <2>1, <2>2 DEF categoryTables, cats
  <2>3. CASE ~UNCHANGED categoryTables
    <3>1. /\ parent' = [k \in cats \ {id} |-> IF parent[k] = id THEN None ELSE parent[k]]
          /\ ServicesIn(id) = {}
      BY <1>5, <2>3 DEF DeleteCategory
    <3> HIDE DEF id
    <3>2. cats' = cats \ {id}
      BY <3>1 DEF cats
    <3>3. QED
      BY <1>2, <2>1, <3>1, <3>2 DEF LinksResolve, ServicesIn
  <2>4. QED
    BY <2>2, <2>3
<1>6. QED
  BY <1>3, <1>4, <1>5

LEMMA ServiceStepsLinks ==
  ASSUME TypeOK, LinksResolve, NEW r \in Requests
  PROVE  ClearFields(r) \/ WriteService(r) \/ DeleteService(r) \/ AssignService(r) => LinksResolve'
<1>1. ASSUME \A s \in servs' : service'[s].category \in cats /\ service'[s].provider \in provs,
             \A b \in bookings : b.service \in servs',
             UNCHANGED <<categoryTables, providerTables, bookings>>
      PROVE  LinksResolve'
  BY <1>1 DEF LinksResolve, cats, servs, provs, providerTables, categoryTables, NoWeek
<1>2. UNCHANGED <<service, categoryTables, providerTables, bookings>> => LinksResolve'
  BY SameLinks DEF categoryTables, providerTables, provs
<1>3. ASSUME ClearFields(r) PROVE LinksResolve'
  <2> DEFINE id == call[r].id
  <2>1. /\ UNCHANGED <<categoryTables, providerTables, bookings>>
        /\ service' = IF id \in servs THEN [service EXCEPT ![id].fields = {}] ELSE service
    BY <1>3 DEF ClearFields
  <2> HIDE DEF id
  <2>2. \A s \in servs : /\ [service[s] EXCEPT !.fields = {}].category = service[s].category
                         /\ [service[s] EXCEPT !.fields = {}].provider = service[s].provider
    BY RowsOf DEF TypeOK, ServiceRow
  <2>3. servs' = servs /\ \A s \in servs : /\ service'[s].category = service[s].category
                                           /\ service'[s].provider = service[s].provider
    BY <2>1, <2>2 DEF TypeOK, TablesOK, servs
  <2>4. QED
    BY <1>1, <2>1, <2>3 DEF LinksResolve
<1>4. ASSUME WriteService(r) PROVE LinksResolve'
  <2> DEFINE c == call[r]
             old == IF c.id \in servs THEN service[c.id]
                    ELSE [category |-> None, provider |-> None, fields |-> {}]
             new == Updated(old, c)
  <2>1. /\ UNCHANGED <<categoryTables, providerTables, bookings>>
        /\ \/ /\ new.category \in cats /\ new.provider \in provs
              /\ service' = [s \in servs \cup {c.id} |-> IF s = c.id THEN new ELSE service[s]]
           \/ UNCHANGED service
    BY <1>4 DEF WriteService
  <2> HIDE DEF new, c
  <2>2. CASE /\ new.category \in cats /\ new.provider \in provs
             /\ service' = [s \in servs \cup {c.id} |-> IF s = c.id THEN new ELSE service[s]]
    <3>1. servs' = servs \cup {c.id}
      BY <2>2 DEF servs
    <3>2. QED
      BY <1>1, <2>1, <2>2, <3>1 DEF LinksResolve
  <2>3. QED
    BY <1>2, <2>1, <2>2
<1>5. ASSUME DeleteService(r) PROVE LinksResolve'
  <2> DEFINE id == call[r].id
  <2>1. /\ UNCHANGED <<categoryTables, providerTables, bookings>>
        /\ \/ /\ \A b \in bookings : b.service # id
              /\ service' = [s \in servs \ {id} |-> service[s]]
           \/ UNCHANGED service
    BY <1>5 DEF DeleteService
  <2> HIDE DEF id
  <2>2. CASE /\ \A b \in bookings : b.service # id
             /\ service' = [s \in servs \ {id} |-> service[s]]
    <3>1. servs' = servs \ {id}
      BY <2>2 DEF servs
    <3>2. QED
      BY <1>1, <2>1, <2>2, <3>1 DEF LinksResolve
  <2>3. QED
    BY <1>2, <2>1, <2>2
<1>6. ASSUME AssignService(r) PROVE LinksResolve'
  <2> DEFINE c == call[r]
  <2>1. /\ UNCHANGED <<categoryTables, providerTables, bookings>>
        /\ \/ /\ c.service \in servs /\ c.id \in provs
              /\ service' = [service EXCEPT ![c.service].provider = c.id]
           \/ UNCHANGED service
    BY <1>6 DEF AssignService
  <2> HIDE DEF c
  <2>2. CASE /\ c.service \in servs /\ c.id \in provs
             /\ service' = [service EXCEPT ![c.service].provider = c.id]
    <3> DEFINE row == [service[c.service] EXCEPT !.provider = c.id]
    <3>1. row.category = service[c.service].category /\ row.provider = c.id
      BY <2>2, RowsOf DEF TypeOK, ServiceRow
    <3>2. servs' = servs /\ \A s \in servs : service'[s] = IF s = c.service THEN row ELSE service[s]
      BY <2>2 DEF TypeOK, TablesOK, servs
    <3> HIDE DEF row
    <3>3. QED
      BY <1>1, <2>1, <2>2, <3>1, <3>2 DEF LinksResolve
  <2>3. QED
    BY <1>2, <2>1, <2>2
<1>7. QED
  BY <1>3, <1>4, <1>5, <1>6

LEMMA ProviderStepsLinks ==
  ASSUME TypeOK, LinksResolve, NEW r \in Requests
  PROVE  /\ WriteProvider(r) \/ DeleteProvider(r) => LinksResolve'
         /\ ClearSchedule(r) \/ WriteSchedule(r) => LinksResolve'
         /\ ClearDates(r) \/ FindDate(r) \/ WriteDate(r) => LinksResolve'
<1>1. ASSUME provs \subseteq provs', \A b \in blocked' : b[1] \in provs',
             \A p \in Providers \ provs : p \notin provs' => week'[p] = NoWeek,
             UNCHANGED <<categoryTables, service, bookings>>
      PROVE  LinksResolve'
  <2>1. \A p \in Providers \ provs' : week'[p] = NoWeek
    BY <1>1
  <2>2. QED
    BY <1>1, <2>1 DEF LinksResolve, cats, servs, categoryTables, NoWeek
<1>2. ASSUME WriteProvider(r) PROVE LinksResolve'
  <2>1. UNCHANGED <<categoryTables, service, week, blocked, bookings>>
    BY <1>2 DEF WriteProvider
  <2>2. provs \subseteq provs'
    BY <1>2 DEF WriteProvider, provs
  <2>3. QED
    BY <1>1, <2>1, <2>2 DEF LinksResolve
<1>3. ASSUME DeleteProvider(r) PROVE LinksResolve'
  <2> DEFINE id == call[r].id
  <2>1. /\ UNCHANGED <<categoryTables, service, bookings>>
        /\ \/ /\ ServicesOf(id) = {} /\ \A b \in bookings : b.provider # id
              /\ provider' = [p \in provs \ {id} |-> provider[p]]
              /\ week' = [week EXCEPT ![id] = NoWeek]
              /\ blocked' = {b \in blocked : b[1] # id}
           \/ UNCHANGED <<provider, week, blocked>>
    BY <1>3 DEF DeleteProvider, providerTables
  <2> HIDE DEF id
  <2>2. CASE UNCHANGED <<provider, week, blocked>>
    BY <2>1, <2>2, SameLinks DEF categoryTables, provs
  <2>3. CASE /\ ServicesOf(id) = {} /\ \A b \in bookings : b.provider # id
             /\ provider' = [p \in provs \ {id} |-> provider[p]]
             /\ week' = [week EXCEPT ![id] = NoWeek]
             /\ blocked' = {b \in blocked : b[1] # id}
    <3>1. provs' = provs \ {id}
      BY <2>3 DEF provs
    <3>2. \A p \in Providers \ provs' : week'[p] = NoWeek
      BY <2>3, <3>1 DEF LinksResolve, TypeOK, TablesOK
    <3>3. QED
      BY <2>1, <2>3, <3>1, <3>2
         DEF LinksResolve, ServicesOf, cats, servs, categoryTables, NoWeek
  <2>4. QED
    BY <2>1, <2>2, <2>3
<1>4. ASSUME ClearSchedule(r) PROVE LinksResolve'
  <2>1. /\ UNCHANGED <<categoryTables, service, provider, blocked, bookings>>
        /\ week' = [week EXCEPT ![call[r].id] = NoWeek]
    BY <1>4 DEF ClearSchedule
  <2>2. \A p \in Providers \ provs : week'[p] = NoWeek
    BY <2>1 DEF LinksResolve, TypeOK, TablesOK
  <2>3. QED
    BY <1>1, <2>1, <2>2 DEF LinksResolve, provs
<1>5. ASSUME WriteSchedule(r) PROVE LinksResolve'
  <2> DEFINE id == call[r].id
  <2>1. /\ UNCHANGED <<categoryTables, service, provider, blocked, bookings>>
        /\ \/ id \in provs /\ \E w : week' = [week EXCEPT ![id] = w]
           \/ UNCHANGED week
    BY <1>5 DEF WriteSchedule
  <2> HIDE DEF id
  <2>2. \A p \in Providers \ provs : week'[p] = week[p]
    BY <2>1 DEF TypeOK, TablesOK
  <2>3. QED
    BY <1>1, <2>1, <2>2 DEF LinksResolve, provs
<1>6. ASSUME ClearDates(r) PROVE LinksResolve'
  BY <1>1, <1>6 DEF ClearDates, LinksResolve, provs
<1>7. ASSUME FindDate(r) PROVE LinksResolve'
  BY <1>7, SameLinks DEF FindDate, tables, provs
<1>8. ASSUME WriteDate(r) PROVE LinksResolve'
  <2> DEFINE c == call[r]
  <2>1. /\ UNCHANGED <<categoryTables, service, provider, week, bookings>>
        /\ \/ c.id \in provs /\ blocked' = blocked \cup {<<c.id, c.date>>}
           \/ blocked' \subseteq blocked
    BY <1>8 DEF WriteDate
  <2> HIDE DEF c
  <2>2. \A b \in blocked' : b[1] \in provs
    BY <2>1 DEF LinksResolve
  <2>3. QED
    BY <1>1, <2>1, <2>2 DEF LinksResolve, provs
<1>9. QED
  BY <1>2, <1>3, <1>4, <1>5, <1>6, <1>7, <1>8

LEMMA VisitorStepsLinks ==
  ASSUME TypeOK, LinksResolve, NEW r \in Requests
  PROVE  /\ Look(r) \/ (\E c \in Calls : Start(r, c)) => LinksResolve'
         /\ ReadSchedule(r) \/ ReadDates(r) \/ AnswerAvailability(r) \/ Book(r) => LinksResolve'
<1>1. UNCHANGED tables => LinksResolve'
  BY SameLinks DEF tables, provs
<1>2. Look(r) \/ (\E c \in Calls : Start(r, c)) => UNCHANGED tables
  BY DEF Look, Start, Check
<1>3. ReadSchedule(r) \/ ReadDates(r) \/ AnswerAvailability(r) => UNCHANGED tables
  BY DEF ReadSchedule, ReadDates, AnswerAvailability
<1>4. ASSUME Book(r) PROVE LinksResolve'
  <2> DEFINE c == call[r]
             row == [service |-> c.id, provider |-> found[r], date |-> c.date, time |-> c.time]
  <2>1. /\ UNCHANGED <<categoryTables, service, providerTables>>
        /\ \/ c.id \in servs /\ found[r] \in provs /\ bookings' = bookings \cup {row}
           \/ UNCHANGED bookings
    BY <1>4 DEF Book
  <2>2. row.service = c.id /\ row.provider = found[r]
    OBVIOUS
  <2> HIDE DEF row, c
  <2>3. \A b \in bookings' : b.service \in servs /\ b.provider \in provs
    BY <2>1, <2>2 DEF LinksResolve
  <2>4. QED
    BY <2>1, <2>3 DEF LinksResolve, cats, servs, provs, categoryTables, providerTables, NoWeek
<1>5. QED
  BY <1>1, <1>2, <1>3, <1>4

\* What a handler of the catalogue looked up may be gone by the time it writes;
\* whatever any number of them saw and did between their lookups and their writes,
\* no category, service, booking, schedule or blocked date ever refers to a row
\* that is not there.
THEOREM LinksLead == Spec => []LinksResolve
<1>1. Init => LinksResolve
  <2> SUFFICES ASSUME Init PROVE LinksResolve
    OBVIOUS
  <2> DEFINE c == CHOOSE x \in Categories : TRUE
             s == CHOOSE x \in Services : TRUE
             p == CHOOSE x \in Providers : TRUE
  <2>1. /\ parent \in {[k \in {c} |-> None], [k \in Categories |-> IF k = c THEN None ELSE c]}
        /\ service = [k \in {s} |-> [category |-> c, provider |-> p, fields |-> Fields]]
        /\ provider = [k \in {p} |-> [active |-> TRUE, accepting |-> TRUE]]
        /\ week = [k \in Providers |-> IF k = p THEN InitialWeek ELSE NoWeek]
        /\ blocked = {} /\ bookings = {}
    BY DEF Init
  <2>2. c \in Categories
    BY IdsAssumption
  <2> HIDE DEF c, s, p
  <2>3. c \in cats /\ \A k \in cats : parent[k] \in {c, None}
    BY <2>1, <2>2 DEF cats
  <2>4. servs = {s} /\ provs = {p} /\ service[s].category = c /\ service[s].provider = p
    BY <2>1 DEF servs, provs
  <2>5. QED
    BY <2>1, <2>3, <2>4 DEF LinksResolve
<1>2. TypeOK /\ LinksResolve /\ [Next]_vars => LinksResolve'
  <2> SUFFICES ASSUME TypeOK, LinksResolve, [Next]_vars PROVE LinksResolve'
    OBVIOUS
  <2>1. CASE Next
    <3>1. PICK r \in Requests : (\E c \in Calls : Start(r, c)) \/ Step(r)
      BY <2>1 DEF Next
    <3>2. QED
      BY <3>1, CategoryStepsLinks, ServiceStepsLinks, ProviderStepsLinks,
         VisitorStepsLinks DEF Step
  <2>2. CASE UNCHANGED vars
    BY <2>2, SameLinks DEF vars, tables, provs
  <2>3. QED
    BY <2>1, <2>2
<1>3. QED
  BY <1>1, <1>2, TypeCorrect, PTL DEF Spec

-----------------------------------------------------------------------------
(* Schedules *)

\* A step of a request moves on that request, which has no answer yet, and no other.
LEMMA OthersWait ==
  ASSUME TypeOK, NEW q \in Requests, (\E c \in Calls : Start(q, c)) \/ Step(q)
  PROVE  /\ answer[q] = "none"
         /\ \A r \in Requests \ {q} : /\ call'[r] = call[r] /\ answer'[r] = answer[r]
                                      /\ pc'[r] = pc[r] /\ found'[r] = found[r]
<1> DEFINE Goes == \/ \E a, o : Offer(q, a, o)
                   \/ \E p, f : Proceed(q, p, f)
           Asks == (\E c : call' = [call EXCEPT ![q] = c]) \/ UNCHANGED call
<1>1. pc[q] # "done" /\ Goes /\ Asks
  <2>1. CASE \E c \in Calls : Start(q, c)
    <3>1. PICK c \in Calls : Start(q, c)
      BY <2>1
    <3>2. pc[q] # "done" /\ Asks
      BY <3>1 DEF Start
    <3>3. Goes
      BY <3>1 DEF Start, Check, Finish
    <3>4. QED
      BY <3>2, <3>3
  <2>2. CASE Look(q)
    BY <2>2 DEF Look, Check, Finish
  <2>3. CASE WriteCategory(q) \/ ToggleCategory(q) \/ DeleteCategory(q)
    BY <2>3 DEF WriteCategory, ToggleCategory, DeleteCategory, Finish
  <2>4. CASE ClearFields(q) \/ WriteService(q) \/ DeleteService(q) \/ AssignService(q)
    BY <2>4 DEF ClearFields, WriteService, DeleteService, AssignService, Finish
  <2>5. CASE WriteProvider(q) \/ ClearSchedule(q) \/ WriteSchedule(q)
    BY <2>5 DEF WriteProvider, ClearSchedule, WriteSchedule, Finish
  <2>6. CASE ClearDates(q) \/ DeleteProvider(q) \/ FindDate(q) \/ WriteDate(q)
    BY <2>6 DEF ClearDates, DeleteProvider, FindDate, WriteDate, Finish
  <2>7. CASE ReadSchedule(q) \/ ReadDates(q) \/ AnswerAvailability(q) \/ Book(q)
    BY <2>7 DEF ReadSchedule, ReadDates, AnswerAvailability, Book, Finish
  <2>8. QED
    BY <2>1, <2>2, <2>3, <2>4, <2>5, <2>6, <2>7 DEF Step
<1>2. answer[q] = "none"
  BY <1>1, OwnCall DEF TypeOK
<1>3. \A r \in Requests \ {q} : call'[r] = call[r]
  BY <1>1 DEF TypeOK, RequestsOK
<1>4. \A r \in Requests \ {q} : answer'[r] = answer[r] /\ pc'[r] = pc[r] /\ found'[r] = found[r]
  BY <1>1 DEF TypeOK, RequestsOK, Offer, Proceed
<1>5. QED
  BY <1>2, <1>3, <1>4

\* Call c, answered a, has set entry e for weekday d of provider p.
Sent(c, a, p, d, e) ==
  c # NoCall /\ c.kind = "setSchedule" /\ c.id = p /\ c.week[d] = e /\ a = "OK"

\* Only one statement adds entries, and it is the one that ends its call with OK.
LEMMA EntriesAppear ==
  ASSUME TypeOK, NEW q \in Requests, (\E c \in Calls : Start(q, c)) \/ Step(q),
         NEW p \in Providers, NEW d \in Weekdays, week'[p][d] # NoEntry
  PROVE  week'[p][d] = week[p][d] \/ Sent(call'[q], answer'[q], p, d, week'[p][d])
<1>1. UNCHANGED week => week'[p][d] = week[p][d]
  OBVIOUS
<1>2. ASSUME NEW id, week' = [week EXCEPT ![id] = NoWeek]
      PROVE  week'[p][d] = week[p][d]
  BY <1>2 DEF TypeOK, TablesOK, NoWeek
<1>3. CASE WriteSchedule(q)
  <2> DEFINE c == call[q]
             new == [x \in Weekdays |-> IF c.week[x] # NoEntry THEN c.week[x] ELSE week[c.id][x]]
  <2>1. pc[q] = "write" /\ c.kind = "setSchedule" /\ call' = call
    BY <1>3 DEF WriteSchedule
  <2>2. \/ week' = [week EXCEPT ![c.id] = new] /\ Finish(q, "OK")
        \/ UNCHANGED week
    BY <1>3 DEF WriteSchedule
  <2>3. CASE week' = [week EXCEPT ![c.id] = new] /\ Finish(q, "OK")
    <3>1. answer'[q] = "OK"
      BY <2>3 DEF Finish, Offer, TypeOK, RequestsOK
    <3>2. c # NoCall
      BY <2>1, OwnCall, CallsAssumption DEF TypeOK
    <3>3. CASE p = c.id
      <4>1. week'[p] = new
        BY <2>3, <3>3 DEF TypeOK, TablesOK
      <4>2. new[d] = IF c.week[d] # NoEntry THEN c.week[d] ELSE week[c.id][d]
        OBVIOUS
      <4> HIDE DEF new
      <4>3. week'[p][d] = c.week[d] \/ week'[p][d] = week[p][d]
        BY <3>3, <4>1, <4>2
      <4>4. QED
        BY <2>1, <3>1, <3>2, <3>3, <4>3 DEF Sent
    <3>4. CASE p # c.id
      BY <2>3, <3>4 DEF TypeOK, TablesOK
    <3>5. QED
      BY <3>3, <3>4
  <2>4. QED
    BY <1>1, <2>2, <2>3
<1>4. CASE ClearSchedule(q)
  BY <1>2, <1>4 DEF ClearSchedule
<1>5. CASE DeleteProvider(q)
  BY <1>1, <1>2, <1>5 DEF DeleteProvider, providerTables
<1>6. CASE Look(q) \/ (\E c \in Calls : Start(q, c))
  BY <1>6 DEF Look, Start, Check, tables
<1>7. CASE WriteCategory(q) \/ ToggleCategory(q) \/ DeleteCategory(q)
  BY <1>7 DEF WriteCategory, ToggleCategory, DeleteCategory, providerTables
<1>8. CASE ClearFields(q) \/ WriteService(q) \/ DeleteService(q) \/ AssignService(q)
  BY <1>8 DEF ClearFields, WriteService, DeleteService, AssignService, providerTables
<1>9. CASE WriteProvider(q) \/ ClearDates(q) \/ FindDate(q) \/ WriteDate(q)
  BY <1>9 DEF WriteProvider, ClearDates, FindDate, WriteDate, tables
<1>10. CASE ReadSchedule(q) \/ ReadDates(q) \/ AnswerAvailability(q) \/ Book(q)
  BY <1>10 DEF ReadSchedule, ReadDates, AnswerAvailability, Book, tables, providerTables
<1>11. QED
  BY <1>3, <1>4, <1>5, <1>6, <1>7, <1>8, <1>9, <1>10 DEF Step

\* However many calls clear and write the schedule of a provider at once, each entry
\* that is found in it was there at first or sent by a call that was answered OK: a
\* call that is refused, for an entry another has put back since it cleared the
\* week, leaves none of its own behind.
THEOREM EntriesAccepted == Spec => []EntriesWereAccepted
<1>0. EntriesWereAccepted <=>
        \A p \in Providers : \A d \in Weekdays :
          week[p][d] # NoEntry =>
            \/ week[p][d] = InitialWeek[d]
            \/ \E r \in Requests : Sent(call[r], answer[r], p, d, week[p][d])
  BY DEF EntriesWereAccepted, Sent
<1>1. Init => EntriesWereAccepted
  BY DEF Init, EntriesWereAccepted, NoWeek
<1>2. TypeOK /\ EntriesWereAccepted /\ [Next]_vars => EntriesWereAccepted'
  <2> SUFFICES ASSUME TypeOK, EntriesWereAccepted, [Next]_vars,
                      NEW p \in Providers, NEW d \in Weekdays, week'[p][d] # NoEntry
               PROVE  \/ week'[p][d] = InitialWeek[d]
                      \/ \E r \in Requests : Sent(call'[r], answer'[r], p, d, week'[p][d])
    BY DEF EntriesWereAccepted, Sent
  <2>1. CASE Next
    <3>1. PICK q \in Requests : (\E c \in Calls : Start(q, c)) \/ Step(q)
      BY <2>1 DEF Next
    <3>2. CASE Sent(call'[q], answer'[q], p, d, week'[p][d])
      BY <3>2
    <3>3. CASE week'[p][d] = week[p][d]
      <4>1. CASE week[p][d] = InitialWeek[d]
        BY <3>3, <4>1
      <4>2. ASSUME NEW r \in Requests, Sent(call[r], answer[r], p, d, week[p][d])
            PROVE  Sent(call'[r], answer'[r], p, d, week'[p][d])
        <5>1. r # q
          BY <3>1, <4>2, OthersWait DEF Sent
        <5>2. call'[r] = call[r] /\ answer'[r] = answer[r]
          BY <3>1, <5>1, OthersWait
        <5>3. QED
          BY <3>3, <4>2, <5>2 DEF Sent
      <4>3. QED
        BY <1>0, <3>3, <4>1, <4>2
    <3>4. QED
      BY <3>1, <3>2, <3>3, EntriesAppear
  <2>2. CASE UNCHANGED vars
    BY <1>0, <2>2 DEF vars, tables, providerTables, Sent
  <2>3. QED
    BY <2>1, <2>2
<1>3. QED
  BY <1>1, <1>2, TypeCorrect, PTL DEF Spec

-----------------------------------------------------------------------------
(* The arithmetic of Calendar.  Its loops are recursive functions: a set of   *)
(* the same shape is shown to satisfy their equation, and by a least           *)
(* counterexample nothing else does.                                           *)

\* The process runs in UTC or east of it, and its clock does not change.
SteadyClock == Before = After /\ Before >= 0

\* A set of natural numbers that is not empty has a least member.
LEMMA LeastNat ==
  ASSUME NEW T \in SUBSET Nat, T # {}
  PROVE  \E x \in T : \A y \in T : x <= y
<1>1. PICK x \in T : \A y \in T : ~ (<<y, x>> \in OpToRel(<, Nat))
  BY NatLessThanWellFounded, WFMin
<1>2. \A y \in T : ~ (y < x)
  BY <1>1 DEF OpToRel
<1>3. QED
  BY <1>2

\* The loop over dates lists the range, both ends included.
LEMMA DatesOfRange ==
  ASSUME SteadyClock, NEW from \in Int, NEW to \in Int, from <= to
  PROVE  generateDateRange(from, to) = from .. to
<1> DEFINE S == Instant(from) - 24 .. Instant(to) + 48
           T == Instant(to)
           Loop(f) == f = [i \in S |-> IF i > T THEN {} ELSE {UtcDate(i)} \cup f[NextDay(i)]]
           dates == CHOOSE f : Loop(f)
           left == [i \in S |-> {d \in Int : 24 * d + (i % 24) >= i /\ 24 * d + (i % 24) <= T}]
<1>1. generateDateRange(from, to) = dates[Instant(from)]
  BY DEF generateDateRange
<1>2. S \subseteq Int /\ T \in Int /\ \A i \in S : i <= T => i + 24 \in S
  BY DEF Instant
<1>3. \A i \in Int : NextDay(i) = i + 24
  BY ZoneAssumption DEF NextDay, SteadyClock, Offset
<1>4. Loop(left)
  <2>1. ASSUME NEW i \in S, i > T PROVE left[i] = {}
    BY <1>2, <2>1
  <2>2. ASSUME NEW i \in S, ~(i > T) PROVE left[i] = {UtcDate(i)} \cup left[NextDay(i)]
    <3>1. i + 24 \in S /\ (i + 24) % 24 = i % 24
      BY <1>2, <2>2
    <3>2. left[NextDay(i)] = {d \in Int : 24 * d + (i % 24) >= i + 24 /\ 24 * d + (i % 24) <= T}
      BY <1>2, <1>3, <3>1
    <3>3. UtcDate(i) \in Int /\ 24 * UtcDate(i) + (i % 24) = i
      BY <1>2 DEF UtcDate
    <3>4. i \in Int /\ i % 24 \in 0 .. 23
      BY <1>2
    <3>5. ASSUME NEW d \in Int
          PROVE  (24 * d + (i % 24) >= i) <=> (d = UtcDate(i) \/ 24 * d + (i % 24) >= i + 24)
      <4> DEFINE c == i % 24  u == UtcDate(i)
      <4>1. c \in Int /\ u \in Int /\ i = 24 * u + c
        BY <3>3, <3>4
      <4> HIDE DEF c, u
      <4>2. (24 * d + c >= 24 * u + c) <=> (d = u \/ 24 * d + c >= 24 * u + c + 24)
        BY <4>1
      <4>3. QED
        BY <4>1, <4>2 DEF c, u
    <3>6. \A d \in Int : (24 * d + (i % 24) <= T /\ d = UtcDate(i)) <=> d = UtcDate(i)
      BY <1>2, <2>2, <3>3
    <3>7. left[i] = {d \in Int : 24 * d + (i % 24) >= i /\ 24 * d + (i % 24) <= T}
      OBVIOUS
    <3> HIDE DEF left
    <3>8. QED
      BY <3>2, <3>3, <3>5, <3>6, <3>7
  <2>3. QED
    BY <2>1, <2>2
<1>5. Loop(dates)
  BY <1>4
<1> HIDE DEF dates, left
<1>6. \A i \in S : dates[i] = left[i]
  <2> SUFFICES ASSUME NEW i \in S, dates[i] # left[i] PROVE FALSE
    OBVIOUS
  <2> DEFINE Bad == {n \in Nat : \E j \in S : n = T + 48 - j /\ dates[j] # left[j]}
  <2>1. T + 48 - i \in Bad
    BY <1>2
  <2>2. PICK n \in Bad : \A m \in Bad : n <= m
    BY <2>1, LeastNat
  <2>3. PICK j \in S : n = T + 48 - j /\ dates[j] # left[j]
    OBVIOUS
  <2>4. dates[j] = IF j > T THEN {} ELSE {UtcDate(j)} \cup dates[NextDay(j)]
    BY <1>5
  <2>5. left[j] = IF j > T THEN {} ELSE {UtcDate(j)} \cup left[NextDay(j)]
    BY <1>4
  <2>6. ~(j > T) /\ dates[j + 24] # left[j + 24]
    BY <1>2, <1>3, <2>3, <2>4, <2>5
  <2>7. n - 24 \in Bad
    BY <1>2, <2>3, <2>6
  <2>8. QED
    BY <1>2, <2>2, <2>3, <2>7
<1>7. left[Instant(from)] = from .. to
  <2>1. Instant(from) \in S /\ Instant(from) % 24 = 0
    BY DEF Instant
  <2>2. left[Instant(from)] = {d \in Int : 24 * d + 0 >= Instant(from) /\ 24 * d + 0 <= T}
    BY <2>1 DEF left
  <2>3. QED
    BY <2>2 DEF Instant
<1>8. QED
  BY <1>1, <1>6, <1>7 DEF Instant

\* A quotient is unique, and so is a remainder.
LEMMA OneRemainder ==
  ASSUME NEW m \in Nat \ {0}, NEW q \in Int, NEW p \in Int, NEW r \in Int, NEW s \in Int,
         0 <= r, r < m, 0 <= s, s < m, m * q + r = m * p + s
  PROVE  r = s
<1>1. m * (q - p) = s - r
  OBVIOUS
<1>2. q - p >= 1 => m * (q - p) >= m
  OBVIOUS
<1>3. p - q >= 1 => m * (p - q) >= m
  OBVIOUS
<1>4. m * (p - q) = r - s
  OBVIOUS
<1>5. QED
  BY <1>1, <1>2, <1>3, <1>4

\* Taking the divisor away leaves the remainder.
LEMMA ModStep ==
  ASSUME NEW x \in Int, NEW m \in Nat \ {0}
  PROVE  (x - m) % m = x % m
<1>1. \A y \in Int : /\ y \div m \in Int /\ y % m \in Int
                     /\ y = m * (y \div m) + (y % m) /\ 0 <= y % m /\ y % m < m
  OBVIOUS
<1> DEFINE q == x \div m  r == x % m  p == (x - m) \div m  s == (x - m) % m
<1>2. q \in Int /\ r \in Int /\ 0 <= r /\ r < m /\ x = m * q + r
  BY <1>1
<1>3. p \in Int /\ s \in Int /\ 0 <= s /\ s < m /\ x - m = m * p + s
  BY <1>1
<1> HIDE DEF q, r, p, s
<1>4. m * (p + 1) + s = m * q + r
  BY <1>2, <1>3
<1>5. p + 1 \in Int
  BY <1>3
<1>6. r = s
  BY <1>2, <1>3, <1>4, <1>5, OneRemainder
<1>7. QED
  BY <1>6 DEF r, s

\* The loop over a working day lists the beginnings of the slots that fit in it.
LEMMA SlotsOfDay ==
  ASSUME NEW start \in Nat, NEW end \in Nat, NEW minutes \in Nat \ {0},
         end - start >= minutes
  PROVE  generateTimeSlots(start, end, minutes) =
           {u \in Nat : u >= start /\ u + minutes <= end /\ (u - start) % minutes = 0}
<1> DEFINE S == start .. end + minutes
           Loop(f) == f = [t \in S |-> IF t + minutes <= end THEN {t} \cup f[t + minutes] ELSE {}]
           slots == CHOOSE f : Loop(f)
           left == [t \in S |-> {u \in Nat : u >= t /\ u + minutes <= end /\ (u - t) % minutes = 0}]
<1>1. generateTimeSlots(start, end, minutes) = slots[start]
  BY DEF generateTimeSlots
<1>2. S \subseteq Nat /\ start \in S /\ \A t \in S : t + minutes <= end => t + minutes \in S
  OBVIOUS
<1>3. Loop(left)
  <2>1. ASSUME NEW t \in S, ~(t + minutes <= end) PROVE left[t] = {}
    BY <1>2, <2>1
  <2>2. ASSUME NEW t \in S, t + minutes <= end PROVE left[t] = {t} \cup left[t + minutes]
    <3>1. ASSUME NEW u \in Nat
          PROVE  (u >= t /\ (u - t) % minutes = 0)
                   <=> (u = t \/ (u >= t + minutes /\ (u - (t + minutes)) % minutes = 0))
      <4>1. (u - (t + minutes)) % minutes = (u - t) % minutes
        <5>1. u - t \in Int /\ u - (t + minutes) = (u - t) - minutes
          BY <1>2
        <5>2. QED
          BY <5>1, ModStep
      <4>2. u > t /\ u < t + minutes => (u - t) % minutes = u - t
        <5>1. \A x \in Nat : x < minutes => x % minutes = x
          OBVIOUS
        <5>2. QED
          BY <1>2, <5>1
      <4>3. 0 % minutes = 0
        OBVIOUS
      <4>4. QED
        BY <1>2, <4>1, <4>2, <4>3
    <3>2. left[t] = {u \in Nat : u >= t /\ u + minutes <= end /\ (u - t) % minutes = 0}
      OBVIOUS
    <3>3. left[t + minutes] = {u \in Nat : /\ u >= t + minutes /\ u + minutes <= end
                                           /\ (u - (t + minutes)) % minutes = 0}
      BY <1>2, <2>2
    <3>4. t \in Nat
      BY <1>2
    <3> HIDE DEF left
    <3>5. QED
      BY <2>2, <3>1, <3>2, <3>3, <3>4
  <2>3. QED
    BY <2>1, <2>2
<1>4. Loop(slots)
  BY <1>3
<1> HIDE DEF slots, left
<1>5. \A t \in S : slots[t] = left[t]
  <2> SUFFICES ASSUME NEW t \in S, slots[t] # left[t] PROVE FALSE
    OBVIOUS
  <2> DEFINE Bad == {n \in Nat : \E x \in S : n = end + minutes - x /\ slots[x] # left[x]}
  <2>1. end + minutes - t \in Bad
    BY <1>2
  <2>2. PICK n \in Bad : \A m \in Bad : n <= m
    BY <2>1, LeastNat
  <2>3. PICK x \in S : n = end + minutes - x /\ slots[x] # left[x]
    OBVIOUS
  <2>4. slots[x] = IF x + minutes <= end THEN {x} \cup slots[x + minutes] ELSE {}
    BY <1>4
  <2>5. left[x] = IF x + minutes <= end THEN {x} \cup left[x + minutes] ELSE {}
    BY <1>3
  <2>6. x + minutes <= end /\ slots[x + minutes] # left[x + minutes]
    BY <2>3, <2>4, <2>5
  <2>7. n - minutes \in Bad
    BY <1>2, <2>3, <2>6
  <2>8. QED
    BY <1>2, <2>2, <2>3, <2>7
<1>6. QED
  BY <1>1, <1>2, <1>5 DEF left

\* The weekday of a date is that of its UTC midnight.
LEMMA DayOfWeek ==
  ASSUME SteadyClock, NEW d \in Int
  PROVE  getDayOfWeek(d) = d % 7
<1>1. PICK z \in 0 .. 14 : \A i : Offset(i) = z
  BY ZoneAssumption DEF SteadyClock, Offset
<1>2. (24 * d + z) \div 24 = d
  BY <1>1
<1>3. QED
  BY <1>1, <1>2 DEF getDayOfWeek, Instant

\* What is on offer from a week, dates that are blocked and slots that are booked.
LEMMA SlotsOffered ==
  ASSUME SteadyClock, NEW w \in Week, NEW out, NEW taken, NEW s \in Slots
  PROVE  s \in generateAvailableSlots(w, out, taken, First, Last)
           <=> s \in Working(w) /\ s[1] \notin out /\ s \notin taken
<1> DEFINE d == s[1]  u == s[2]  e == w[d % 7]
<1>1. d \in Dates /\ u \in Nat /\ s = <<d, u>> /\ d \in Int /\ d % 7 \in Weekdays
  <2>1. d \in Dates /\ u \in Times /\ s = <<d, u>>
    BY DEF Slots
  <2>2. d \in Int /\ u \in Nat
    BY <2>1, DatesAssumption, TimesAssumption
  <2> HIDE DEF d, u
  <2>3. d % 7 \in 0 .. 6
    BY <2>2
  <2>4. QED
    BY <2>1, <2>2, <2>3 DEF Weekdays
<1>2. generateDateRange(First, Last) = Dates
  BY DatesOfRange, DatesAssumption
<1>3. \A x \in Dates : EntryFor(w, x) = w[x % 7]
  BY DayOfWeek, DatesAssumption DEF EntryFor
<1>4. ASSUME e # NoEntry
      PROVE  /\ e \in [start : Nat, end : Nat, minutes : Nat] /\ e.minutes > 0
             /\ e.end - e.start >= e.minutes
  <2>1. PICK x \in Weeks \cup {InitialWeek}, y \in Weekdays : e = x[y]
    BY <1>1, <1>4 DEF Week
  <2>2. QED
    BY <1>4, <2>1, WeeksAssumption DEF ValidEntry
<1>5. s \in Working(w) <=>
        /\ e # NoEntry
        /\ u >= e.start /\ u + e.minutes <= e.end /\ (u - e.start) % e.minutes = 0
  BY DEF Working
<1>6. s \in generateAvailableSlots(w, out, taken, First, Last)
        <=> d \notin out /\ e # NoEntry /\ u \in OpenSlots(w, taken, d)
  <2>1. generateAvailableSlots(w, out, taken, First, Last) =
          UNION {{<<x, t>> : t \in OpenSlots(w, taken, x)} :
                   x \in {y \in Dates \ out : EntryFor(w, y) # NoEntry}}
    BY <1>2 DEF generateAvailableSlots
  <2>2. EntryFor(w, d) = e
    BY <1>1, <1>3
  <2> HIDE DEF d, u, e
  <2>3. QED
    BY <1>1, <2>1, <2>2
<1>7. u \in OpenSlots(w, taken, d)
        <=> u \in generateTimeSlots(e.start, e.end, e.minutes) /\ s \notin taken
  BY <1>1, <1>3 DEF OpenSlots
<1>8. ASSUME e # NoEntry
      PROVE  u \in generateTimeSlots(e.start, e.end, e.minutes)
               <=> u >= e.start /\ u + e.minutes <= e.end /\ (u - e.start) % e.minutes = 0
  <2> HIDE DEF u, e
  <2>1. e.start \in Nat /\ e.end \in Nat /\ e.minutes \in Nat \ {0}
    BY <1>4, <1>8
  <2>2. QED
    BY <1>1, <1>4, <1>8, <2>1, SlotsOfDay
<1>9. QED
  BY <1>5, <1>6, <1>7, <1>8

-----------------------------------------------------------------------------
(* Availability *)

Asks(c) == c # NoCall /\ c.kind = "availability"

\* What the history w of a question says of its provider holds in a scene s of it.
Seen(w, s) ==
  /\ w.open \subseteq s.open /\ w.booked \subseteq s.booked
  /\ w.blocked \subseteq s.blocked /\ w.off \subseteq s.off

\* What a question that comes to statement p has found, f, beside its history.
Read(p, f, w) ==
  /\ p = "schedule" => f = w.provider
  /\ p \in {"dates", "bookings"} => /\ f.provider = w.provider
                                    /\ w.open \subseteq Working(f.week)
                                    /\ w.off \cap Working(f.week) = {}
  /\ p = "bookings" => /\ \A s \in w.open : s[1] \notin f.dates
                       /\ \A s \in w.blocked : s[1] \in f.dates

\* The answer o against the history w.
Current(o, w) ==
  w.open \subseteq o /\ o \cap (w.booked \cup w.blocked \cup w.off) = {}

\* Of a request, by its call, statement, what it found, its answer and its history.
Watched(c, p, f, a, w) ==
  Asks(c) => /\ p \in Asking => w.provider \in Providers /\ Read(p, f, w)
             /\ a = "OK" => Current(f, w)

\* The history of every question under way holds now, and agrees with what it read.
WatchInv == \A r \in Requests :
  /\ Watched(call[r], pc[r], found[r], answer[r], witness[r])
  /\ \A p \in Providers :
       Asks(call[r]) /\ pc[r] \in Asking /\ witness[r].provider = p => Seen(witness[r], Scene(p))

\* A history that goes on is that of the same provider and never grows.
LEMMA StillLess ==
  ASSUME NEW w, NEW s
  PROVE  /\ Still(w, s).provider = w.provider
         /\ Still(w, s).open \subseteq w.open \cap s.open
         /\ Still(w, s).booked \subseteq w.booked \cap s.booked
         /\ Still(w, s).blocked \subseteq w.blocked \cap s.blocked
         /\ Still(w, s).off \subseteq w.off \cap s.off
  BY DEF Still

LEMMA ReadLess ==
  ASSUME NEW p, NEW f, NEW w, NEW s, Read(p, f, w)
  PROVE  Read(p, f, Still(w, s))
  BY StillLess DEF Read

LEMMA SeenStill ==
  ASSUME NEW w, NEW s
  PROVE  Seen(Still(w, s), s)
  BY StillLess DEF Seen

LEMMA SceneNext ==
  ASSUME NEW p \in Providers
  PROVE  Scenes'[p] = Scene(p)'
  BY DEF Scenes

\* A slot that is open now is one of the week's, neither blocked nor booked.
LEMMA OpenNowIs ==
  ASSUME NEW p
  PROVE  /\ Scene(p).provider = p /\ Scene(p).open = OpenNow(p) /\ Scene(p).booked = Booked(p)
         /\ Scene(p).blocked = {s \in Slots : <<p, s[1]>> \in blocked}
         /\ Scene(p).off = Slots \ Working(week[p])
         /\ OpenNow(p) \subseteq Working(week[p]) \ Booked(p)
         /\ \A s \in OpenNow(p) : s \in Slots /\ <<p, s[1]>> \notin blocked
         /\ ~Available(p) => OpenNow(p) = {}
  BY DEF Scene, OpenNow, Working

LEMMA BookedSlots ==
  ASSUME TablesOK, NEW p
  PROVE  Booked(p) \subseteq Slots
  BY DEF TablesOK, BookingRow, Booked, Slots

\* A question is at one of its reads, or answered.
LEMMA QuestionAt ==
  ASSUME RequestsOK, NEW r \in Requests, Asks(call[r])
  PROVE  pc[r] \in Asking \cup {"done"}
<1>1. pc[r] \in Statements /\ Fits(pc[r], call[r], found[r], answer[r])
  BY OwnCall
<1>2. QED
  BY <1>1 DEF Asks, Fits, Statements, Several, Asking

\* The step of a question that has begun is one of its three reads.
LEMMA QuestionSteps ==
  ASSUME RequestsOK, NEW r \in Requests, Asks(call[r]), Step(r)
  PROVE  ReadSchedule(r) \/ ReadDates(r) \/ AnswerAvailability(r)
<1>1. pc[r] \in Asking \cup {"done"} /\ call[r].kind = "availability"
  BY QuestionAt DEF Asks
<1>2. pc[r] \notin {"look", "write", "clear", "clearDates", "find"}
  BY <1>1 DEF Asking
<1>3. QED
  BY <1>1, <1>2 DEF Step, Look, WriteCategory, ToggleCategory, DeleteCategory, ClearFields,
     WriteService, DeleteService, AssignService, WriteProvider, ClearSchedule, WriteSchedule,
     ClearDates, DeleteProvider, FindDate, WriteDate, Book

\* How the history of a question goes on.
LEMMA HistoryGoesOn ==
  ASSUME RequestsOK, Watch, NEW r \in Requests, Asks(call'[r]), answer'[r] # "NOT_FOUND"
  PROVE  /\ pc[r] = "done" => witness'[r] = witness[r]
         /\ pc[r] = "idle" => witness'[r] = Scenes'[service[call'[r].id].provider]
         /\ pc[r] \notin {"done", "idle"} =>
              witness'[r] = Still(witness[r], Scenes'[witness[r].provider])
  BY DEF Watch, Asks

\* What is proved of request r in the next state.
Settled(r) ==
  /\ Watched(call[r], pc[r], found[r], answer[r], witness[r])'
  /\ \A p \in Providers :
       Asks(call'[r]) /\ pc'[r] \in Asking /\ witness'[r].provider = p =>
         Seen(witness'[r], Scene(p)')

LEMMA QuestionBegins ==
  ASSUME TypeOK, TypeOK', Watch, NEW r \in Requests, NEW c \in Calls, Start(r, c)
  PROVE  Settled(r)
<1>1. pc[r] = "idle" /\ call'[r] = c /\ c \in Calls /\ Check(r, c, Lookups(c))
  BY DEF Start, TypeOK, RequestsOK
<1>2. CASE ~Asks(c)
  BY <1>1, <1>2 DEF Settled, Watched
<1>3. CASE Asks(c)
  <2>1. Lookups(c) = <<c.id>> /\ ~Refused(c) /\ c.id \in Services
    BY <1>3, CallFields DEF Asks, Lookups, Refused
  <2>2. <<c.id>> # <<>> /\ Head(<<c.id>>) = c.id /\ ~(Len(<<c.id>>) > 1)
    OBVIOUS
  <2>3. UNCHANGED tables
    BY <1>1 DEF Check
  <2>4. CASE ~Exists(c.id)
    <3>1. Finish(r, "NOT_FOUND")
      BY <1>1, <2>1, <2>2, <2>4 DEF Check
    <3>2. pc'[r] = "done" /\ answer'[r] = "NOT_FOUND"
      BY <3>1 DEF Finish, Offer, TypeOK, RequestsOK
    <3>3. QED
      BY <3>2 DEF Settled, Watched, Asking
  <2>5. CASE Exists(c.id)
    <3>1. PICK p \in Providers : p = service[c.id].provider
      BY <2>1, <2>5, ExistsWhere, RowsOf DEF TypeOK
    <3>2. CASE ~Available(p)
      <4>1. Offer(r, "OK", {})
        BY <1>1, <1>3, <2>1, <2>2, <2>5, <3>1, <3>2 DEF Check, Asks
      <4>2. pc'[r] = "done" /\ answer'[r] = "OK" /\ found'[r] = {}
        BY <4>1 DEF Offer, TypeOK, RequestsOK
      <4>3. witness'[r] = Scene(p)'
        BY <1>1, <1>3, <3>1, <4>2, HistoryGoesOn, SceneNext DEF TypeOK
      <4>4. Scene(p)'.open = {}
        <5>1. OpenNow(p)' = {}
          BY <2>3, <3>2 DEF OpenNow, Available, tables
        <5>2. QED
          BY <5>1 DEF Scene
      <4>5. Current({}, Scene(p)')
        BY <4>4 DEF Current
      <4>6. QED
        BY <4>2, <4>3, <4>5 DEF Settled, Watched, Asking
    <3>3. CASE Available(p)
      <4>1. Proceed(r, "schedule", p)
        <5>1. Proceed(r, FirstWrite(c), Remembered(c))
          BY <1>1, <1>3, <2>1, <2>2, <2>5, <3>1, <3>3 DEF Check, Asks
        <5>2. FirstWrite(c) = "schedule" /\ Remembered(c) = p
          BY <1>3, <3>1 DEF Asks, FirstWrite, Remembered
        <5>3. QED
          BY <5>1, <5>2
      <4>2. pc'[r] = "schedule" /\ answer'[r] = "none" /\ found'[r] = p
        BY <1>1, <4>1, OwnCall DEF Proceed, TypeOK, RequestsOK
      <4>3. witness'[r] = Scene(p)'
        BY <1>1, <1>3, <3>1, <4>2, HistoryGoesOn, SceneNext DEF TypeOK
      <4>4. Scene(p)'.provider = p
        BY DEF Scene
      <4>5. Read("schedule", p, Scene(p)') /\ Seen(Scene(p)', Scene(p)')
        BY <4>4 DEF Read, Seen
      <4>6. QED
        BY <4>2, <4>3, <4>4, <4>5 DEF Settled, Watched
    <3>4. QED
      BY <3>2, <3>3
  <2>6. QED
    BY <2>4, <2>5
<1>4. QED
  BY <1>2, <1>3

\* A question that is under way: its history narrows to what holds in this state.
LEMMA HistoryNarrows ==
  ASSUME TypeOK, TypeOK', WatchInv, Watch, NEW r \in Requests, Asks(call[r]), call'[r] = call[r],
         answer'[r] # "NOT_FOUND", pc[r] \in Asking
  PROVE  \E p \in Providers :
           /\ witness[r].provider = p
           /\ witness'[r] = Still(witness[r], Scene(p)')
           /\ witness'[r].provider = p
           /\ Seen(witness'[r], Scene(p)')
           /\ Read(pc[r], found[r], witness[r])
<1>1. witness[r].provider \in Providers /\ Read(pc[r], found[r], witness[r])
  BY DEF WatchInv, Watched
<1>2. PICK p \in Providers : p = witness[r].provider
  BY <1>1
<1>3. witness'[r] = Still(witness[r], Scene(p)')
  BY <1>2, HistoryGoesOn, SceneNext DEF TypeOK, Asking
<1>4. witness'[r].provider = p /\ Seen(witness'[r], Scene(p)')
  BY <1>2, <1>3, StillLess, SeenStill
<1>5. QED
  BY <1>1, <1>2, <1>3, <1>4

LEMMA QuestionWaits ==
  ASSUME TypeOK, TypeOK', WatchInv, Watch, NEW r \in Requests, call'[r] = call[r],
         answer'[r] = answer[r], pc'[r] = pc[r], found'[r] = found[r]
  PROVE  Settled(r)
<1>1. CASE ~Asks(call[r])
  BY <1>1 DEF Settled, Watched
<1>2. CASE Asks(call[r])
  <2>1. pc[r] \in Asking \cup {"done"}
    BY <1>2, QuestionAt DEF TypeOK
  <2>2. CASE pc[r] = "done"
    <3>1. Watched(call[r], pc[r], found[r], answer[r], witness[r])
      BY DEF WatchInv
    <3>2. ASSUME answer'[r] = "OK" PROVE Current(found'[r], witness'[r])
      <4>1. witness'[r] = witness[r]
        BY <1>2, <2>2, <3>2, HistoryGoesOn DEF TypeOK
      <4>2. QED
        BY <1>2, <3>1, <3>2, <4>1 DEF Watched
    <3>3. pc'[r] \notin Asking
      BY <2>2 DEF Asking
    <3>4. QED
      BY <3>2, <3>3 DEF Settled, Watched
  <2>3. CASE pc[r] \in Asking
    <3>1. answer'[r] = "none"
      BY <2>3, OwnCall DEF TypeOK, Asking
    <3>2. PICK p \in Providers : /\ witness[r].provider = p
                                 /\ witness'[r] = Still(witness[r], Scene(p)')
                                 /\ witness'[r].provider = p
                                 /\ Seen(witness'[r], Scene(p)')
                                 /\ Read(pc[r], found[r], witness[r])
      BY <1>2, <2>3, <3>1, HistoryNarrows
    <3>3. Read(pc'[r], found'[r], witness'[r])
      BY <3>2, ReadLess
    <3>4. QED
      BY <3>1, <3>2, <3>3 DEF Settled, Watched
  <2>4. QED
    BY <2>1, <2>2, <2>3
<1>3. QED
  BY <1>1, <1>2

LEMMA QuestionReads ==
  ASSUME SteadyClock, TypeOK, TypeOK', WatchInv, Watch, NEW r \in Requests, Asks(call[r]), Step(r)
  PROVE  Settled(r)
<1>1. ReadSchedule(r) \/ ReadDates(r) \/ AnswerAvailability(r)
  BY QuestionSteps DEF TypeOK
<1>2. UNCHANGED <<tables, call>> /\ pc[r] \in Asking
  BY <1>1 DEF ReadSchedule, ReadDates, AnswerAvailability, Asking
<1>3. answer[r] = "none"
  BY <1>2, OwnCall DEF TypeOK, Asking
<1>4. answer'[r] # "NOT_FOUND"
  BY <1>1, <1>3 DEF ReadSchedule, ReadDates, AnswerAvailability, Proceed, Offer, TypeOK, RequestsOK
<1>5. PICK p \in Providers : /\ witness[r].provider = p
                             /\ witness'[r] = Still(witness[r], Scene(p)')
                             /\ witness'[r].provider = p
                             /\ Seen(witness'[r], Scene(p)')
                             /\ Read(pc[r], found[r], witness[r])
  BY <1>2, <1>4, HistoryNarrows
<1> DEFINE w == witness'[r]
<1>6. Scene(p)' = Scene(p)
  BY <1>2 DEF Scene, OpenNow, Booked, Available, tables, provs, providerTables
<1>7. /\ w.open \subseteq witness[r].open /\ w.booked \subseteq witness[r].booked
      /\ w.blocked \subseteq witness[r].blocked /\ w.off \subseteq witness[r].off
  BY <1>5, StillLess
<1>8. /\ w.open \subseteq OpenNow(p) /\ w.booked \subseteq Booked(p)
      /\ \A s \in w.blocked : s \in Slots /\ <<p, s[1]>> \in blocked
      /\ w.off \subseteq Slots \ Working(week[p])
  BY <1>5, <1>6, OpenNowIs DEF Seen
<1> HIDE DEF w
<1>9. ASSUME pc'[r] \in Asking, answer'[r] = "none", Read(pc'[r], found'[r], w)
      PROVE  Settled(r)
  BY <1>5, <1>9 DEF Settled, Watched, w
<1>10. CASE ReadSchedule(r)
  <2> DEFINE f == [provider |-> found[r], week |-> week[found[r]]]
  <2>1. pc[r] = "schedule" /\ Proceed(r, "dates", f)
    BY <1>10 DEF ReadSchedule
  <2>2. pc'[r] = "dates" /\ found'[r] = f /\ answer'[r] = "none"
    BY <1>3, <2>1 DEF Proceed, TypeOK, RequestsOK
  <2>3. f.provider = p /\ f.week = week[p]
    BY <1>5, <2>1 DEF Read
  <2> HIDE DEF f
  <2>4. w.open \subseteq Working(f.week) /\ w.off \cap Working(f.week) = {}
    BY <1>8, <2>3, OpenNowIs
  <2>5. w.provider = p
    BY <1>5 DEF w
  <2>6. Read("dates", f, w)
    BY <2>3, <2>4, <2>5 DEF Read
  <2>7. QED
    BY <1>9, <2>2, <2>6 DEF Asking
<1>11. CASE ReadDates(r)
  <2> DEFINE f == [provider |-> found[r].provider, week |-> found[r].week,
                   dates |-> {d \in Dates : <<found[r].provider, d>> \in blocked}]
  <2>1. pc[r] = "dates" /\ Proceed(r, "bookings", f)
    BY <1>11 DEF ReadDates
  <2>2. pc'[r] = "bookings" /\ found'[r] = f /\ answer'[r] = "none"
    BY <1>3, <2>1 DEF Proceed, TypeOK, RequestsOK
  <2>3. /\ found[r].provider = p /\ witness[r].open \subseteq Working(found[r].week)
        /\ witness[r].off \cap Working(found[r].week) = {}
    BY <1>5, <2>1 DEF Read
  <2>4. f.provider = p /\ f.week = found[r].week /\ f.dates = {d \in Dates : <<p, d>> \in blocked}
    BY <2>3
  <2> HIDE DEF f
  <2>5. w.open \subseteq Working(f.week) /\ w.off \cap Working(f.week) = {}
    BY <1>7, <2>3, <2>4
  <2>6. \A s \in w.open : s[1] \notin f.dates
    BY <1>8, <2>4, OpenNowIs
  <2>7. \A s \in w.blocked : s[1] \in f.dates
    <3>1. \A s \in Slots : s[1] \in Dates
      BY DEF Slots
    <3>2. QED
      BY <1>8, <2>4, <3>1
  <2>8. w.provider = p
    BY <1>5 DEF w
  <2>9. Read("bookings", f, w)
    BY <2>4, <2>5, <2>6, <2>7, <2>8 DEF Read
  <2>10. QED
    BY <1>9, <2>2, <2>9 DEF Asking
<1>12. CASE AnswerAvailability(r)
  <2> DEFINE f == found[r]
             o == generateAvailableSlots(f.week, f.dates, Booked(f.provider), First, Last)
  <2>1. pc[r] = "bookings" /\ Offer(r, "OK", o)
    BY <1>12 DEF AnswerAvailability
  <2>2. pc'[r] = "done" /\ found'[r] = o
    BY <2>1 DEF Offer, TypeOK, RequestsOK
  <2>3. /\ f.provider = p /\ witness[r].open \subseteq Working(f.week)
        /\ witness[r].off \cap Working(f.week) = {}
        /\ \A s \in witness[r].open : s[1] \notin f.dates
        /\ \A s \in witness[r].blocked : s[1] \in f.dates
    BY <1>5, <2>1 DEF Read
  <2>4. f.week \in Week
    BY <2>1, OwnCall DEF TypeOK, Fits
  <2>5. \A s \in Slots : s \in o <=> s \in Working(f.week) /\ s[1] \notin f.dates /\ s \notin Booked(p)
    BY <2>3, <2>4, SlotsOffered
  <2> HIDE DEF o, f
  <2>6. w.open \subseteq o
    BY <1>7, <1>8, <2>3, <2>5, OpenNowIs
  <2>7. o \cap w.booked = {}
    BY <1>8, <2>5, BookedSlots DEF TypeOK
  <2>8. o \cap w.blocked = {}
    BY <1>7, <1>8, <2>3, <2>5
  <2>9. o \cap w.off = {}
    BY <1>7, <1>8, <2>3, <2>5
  <2>10. Current(found'[r], w)
    BY <2>2, <2>6, <2>7, <2>8, <2>9 DEF Current
  <2>11. QED
    BY <2>2, <2>10 DEF Settled, Watched, Asking, w
<1>13. QED
  BY <1>1, <1>10, <1>11, <1>12

\* The four reads of an availability answer are statements of their own, with the
\* writes of any number of admins and visitors in between, and the slots come out of
\* loops over dates and times.  Where the clock of the process keeps one offset, in UTC
\* or east of it, the answer leaves out no slot that was open all through the call and
\* has none that was booked, blocked or outside the week all through it.  Whether a slot
\* has gone by is no part of it: the code asks for no time, whatever BACKEND.md says.
THEOREM AnswersAreCurrent == SteadyClock => (Spec => []AvailabilityIsCurrent)
<1> SUFFICES ASSUME SteadyClock PROVE Spec => []AvailabilityIsCurrent
  OBVIOUS
<1>1. Init => WatchInv
  BY DEF Init, WatchInv, Watched, Asks
<1>2. TypeOK /\ TypeOK' /\ WatchInv /\ [Next]_vars => WatchInv'
  <2> SUFFICES ASSUME TypeOK, TypeOK', WatchInv, [Next]_vars PROVE WatchInv'
    OBVIOUS
  <2>1. (\A r \in Requests : Settled(r)) => WatchInv'
    BY DEF WatchInv, Settled
  <2>2. CASE Next
    <3>1. PICK q \in Requests : ((\E c \in Calls : Start(q, c)) \/ Step(q)) /\ Watch
      BY <2>2 DEF Next
    <3>2. ASSUME NEW r \in Requests \ {q} PROVE Settled(r)
      BY <3>1, OthersWait, QuestionWaits
    <3>3. Settled(q)
      <4>1. CASE \E c \in Calls : Start(q, c)
        BY <3>1, <4>1, QuestionBegins
      <4>2. CASE Step(q) /\ Asks(call[q])
        BY <3>1, <4>2, QuestionReads
      <4>3. CASE Step(q) /\ ~Asks(call[q])
        <5>1. call'[q] = call[q]
          BY <4>3 DEF Step, Look, WriteCategory, ToggleCategory, DeleteCategory, ClearFields,
             WriteService, DeleteService, AssignService, WriteProvider, ClearSchedule,
             WriteSchedule, ClearDates, DeleteProvider, FindDate, WriteDate, ReadSchedule,
             ReadDates, AnswerAvailability, Book
        <5>2. QED
          BY <4>3, <5>1 DEF Settled, Watched
      <4>4. QED
        BY <3>1, <4>1, <4>2, <4>3
    <3>4. QED
      BY <2>1, <3>2, <3>3
  <2>3. CASE UNCHANGED vars
    BY <2>3 DEF vars, tables, providerTables, categoryTables, WatchInv, Watched, Seen, Scene,
       OpenNow, Booked, Available, provs
  <2>4. QED
    BY <2>2, <2>3
<1>3. WatchInv => AvailabilityIsCurrent
  BY DEF WatchInv, Watched, Asks, Current, AvailabilityIsCurrent
<1>4. QED
  BY <1>1, <1>2, <1>3, TypeCorrect, PTL DEF Spec
=============================================================================
