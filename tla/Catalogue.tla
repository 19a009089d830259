----------------------------- MODULE Catalogue -----------------------------
(***************************************************************************)
(* What can be booked: the tree of service categories, the services and    *)
(* their form fields, the providers with their weekly schedules and        *)
(* blocked dates, and the two calls of a visitor that depend on them, the  *)
(* question which slots are open and the booking of one.                   *)
(*                                                                         *)
(* A request is one handler invocation.  Handlers here take no transaction *)
(* but that of a booking: every statement is a step of its own, and what   *)
(* one read may be gone when the next one runs.  The database enforces     *)
(* foreign keys and unique indexes, statement by statement.                *)
(***************************************************************************)
EXTENDS Calendar, Sequences, FiniteSets

CONSTANTS
  Requests,
  Categories, Services, Providers,   \* ids, of rows that exist or may be created
  Fields,                            \* keys of form fields
  FieldSets,                         \* the sets of form fields admins send
  Dates,                             \* an interval of dates asked about and booked
  Times,                             \* times of day a booking may name
  Weeks,                             \* bodies of PUT /admin/providers/:id/schedule
  InitialWeek,                       \* the schedule of the first provider
  Kinds,                             \* the kinds of call each request may make
  None, NoCall

Weekdays == 0 .. 6
Week == [Weekdays -> {w[d] : w \in Weeks \cup {InitialWeek}, d \in Weekdays} \cup {NoEntry}]
Ids == Categories \cup Services \cup Providers

AllKinds == {"createCategory", "updateCategory", "toggleCategory", "removeCategory",
             "createService", "updateService", "removeService",
             "createProvider", "updateProvider", "removeProvider", "setSchedule",
             "blockDate", "unblockDate", "toggleAccepting", "assignService",
             "availability", "book"}

ASSUME KindsAssumption == Kinds \in [Requests -> SUBSET AllKinds]
ASSUME WeeksAssumption ==
  \A w \in Weeks \cup {InitialWeek} :
    /\ w = [d \in Weekdays |-> w[d]]
    /\ \A d \in Weekdays :
         /\ w[d] \in [start : Nat, end : Nat, minutes : Nat]
         /\ w[d] = NoEntry \/ ValidEntry(w[d])
ASSUME FieldsAssumption == FieldSets \subseteq SUBSET Fields /\ None \notin FieldSets
ASSUME IdsAssumption ==
  /\ Categories # {} /\ Services # {} /\ Providers # {}
  /\ Categories \cap Services = {} /\ Categories \cap Providers = {}
  /\ Services \cap Providers = {}
  /\ None \notin Ids

VARIABLES
  parent,     \* service_categories: the parent of each category that exists
  shown,      \* the active flag of each category
  service,    \* services: category, provider and form fields of each
  provider,   \* providers: active and accepting_bookings of each
  week,       \* provider_schedules: one entry per weekday, or NoEntry
  blocked,    \* provider_unavailable_dates: pairs of provider and date
  bookings,   \* the bookings that hold a slot
  pc,         \* the statement each request executes next
  call,       \* what it was asked
  found,      \* what its reads returned, and in the end what it offers
  answer,     \* what its caller is told
  witness     \* history: what was open, and what shut, all through a question

categoryTables == <<parent, shown>>
providerTables == <<provider, week, blocked>>
tables == <<parent, shown, service, provider, week, blocked, bookings>>
vars == <<tables, pc, call, found, answer, witness>>

-----------------------------------------------------------------------------
(* Rows, calls and their types *)

ServiceRow == [category : Categories, provider : Providers, fields : SUBSET Fields]
ProviderRow == [active : BOOLEAN, accepting : BOOLEAN]
BookingRow == [service : Services, provider : Providers, date : Dates, time : Times]

cats == DOMAIN parent
servs == DOMAIN service
provs == DOMAIN provider
Exists(id) == id \in cats \cup servs \cup provs

\* The routes of the admin controllers, and of a visitor.  None is the parent of
\* a root, and whatever the update of a service does not mention.
Calls ==
  [kind : {"createCategory"}, id : Categories, parent : Categories \cup {None}]
  \cup [kind : {"updateCategory"}, id : Categories, parent : Categories \cup {None}]
  \cup [kind : {"toggleCategory", "removeCategory"}, id : Categories]
  \cup [kind : {"createService"}, id : Services, category : Categories,
        provider : Providers, fields : FieldSets]
  \cup [kind : {"updateService"}, id : Services, category : Categories \cup {None},
        provider : Providers \cup {None}, fields : FieldSets \cup {None}]
  \cup [kind : {"removeService"}, id : Services]
  \cup [kind : {"createProvider", "toggleAccepting", "removeProvider"}, id : Providers]
  \cup [kind : {"updateProvider"}, id : Providers, active : BOOLEAN]
  \cup [kind : {"setSchedule"}, id : Providers, week : Weeks]
  \cup [kind : {"blockDate", "unblockDate"}, id : Providers, date : Dates]
  \cup [kind : {"assignService"}, id : Providers, service : Services]
  \cup [kind : {"availability"}, id : Services]
  \cup [kind : {"book"}, id : Services, date : Dates, time : Times]

ASSUME CallsAssumption == NoCall \notin Calls

First == CHOOSE d \in Dates : \A e \in Dates : d <= e
Last == CHOOSE d \in Dates : \A e \in Dates : d >= e

ASSUME DatesAssumption ==
  First \in Int /\ Last \in Int /\ First <= Last /\ Dates = First .. Last
ASSUME TimesAssumption == Times \subseteq Nat

Slots == Dates \X Times
Answers == {"none", "OK", "NOT_FOUND", "REFUSED", "ERROR"}

Statements == {"idle", "look", "clear", "clearDates", "find", "write", "schedule",
               "dates", "bookings", "done"}
Several == {"updateCategory", "createService", "updateService", "assignService"}
Asking == {"schedule", "dates", "bookings"}

\* What the next statement p of a request says of its call c, of what its reads
\* found, and of its answer a.
Fits(p, c, f, a) ==
  /\ p = "done" <=> a # "none"
  /\ p = "idle" <=> c = NoCall
  /\ p = "look" => c.kind \in Several /\ f \in Seq(Ids) /\ f # <<>>
  /\ p = "clear" => \/ c.kind \in {"removeService", "setSchedule", "removeProvider"}
                    \/ c.kind = "updateService" /\ c.fields # None
  /\ p = "clearDates" => c.kind = "removeProvider"
  /\ p = "find" => c.kind \in {"blockDate", "unblockDate"}
  /\ p = "write" =>
       /\ c.kind # "availability"
       /\ c.kind \in {"toggleCategory", "toggleAccepting"} => f \in BOOLEAN
       /\ c.kind = "book" => f \in Providers
  /\ p \in Asking => c.kind = "availability"
  /\ p = "schedule" => f \in Providers
  /\ p = "dates" => f \in [provider : Providers, week : Week]
  /\ p = "bookings" => f \in [provider : Providers, week : Week, dates : SUBSET Dates]

TablesOK ==
  /\ cats \subseteq Categories /\ parent \in [cats -> Categories \cup {None}]
  /\ shown \in [cats -> BOOLEAN]
  /\ servs \subseteq Services /\ service \in [servs -> ServiceRow]
  /\ provs \subseteq Providers /\ provider \in [provs -> ProviderRow]
  /\ week \in [Providers -> Week]
  /\ blocked \subseteq Providers \X Dates
  /\ bookings \subseteq BookingRow

RequestsOK ==
  /\ pc \in [Requests -> Statements]
  /\ call \in [Requests -> Calls \cup {NoCall}]
  /\ answer \in [Requests -> Answers]
  /\ DOMAIN found = Requests
  /\ \A r \in Requests : Fits(pc[r], call[r], found[r], answer[r])

TypeOK == TablesOK /\ RequestsOK

-----------------------------------------------------------------------------
(* Requests: the lookups every handler starts with *)

NoWeek == [d \in Weekdays |-> NoEntry]

ServicesIn(c) == {s \in servs : service[s].category = c}
ServicesOf(p) == {s \in servs : service[s].provider = p}
Children(c) == {k \in cats : parent[k] = c}
Available(p) == provider[p].active /\ provider[p].accepting

\* Request r ends with answer a, offering o.
Offer(r, a, o) ==
  /\ pc' = [pc EXCEPT ![r] = "done"]
  /\ answer' = [answer EXCEPT ![r] = a]
  /\ found' = [found EXCEPT ![r] = o]
Finish(r, a) == Offer(r, a, None)

\* Request r goes on to statement next, knowing f.
Proceed(r, next, f) ==
  /\ pc' = [pc EXCEPT ![r] = next]
  /\ found' = [found EXCEPT ![r] = f]
  /\ UNCHANGED answer

Mentioned(id) == IF id = None THEN <<>> ELSE <<id>>

\* The rows a handler looks up before it writes, one findUnique each.
Lookups(c) ==
  CASE c.kind = "createCategory" -> Mentioned(c.parent)
    [] c.kind = "updateCategory" -> <<c.id>> \o Mentioned(c.parent)
    [] c.kind = "createService" -> <<c.category, c.provider>>
    [] c.kind = "updateService" ->
         <<c.id>> \o Mentioned(c.category) \o Mentioned(c.provider)
    [] c.kind = "assignService" -> <<c.id, c.service>>
    [] c.kind = "createProvider" -> <<>>
    [] OTHER -> <<c.id>>

\* What a lookup may find that ends the call: a category still in use, by the
\* counts read with it; a category made its own parent; a provider who takes
\* no bookings.
Refused(c) ==
  \/ c.kind = "removeCategory" /\ (Children(c.id) # {} \/ ServicesIn(c.id) # {})
  \/ c.kind = "updateCategory" /\ c.parent = c.id
  \/ c.kind = "book" /\ ~Available(service[c.id].provider)

\* What the last lookup tells a handler that uses it later.
Remembered(c) ==
  CASE c.kind = "toggleCategory" -> shown[c.id]
    [] c.kind = "toggleAccepting" -> provider[c.id].accepting
    [] c.kind \in {"availability", "book"} -> service[c.id].provider
    [] OTHER -> None

FirstWrite(c) ==
  CASE c.kind \in {"removeService", "setSchedule", "removeProvider"} -> "clear"
    [] c.kind = "updateService" -> IF c.fields # None THEN "clear" ELSE "write"
    [] c.kind \in {"blockDate", "unblockDate"} -> "find"
    [] c.kind = "availability" -> "schedule"
    [] OTHER -> "write"

\* The next lookup of call c by request r; todo are those left.
Check(r, c, todo) ==
  /\ IF todo = <<>> THEN Proceed(r, "write", None)
     ELSE IF ~Exists(Head(todo)) THEN Finish(r, "NOT_FOUND")
     ELSE IF Refused(c) THEN Finish(r, "REFUSED")
     ELSE IF Len(todo) > 1 THEN Proceed(r, "look", Tail(todo))
     ELSE IF c.kind = "availability" /\ ~Available(service[c.id].provider)
       THEN Offer(r, "OK", {})
     ELSE Proceed(r, FirstWrite(c), Remembered(c))
  /\ UNCHANGED tables

\* A new row has an id that nobody has named yet.
Fresh(id) ==
  /\ ~Exists(id)
  /\ \A q \in Requests : call[q] # NoCall => call[q].id # id

Start(r, c) ==
  /\ pc[r] = "idle"
  /\ c.kind \in Kinds[r]
  /\ c.kind \in {"createCategory", "createService", "createProvider"} => Fresh(c.id)
  /\ call' = [call EXCEPT ![r] = c]
  /\ Check(r, c, Lookups(c))

Look(r) ==
  /\ pc[r] = "look"
  /\ Check(r, call[r], found[r])
  /\ UNCHANGED call

-----------------------------------------------------------------------------
(* Categories: CategoriesService *)

\* create and update: the foreign key refuses a parent deleted meanwhile, and
\* an update finds no row to write once its category is gone.
WriteCategory(r) ==
  LET c == call[r] IN
  /\ pc[r] = "write" /\ c.kind \in {"createCategory", "updateCategory"}
  /\ IF c.parent \in cats \cup {None} /\ (c.kind = "updateCategory" => c.id \in cats)
       THEN /\ parent' = [k \in cats \cup {c.id} |->
                            IF k = c.id THEN c.parent ELSE parent[k]]
            /\ shown' = [k \in cats \cup {c.id} |-> IF k \in cats THEN shown[k] ELSE TRUE]
            /\ Finish(r, "OK")
       ELSE Finish(r, "ERROR") /\ UNCHANGED categoryTables
  /\ UNCHANGED <<service, providerTables, bookings, call>>

\* toggleActive writes the negation of the flag it read.
ToggleCategory(r) ==
  LET id == call[r].id IN
  /\ pc[r] = "write" /\ call[r].kind = "toggleCategory"
  /\ IF id \in cats
       THEN shown' = [shown EXCEPT ![id] = ~found[r]] /\ Finish(r, "OK")
       ELSE Finish(r, "ERROR") /\ UNCHANGED shown
  /\ UNCHANGED <<parent, service, providerTables, bookings, call>>

\* Mutant: only the counts read before protect a category in use.
DeleteCategoryUnrestricted(r) ==
  LET id == call[r].id IN
  /\ pc[r] = "write" /\ call[r].kind = "removeCategory"
  /\ parent' = [k \in cats \ {id} |-> IF parent[k] = id THEN None ELSE parent[k]]
  /\ shown' = [k \in cats \ {id} |-> shown[k]]
  /\ Finish(r, "OK")
  /\ UNCHANGED <<service, providerTables, bookings, call>>

\* remove: a service added since the counts were read still restricts it; a
\* category added since becomes a root (ON DELETE SET NULL).
DeleteCategory(r) ==
  LET id == call[r].id IN
  /\ pc[r] = "write" /\ call[r].kind = "removeCategory"
  /\ IF id \in cats /\ ServicesIn(id) = {}
       THEN /\ parent' = [k \in cats \ {id} |-> IF parent[k] = id THEN None ELSE parent[k]]
            /\ shown' = [k \in cats \ {id} |-> shown[k]]
            /\ Finish(r, "OK")
       ELSE Finish(r, "ERROR") /\ UNCHANGED categoryTables
  /\ UNCHANGED <<service, providerTables, bookings, call>>

-----------------------------------------------------------------------------
(* Services: ServicesService, and ProvidersService.assignService *)

\* deleteMany of the form fields, before the fields of an update are created
\* and before a service is deleted.
ClearFields(r) ==
  LET id == call[r].id IN
  /\ pc[r] = "clear" /\ call[r].kind \in {"updateService", "removeService"}
  /\ service' = IF id \in servs THEN [service EXCEPT ![id].fields = {}] ELSE service
  /\ Proceed(r, "write", None)
  /\ UNCHANGED <<categoryTables, providerTables, bookings, call>>

\* The row an update leaves: what the call mentions, and the fields it adds.
Updated(row, c) ==
  [category |-> IF c.category = None THEN row.category ELSE c.category,
   provider |-> IF c.provider = None THEN row.provider ELSE c.provider,
   fields |-> row.fields \cup (IF c.fields = None THEN {} ELSE c.fields)]

\* create and update are one statement with the fields in it: a key another
\* update has created meanwhile, or a category or provider gone, refuses all.
WriteService(r) ==
  LET c == call[r]
      old == IF c.id \in servs THEN service[c.id]
             ELSE [category |-> None, provider |-> None, fields |-> {}]
      new == Updated(old, c)
      twice == c.fields # None /\ old.fields \cap c.fields # {}
  IN
  /\ pc[r] = "write" /\ c.kind \in {"createService", "updateService"}
  /\ IF /\ c.kind = "updateService" => c.id \in servs
        /\ new.category \in cats /\ new.provider \in provs /\ ~twice
       THEN /\ service' = [s \in servs \cup {c.id} |-> IF s = c.id THEN new ELSE service[s]]
            /\ Finish(r, "OK")
       ELSE Finish(r, "ERROR") /\ UNCHANGED service
  /\ UNCHANGED <<categoryTables, providerTables, bookings, call>>

\* remove: bookings restrict it, when its form fields are gone already.
DeleteService(r) ==
  LET id == call[r].id IN
  /\ pc[r] = "write" /\ call[r].kind = "removeService"
  /\ IF id \in servs /\ \A b \in bookings : b.service # id
       THEN service' = [s \in servs \ {id} |-> service[s]] /\ Finish(r, "OK")
       ELSE Finish(r, "ERROR") /\ UNCHANGED service
  /\ UNCHANGED <<categoryTables, providerTables, bookings, call>>

AssignService(r) ==
  LET c == call[r] IN
  /\ pc[r] = "write" /\ c.kind = "assignService"
  /\ IF c.service \in servs /\ c.id \in provs
       THEN service' = [service EXCEPT ![c.service].provider = c.id] /\ Finish(r, "OK")
       ELSE Finish(r, "ERROR") /\ UNCHANGED service
  /\ UNCHANGED <<categoryTables, providerTables, bookings, call>>

-----------------------------------------------------------------------------
(* Providers: ProvidersService *)

\* create, update of the active flag, and toggleAcceptingBookings.
WriteProvider(r) ==
  LET c == call[r]
      old == IF c.id \in provs THEN provider[c.id] ELSE [active |-> TRUE, accepting |-> TRUE]
      new == CASE c.kind = "createProvider" -> old
               [] c.kind = "updateProvider" -> [old EXCEPT !.active = c.active]
               [] c.kind = "toggleAccepting" -> [old EXCEPT !.accepting = ~found[r]]
  IN
  /\ pc[r] = "write"
  /\ c.kind \in {"createProvider", "updateProvider", "toggleAccepting"}
  /\ IF c.kind # "createProvider" => c.id \in provs
       THEN /\ provider' = [p \in provs \cup {c.id} |-> IF p = c.id THEN new ELSE provider[p]]
            /\ Finish(r, "OK")
       ELSE Finish(r, "ERROR") /\ UNCHANGED provider
  /\ UNCHANGED <<categoryTables, service, week, blocked, bookings, call>>

\* deleteMany of the schedule, by setSchedule and by remove.
ClearSchedule(r) ==
  LET c == call[r] IN
  /\ pc[r] = "clear" /\ c.kind \in {"setSchedule", "removeProvider"}
  /\ week' = [week EXCEPT ![c.id] = NoWeek]
  /\ IF c.kind = "removeProvider" THEN Proceed(r, "clearDates", None)
     ELSE IF c.week = NoWeek THEN Finish(r, "OK")
     ELSE Proceed(r, "write", None)
  /\ UNCHANGED <<categoryTables, service, provider, blocked, bookings, call>>

\* Mutant: the entries are created one by one, until one is refused.
WriteSchedulePiecewise(r) ==
  LET c == call[r]
      free == {d \in Weekdays : c.week[d] # NoEntry /\ week[c.id][d] = NoEntry}
      clash == \E d \in Weekdays : c.week[d] # NoEntry /\ week[c.id][d] # NoEntry
  IN
  /\ pc[r] = "write" /\ c.kind = "setSchedule"
  /\ c.id \in provs
  /\ week' = [week EXCEPT ![c.id] = [d \in Weekdays |-> IF d \in free THEN c.week[d] ELSE @[d]]]
  /\ Finish(r, IF clash THEN "ERROR" ELSE "OK")
  /\ UNCHANGED <<categoryTables, service, provider, blocked, bookings, call>>

\* createMany is one statement: a weekday that has an entry again by now
\* refuses them all; other weekdays of another call stay beside them.
WriteSchedule(r) ==
  LET c == call[r]
      clash == \E d \in Weekdays : c.week[d] # NoEntry /\ week[c.id][d] # NoEntry
  IN
  /\ pc[r] = "write" /\ c.kind = "setSchedule"
  /\ IF c.id \in provs /\ ~clash
       THEN /\ week' = [week EXCEPT ![c.id] = [d \in Weekdays |->
                          IF c.week[d] # NoEntry THEN c.week[d] ELSE @[d]]]
            /\ Finish(r, "OK")
       ELSE Finish(r, "ERROR") /\ UNCHANGED week
  /\ UNCHANGED <<categoryTables, service, provider, blocked, bookings, call>>

ClearDates(r) ==
  /\ pc[r] = "clearDates"
  /\ blocked' = {b \in blocked : b[1] # call[r].id}
  /\ Proceed(r, "write", None)
  /\ UNCHANGED <<categoryTables, service, provider, week, bookings, call>>

\* remove: services and bookings restrict it, when its schedule and blocked
\* dates are gone already; written since, they go with the provider.
DeleteProvider(r) ==
  LET id == call[r].id IN
  /\ pc[r] = "write" /\ call[r].kind = "removeProvider"
  /\ IF id \in provs /\ ServicesOf(id) = {} /\ \A b \in bookings : b.provider # id
       THEN /\ provider' = [p \in provs \ {id} |-> provider[p]]
            /\ week' = [week EXCEPT ![id] = NoWeek]
            /\ blocked' = {b \in blocked : b[1] # id}
            /\ Finish(r, "OK")
       ELSE Finish(r, "ERROR") /\ UNCHANGED providerTables
  /\ UNCHANGED <<categoryTables, service, bookings, call>>

\* addUnavailableDate wants no row for the date, removeUnavailableDate one.
FindDate(r) ==
  LET c == call[r]
      there == <<c.id, c.date>> \in blocked
  IN
  /\ pc[r] = "find"
  /\ IF c.kind = "blockDate" /\ there THEN Finish(r, "REFUSED")
     ELSE IF c.kind = "unblockDate" /\ ~there THEN Finish(r, "NOT_FOUND")
     ELSE Proceed(r, "write", None)
  /\ UNCHANGED <<tables, call>>

\* Mutant: the arguments of the insert change places.
WriteDateSwapped(r) ==
  LET c == call[r] IN
  /\ pc[r] = "write" /\ c.kind \in {"blockDate", "unblockDate"}
  /\ blocked' = IF c.kind = "blockDate" THEN blocked \cup {<<c.date, c.id>>}
                ELSE blocked \ {<<c.id, c.date>>}
  /\ Finish(r, "OK")
  /\ UNCHANGED <<categoryTables, service, provider, week, bookings, call>>

\* The second of two calls that found the same fails: on the unique index, on
\* the foreign key, or for want of the row.
WriteDate(r) ==
  LET c == call[r]
      there == <<c.id, c.date>> \in blocked
  IN
  /\ pc[r] = "write" /\ c.kind \in {"blockDate", "unblockDate"}
  /\ IF c.kind = "blockDate" /\ ~there /\ c.id \in provs
       THEN blocked' = blocked \cup {<<c.id, c.date>>} /\ Finish(r, "OK")
     ELSE IF c.kind = "unblockDate" /\ there
       THEN blocked' = blocked \ {<<c.id, c.date>>} /\ Finish(r, "OK")
     ELSE Finish(r, "ERROR") /\ UNCHANGED blocked
  /\ UNCHANGED <<categoryTables, service, provider, week, bookings, call>>

-----------------------------------------------------------------------------
(* Visitors: BookingsService.getAvailability and create *)

ReadSchedule(r) ==
  /\ pc[r] = "schedule"
  /\ Proceed(r, "dates", [provider |-> found[r], week |-> week[found[r]]])
  /\ UNCHANGED <<tables, call>>

ReadDates(r) ==
  LET f == found[r] IN
  /\ pc[r] = "dates"
  /\ Proceed(r, "bookings", [provider |-> f.provider, week |-> f.week,
               dates |-> {d \in Dates : <<f.provider, d>> \in blocked}])
  /\ UNCHANGED <<tables, call>>

Booked(p) == {<<b.date, b.time>> : b \in {x \in bookings : x.provider = p}}

\* The bookings are read, and the slots computed from the four answers.
AnswerAvailability(r) ==
  LET f == found[r] IN
  /\ pc[r] = "bookings"
  /\ Offer(r, "OK", generateAvailableSlots(f.week, f.dates, Booked(f.provider), First, Last))
  /\ UNCHANGED <<tables, call>>

\* The transaction of a booking, for the provider its service had when it was
\* read; the schedule and the blocked dates are not consulted.
Book(r) ==
  LET c == call[r] IN
  /\ pc[r] = "write" /\ c.kind = "book"
  /\ IF <<c.date, c.time>> \in Booked(found[r])
       THEN Finish(r, "REFUSED") /\ UNCHANGED bookings
     ELSE IF c.id \in servs /\ found[r] \in provs
       THEN /\ bookings' = bookings \cup {[service |-> c.id, provider |-> found[r],
                                          date |-> c.date, time |-> c.time]}
            /\ Finish(r, "OK")
     ELSE Finish(r, "ERROR") /\ UNCHANGED bookings
  /\ UNCHANGED <<categoryTables, service, providerTables, call>>

-----------------------------------------------------------------------------
(* History: what stayed open, and what stayed shut, while slots were asked for *)

\* The slots that a week has, written without the loop.
Working(w) ==
  {s \in Slots : LET e == w[s[1] % 7] IN
     /\ e # NoEntry
     /\ s[2] >= e.start /\ s[2] + e.minutes <= e.end
     /\ (s[2] - e.start) % e.minutes = 0}

OpenNow(p) ==
  IF p \in provs /\ Available(p)
    THEN {s \in Working(week[p]) : <<p, s[1]>> \notin blocked} \ Booked(p)
    ELSE {}

\* What is true of the slots of p in the current state.
Scene(p) == [provider |-> p, open |-> OpenNow(p), booked |-> Booked(p),
             blocked |-> {s \in Slots : <<p, s[1]>> \in blocked},
             off |-> Slots \ Working(week[p])]

Scenes == [p \in Providers |-> Scene(p)]

\* What was true before and is still true.
Still(w, s) == [provider |-> w.provider, open |-> w.open \cap s.open,
                booked |-> w.booked \cap s.booked,
                blocked |-> w.blocked \cap s.blocked, off |-> w.off \cap s.off]

Watch ==
  witness' = [r \in Requests |->
    IF call'[r] = NoCall \/ pc[r] = "done" THEN witness[r]
    ELSE IF call'[r].kind # "availability" \/ answer'[r] = "NOT_FOUND" THEN None
    ELSE IF pc[r] = "idle" THEN Scenes'[service[call'[r].id].provider]
    ELSE Still(witness[r], Scenes'[witness[r].provider])]

-----------------------------------------------------------------------------
Init ==
  LET c == CHOOSE x \in Categories : TRUE
      s == CHOOSE x \in Services : TRUE
      p == CHOOSE x \in Providers : TRUE
  IN
    /\ parent \in {[k \in {c} |-> None], [k \in Categories |-> IF k = c THEN None ELSE c]}
    /\ shown = [k \in DOMAIN parent |-> TRUE]
    /\ service = [k \in {s} |-> [category |-> c, provider |-> p, fields |-> Fields]]
    /\ provider = [k \in {p} |-> [active |-> TRUE, accepting |-> TRUE]]
    /\ week = [k \in Providers |-> IF k = p THEN InitialWeek ELSE NoWeek]
    /\ blocked = {}
    /\ bookings = {}
    /\ pc = [r \in Requests |-> "idle"]
    /\ call = [r \in Requests |-> NoCall]
    /\ found = [r \in Requests |-> None]
    /\ answer = [r \in Requests |-> "none"]
    /\ witness = [r \in Requests |-> None]

Step(r) ==
  \/ Look(r)
  \/ WriteCategory(r) \/ ToggleCategory(r) \/ DeleteCategory(r)
  \/ ClearFields(r) \/ WriteService(r) \/ DeleteService(r) \/ AssignService(r)
  \/ WriteProvider(r) \/ ClearSchedule(r) \/ WriteSchedule(r)
  \/ ClearDates(r) \/ DeleteProvider(r) \/ FindDate(r) \/ WriteDate(r)
  \/ ReadSchedule(r) \/ ReadDates(r) \/ AnswerAvailability(r) \/ Book(r)

Next == \E r \in Requests : ((\E c \in Calls : Start(r, c)) \/ Step(r)) /\ Watch

Spec == Init /\ [][Next]_vars

-----------------------------------------------------------------------------
(* Properties *)

\* Whatever a lookup saw before it went away, nothing refers to a row that is
\* not there: not a category to its parent, a service to its category or its
\* provider, a booking to its service or its provider.
LinksResolve ==
  /\ \A k \in cats : parent[k] \in cats \cup {None}
  /\ \A s \in servs : service[s].category \in cats /\ service[s].provider \in provs
  /\ \A b \in bookings : b.service \in servs /\ b.provider \in provs
  /\ \A b \in blocked : b[1] \in provs
  /\ \A p \in Providers \ provs : week[p] = NoWeek

\* The four reads of an availability answer are not a snapshot.  Still, a slot
\* open all through the call is offered, and none is that was booked, on a
\* blocked date, or outside the week all through the call.  Open is what the
\* schedule, the blocked dates and the bookings leave open: getAvailability reads
\* no clock, so slots gone by are offered like others, although BACKEND.md (9,
\* rule 2) says that it "returns only future, open slots".
AvailabilityIsCurrent ==
  \A r \in Requests :
    (call[r] # NoCall /\ call[r].kind = "availability" /\ answer[r] = "OK") =>
      LET w == witness[r] IN
      /\ w.open \subseteq found[r]
      /\ found[r] \cap (w.booked \cup w.blocked \cup w.off) = {}

\* An entry of a schedule was there at first, or was sent by a call that is
\* answered OK: calls that are refused, and calls that overlap, leave none of
\* theirs behind.
EntriesWereAccepted ==
  \A p \in Providers : \A d \in Weekdays :
    week[p][d] # NoEntry =>
      \/ week[p][d] = InitialWeek[d]
      \/ \E r \in Requests :
           /\ call[r] # NoCall /\ call[r].kind = "setSchedule" /\ call[r].id = p
           /\ call[r].week[d] = week[p][d] /\ answer[r] = "OK"

=============================================================================
