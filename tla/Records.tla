------------------------------ MODULE Records ------------------------------
(***************************************************************************)
(* What people hand in, and how it outlives them: bookings, donations,     *)
(* consultation requests, volunteer applications and contact messages; the *)
(* back office that works through them; and the erasure of an account,     *)
(* which strips its rows of whatever tells who the person was.             *)
(*                                                                         *)
(* A request is one handler invocation.  Erasure is one READ COMMITTED     *)
(* transaction: each of its statements sees what others committed before   *)
(* it, and its own writes show when it commits.  Any other handler takes a *)
(* step per statement.  Personal columns are kept by name, not by value.   *)
(***************************************************************************)
EXTENDS Naturals, FiniteSets

CONSTANTS
  Requests,
  Accounts,    \* ids of user rows, each used for one account at most
  Addresses,   \* e-mail addresses as people type them
  Normal,      \* the normal form of each, an address of the same mailbox
  Records,     \* ids of rows that may be handed in
  Providers,
  Items,       \* what can be a favourite
  Kinds,       \* the kinds of call each request may make
  None, NoCall

RowKinds == {"booking", "donation", "consultation", "volunteer", "message"}
AllKinds == {"submit", "status", "schedule", "erase", "favorite"}

ASSUME AddressAssumption ==
  /\ Normal \in [Addresses -> Addresses]
  /\ \A a \in Addresses : Normal[Normal[a]] = Normal[a]
ASSUME KindsAssumption == Kinds \in [Requests -> SUBSET AllKinds]
ASSUME NullAssumption == None \notin Accounts \cup Addresses \cup Providers

VARIABLES
  account,    \* users: the address of each account, None while it has no row
  row,        \* the five tables of rows handed in
  providers,  \* providers that exist
  favorites,  \* pairs of account and item
  pc,         \* the statement each request executes next
  call,       \* what it was asked
  found,      \* what it remembers of its reads
  answer,     \* what its caller is told
  past        \* history: accounts there were, rows each erasure found, late rows

vars == <<account, row, providers, favorites, pc, call, found, answer, past>>

-----------------------------------------------------------------------------
(* Rows, calls and their types *)

\* The columns that tell who a person is, or what they wrote about themselves.
Personal(kind) ==
  CASE kind = "booking" -> {"name", "phone", "nationalId", "notes", "answers"}
    [] kind = "donation" -> {"name"}
    [] kind = "consultation" -> {"name", "phone", "email", "age", "summary", "answers"}
    [] kind = "volunteer" -> {"name", "phone", "age"}
    [] kind = "message" -> {"name", "phone", "message"}

Columns == UNION {Personal(k) : k \in RowKinds}

\* NEW, SCHEDULED and CANCELLED are ConsultationStatus, as is COMPLETED, which
\* stands for the answered and the accepted of the other tables, too.
Statuses == {"NEW", "UNDER_REVIEW", "SCHEDULED", "COMPLETED", "CANCELLED"}

Row == [kind : RowKinds, user : Accounts \cup {None}, address : Addresses \cup {None},
        holds : SUBSET Columns, status : Statuses,
        provider : Providers \cup {None}, slot : BOOLEAN]

ids == DOMAIN row
Live == {a \in Accounts : account[a] # None}
Holder(address) == {a \in Live : account[a] = address}

\* A guest may book and give; a consultation wants an address.
Calls ==
  [kind : {"submit"}, row : {"booking", "donation"}, by : Accounts \cup {None}]
  \cup [kind : {"submit"}, row : {"consultation"}, address : Addresses]
  \cup [kind : {"submit"}, row : {"volunteer", "message"}]
  \cup [kind : {"status"}, id : Records, to : Statuses]
  \cup [kind : {"schedule"}, id : Records, provider : Providers]
  \cup [kind : {"erase"}, by : Accounts]
  \cup [kind : {"favorite"}, by : Accounts, item : Items]

ASSUME CallsAssumption == NoCall \notin Calls

Erasing == {"bookings", "donations", "consultations", "delete"}
Statements == {"idle", "upsert", "insert", "provider", "write", "done"} \cup Erasing

Answers == {"none", "OK", "NOT_FOUND", "REFUSED", "ERROR"}

\* What the next statement p of a request says of its call c, of what it remembers,
\* f, and of its answer a, by the accounts there have been and the rows there are.
Fits(p, c, f, a, accounts, rows) ==
  /\ p = "done" <=> a # "none"
  /\ p = "idle" <=> c = NoCall
  /\ p = "upsert" => c.kind = "submit" /\ c.row = "consultation"
  /\ p = "insert" => \/ c.kind = "favorite"
                     \/ /\ c.kind = "submit" /\ f \in accounts \cup {None}
                        /\ c.row = "consultation" => f # None
                        /\ c.row \in {"volunteer", "message"} => f = None
  /\ p = "provider" => c.kind = "schedule" /\ c.id \in rows
  /\ p = "write" => c.kind \in {"status", "schedule"} /\ c.id \in rows
  /\ p \in Erasing => c.kind = "erase" /\ c.by \in accounts /\ f \subseteq rows

TablesOK ==
  /\ account \in [Accounts -> Addresses \cup {None}]
  /\ ids \subseteq Records /\ row \in [ids -> Row]
  /\ \A i \in ids : row[i].holds \subseteq Personal(row[i].kind)
  /\ providers \subseteq Providers
  /\ favorites \subseteq Accounts \X Items
  /\ past \in [accounts : SUBSET Accounts, late : SUBSET ids,
               erased : [Requests -> SUBSET ids]]
  /\ Live \subseteq past.accounts

RequestsOK ==
  /\ pc \in [Requests -> Statements]
  /\ call \in [Requests -> Calls \cup {NoCall}]
  /\ answer \in [Requests -> Answers]
  /\ DOMAIN found = Requests
  /\ \A r \in Requests : Fits(pc[r], call[r], found[r], answer[r], past.accounts, ids)

TypeOK == TablesOK /\ RequestsOK

-----------------------------------------------------------------------------
(* Requests *)

Finish(r, a) ==
  /\ pc' = [pc EXCEPT ![r] = "done"]
  /\ answer' = [answer EXCEPT ![r] = a]
  /\ found' = [found EXCEPT ![r] = None]

Proceed(r, next, f) ==
  /\ pc' = [pc EXCEPT ![r] = next]
  /\ found' = [found EXCEPT ![r] = f]
  /\ UNCHANGED answer

Unchanged == UNCHANGED <<account, row, providers, favorites, past>>

Ask(r, c) ==
  /\ pc[r] = "idle"
  /\ c.kind \in Kinds[r]
  /\ call' = [call EXCEPT ![r] = c]

\* Mutant: the address is used as it was typed.
NormalizedAsTyped(address) == address

Normalized(address) == Normal[address]

-----------------------------------------------------------------------------
(* Handing in *)

\* The account of a caller who is signed in was read with the token; a guest,
\* a volunteer and the writer of a message have none.
Submit(r, c) ==
  /\ c.kind = "submit"
  /\ Ask(r, c)
  /\ CASE c.row = "consultation" -> Proceed(r, "upsert", None)
       [] c.row \in {"booking", "donation"} ->
            c.by \in Live \cup {None} /\ Proceed(r, "insert", c.by)
       [] OTHER -> Proceed(r, "insert", None)
  /\ Unchanged

\* A consultation finds the account of its address, or creates one: the upsert
\* is one statement, decided by the unique index on the address.
Upsert(r) ==
  LET address == Normalized(call[r].address) IN
  /\ pc[r] = "upsert"
  /\ \/ /\ Holder(address) # {}
        /\ Proceed(r, "insert", CHOOSE a \in Holder(address) : TRUE)
        /\ UNCHANGED <<account, past>>
     \/ /\ Holder(address) = {}
        /\ \E a \in Accounts \ past.accounts :
             /\ account' = [account EXCEPT ![a] = address]
             /\ past' = [past EXCEPT !.accounts = @ \cup {a}]
             /\ Proceed(r, "insert", a)
  /\ UNCHANGED <<row, providers, favorites, call>>

\* Mutant: a row starts with the status of a booking.
NewRowPending(c, user) ==
  [kind |-> c.row, user |-> user,
   address |-> IF c.row = "consultation" THEN Normalized(c.address) ELSE None,
   holds |-> Personal(c.row), status |-> "PENDING", provider |-> None, slot |-> FALSE]

NewRow(c, user) ==
  [kind |-> c.row, user |-> user,
   address |-> IF c.row = "consultation" THEN Normalized(c.address) ELSE None,
   holds |-> Personal(c.row), status |-> "NEW", provider |-> None, slot |-> FALSE]

\* The row is inserted; the foreign key refuses it when its account has gone.
\* Rows handed in while their account is being erased are on record.
InsertRow(r) ==
  LET user == found[r] IN
  /\ pc[r] = "insert" /\ call[r].kind = "submit"
  /\ \/ /\ user \in Live \cup {None}
        /\ \E i \in Records \ ids :
             /\ row' = [j \in ids \cup {i} |->
                          IF j = i THEN NewRow(call[r], user) ELSE row[j]]
             /\ past' = IF \E q \in Requests : /\ pc[q] \notin {"idle", "done"}
                                               /\ call[q].kind = "erase"
                                               /\ call[q].by = user
                          THEN [past EXCEPT !.late = @ \cup {i}] ELSE past
        /\ Finish(r, "OK")
     \/ user \notin Live \cup {None} /\ Finish(r, "ERROR") /\ UNCHANGED <<row, past>>
  /\ UNCHANGED <<account, providers, favorites, call>>

\* verifyOtp finds the account of an address, or creates it.
SignIn(address) ==
  /\ Holder(Normalized(address)) = {}
  /\ \E a \in Accounts \ past.accounts :
       /\ account' = [account EXCEPT ![a] = Normalized(address)]
       /\ past' = [past EXCEPT !.accounts = @ \cup {a}]
  /\ UNCHANGED <<row, providers, favorites, pc, call, found, answer>>

-----------------------------------------------------------------------------
(* The back office *)

\* Mutant: the status route takes whatever is a status.
AcceptedAny(kind) == Statuses

\* What the status routes accept: of a consultation, all but SCHEDULED; of the
\* other two tables any text, for which two stand.
Accepted(kind) ==
  IF kind = "consultation" THEN Statuses \ {"SCHEDULED"} ELSE {"NEW", "COMPLETED"}

\* updateStatus of the three tables: the row is looked up, then named again.
FindForStatus(r, id, to) ==
  /\ Ask(r, [kind |-> "status", id |-> id, to |-> to])
  /\ \/ id \notin ids /\ Finish(r, "NOT_FOUND")
     \/ /\ id \in ids /\ row[id].kind \notin {"booking", "donation"}
        /\ IF to \in Accepted(row[id].kind) THEN Proceed(r, "write", None)
           ELSE Finish(r, "REFUSED")
  /\ Unchanged

WriteStatus(r) ==
  /\ pc[r] = "write" /\ call[r].kind = "status"
  /\ row' = [row EXCEPT ![call[r].id].status = call[r].to]
  /\ Finish(r, "OK")
  /\ UNCHANGED <<account, providers, favorites, call, past>>

\* schedule: a cancelled request is refused, by the status it has now.
FindForSchedule(r, id, p) ==
  /\ Ask(r, [kind |-> "schedule", id |-> id, provider |-> p])
  /\ \/ id \notin ids /\ Finish(r, "NOT_FOUND")
     \/ /\ id \in ids /\ row[id].kind = "consultation"
        /\ IF row[id].status = "CANCELLED" THEN Finish(r, "REFUSED")
           ELSE Proceed(r, "provider", None)
  /\ Unchanged

CheckProvider(r) ==
  /\ pc[r] = "provider"
  /\ IF call[r].provider \in providers THEN Proceed(r, "write", None)
     ELSE Finish(r, "REFUSED")
  /\ UNCHANGED call /\ Unchanged

\* The arrangement and the status go into one statement, which the foreign key
\* refuses for a provider removed meanwhile; a cancellation meanwhile is lost.
WriteSchedule(r) ==
  LET p == call[r].provider IN
  /\ pc[r] = "write" /\ call[r].kind = "schedule"
  /\ IF p \in providers
       THEN /\ row' = [row EXCEPT ![call[r].id] =
                         [@ EXCEPT !.provider = p, !.slot = TRUE, !.status = "SCHEDULED"]]
            /\ Finish(r, "OK")
       ELSE Finish(r, "ERROR") /\ UNCHANGED row
  /\ UNCHANGED <<account, providers, favorites, call, past>>

\* A provider without services and bookings is deleted: SET NULL.
RemoveProvider(p) ==
  /\ p \in providers
  /\ providers' = providers \ {p}
  /\ row' = [i \in ids |-> [row[i] EXCEPT !.provider = IF @ = p THEN None ELSE @]]
  /\ UNCHANGED <<account, favorites, pc, call, found, answer, past>>

-----------------------------------------------------------------------------
(* Favourites, and the end of an account *)

StartFavorite(r, a, item) ==
  /\ Ask(r, [kind |-> "favorite", by |-> a, item |-> item])
  /\ a \in Live
  /\ Proceed(r, "insert", None)
  /\ Unchanged

\* addFavorite is an upsert, removeFavorite a deleteMany: one changes what the
\* other does, and the foreign key refuses the first for an account that went.
WriteFavorite(r) ==
  LET c == call[r] IN
  /\ pc[r] = "insert" /\ c.kind = "favorite"
  /\ \/ /\ c.by \in Live
        /\ favorites' = favorites \cup {<<c.by, c.item>>}
        /\ Finish(r, "OK")
     \/ c.by \notin Live /\ Finish(r, "ERROR") /\ UNCHANGED favorites
     \/ favorites' = favorites \ {<<c.by, c.item>>} /\ Finish(r, "OK")
  /\ UNCHANGED <<account, row, providers, call, past>>

RowsOf(kind, a) == {i \in ids : row[i].kind = kind /\ row[i].user = a}

\* deleteAccount finds the account, and opens its transaction.  The rows the
\* account has are on record.
FindForErasure(r, a) ==
  /\ Ask(r, [kind |-> "erase", by |-> a])
  /\ a \in Live
  /\ Proceed(r, "bookings", {})
  /\ past' = [past EXCEPT !.erased[r] = {i \in ids : row[i].user = a}]
  /\ UNCHANGED <<account, row, providers, favorites>>

\* The three updateMany, in order.  Each holds its rows until the commit.
StripRows(r, now, kind, next) ==
  /\ pc[r] = now
  /\ Proceed(r, next, found[r] \cup RowsOf(kind, call[r].by))
  /\ UNCHANGED call /\ Unchanged

StripBookings(r) == StripRows(r, "bookings", "booking", "donations")
StripDonations(r) == StripRows(r, "donations", "donation", "consultations")

\* Mutant: the rows are looked for once the account is deleted, which detached them.
StripConsultationsLate(r) ==
  /\ pc[r] = "consultations"
  /\ Proceed(r, "delete", found[r])
  /\ UNCHANGED call /\ Unchanged

StripConsultations(r) == StripRows(r, "consultations", "consultation", "delete")

\* What the updates of the transaction leave of a row.  `extraFieldsJson:
\* undefined' is no part of an update, and a booking's has no line for it.
Stripped(x) ==
  [x EXCEPT !.user = None, !.address = None, !.holds = @ \cap {"answers"}]

\* user.delete and the commit: its favourites cascade, and rows handed in since
\* their updateMany are detached by the foreign key, as they are.
CommitErasure(r) ==
  LET a == call[r].by IN
  /\ pc[r] = "delete"
  /\ IF a \in Live
       THEN /\ account' = [account EXCEPT ![a] = None]
            /\ row' = [i \in ids |-> IF i \in found[r] THEN Stripped(row[i])
                                     ELSE IF row[i].user = a THEN [row[i] EXCEPT !.user = None]
                                     ELSE row[i]]
            /\ favorites' = {f \in favorites : f[1] # a}
            /\ Finish(r, "OK")
       ELSE Finish(r, "ERROR") /\ UNCHANGED <<account, row, favorites>>
  /\ UNCHANGED <<providers, call, past>>

-----------------------------------------------------------------------------
Init ==
  /\ account = [a \in Accounts |-> None]
  /\ row = <<>>
  /\ providers = Providers
  /\ favorites = {}
  /\ pc = [r \in Requests |-> "idle"]
  /\ call = [r \in Requests |-> NoCall]
  /\ found = [r \in Requests |-> None]
  /\ answer = [r \in Requests |-> "none"]
  /\ past = [accounts |-> {}, late |-> {}, erased |-> [r \in Requests |-> {}]]

Next ==
  \/ \E address \in Addresses : SignIn(address)
  \/ \E p \in Providers : RemoveProvider(p)
  \/ \E r \in Requests :
       \/ \E c \in Calls : Submit(r, c)
       \/ Upsert(r) \/ InsertRow(r)
       \/ \E id \in Records, to \in Statuses : FindForStatus(r, id, to)
       \/ \E id \in Records, p \in Providers : FindForSchedule(r, id, p)
       \/ CheckProvider(r) \/ WriteStatus(r) \/ WriteSchedule(r)
       \/ \E a \in Accounts, item \in Items : StartFavorite(r, a, item)
       \/ WriteFavorite(r)
       \/ \E a \in Accounts : FindForErasure(r, a)
       \/ StripBookings(r) \/ StripDonations(r) \/ StripConsultations(r)
       \/ CommitErasure(r)

Spec == Init /\ [][Next]_vars

-----------------------------------------------------------------------------
(* Properties *)

\* The rows of erasures that were answered, and the columns an erasure names.
Erased == UNION {past.erased[r] : r \in {q \in Requests : answer[q] = "OK"}}
Named == {"name", "phone", "nationalId", "notes", "email", "age", "summary"}

\* Whatever an account had handed in when its erasure began is detached and
\* tells nobody's name any more, and stays so whoever goes on working with it;
\* nothing is left that names an account that went.
ErasureReachesRows ==
  /\ \A i \in Erased : row[i].user = None /\ row[i].holds \cap Named = {}
  /\ \A i \in ids : row[i].user \in Live \cup {None}
  /\ \A f \in favorites : f[1] \in Live

\* However an address is typed, by whichever door, and however often its
\* account was erased, one account stands for a mailbox, and the consultations
\* of the mailbox are its account's: all but those handed in while the account
\* was being erased, which no later sign-in finds again.
RequestsFindTheirAccount ==
  /\ \A a, b \in Live : Normal[account[a]] = Normal[account[b]] => a = b
  /\ \A i \in ids : row[i].address # None =>
       \/ row[i].user \in Live /\ account[row[i].user] = row[i].address
       \/ row[i].user = None /\ i \in past.late

\* A consultation whose status says that an appointment was arranged has a time
\* on record, and a provider unless that one was removed since.
ScheduledIsArranged ==
  \A i \in ids : row[i].status = "SCHEDULED" =>
    row[i].slot /\ (row[i].provider # None \/ providers # Providers)

\* Erasure reaches the person's written account of their circumstances (the
\* comment of deleteAccount): it leaves the answers of the form.
ErasureReachesAnswers ==
  \A i \in Erased : row[i].kind = "consultation" => row[i].holds = {}
=============================================================================
