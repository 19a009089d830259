---------------------------- MODULE RecordsProofs ----------------------------
(***************************************************************************)
(* Theorems about what people hand in and the erasure of their accounts,   *)
(* for every number of requests, accounts, addresses and rows.             *)
(***************************************************************************)
EXTENDS Records, TLAPS

-----------------------------------------------------------------------------
(* Calls and rows *)

\* What a call of each kind carries.
LEMMA CallFields ==
  ASSUME NEW c \in Calls
  PROVE  /\ c.kind \in AllKinds
         /\ c.kind = "submit" =>
              /\ c.row \in RowKinds
              /\ c.row \in {"booking", "donation"} => c.by \in Accounts \cup {None}
              /\ c.row = "consultation" => c.address \in Addresses
         /\ c.kind = "status" => c.id \in Records /\ c.to \in Statuses
         /\ c.kind = "schedule" => c.id \in Records /\ c.provider \in Providers
         /\ c.kind = "erase" => c.by \in Accounts
         /\ c.kind = "favorite" => c.by \in Accounts /\ c.item \in Items
  BY DEF Calls, AllKinds, RowKinds

LEMMA CallMakes ==
  /\ \A id \in Records, to \in Statuses : [kind |-> "status", id |-> id, to |-> to] \in Calls
  /\ \A id \in Records, p \in Providers :
       [kind |-> "schedule", id |-> id, provider |-> p] \in Calls
  /\ \A a \in Accounts : [kind |-> "erase", by |-> a] \in Calls
  /\ \A a \in Accounts, x \in Items : [kind |-> "favorite", by |-> a, item |-> x] \in Calls
  BY DEF Calls

LEMMA RowFields ==
  ASSUME TypeOK, NEW i \in ids
  PROVE  /\ row[i] \in Row /\ row[i].kind \in RowKinds
         /\ row[i].user \in Accounts \cup {None} /\ row[i].address \in Addresses \cup {None}
         /\ row[i].holds \subseteq Personal(row[i].kind) /\ row[i].status \in Statuses
         /\ row[i].provider \in Providers \cup {None} /\ row[i].slot \in BOOLEAN
  BY DEF TypeOK, TablesOK, Row

LEMMA PersonalColumns ==
  ASSUME NEW k \in RowKinds PROVE Personal(k) \subseteq Columns
  BY DEF Columns

-----------------------------------------------------------------------------
(* The type invariant *)

\* Request r, asked c, goes on to statement p with f found and answer a.
Moves(r, c, p, f, a) ==
  /\ call' = [call EXCEPT ![r] = c]
  /\ pc' = [pc EXCEPT ![r] = p]
  /\ found' = [found EXCEPT ![r] = f]
  /\ answer' = [answer EXCEPT ![r] = a]

\* Accounts and rows that there were stay on record.
Grows == past.accounts \subseteq past.accounts' /\ ids \subseteq ids'

LEMMA FitsLater ==
  ASSUME Grows, NEW p, NEW c, NEW f, NEW a, Fits(p, c, f, a, past.accounts, ids)
  PROVE  Fits(p, c, f, a, past'.accounts, ids')
  BY DEF Grows, Fits

LEMMA MovesType ==
  ASSUME RequestsOK, Grows, NEW r \in Requests, NEW c \in Calls, NEW p \in Statements, NEW f,
         NEW a \in Answers, Moves(r, c, p, f, a), Fits(p, c, f, a, past'.accounts, ids')
  PROVE  RequestsOK'
<1>1. /\ pc' \in [Requests -> Statements] /\ call' \in [Requests -> Calls \cup {NoCall}]
      /\ answer' \in [Requests -> Answers] /\ DOMAIN found' = Requests
  BY DEF RequestsOK, Moves, Answers
<1>2. ASSUME NEW q \in Requests PROVE Fits(pc[q], call[q], found[q], answer[q], past.accounts, ids)'
  <2>1. CASE q = r
    <3>1. pc'[q] = p /\ call'[q] = c /\ found'[q] = f /\ answer'[q] = a
      BY <2>1 DEF RequestsOK, Moves
    <3>2. QED
      BY <3>1 DEF Fits
  <2>2. CASE q # r
    <3>1. pc'[q] = pc[q] /\ call'[q] = call[q] /\ found'[q] = found[q] /\ answer'[q] = answer[q]
      BY <2>2 DEF RequestsOK, Moves
    <3>2. Fits(pc[q], call[q], found[q], answer[q], past.accounts, ids)
      BY DEF RequestsOK
    <3>3. QED
      BY <3>1, <3>2 DEF Grows, Fits
  <2>3. QED
    BY <2>1, <2>2
<1>3. QED
  BY <1>1, <1>2 DEF RequestsOK, Answers

LEMMA OwnCall ==
  ASSUME RequestsOK, NEW r \in Requests
  PROVE  /\ pc[r] \in Statements /\ answer[r] \in Answers
         /\ Fits(pc[r], call[r], found[r], answer[r], past.accounts, ids)
         /\ pc[r] # "idle" => call[r] \in Calls
         /\ pc[r] # "done" => answer[r] = "none"
         /\ UNCHANGED call => call' = [call EXCEPT ![r] = call[r]]
  BY CallsAssumption DEF RequestsOK, Fits, Answers

\* How the helpers move a request that is not done.
LEMMA Moving ==
  ASSUME RequestsOK, NEW r \in Requests, pc[r] # "done", NEW c, call' = [call EXCEPT ![r] = c]
  PROVE  /\ \A a : Finish(r, a) => Moves(r, c, "done", None, a)
         /\ \A p, f : Proceed(r, p, f) => Moves(r, c, p, f, "none")
<1>1. answer = [answer EXCEPT ![r] = "none"]
  BY OwnCall DEF RequestsOK
<1>2. QED
  BY <1>1 DEF Finish, Proceed, Moves

LEMMA FinishType ==
  ASSUME RequestsOK, Grows, NEW r \in Requests, pc[r] # "done", NEW c \in Calls,
         call' = [call EXCEPT ![r] = c], NEW a \in Answers \ {"none"}, Finish(r, a)
  PROVE  RequestsOK'
<1>1. Fits("done", c, None, a, past'.accounts, ids')
  BY CallsAssumption DEF Fits, Erasing
<1>2. "done" \in Statements
  BY DEF Statements
<1>3. QED
  BY <1>1, <1>2, Moving, MovesType

LEMMA ProceedType ==
  ASSUME RequestsOK, Grows, NEW r \in Requests, pc[r] # "done", NEW c \in Calls,
         call' = [call EXCEPT ![r] = c], NEW p \in Statements, NEW f,
         Fits(p, c, f, "none", past'.accounts, ids'), Proceed(r, p, f)
  PROVE  RequestsOK'
  BY Moving, MovesType DEF Answers

\* Steps that leave the tables as they are.
LEMMA TablesStay ==
  ASSUME TablesOK
  PROVE  /\ Unchanged => TablesOK' /\ Grows
         /\ UNCHANGED <<account, row, providers, past>> /\ favorites' \subseteq Accounts \X Items
              => TablesOK' /\ Grows
<1>1. ASSUME UNCHANGED <<account, row, providers, past>>, favorites' \subseteq Accounts \X Items
      PROVE  TablesOK' /\ Grows
  BY <1>1 DEF TablesOK, Grows, ids, Live
<1>2. QED
  BY <1>1 DEF Unchanged, TablesOK

\* Steps that write rows and leave the accounts.
LEMMA RowsWritten ==
  ASSUME TablesOK, UNCHANGED <<account, favorites>>,
         row' \in [ids' -> Row], ids' \subseteq Records, ids \subseteq ids',
         \A i \in ids' : row'[i].holds \subseteq Personal(row'[i].kind),
         providers' \subseteq Providers,
         past' \in [accounts : SUBSET Accounts, late : SUBSET ids', erased : [Requests -> SUBSET ids']],
         past'.accounts = past.accounts
  PROVE  TablesOK' /\ Grows
  BY DEF TablesOK, Grows, Live

LEMMA PastLater ==
  ASSUME TablesOK, ids \subseteq ids'
  PROVE  /\ past \in [accounts : SUBSET Accounts, late : SUBSET ids', erased : [Requests -> SUBSET ids']]
         /\ past.accounts \subseteq Accounts /\ past.late \subseteq ids
         /\ \A r \in Requests : past.erased[r] \subseteq ids
  BY DEF TablesOK

LEMMA SubmitType ==
  ASSUME TypeOK, NEW r \in Requests, NEW c \in Calls, Submit(r, c)
  PROVE  TypeOK'
<1> USE DEF TypeOK
<1>1. /\ pc[r] = "idle" /\ c.kind = "submit" /\ call' = [call EXCEPT ![r] = c]
      /\ TablesOK' /\ Grows
  BY TablesStay DEF Submit, Ask
<1>2. {"upsert", "insert"} \subseteq Statements
  BY DEF Statements
<1>3. CASE c.row = "consultation"
  <2>1. Proceed(r, "upsert", None)
    BY <1>3 DEF Submit
  <2>2. Fits("upsert", c, None, "none", past'.accounts, ids')
    BY <1>1, <1>3, CallsAssumption DEF Fits, Erasing
  <2>3. QED
    BY <1>1, <1>2, <2>1, <2>2, ProceedType
<1>4. CASE c.row \in {"booking", "donation"}
  <2>1. c.by \in Live \cup {None} /\ Proceed(r, "insert", c.by)
    BY <1>4 DEF Submit
  <2>2. Fits("insert", c, c.by, "none", past'.accounts, ids')
    BY <1>1, <1>4, <2>1, CallsAssumption DEF Fits, Erasing, TablesOK, Grows
  <2>3. QED
    BY <1>1, <1>2, <2>1, <2>2, ProceedType
<1>5. CASE c.row \in {"volunteer", "message"}
  <2>1. Proceed(r, "insert", None)
    BY <1>5 DEF Submit
  <2>2. Fits("insert", c, None, "none", past'.accounts, ids')
    BY <1>1, <1>5, CallsAssumption DEF Fits, Erasing
  <2>3. QED
    BY <1>1, <1>2, <2>1, <2>2, ProceedType
<1>6. QED
  BY <1>1, <1>3, <1>4, <1>5, CallFields DEF RowKinds

\* An account that is opened has an id that none had before.
Opens(a, address) ==
  /\ a \in Accounts \ past.accounts
  /\ account' = [account EXCEPT ![a] = address]
  /\ past' = [past EXCEPT !.accounts = @ \cup {a}]

LEMMA OpensType ==
  ASSUME TablesOK, NEW a, NEW address \in Addresses, Opens(a, address),
         UNCHANGED <<row, providers, favorites>>
  PROVE  /\ TablesOK' /\ Grows /\ Live' = Live \cup {a} /\ a \notin Live
         /\ past'.accounts = past.accounts \cup {a} /\ past'.late = past.late
         /\ past'.erased = past.erased
         /\ account'[a] = address /\ \A b \in Live : account'[b] = account[b]
<1>1. /\ past'.accounts = past.accounts \cup {a} /\ past'.late = past.late
      /\ past'.erased = past.erased /\ a \in Accounts
  BY DEF Opens, TablesOK
<1>2. past' = [accounts |-> past.accounts \cup {a}, late |-> past.late, erased |-> past.erased]
  BY DEF Opens, TablesOK
<1>3. address # None
  BY NullAssumption
<1>4. account' \in [Accounts -> Addresses \cup {None}]
  BY <1>1 DEF Opens, TablesOK
<1>5. Live' = Live \cup {a} /\ a \notin Live /\ \A b \in Live : account'[b] = account[b]
  BY <1>1, <1>3 DEF Opens, TablesOK, Live
<1>6. account'[a] = address
  BY <1>1 DEF Opens, TablesOK
<1>7. TablesOK'
  BY <1>1, <1>2, <1>4, <1>5 DEF TablesOK, ids
<1>8. QED
  BY <1>1, <1>5, <1>6, <1>7 DEF Grows, ids

LEMMA NormalAddress ==
  ASSUME NEW a \in Addresses
  PROVE  Normalized(a) \in Addresses /\ Normal[Normalized(a)] = Normalized(a)
  BY AddressAssumption DEF Normalized

LEMMA AccountStepsType ==
  ASSUME TypeOK
  PROVE  /\ \A address \in Addresses : SignIn(address) => TypeOK'
         /\ \A r \in Requests : Upsert(r) => TypeOK'
<1> USE DEF TypeOK
<1>1. ASSUME NEW address \in Addresses, SignIn(address) PROVE TypeOK'
  <2>1. PICK a : Opens(a, Normalized(address))
    BY <1>1 DEF SignIn, Opens
  <2>2. UNCHANGED <<row, providers, favorites, pc, call, found, answer>>
    BY <1>1 DEF SignIn
  <2>3. TablesOK' /\ Grows
    BY <2>1, <2>2, NormalAddress, OpensType
  <2>4. \A r \in Requests : Fits(pc[r], call[r], found[r], answer[r], past.accounts, ids)'
    BY <2>2, <2>3 DEF RequestsOK, Grows, Fits
  <2>5. QED
    BY <2>2, <2>3, <2>4 DEF RequestsOK
<1>2. ASSUME NEW r \in Requests, Upsert(r) PROVE TypeOK'
  <2> DEFINE address == Normalized(call[r].address)
  <2>1. pc[r] = "upsert" /\ UNCHANGED <<row, providers, favorites, call>>
    BY <1>2 DEF Upsert
  <2>2. /\ call[r] \in Calls /\ call[r].kind = "submit" /\ call[r].row = "consultation"
        /\ call' = [call EXCEPT ![r] = call[r]]
    BY <2>1, OwnCall DEF Fits
  <2>3. address \in Addresses
    BY <2>2, CallFields, NormalAddress
  <2>4. \E a \in Accounts : Proceed(r, "insert", a) /\ a \in past'.accounts /\ TablesOK' /\ Grows
    <3>1. CASE Holder(address) # {}
      <4>1. \E a \in Holder(address) : Proceed(r, "insert", a) /\ UNCHANGED <<account, past>>
        BY <1>2, <3>1 DEF Upsert
      <4>2. Holder(address) \subseteq Live /\ Live \subseteq past.accounts /\ Live \subseteq Accounts
        BY DEF Holder, TablesOK, Live
      <4>3. UNCHANGED <<account, past>> => TablesOK' /\ Grows
        BY <2>1, TablesStay DEF Unchanged
      <4>4. QED
        BY <4>1, <4>2, <4>3
    <3>2. CASE Holder(address) = {}
      <4>1. PICK a \in Accounts : Opens(a, address) /\ Proceed(r, "insert", a)
        BY <1>2, <3>2 DEF Upsert, Opens
      <4>2. QED
        BY <2>1, <2>3, <4>1, OpensType
    <3>3. QED
      BY <3>1, <3>2
  <2>5. PICK a \in Accounts : Proceed(r, "insert", a) /\ a \in past'.accounts /\ TablesOK' /\ Grows
    BY <2>4
  <2>6. Fits("insert", call[r], a, "none", past'.accounts, ids')
    BY <2>2, <2>5, CallsAssumption, NullAssumption DEF Fits, Erasing
  <2>7. QED
    BY <2>1, <2>2, <2>5, <2>6, ProceedType DEF Statements
<1>3. QED
  BY <1>1, <1>2

-----------------------------------------------------------------------------
(* What the other steps write *)

LEMMA NewRowFields ==
  ASSUME NEW c \in Calls, c.kind = "submit", NEW user \in Accounts \cup {None}
  PROVE  /\ NewRow(c, user) \in Row /\ NewRow(c, user).kind = c.row
         /\ NewRow(c, user).user = user /\ NewRow(c, user).status = "NEW"
         /\ NewRow(c, user).holds = Personal(c.row)
         /\ NewRow(c, user).address = IF c.row = "consultation" THEN Normalized(c.address) ELSE None
<1>1. Personal(c.row) \subseteq Columns /\ c.row \in RowKinds
  BY CallFields, PersonalColumns
<1>2. (IF c.row = "consultation" THEN Normalized(c.address) ELSE None) \in Addresses \cup {None}
  BY CallFields, NormalAddress
<1>3. QED
  BY <1>1, <1>2 DEF NewRow, Row, Statuses

\* Some erasure of the account is under way.
BeingErased(user) ==
  \E q \in Requests : /\ pc[q] \notin {"idle", "done"} /\ call[q].kind = "erase"
                      /\ call[q].by = user

\* Row i is handed in by the call c of an account, or of none.
Inserted(i, c, user) ==
  /\ i \in Records \ ids /\ ids' = ids \cup {i} /\ user \in Live \cup {None}
  /\ row' \in [ids' -> Row] /\ row'[i] = NewRow(c, user)
  /\ \A j \in ids : row'[j] = row[j]
  /\ past'.accounts = past.accounts /\ past'.erased = past.erased
  /\ past'.late = IF BeingErased(user) THEN past.late \cup {i} ELSE past.late

LEMMA InsertMakes ==
  ASSUME TypeOK, NEW r \in Requests, InsertRow(r)
  PROVE  /\ pc[r] = "insert" /\ call[r] \in Calls /\ call[r].kind = "submit"
         /\ found[r] \in past.accounts \cup {None}
         /\ call[r].row = "consultation" => found[r] # None
         /\ call[r].row \in {"volunteer", "message"} => found[r] = None
         /\ UNCHANGED <<account, providers, favorites, call>>
         /\ \/ Finish(r, "OK") /\ \E i : Inserted(i, call[r], found[r])
            \/ Finish(r, "ERROR") /\ UNCHANGED <<row, past>>
         /\ TablesOK' /\ Grows
<1> DEFINE c == call[r]
           user == found[r]
<1>1. /\ pc[r] = "insert" /\ c.kind = "submit" /\ UNCHANGED <<account, providers, favorites, call>>
  BY DEF InsertRow
<1>2. /\ c \in Calls /\ user \in past.accounts \cup {None}
      /\ c.row = "consultation" => user # None
      /\ c.row \in {"volunteer", "message"} => user = None
  BY <1>1, OwnCall DEF TypeOK, Fits
<1>3. user \in Accounts \cup {None}
  BY <1>2 DEF TypeOK, TablesOK
<1>4. CASE user \notin Live \cup {None}
  <2>1. Finish(r, "ERROR") /\ UNCHANGED <<row, past>>
    BY <1>4 DEF InsertRow
  <2>2. TablesOK' /\ Grows
    BY <1>1, <2>1, TablesStay DEF TypeOK, Unchanged
  <2>3. QED
    BY <1>1, <1>2, <2>1, <2>2
<1>5. CASE user \in Live \cup {None}
  <2>1. PICK i \in Records \ ids :
          /\ row' = [j \in ids \cup {i} |-> IF j = i THEN NewRow(c, user) ELSE row[j]]
          /\ past' = IF BeingErased(user) THEN [past EXCEPT !.late = @ \cup {i}] ELSE past
          /\ Finish(r, "OK")
    BY <1>5, Zenon DEF InsertRow, BeingErased
  <2>2. ids' = ids \cup {i} /\ row'[i] = NewRow(c, user) /\ \A j \in ids : row'[j] = row[j]
    BY <2>1 DEF ids
  <2>3. \A j \in ids : row[j] \in Row /\ row[j].holds \subseteq Personal(row[j].kind)
    BY RowFields
  <2>4. /\ NewRow(c, user) \in Row
        /\ NewRow(c, user).holds \subseteq Personal(NewRow(c, user).kind)
    BY <1>1, <1>2, <1>3, NewRowFields
  <2>5. row' \in [ids' -> Row]
    BY <2>1, <2>2, <2>3, <2>4
  <2>6. /\ past'.accounts = past.accounts /\ past'.erased = past.erased
        /\ past'.late = IF BeingErased(user) THEN past.late \cup {i} ELSE past.late
        /\ past' = [accounts |-> past.accounts, late |-> past'.late, erased |-> past.erased]
    BY <2>1 DEF TypeOK, TablesOK
  <2>7. TablesOK' /\ Grows
    <3>1. \A j \in ids' : row'[j].holds \subseteq Personal(row'[j].kind)
      BY <2>2, <2>3, <2>4
    <3>2. past' \in [accounts : SUBSET Accounts, late : SUBSET ids', erased : [Requests -> SUBSET ids']]
      BY <2>2, <2>6 DEF TypeOK, TablesOK
    <3>3. ids' \subseteq Records /\ providers' \subseteq Providers
      BY <1>1, <2>2 DEF TypeOK, TablesOK
    <3>4. QED
      BY <1>1, <2>2, <2>5, <2>6, <3>1, <3>2, <3>3, RowsWritten DEF TypeOK
  <2>8. Inserted(i, c, user)
    BY <1>5, <2>2, <2>5, <2>6 DEF Inserted
  <2>9. QED
    BY <1>1, <1>2, <2>1, <2>7, <2>8
<1>6. QED
  BY <1>4, <1>5

\* What the back office leaves of a row.
SamePerson(x, y) ==
  x.kind = y.kind /\ x.user = y.user /\ x.address = y.address /\ x.holds = y.holds

\* The rows of whom are what they were.
BackOffice ==
  /\ UNCHANGED <<account, favorites, past>> /\ ids' = ids
  /\ \A i \in ids : SamePerson(row'[i], row[i])

LEMMA BackOfficeTables ==
  ASSUME TypeOK, BackOffice, row' \in [ids -> Row], providers' \subseteq Providers
  PROVE  TablesOK' /\ Grows
<1>1. \A i \in ids : row'[i].holds \subseteq Personal(row'[i].kind)
  BY RowFields DEF BackOffice, SamePerson
<1>2. QED
  BY <1>1, RowsWritten, PastLater DEF TypeOK, TablesOK, BackOffice

LEMMA StatusMakes ==
  ASSUME TypeOK, NEW r \in Requests, WriteStatus(r)
  PROVE  /\ pc[r] = "write" /\ call[r] \in Calls /\ call[r].kind = "status"
         /\ UNCHANGED <<providers, call>> /\ Finish(r, "OK")
         /\ BackOffice /\ TablesOK' /\ Grows
         /\ \A i \in ids : /\ i # call[r].id => row'[i] = row[i]
                           /\ i = call[r].id => row'[i].status = call[r].to
<1> DEFINE id == call[r].id
           to == call[r].to
<1>1. /\ pc[r] = "write" /\ call[r].kind = "status" /\ Finish(r, "OK")
      /\ UNCHANGED <<account, providers, favorites, call, past>>
      /\ row' = [row EXCEPT ![id].status = to]
  BY DEF WriteStatus
<1>2. call[r] \in Calls /\ id \in ids
  BY <1>1, OwnCall DEF TypeOK, Fits
<1>3. to \in Statuses
  BY <1>1, <1>2, CallFields
<1>4. row' = [row EXCEPT ![id] = [row[id] EXCEPT !.status = to]] /\ ids' = ids
  BY <1>1 DEF ids
<1>5. /\ [row[id] EXCEPT !.status = to] \in Row
      /\ SamePerson([row[id] EXCEPT !.status = to], row[id])
      /\ [row[id] EXCEPT !.status = to].status = to
  BY <1>2, <1>3, RowFields DEF Row, SamePerson
<1>6. /\ row' \in [ids -> Row] /\ \A i \in ids : i # id => row'[i] = row[i]
      /\ row'[id] = [row[id] EXCEPT !.status = to]
  BY <1>2, <1>4, <1>5 DEF TypeOK, TablesOK
<1>7. BackOffice
  BY <1>1, <1>4, <1>5, <1>6 DEF BackOffice, SamePerson
<1>8. QED
  BY <1>1, <1>2, <1>5, <1>6, <1>7, BackOfficeTables DEF TypeOK, TablesOK

LEMMA ScheduleMakes ==
  ASSUME TypeOK, NEW r \in Requests, WriteSchedule(r)
  PROVE  /\ pc[r] = "write" /\ call[r] \in Calls /\ call[r].kind = "schedule"
         /\ UNCHANGED <<providers, call>>
         /\ Finish(r, "OK") \/ Finish(r, "ERROR")
         /\ BackOffice /\ TablesOK' /\ Grows
         /\ \A i \in ids : \/ row'[i] = row[i]
                           \/ row'[i].slot /\ row'[i].provider \in providers
<1> DEFINE id == call[r].id
           p == call[r].provider
           x == [row[id] EXCEPT !.provider = p, !.slot = TRUE, !.status = "SCHEDULED"]
<1>1. /\ pc[r] = "write" /\ call[r].kind = "schedule"
      /\ UNCHANGED <<account, providers, favorites, call, past>>
  BY DEF WriteSchedule
<1>2. call[r] \in Calls /\ id \in ids
  BY <1>1, OwnCall DEF TypeOK, Fits
<1>3. CASE p \in providers
  <2>1. row' = [row EXCEPT ![id] = x] /\ Finish(r, "OK")
    BY <1>3 DEF WriteSchedule
  <2>2. x \in Row /\ SamePerson(x, row[id]) /\ x.slot /\ x.provider = p
    <3>1. p \in Providers /\ row[id] \in Row
      BY <1>2, <1>3, RowFields DEF TypeOK, TablesOK
    <3>2. QED
      BY <3>1 DEF Row, SamePerson, Statuses
  <2>3. /\ ids' = ids /\ row' \in [ids -> Row] /\ row'[id] = x
        /\ \A i \in ids : i # id => row'[i] = row[i]
    <3> HIDE DEF x
    <3>1. QED
      BY <1>2, <2>1, <2>2 DEF TypeOK, TablesOK, ids
  <2>4. BackOffice
    BY <1>1, <2>2, <2>3 DEF BackOffice, SamePerson
  <2>5. TablesOK' /\ Grows
    BY <1>1, <2>3, <2>4, BackOfficeTables DEF TypeOK, TablesOK
  <2>6. QED
    <3> HIDE DEF x
    <3>1. QED
      BY <1>1, <1>2, <1>3, <2>1, <2>2, <2>3, <2>4, <2>5
<1>4. CASE p \notin providers
  <2>1. Finish(r, "ERROR") /\ UNCHANGED row
    BY <1>4 DEF WriteSchedule
  <2>2. BackOffice
    BY <1>1, <2>1 DEF BackOffice, SamePerson, ids
  <2>3. QED
    BY <1>1, <1>2, <2>1, <2>2, BackOfficeTables DEF TypeOK, TablesOK
<1>5. QED
  BY <1>3, <1>4

LEMMA RemoveMakes ==
  ASSUME TypeOK, NEW p \in Providers, RemoveProvider(p)
  PROVE  /\ UNCHANGED <<pc, call, found, answer>> /\ providers' = providers \ {p}
         /\ p \in providers /\ BackOffice /\ TablesOK' /\ Grows
         /\ \A i \in ids : row'[i].status = row[i].status /\ row'[i].slot = row[i].slot
<1>1. /\ UNCHANGED <<account, favorites, pc, call, found, answer, past>>
      /\ p \in providers /\ providers' = providers \ {p}
      /\ row' = [i \in ids |-> [row[i] EXCEPT !.provider = IF @ = p THEN None ELSE @]]
  BY DEF RemoveProvider
<1>2. ids' = ids
  BY <1>1 DEF ids
<1>3. ASSUME NEW i \in ids
      PROVE  /\ row'[i] \in Row /\ SamePerson(row'[i], row[i])
             /\ row'[i].status = row[i].status /\ row'[i].slot = row[i].slot
  <2>1. row'[i] = [row[i] EXCEPT !.provider = IF row[i].provider = p THEN None ELSE row[i].provider]
    BY <1>1, RowFields
  <2>2. QED
    BY <2>1, RowFields DEF Row, SamePerson
<1>4. row' \in [ids -> Row]
  BY <1>1, <1>3
<1>5. BackOffice
  BY <1>1, <1>2, <1>3 DEF BackOffice
<1>6. QED
  BY <1>1, <1>3, <1>4, <1>5, BackOfficeTables DEF TypeOK, TablesOK

\* A call of the back office, as far as it is asked.
LEMMA BackOfficeType ==
  ASSUME TypeOK, NEW r \in Requests
  PROVE  /\ \A id \in Records, to \in Statuses : FindForStatus(r, id, to) => TypeOK'
         /\ \A id \in Records, p \in Providers : FindForSchedule(r, id, p) => TypeOK'
         /\ CheckProvider(r) => TypeOK'
         /\ WriteStatus(r) \/ WriteSchedule(r) => TypeOK'
<1> USE DEF TypeOK
<1>1. {"write", "provider"} \subseteq Statements /\ Answers \ {"none"} = {"OK", "NOT_FOUND", "REFUSED", "ERROR"}
  BY DEF Statements, Answers
<1>2. ASSUME NEW id \in Records, NEW to \in Statuses, FindForStatus(r, id, to) PROVE TypeOK'
  <2> DEFINE c == [kind |-> "status", id |-> id, to |-> to]
  <2>1. /\ pc[r] = "idle" /\ call' = [call EXCEPT ![r] = c] /\ TablesOK' /\ Grows
        /\ c \in Calls /\ c.kind = "status" /\ c.id = id
    BY <1>2, TablesStay, CallMakes DEF FindForStatus, Ask
  <2>2. \/ Finish(r, "NOT_FOUND") \/ Finish(r, "REFUSED")
        \/ id \in ids /\ Proceed(r, "write", None)
    BY <1>2 DEF FindForStatus
  <2> HIDE DEF c
  <2>3. id \in ids => Fits("write", c, None, "none", past'.accounts, ids')
    BY <2>1, CallsAssumption DEF Fits, Erasing, Grows
  <2>4. QED
    BY <1>1, <2>1, <2>2, <2>3, FinishType, ProceedType
<1>3. ASSUME NEW id \in Records, NEW p \in Providers, FindForSchedule(r, id, p) PROVE TypeOK'
  <2> DEFINE c == [kind |-> "schedule", id |-> id, provider |-> p]
  <2>1. /\ pc[r] = "idle" /\ call' = [call EXCEPT ![r] = c] /\ TablesOK' /\ Grows
        /\ c \in Calls /\ c.kind = "schedule" /\ c.id = id
    BY <1>3, TablesStay, CallMakes DEF FindForSchedule, Ask
  <2>2. \/ Finish(r, "NOT_FOUND") \/ Finish(r, "REFUSED")
        \/ id \in ids /\ Proceed(r, "provider", None)
    BY <1>3 DEF FindForSchedule
  <2> HIDE DEF c
  <2>3. id \in ids => Fits("provider", c, None, "none", past'.accounts, ids')
    BY <2>1, CallsAssumption DEF Fits, Erasing, Grows
  <2>4. QED
    BY <1>1, <2>1, <2>2, <2>3, FinishType, ProceedType
<1>4. ASSUME CheckProvider(r) PROVE TypeOK'
  <2>1. /\ pc[r] = "provider" /\ UNCHANGED call /\ TablesOK' /\ Grows
        /\ Finish(r, "REFUSED") \/ Proceed(r, "write", None)
    BY <1>4, TablesStay DEF CheckProvider
  <2>2. /\ call[r] \in Calls /\ call[r].kind = "schedule" /\ call[r].id \in ids
        /\ call' = [call EXCEPT ![r] = call[r]]
    BY <2>1, OwnCall DEF Fits
  <2>3. Fits("write", call[r], None, "none", past'.accounts, ids')
    BY <2>1, <2>2, CallsAssumption DEF Fits, Erasing, Grows
  <2>4. QED
    BY <1>1, <2>1, <2>2, <2>3, FinishType, ProceedType
<1>5. ASSUME WriteStatus(r) \/ WriteSchedule(r) PROVE TypeOK'
  <2>1. /\ pc[r] = "write" /\ UNCHANGED call /\ TablesOK' /\ Grows
        /\ Finish(r, "OK") \/ Finish(r, "ERROR")
    BY <1>5, StatusMakes, ScheduleMakes
  <2>2. call[r] \in Calls /\ call' = [call EXCEPT ![r] = call[r]]
    BY <2>1, OwnCall
  <2>3. QED
    BY <1>1, <2>1, <2>2, FinishType
<1>6. QED
  BY <1>2, <1>3, <1>4, <1>5

LEMMA FavoriteMakes ==
  ASSUME TypeOK, NEW r \in Requests, WriteFavorite(r)
  PROVE  /\ pc[r] = "insert" /\ call[r] \in Calls /\ call[r].kind = "favorite"
         /\ UNCHANGED <<account, row, providers, call, past>>
         /\ Finish(r, "OK") \/ Finish(r, "ERROR")
         /\ \A f \in favorites' : f \in favorites \/ f[1] \in Live
         /\ TablesOK' /\ Grows
<1> DEFINE c == call[r]
<1>1. /\ pc[r] = "insert" /\ c.kind = "favorite" /\ UNCHANGED <<account, row, providers, call, past>>
      /\ Finish(r, "OK") \/ Finish(r, "ERROR")
      /\ \/ c.by \in Live /\ favorites' = favorites \cup {<<c.by, c.item>>}
         \/ favorites' \subseteq favorites
  BY DEF WriteFavorite
<1>2. c \in Calls
  BY <1>1, OwnCall DEF TypeOK
<1>3. c.by \in Accounts /\ c.item \in Items
  BY <1>1, <1>2, CallFields
<1>4. favorites' \subseteq Accounts \X Items
  BY <1>1, <1>3 DEF TypeOK, TablesOK
<1>5. \A f \in favorites' : f \in favorites \/ f[1] \in Live
  BY <1>1
<1>6. QED
  BY <1>1, <1>2, <1>4, <1>5, TablesStay DEF TypeOK

\* The erasure of r goes from one statement to another with the rows of a kind.
Strips(r, now, kind, next) ==
  /\ pc[r] = now /\ UNCHANGED call /\ Unchanged
  /\ Proceed(r, next, found[r] \cup RowsOf(kind, call[r].by))

LEMMA StripMakes ==
  ASSUME NEW r \in Requests
  PROVE  /\ StripBookings(r) => Strips(r, "bookings", "booking", "donations")
         /\ StripDonations(r) => Strips(r, "donations", "donation", "consultations")
         /\ StripConsultations(r) => Strips(r, "consultations", "consultation", "delete")
  BY DEF StripBookings, StripDonations, StripConsultations, StripRows, Strips

LEMMA StrippedFields ==
  ASSUME TypeOK, NEW i \in ids
  PROVE  /\ Stripped(row[i]) \in Row /\ Stripped(row[i]).kind = row[i].kind
         /\ Stripped(row[i]).user = None /\ Stripped(row[i]).address = None
         /\ Stripped(row[i]).holds = row[i].holds \cap {"answers"}
         /\ Stripped(row[i]).status = row[i].status
         /\ Stripped(row[i]).slot = row[i].slot /\ Stripped(row[i]).provider = row[i].provider
  BY RowFields DEF Stripped, Row

\* What is left of the row y of an account that went, which was x: nothing
\* personal if it was stripped, and in no case its account.
Left(y, x, a, stripped) ==
  /\ y \in Row /\ y.kind = x.kind
  /\ y.status = x.status /\ y.slot = x.slot /\ y.provider = x.provider
  /\ stripped => y.user = None /\ y.address = None /\ y.holds = x.holds \cap {"answers"}
  /\ ~ stripped => /\ y.address = x.address /\ y.holds = x.holds
                   /\ y.user = IF x.user = a THEN None ELSE x.user

LEMMA CommitMakes ==
  ASSUME TypeOK, NEW r \in Requests, CommitErasure(r)
  PROVE  /\ pc[r] = "delete" /\ call[r] \in Calls /\ call[r].kind = "erase"
         /\ UNCHANGED <<providers, call, past>>
         /\ \/ /\ call[r].by \in Live /\ Live' = Live \ {call[r].by}
               /\ \A a \in Live' : account'[a] = account[a]
               /\ ids' = ids
               /\ \A i \in ids : Left(row'[i], row[i], call[r].by, i \in found[r])
               /\ favorites' = {f \in favorites : f[1] # call[r].by}
               /\ Finish(r, "OK")
            \/ Finish(r, "ERROR") /\ UNCHANGED <<account, row, favorites>>
         /\ TablesOK' /\ Grows
<1> DEFINE a == call[r].by
<1>1. pc[r] = "delete" /\ UNCHANGED <<providers, call, past>>
  BY DEF CommitErasure
<1>2. call[r] \in Calls /\ call[r].kind = "erase"
  BY <1>1, OwnCall DEF TypeOK, Fits, Erasing
<1>3. CASE a \notin Live
  <2>1. Finish(r, "ERROR") /\ UNCHANGED <<account, row, favorites>>
    BY <1>3 DEF CommitErasure
  <2>2. QED
    BY <1>1, <1>2, <2>1, TablesStay DEF TypeOK, Unchanged
<1>4. CASE a \in Live
  <2>1. /\ account' = [account EXCEPT ![a] = None]
        /\ row' = [i \in ids |-> IF i \in found[r] THEN Stripped(row[i])
                                 ELSE IF row[i].user = a THEN [row[i] EXCEPT !.user = None]
                                 ELSE row[i]]
        /\ favorites' = {f \in favorites : f[1] # a}
        /\ Finish(r, "OK")
    BY <1>4 DEF CommitErasure
  <2>2. /\ Live' = Live \ {a} /\ \A b \in Live' : account'[b] = account[b]
        /\ account' \in [Accounts -> Addresses \cup {None}]
    BY <2>1 DEF TypeOK, TablesOK, Live
  <2>3. ids' = ids
    BY <2>1 DEF ids
  <2>4. ASSUME NEW i \in ids PROVE Left(row'[i], row[i], a, i \in found[r])
    <3>1. CASE i \in found[r]
      BY <2>1, <3>1, StrippedFields DEF Left
    <3>2. CASE i \notin found[r] /\ row[i].user = a
      <4>1. row'[i] = [row[i] EXCEPT !.user = None]
        BY <2>1, <3>2
      <4>2. QED
        BY <3>2, <4>1, RowFields DEF Left, Row
    <3>3. CASE i \notin found[r] /\ row[i].user # a
      <4>1. row'[i] = row[i]
        BY <2>1, <3>3
      <4>2. QED
        BY <3>3, <4>1, RowFields DEF Left
    <3>4. QED
      BY <3>1, <3>2, <3>3
  <2>5. row' \in [ids' -> Row] /\ \A i \in ids' : row'[i].holds \subseteq Personal(row'[i].kind)
    BY <2>1, <2>3, <2>4, RowFields DEF Left
  <2>6. TablesOK' /\ Grows
    BY <1>1, <2>1, <2>2, <2>3, <2>5 DEF TypeOK, TablesOK, Grows
  <2>7. QED
    BY <1>1, <1>2, <1>4, <2>1, <2>2, <2>3, <2>4, <2>6
<1>5. QED
  BY <1>3, <1>4

\* An erasure starts, with the rows of its account on record.
LEMMA EraseMakes ==
  ASSUME TypeOK, NEW r \in Requests, NEW a \in Accounts, FindForErasure(r, a)
  PROVE  /\ pc[r] = "idle" /\ a \in Live
         /\ call' = [call EXCEPT ![r] = [kind |-> "erase", by |-> a]]
         /\ UNCHANGED <<account, row, providers, favorites>>
         /\ Proceed(r, "bookings", {})
         /\ past'.accounts = past.accounts /\ past'.late = past.late
         /\ past'.erased = [past.erased EXCEPT ![r] = {i \in ids : row[i].user = a}]
         /\ TablesOK' /\ Grows
<1>1. /\ pc[r] = "idle" /\ a \in Live
      /\ call' = [call EXCEPT ![r] = [kind |-> "erase", by |-> a]]
      /\ UNCHANGED <<account, row, providers, favorites>>
      /\ Proceed(r, "bookings", {})
      /\ past' = [past EXCEPT !.erased[r] = {i \in ids : row[i].user = a}]
  BY DEF FindForErasure, Ask
<1>2. past' = [accounts |-> past.accounts, late |-> past.late,
               erased |-> [past.erased EXCEPT ![r] = {i \in ids : row[i].user = a}]]
  BY <1>1 DEF TypeOK, TablesOK
<1>3. past' \in [accounts : SUBSET Accounts, late : SUBSET ids, erased : [Requests -> SUBSET ids]]
  BY <1>2 DEF TypeOK, TablesOK
<1>4. ids' = ids
  BY <1>1 DEF ids
<1>5. QED
  BY <1>1, <1>2, <1>3, <1>4, RowsWritten DEF TypeOK, TablesOK

LEMMA RemoveType ==
  ASSUME TypeOK, NEW p \in Providers, RemoveProvider(p)
  PROVE  TypeOK'
<1>1. UNCHANGED <<pc, call, found, answer>> /\ TablesOK' /\ Grows
  BY RemoveMakes
<1>2. \A r \in Requests : Fits(pc[r], call[r], found[r], answer[r], past.accounts, ids)'
  BY <1>1 DEF TypeOK, RequestsOK, Grows, Fits
<1>3. QED
  BY <1>1, <1>2 DEF TypeOK, RequestsOK

LEMMA EndsType ==
  ASSUME TypeOK, NEW r \in Requests
  PROVE  /\ InsertRow(r) => TypeOK'
         /\ \A a \in Accounts, x \in Items : StartFavorite(r, a, x) => TypeOK'
         /\ WriteFavorite(r) => TypeOK'
         /\ \A a \in Accounts : FindForErasure(r, a) => TypeOK'
         /\ StripBookings(r) \/ StripDonations(r) \/ StripConsultations(r) => TypeOK'
         /\ CommitErasure(r) => TypeOK'
<1> USE DEF TypeOK
<1>1. /\ {"insert"} \cup Erasing \subseteq Statements /\ {"OK", "ERROR"} \subseteq Answers \ {"none"}
      /\ "done" \notin Erasing /\ "idle" \notin Erasing
  BY DEF Statements, Answers, Erasing
<1>2. ASSUME InsertRow(r) PROVE TypeOK'
  <2>1. /\ pc[r] = "insert" /\ call[r] \in Calls /\ UNCHANGED call /\ TablesOK' /\ Grows
        /\ Finish(r, "OK") \/ Finish(r, "ERROR")
    BY <1>2, InsertMakes
  <2>2. QED
    BY <1>1, <2>1, OwnCall, FinishType
<1>3. ASSUME NEW a \in Accounts, NEW x \in Items, StartFavorite(r, a, x) PROVE TypeOK'
  <2> DEFINE c == [kind |-> "favorite", by |-> a, item |-> x]
  <2>1. /\ pc[r] = "idle" /\ call' = [call EXCEPT ![r] = c] /\ TablesOK' /\ Grows
        /\ Proceed(r, "insert", None) /\ c \in Calls /\ c.kind = "favorite"
    BY <1>3, TablesStay, CallMakes DEF StartFavorite, Ask
  <2> HIDE DEF c
  <2>2. Fits("insert", c, None, "none", past'.accounts, ids')
    BY <2>1, CallsAssumption DEF Fits, Erasing
  <2>3. QED
    BY <1>1, <2>1, <2>2, ProceedType
<1>4. ASSUME WriteFavorite(r) PROVE TypeOK'
  <2>1. /\ pc[r] = "insert" /\ call[r] \in Calls /\ UNCHANGED call /\ TablesOK' /\ Grows
        /\ Finish(r, "OK") \/ Finish(r, "ERROR")
    BY <1>4, FavoriteMakes
  <2>2. QED
    BY <1>1, <2>1, OwnCall, FinishType
<1>5. ASSUME NEW a \in Accounts, FindForErasure(r, a) PROVE TypeOK'
  <2> DEFINE c == [kind |-> "erase", by |-> a]
  <2>1. /\ pc[r] = "idle" /\ a \in Live /\ call' = [call EXCEPT ![r] = c]
        /\ TablesOK' /\ Grows /\ Proceed(r, "bookings", {})
        /\ c \in Calls /\ c.kind = "erase" /\ c.by = a
    BY <1>5, EraseMakes, CallMakes
  <2> HIDE DEF c
  <2>2. Fits("bookings", c, {}, "none", past'.accounts, ids')
    BY <2>1, CallsAssumption DEF Fits, Erasing, TablesOK, Grows
  <2>3. QED
    BY <1>1, <2>1, <2>2, ProceedType DEF Erasing
<1>6. ASSUME StripBookings(r) \/ StripDonations(r) \/ StripConsultations(r) PROVE TypeOK'
  <2>1. PICK now \in Erasing, next \in Erasing, kind \in RowKinds : Strips(r, now, kind, next)
    BY <1>6, StripMakes DEF Erasing, RowKinds
  <2>2. /\ pc[r] = now /\ UNCHANGED call /\ Unchanged /\ TablesOK' /\ Grows
        /\ Proceed(r, next, found[r] \cup RowsOf(kind, call[r].by))
    BY <2>1, TablesStay DEF Strips
  <2>3. /\ call[r] \in Calls /\ call[r].kind = "erase" /\ found[r] \subseteq ids
        /\ call[r].by \in past.accounts /\ call' = [call EXCEPT ![r] = call[r]]
    BY <1>1, <2>2, OwnCall DEF Fits
  <2>4. Fits(next, call[r], found[r] \cup RowsOf(kind, call[r].by), "none", past'.accounts, ids')
    BY <1>1, <2>2, <2>3, CallsAssumption DEF Fits, Erasing, RowsOf, Grows
  <2>5. QED
    BY <1>1, <2>2, <2>3, <2>4, ProceedType
<1>7. ASSUME CommitErasure(r) PROVE TypeOK'
  <2>1. /\ pc[r] = "delete" /\ call[r] \in Calls /\ UNCHANGED call /\ TablesOK' /\ Grows
        /\ Finish(r, "OK") \/ Finish(r, "ERROR")
    BY <1>7, CommitMakes
  <2>2. QED
    BY <1>1, <2>1, OwnCall, FinishType
<1>8. QED
  BY <1>2, <1>3, <1>4, <1>5, <1>6, <1>7

LEMMA InitType == Init => TypeOK
<1> SUFFICES ASSUME Init PROVE TypeOK
  OBVIOUS
<1>1. ids = {} /\ row \in [ids -> Row]
  BY DEF Init, ids
<1>2. Live = {} /\ account \in [Accounts -> Addresses \cup {None}]
  BY DEF Init, Live
<1>3. TablesOK
  BY <1>1, <1>2 DEF Init, TablesOK
<1>4. ASSUME NEW r \in Requests PROVE Fits(pc[r], call[r], found[r], answer[r], past.accounts, ids)
  BY DEF Init, Fits, Erasing
<1>5. QED
  BY <1>3, <1>4 DEF Init, TypeOK, RequestsOK, Statements, Answers

LEMMA NextType == TypeOK /\ [Next]_vars => TypeOK'
<1> SUFFICES ASSUME TypeOK, [Next]_vars PROVE TypeOK'
  OBVIOUS
<1>1. CASE Next
  BY <1>1, SubmitType, AccountStepsType, RemoveType, BackOfficeType, EndsType DEF Next
<1>2. CASE UNCHANGED vars
  BY <1>2 DEF vars, TypeOK, TablesOK, RequestsOK, ids, Live, Fits
<1>3. QED
  BY <1>1, <1>2

\* A row never has columns its table lacks, a request never proceeds without what
\* it read, and nothing is remembered of a row or an account that was never there
\* (the columns of the five tables, and the locals of their handlers).
THEOREM TypeCorrect == Spec => []TypeOK
<1>1. QED
  BY InitType, NextType, PTL DEF Spec

-----------------------------------------------------------------------------
(* How the steps of a request move it *)

LEMMA MovesOwn ==
  ASSUME RequestsOK, NEW r \in Requests, NEW c, NEW p, NEW f, NEW a, Moves(r, c, p, f, a)
  PROVE  /\ call'[r] = c /\ pc'[r] = p /\ found'[r] = f /\ answer'[r] = a
         /\ \A q \in Requests : q # r => /\ call'[q] = call[q] /\ pc'[q] = pc[q]
                                         /\ found'[q] = found[q] /\ answer'[q] = answer[q]
  BY DEF RequestsOK, Moves

LEMMA FinishMoves ==
  ASSUME RequestsOK, NEW r \in Requests, pc[r] \notin {"idle", "done"}, UNCHANGED call,
         Finish(r, "OK") \/ Finish(r, "ERROR")
  PROVE  \E a : Moves(r, call[r], "done", None, a)
  BY OwnCall, Moving

LEMMA Asking ==
  ASSUME TypeOK, NEW r \in Requests
  PROVE  /\ \A c \in Calls : Submit(r, c) =>
              /\ Unchanged /\ pc[r] = "idle" /\ c.kind = "submit"
              /\ \E p, f : /\ Moves(r, c, p, f, "none") /\ p \in {"upsert", "insert"}
                           /\ p = "insert" => c.row # "consultation"
         /\ \A id \in Records, to \in Statuses : FindForStatus(r, id, to) =>
              /\ Unchanged /\ pc[r] = "idle"
              /\ \E p, a : /\ Moves(r, [kind |-> "status", id |-> id, to |-> to], p, None, a)
                           /\ p = "done" \/ (p = "write" /\ to # "SCHEDULED")
         /\ \A id \in Records, x \in Providers : FindForSchedule(r, id, x) =>
              /\ Unchanged /\ pc[r] = "idle"
              /\ \E p, a : /\ Moves(r, [kind |-> "schedule", id |-> id, provider |-> x], p, None, a)
                           /\ p \in {"done", "provider"}
         /\ \A a \in Accounts, x \in Items : StartFavorite(r, a, x) =>
              /\ Unchanged /\ pc[r] = "idle"
              /\ Moves(r, [kind |-> "favorite", by |-> a, item |-> x], "insert", None, "none")
<1>1. pc[r] = "idle" => pc[r] # "done"
  OBVIOUS
<1>2. RequestsOK
  BY DEF TypeOK
<1>3. ASSUME NEW c \in Calls, Submit(r, c)
      PROVE  \E p, f : /\ Moves(r, c, p, f, "none") /\ p \in {"upsert", "insert"}
                       /\ p = "insert" => c.row # "consultation"
  <2>1. pc[r] = "idle" /\ call' = [call EXCEPT ![r] = c]
    BY <1>3 DEF Submit, Ask
  <2>2. \/ Proceed(r, "upsert", None)
        \/ c.row # "consultation" /\ \E f : Proceed(r, "insert", f)
    BY <1>3 DEF Submit
  <2>3. CASE Proceed(r, "upsert", None)
    <3>1. Moves(r, c, "upsert", None, "none")
      BY <1>1, <1>2, <2>1, <2>3, Moving
    <3>2. QED
      BY <3>1
  <2>4. CASE c.row # "consultation" /\ \E f : Proceed(r, "insert", f)
    <3>1. \E f : Moves(r, c, "insert", f, "none")
      BY <1>1, <1>2, <2>1, <2>4, Moving
    <3>2. QED
      BY <2>4, <3>1
  <2>5. QED
    BY <2>2, <2>3, <2>4
<1>4. ASSUME NEW id \in Records, NEW to \in Statuses, FindForStatus(r, id, to)
      PROVE  \E p, a : /\ Moves(r, [kind |-> "status", id |-> id, to |-> to], p, None, a)
                       /\ p = "done" \/ (p = "write" /\ to # "SCHEDULED")
  <2>1. pc[r] = "idle" /\ call' = [call EXCEPT ![r] = [kind |-> "status", id |-> id, to |-> to]]
    BY <1>4 DEF FindForStatus, Ask
  <2>2. \/ \E a : Finish(r, a)
        \/ to # "SCHEDULED" /\ Proceed(r, "write", None)
    BY <1>4 DEF FindForStatus, Accepted
  <2>3. QED
    BY <1>2, <2>1, <2>2, Moving
<1>5. ASSUME NEW id \in Records, NEW x \in Providers, FindForSchedule(r, id, x)
      PROVE  \E p, a : /\ Moves(r, [kind |-> "schedule", id |-> id, provider |-> x], p, None, a)
                       /\ p \in {"done", "provider"}
  <2>1. pc[r] = "idle" /\ call' = [call EXCEPT ![r] = [kind |-> "schedule", id |-> id, provider |-> x]]
    BY <1>5 DEF FindForSchedule, Ask
  <2>2. (\E a : Finish(r, a)) \/ Proceed(r, "provider", None)
    BY <1>5 DEF FindForSchedule
  <2>3. QED
    BY <1>2, <2>1, <2>2, Moving
<1>6. ASSUME NEW a \in Accounts, NEW x \in Items, StartFavorite(r, a, x)
      PROVE  Moves(r, [kind |-> "favorite", by |-> a, item |-> x], "insert", None, "none")
  <2>1. /\ pc[r] = "idle" /\ call' = [call EXCEPT ![r] = [kind |-> "favorite", by |-> a, item |-> x]]
        /\ Proceed(r, "insert", None)
    BY <1>6 DEF StartFavorite, Ask
  <2>2. QED
    BY <1>2, <2>1, Moving
<1>7. QED
  BY <1>3, <1>4, <1>5, <1>6 DEF Submit, FindForStatus, FindForSchedule, StartFavorite, Ask

LEMMA UpsertMakes ==
  ASSUME TypeOK, NEW r \in Requests, Upsert(r)
  PROVE  /\ pc[r] = "upsert" /\ call[r] \in Calls /\ call[r].kind = "submit"
         /\ call[r].row = "consultation" /\ Normalized(call[r].address) \in Addresses
         /\ UNCHANGED <<row, providers, favorites>>
         /\ \E a \in Accounts :
              /\ Moves(r, call[r], "insert", a, "none")
              /\ \/ a \in Holder(Normalized(call[r].address)) /\ UNCHANGED <<account, past>>
                 \/ /\ Holder(Normalized(call[r].address)) = {}
                    /\ Opens(a, Normalized(call[r].address))
<1> DEFINE address == Normalized(call[r].address)
<1>1. pc[r] = "upsert" /\ UNCHANGED <<row, providers, favorites, call>>
  BY DEF Upsert
<1>2. /\ call[r] \in Calls /\ call[r].kind = "submit" /\ call[r].row = "consultation"
      /\ call' = [call EXCEPT ![r] = call[r]] /\ pc[r] # "done"
  BY <1>1, OwnCall DEF TypeOK, Fits
<1>3. address \in Addresses
  BY <1>2, CallFields, NormalAddress
<1>4. \E a \in Accounts : /\ Proceed(r, "insert", a)
                          /\ \/ a \in Holder(address) /\ UNCHANGED <<account, past>>
                             \/ Holder(address) = {} /\ Opens(a, address)
  <2>1. CASE Holder(address) # {}
    <3>1. Holder(address) \subseteq Accounts
      BY DEF Holder, Live
    <3>2. QED
      BY <2>1, <3>1 DEF Upsert
  <2>2. CASE Holder(address) = {}
    BY <2>2 DEF Upsert, Opens
  <2>3. QED
    BY <2>1, <2>2
<1>5. QED
  BY <1>1, <1>2, <1>3, <1>4, Moving DEF TypeOK

LEMMA CheckMakes ==
  ASSUME TypeOK, NEW r \in Requests, CheckProvider(r)
  PROVE  /\ Unchanged /\ pc[r] = "provider" /\ call[r] \in Calls /\ call[r].kind = "schedule"
         /\ \E p, a : Moves(r, call[r], p, None, a) /\ p \in {"done", "write"}
<1>1. /\ Unchanged /\ pc[r] = "provider" /\ UNCHANGED call
      /\ Finish(r, "REFUSED") \/ Proceed(r, "write", None)
  BY DEF CheckProvider
<1>2. /\ call[r] \in Calls /\ call[r].kind = "schedule" /\ pc[r] # "done"
      /\ call' = [call EXCEPT ![r] = call[r]]
  BY <1>1, OwnCall DEF TypeOK, Fits
<1>3. QED
  BY <1>1, <1>2, Moving DEF TypeOK

LEMMA EraseMoves ==
  ASSUME TypeOK, NEW r \in Requests
  PROVE  /\ \A a \in Accounts : FindForErasure(r, a) =>
              Moves(r, [kind |-> "erase", by |-> a], "bookings", {}, "none")
         /\ \A now \in Erasing, next \in Erasing, kind \in RowKinds :
              Strips(r, now, kind, next) =>
                /\ Moves(r, call[r], next, found[r] \cup RowsOf(kind, call[r].by), "none")
                /\ call[r] \in Calls /\ call[r].kind = "erase" /\ found[r] \subseteq ids
                /\ call[r].by \in past.accounts
<1>1. ASSUME NEW a \in Accounts, FindForErasure(r, a)
      PROVE  Moves(r, [kind |-> "erase", by |-> a], "bookings", {}, "none")
  BY <1>1, EraseMakes, Moving DEF TypeOK
<1>2. ASSUME NEW now \in Erasing, NEW next \in Erasing, NEW kind \in RowKinds,
             Strips(r, now, kind, next)
      PROVE  /\ Moves(r, call[r], next, found[r] \cup RowsOf(kind, call[r].by), "none")
             /\ call[r] \in Calls /\ call[r].kind = "erase" /\ found[r] \subseteq ids
             /\ call[r].by \in past.accounts
  <2>1. pc[r] \in Erasing /\ pc[r] \notin {"idle", "done"}
    BY <1>2 DEF Strips, Erasing
  <2>2. /\ call[r] \in Calls /\ call[r].kind = "erase" /\ found[r] \subseteq ids
        /\ call[r].by \in past.accounts
    BY <2>1, OwnCall DEF TypeOK, Fits
  <2>3. /\ Proceed(r, next, found[r] \cup RowsOf(kind, call[r].by))
        /\ call' = [call EXCEPT ![r] = call[r]]
    BY <1>2, <2>1, OwnCall DEF Strips, TypeOK
  <2>4. QED
    BY <2>1, <2>2, <2>3, Moving DEF TypeOK
<1>3. QED
  BY <1>1, <1>2

-----------------------------------------------------------------------------
(* Appointments *)

\* A status write under way never says SCHEDULED.
PlainStatus(p, c) == p = "write" /\ c.kind = "status" => c.to # "SCHEDULED"

ScheduleInv == ScheduledIsArranged /\ \A r \in Requests : PlainStatus(pc[r], call[r])

LEMMA ScheduleMoved ==
  ASSUME TypeOK, ScheduleInv, NEW r \in Requests, NEW c, NEW p, NEW f, NEW a, Moves(r, c, p, f, a),
         PlainStatus(p, c)
  PROVE  \A q \in Requests : PlainStatus(pc[q], call[q])'
<1> SUFFICES ASSUME NEW q \in Requests PROVE PlainStatus(pc'[q], call'[q])
  BY DEF PlainStatus
<1>1. /\ q = r => pc'[q] = p /\ call'[q] = c
      /\ q # r => pc'[q] = pc[q] /\ call'[q] = call[q]
  BY MovesOwn DEF TypeOK
<1>2. QED
  BY <1>1 DEF ScheduleInv

LEMMA ScheduleTables ==
  ASSUME ScheduleInv, UNCHANGED <<row, providers>>
  PROVE  ScheduledIsArranged'
  BY DEF ScheduleInv, ScheduledIsArranged, ids

LEMMA InitSchedule == Init => ScheduleInv
  BY DEF Init, ScheduleInv, ScheduledIsArranged, PlainStatus, ids

LEMMA ScheduleWrites ==
  ASSUME TypeOK, ScheduleInv, NEW r \in Requests
  PROVE  /\ InsertRow(r) => ScheduledIsArranged'
         /\ WriteStatus(r) => ScheduledIsArranged'
         /\ WriteSchedule(r) => ScheduledIsArranged'
         /\ CommitErasure(r) => ScheduledIsArranged'
<1>1. ASSUME InsertRow(r) PROVE ScheduledIsArranged'
  <2>1. CASE \E i : Inserted(i, call[r], found[r])
    <3>1. PICK i : Inserted(i, call[r], found[r])
      BY <2>1
    <3>2. row'[i].status # "SCHEDULED"
      BY <3>1 DEF Inserted, NewRow
    <3>3. QED
      BY <1>1, <3>1, <3>2, InsertMakes DEF Inserted, ScheduleInv, ScheduledIsArranged
  <2>2. CASE UNCHANGED <<row, past>>
    BY <1>1, <2>2, InsertMakes, ScheduleTables
  <2>3. QED
    BY <1>1, <2>1, <2>2, InsertMakes
<1>2. ASSUME WriteStatus(r) PROVE ScheduledIsArranged'
  <2>1. /\ UNCHANGED providers /\ ids' = ids
        /\ \A i \in ids : /\ i # call[r].id => row'[i] = row[i]
                          /\ i = call[r].id => row'[i].status = call[r].to
        /\ pc[r] = "write" /\ call[r].kind = "status"
    BY <1>2, StatusMakes DEF BackOffice
  <2>2. call[r].to # "SCHEDULED"
    BY <2>1 DEF ScheduleInv, PlainStatus
  <2>3. QED
    BY <2>1, <2>2 DEF ScheduleInv, ScheduledIsArranged
<1>3. ASSUME WriteSchedule(r) PROVE ScheduledIsArranged'
  <2>1. /\ UNCHANGED providers /\ ids' = ids
        /\ \A i \in ids : row'[i] = row[i] \/ (row'[i].slot /\ row'[i].provider \in providers)
    BY <1>3, ScheduleMakes DEF BackOffice
  <2>2. None \notin providers
    BY NullAssumption DEF TypeOK, TablesOK
  <2>3. QED
    BY <2>1, <2>2 DEF ScheduleInv, ScheduledIsArranged
<1>4. ASSUME CommitErasure(r) PROVE ScheduledIsArranged'
  <2>1. /\ UNCHANGED providers /\ ids' = ids
        /\ \A i \in ids : /\ row'[i].status = row[i].status /\ row'[i].slot = row[i].slot
                          /\ row'[i].provider = row[i].provider
    BY <1>4, CommitMakes DEF Left, ids
  <2>2. QED
    BY <2>1 DEF ScheduleInv, ScheduledIsArranged
<1>5. QED
  BY <1>1, <1>2, <1>3, <1>4

LEMMA NextSchedule == TypeOK /\ ScheduleInv /\ [Next]_vars => ScheduleInv'
<1> SUFFICES ASSUME TypeOK, ScheduleInv, [Next]_vars PROVE ScheduleInv'
  OBVIOUS
<1> DEFINE Plain == \A q \in Requests : PlainStatus(pc[q], call[q])'
<1>1. CASE UNCHANGED vars
  BY <1>1 DEF vars, ScheduleInv, ScheduledIsArranged, PlainStatus, ids
<1>2. ASSUME NEW address \in Addresses, SignIn(address) PROVE ScheduleInv'
  BY <1>2, ScheduleTables DEF SignIn, ScheduleInv, PlainStatus
<1>3. ASSUME NEW p \in Providers, RemoveProvider(p) PROVE ScheduleInv'
  <2>1. /\ UNCHANGED <<pc, call>> /\ ids' = ids /\ providers' = providers \ {p}
        /\ \A i \in ids : row'[i].status = row[i].status /\ row'[i].slot = row[i].slot
    BY <1>3, RemoveMakes DEF BackOffice
  <2>2. providers' # Providers
    BY <2>1
  <2>3. QED
    BY <2>1, <2>2 DEF ScheduleInv, ScheduledIsArranged, PlainStatus
<1>4. ASSUME NEW r \in Requests, NEW c \in Calls, Submit(r, c) PROVE ScheduleInv'
  <2>1. Plain
    BY <1>4, Asking, ScheduleMoved DEF PlainStatus
  <2>2. QED
    BY <1>4, <2>1, Asking, ScheduleTables DEF Unchanged, ScheduleInv
<1>5. ASSUME NEW r \in Requests, Upsert(r) PROVE ScheduleInv'
  <2>1. Plain
    BY <1>5, UpsertMakes, ScheduleMoved DEF PlainStatus
  <2>2. QED
    BY <1>5, <2>1, UpsertMakes, ScheduleTables DEF ScheduleInv
<1>6. ASSUME NEW r \in Requests, InsertRow(r) \/ WriteStatus(r) \/ WriteSchedule(r) \/ CommitErasure(r)
      PROVE  ScheduleInv'
  <2>1. /\ pc[r] \notin {"idle", "done"} /\ UNCHANGED call
        /\ Finish(r, "OK") \/ Finish(r, "ERROR")
    BY <1>6, InsertMakes, StatusMakes, ScheduleMakes, CommitMakes
  <2>2. \E a : Moves(r, call[r], "done", None, a)
    BY <2>1, FinishMoves DEF TypeOK
  <2>3. Plain
    BY <2>2, ScheduleMoved DEF PlainStatus
  <2>4. QED
    BY <1>6, <2>3, ScheduleWrites DEF ScheduleInv
<1>7. ASSUME NEW r \in Requests, NEW id \in Records, NEW to \in Statuses, FindForStatus(r, id, to)
      PROVE  ScheduleInv'
  <2>1. Plain
    BY <1>7, Asking, ScheduleMoved DEF PlainStatus
  <2>2. QED
    BY <1>7, <2>1, Asking, ScheduleTables DEF Unchanged, ScheduleInv
<1>8. ASSUME NEW r \in Requests, NEW id \in Records, NEW p \in Providers, FindForSchedule(r, id, p)
      PROVE  ScheduleInv'
  <2>1. Plain
    BY <1>8, Asking, ScheduleMoved DEF PlainStatus
  <2>2. QED
    BY <1>8, <2>1, Asking, ScheduleTables DEF Unchanged, ScheduleInv
<1>9. ASSUME NEW r \in Requests, CheckProvider(r) PROVE ScheduleInv'
  <2>1. Plain
    BY <1>9, CheckMakes, ScheduleMoved DEF PlainStatus
  <2>2. QED
    BY <1>9, <2>1, CheckMakes, ScheduleTables DEF Unchanged, ScheduleInv
<1>10. ASSUME NEW r \in Requests, NEW a \in Accounts, NEW x \in Items, StartFavorite(r, a, x)
       PROVE  ScheduleInv'
  <2>1. Plain
    BY <1>10, Asking, ScheduleMoved DEF PlainStatus
  <2>2. QED
    BY <1>10, <2>1, Asking, ScheduleTables DEF Unchanged, ScheduleInv
<1>11. ASSUME NEW r \in Requests, WriteFavorite(r) PROVE ScheduleInv'
  <2>1. /\ pc[r] \notin {"idle", "done"} /\ UNCHANGED <<call, row, providers>>
        /\ Finish(r, "OK") \/ Finish(r, "ERROR")
    BY <1>11, FavoriteMakes
  <2>2. \E a : Moves(r, call[r], "done", None, a)
    BY <2>1, FinishMoves DEF TypeOK
  <2>3. QED
    BY <2>1, <2>2, ScheduleMoved, ScheduleTables DEF PlainStatus, ScheduleInv
<1>12. ASSUME NEW r \in Requests, NEW a \in Accounts, FindForErasure(r, a) PROVE ScheduleInv'
  <2>1. Plain
    BY <1>12, EraseMoves, ScheduleMoved DEF PlainStatus
  <2>2. QED
    BY <1>12, <2>1, EraseMakes, ScheduleTables DEF ScheduleInv
<1>13. ASSUME NEW r \in Requests, StripBookings(r) \/ StripDonations(r) \/ StripConsultations(r)
       PROVE  ScheduleInv'
  <2>1. PICK now \in Erasing, next \in Erasing, kind \in RowKinds : Strips(r, now, kind, next)
    BY <1>13, StripMakes DEF Erasing, RowKinds
  <2>2. Moves(r, call[r], next, found[r] \cup RowsOf(kind, call[r].by), "none") /\ next # "write"
    BY <2>1, EraseMoves DEF Erasing
  <2>3. Plain
    BY <2>2, ScheduleMoved DEF PlainStatus
  <2>4. QED
    BY <2>1, <2>3, ScheduleTables DEF Strips, Unchanged, ScheduleInv
<1>14. QED
  BY <1>1, <1>2, <1>3, <1>4, <1>5, <1>6, <1>7, <1>8, <1>9, <1>10, <1>11, <1>12, <1>13 DEF Next

\* However status updates, appointments, erasures and the removal of providers
\* interleave, a consultation that says SCHEDULED has its time on record, and its
\* provider unless one was removed (schedule and updateStatus of consultations).
THEOREM AppointmentsStand == Spec => []ScheduledIsArranged
<1>1. Spec => [](TypeOK /\ ScheduleInv)
  BY InitType, NextType, InitSchedule, NextSchedule, PTL DEF Spec
<1>2. TypeOK /\ ScheduleInv => ScheduledIsArranged
  BY DEF ScheduleInv
<1>3. QED
  BY <1>1, <1>2, PTL

-----------------------------------------------------------------------------
(* The people of the rows *)

\* Rows and favourites name accounts that live, and only the rows of the three
\* tables an erasure goes through name any.
PeopleInv ==
  /\ \A i \in ids : /\ row[i].user \in Live \cup {None}
                    /\ row[i].user # None => row[i].kind \in {"booking", "donation", "consultation"}
  /\ \A f \in favorites : f[1] \in Live

\* The tables an erasure has been through by its next statement.
Through(p) ==
  CASE p = "bookings" -> {}
    [] p = "donations" -> {"booking"}
    [] p = "consultations" -> {"booking", "donation"}
    [] p = "delete" -> {"booking", "donation", "consultation"}

\* An erasure of account a that went through the tables of some kinds and found the
\* rows f: those are a's or nobody's, and while a lives the rows it had at first are
\* still its own, and found as far as they are of those kinds; any row of its that
\* was not there at first is known to be late.
Pursued(a, f, erased, kinds) ==
  /\ \A i \in f : row[i].user \in {a, None}
  /\ a \in Live =>
       /\ \A i \in erased : row[i].user = a /\ (row[i].kind \in kinds => i \in f)
       /\ \A i \in ids : row[i].user = a => i \in erased \cup past.late

Erases(r) ==
  /\ call[r] = NoCall \/ call[r].kind # "erase" => past.erased[r] = {}
  /\ answer[r] = "OK" =>
       \A i \in past.erased[r] : row[i].user = None /\ row[i].holds \cap Named = {}
  /\ pc[r] \in Erasing =>
       Pursued(call[r].by, found[r], past.erased[r], Through(pc[r]))

ErasureInv == PeopleInv /\ \A r \in Requests : Erases(r)

\* What every step leaves to whoever works with a row or an account it knows of:
\* rows stay, lose what is personal and never gain it, and lose their account only
\* when it goes; an account that went never lives again; a row that is new belongs
\* to nobody who is being erased, unless it is known to be late.
World ==
  /\ ids \subseteq ids' /\ past.late \subseteq past'.late
  /\ past.accounts \subseteq past'.accounts
  /\ Live' \cap past.accounts \subseteq Live
  /\ \A a \in Live \cap Live' : account'[a] = account[a]
  /\ \A i \in ids : /\ row'[i].kind = row[i].kind /\ row'[i].holds \subseteq row[i].holds
                    /\ \/ row'[i].user = row[i].user
                       \/ row'[i].user = None /\ row[i].user \notin Live'
                    /\ row'[i].address \in {row[i].address, None}
  /\ \A i \in ids' \ ids : BeingErased(row'[i].user) => i \in past'.late

\* An account loses its address with its rows, but for late ones.
Detached ==
  \A i \in ids : /\ row'[i].user \in Live' \cup {None}
                 /\ row'[i].address # None /\ row'[i].user # row[i].user => i \in past.late

LEMMA WorldStays ==
  ASSUME TypeOK, ErasureInv, UNCHANGED <<account, row>>, past'.accounts = past.accounts,
         past'.late = past.late
  PROVE  World /\ Detached
  BY DEF World, Detached, ErasureInv, PeopleInv, ids, Live

LEMMA WorldBackOffice ==
  ASSUME TypeOK, ErasureInv, BackOffice
  PROVE  World /\ Detached
  BY DEF World, Detached, ErasureInv, PeopleInv, BackOffice, SamePerson, Live

LEMMA WorldOpens ==
  ASSUME TypeOK, ErasureInv, NEW a, NEW address \in Addresses, Opens(a, address),
         UNCHANGED <<row, providers, favorites>>
  PROVE  World /\ Detached
<1>1. /\ Live' = Live \cup {a} /\ a \notin past.accounts /\ ids' = ids
      /\ past'.accounts = past.accounts \cup {a} /\ past'.late = past.late
      /\ \A b \in Live : account'[b] = account[b]
  BY OpensType DEF Opens, TypeOK, ids
<1>2. QED
  BY <1>1 DEF World, Detached, ErasureInv, PeopleInv

LEMMA WorldInserted ==
  ASSUME TypeOK, ErasureInv, NEW i, NEW c \in Calls, c.kind = "submit",
         NEW user \in Accounts \cup {None},
         Inserted(i, c, user), UNCHANGED account
  PROVE  World /\ Detached
<1>1. Live' = Live
  BY DEF Live, Inserted
<1>2. row'[i].user = user
  BY NewRowFields DEF Inserted
<1>3. QED
  BY <1>1, <1>2 DEF World, Detached, ErasureInv, PeopleInv, Inserted

LEMMA WorldCommits ==
  ASSUME TypeOK, ErasureInv, NEW r \in Requests, CommitErasure(r)
  PROVE  World /\ Detached
<1> DEFINE a == call[r].by
<1>1. /\ pc[r] = "delete" /\ call[r] \in Calls /\ call[r].kind = "erase" /\ UNCHANGED past
  BY CommitMakes
<1>2. CASE UNCHANGED <<account, row>>
  BY <1>1, <1>2, WorldStays
<1>3. CASE /\ a \in Live /\ Live' = Live \ {a} /\ ids' = ids
           /\ \A b \in Live' : account'[b] = account[b]
           /\ \A i \in ids : Left(row'[i], row[i], a, i \in found[r])
  <2>1. Pursued(a, found[r], past.erased[r], Through("delete"))
    BY <1>1 DEF ErasureInv, Erases, Erasing
  <2>2. ASSUME NEW i \in ids
        PROVE  /\ row'[i].kind = row[i].kind /\ row'[i].holds \subseteq row[i].holds
               /\ \/ row'[i].user = row[i].user
                  \/ row'[i].user = None /\ row[i].user \notin Live'
               /\ row'[i].address \in {row[i].address, None}
               /\ row'[i].user \in Live' \cup {None}
               /\ row'[i].address # None /\ row'[i].user # row[i].user => i \in past.late
    <3>1. row[i].user \in Live \cup {None} /\ a \in Accounts /\ a # None
      BY <1>3, NullAssumption DEF ErasureInv, PeopleInv, Live
    <3>2. CASE i \in found[r]
      BY <1>3, <2>1, <3>1, <3>2 DEF Left, Pursued
    <3>3. CASE i \notin found[r]
      <4>1. row[i].user = a => i \in past.late
        <5>1. SUFFICES ASSUME row[i].user = a PROVE i \in past.late
          OBVIOUS
        <5>2. row[i].kind \in Through("delete")
          BY <3>1, <5>1 DEF ErasureInv, PeopleInv, Through
        <5>3. QED
          BY <1>3, <2>1, <3>3, <5>1, <5>2 DEF Pursued
      <4>2. QED
        BY <1>3, <3>1, <3>3, <4>1 DEF Left
    <3>4. QED
      BY <3>2, <3>3
  <2>3. QED
    BY <1>1, <1>3, <2>2 DEF World, Detached
<1>4. QED
  BY <1>2, <1>3, CommitMakes

LEMMA NextWorld ==
  ASSUME TypeOK, ErasureInv, [Next]_vars
  PROVE  World /\ Detached
<1>1. CASE UNCHANGED vars
  BY <1>1, WorldStays DEF vars
<1>2. ASSUME NEW address \in Addresses, SignIn(address) PROVE World /\ Detached
  <2>1. PICK a : Opens(a, Normalized(address))
    BY <1>2 DEF SignIn, Opens
  <2>2. QED
    BY <1>2, <2>1, NormalAddress, WorldOpens DEF SignIn
<1>3. ASSUME NEW p \in Providers, RemoveProvider(p) PROVE World /\ Detached
  BY <1>3, RemoveMakes, WorldBackOffice
<1>4. ASSUME NEW r \in Requests, Upsert(r) PROVE World /\ Detached
  BY <1>4, UpsertMakes, WorldStays, WorldOpens
<1>5. ASSUME NEW r \in Requests, InsertRow(r) PROVE World /\ Detached
  <2>1. found[r] \in Accounts \cup {None}
    BY <1>5, InsertMakes DEF TypeOK, TablesOK
  <2>2. QED
    BY <1>5, <2>1, InsertMakes, WorldInserted, WorldStays
<1>6. ASSUME NEW r \in Requests, WriteStatus(r) \/ WriteSchedule(r) PROVE World /\ Detached
  BY <1>6, StatusMakes, ScheduleMakes, WorldBackOffice
<1>7. ASSUME NEW r \in Requests, WriteFavorite(r) PROVE World /\ Detached
  BY <1>7, FavoriteMakes, WorldStays
<1>8. ASSUME NEW r \in Requests, NEW a \in Accounts, FindForErasure(r, a) PROVE World /\ Detached
  BY <1>8, EraseMakes, WorldStays
<1>9. ASSUME Unchanged PROVE World /\ Detached
  BY <1>9, WorldStays DEF Unchanged
<1>10. ASSUME NEW r \in Requests, StripBookings(r) \/ StripDonations(r) \/ StripConsultations(r)
       PROVE  Unchanged
  BY <1>10, StripMakes DEF Strips
<1>11. ASSUME NEW r \in Requests, CheckProvider(r) PROVE Unchanged
  BY <1>11 DEF CheckProvider
<1>12. QED
  BY <1>1, <1>2, <1>3, <1>4, <1>5, <1>6, <1>7, <1>8, <1>9, <1>10, <1>11, Asking, WorldCommits DEF Next

-----------------------------------------------------------------------------
(* Erasure *)

\* Pursued in the state that a step leads to.
PursuedNext(a, f, erased, kinds) ==
  /\ \A i \in f : row'[i].user \in {a, None}
  /\ a \in Live' =>
       /\ \A i \in erased : row'[i].user = a /\ (row'[i].kind \in kinds => i \in f)
       /\ \A i \in ids' : row'[i].user = a => i \in erased \cup past'.late

LEMMA PursuedLater ==
  ASSUME TypeOK, World, NEW r \in Requests, NEW a \in past.accounts, NEW f \in SUBSET ids,
         NEW erased \in SUBSET ids, NEW kinds, pc[r] \in Erasing, call[r].kind = "erase",
         call[r].by = a, Pursued(a, f, erased, kinds)
  PROVE  PursuedNext(a, f, erased, kinds)
<1>1. BeingErased(a)
  BY DEF BeingErased, Erasing
<1>2. a # None
  BY NullAssumption DEF TypeOK, TablesOK
<1>3. \A i \in f : row'[i].user \in {a, None}
  BY DEF Pursued, World
<1>4. ASSUME a \in Live', NEW i \in erased PROVE row'[i].user = a /\ row'[i].kind = row[i].kind
  BY <1>4 DEF Pursued, World
<1>5. ASSUME a \in Live', NEW i \in ids', row'[i].user = a PROVE i \in erased \cup past'.late
  <2>1. CASE i \in ids
    BY <1>2, <1>5, <2>1 DEF Pursued, World
  <2>2. CASE i \notin ids
    BY <1>1, <1>5, <2>2 DEF World
  <2>3. QED
    BY <2>1, <2>2
<1>6. a \in Live' => a \in Live
  BY DEF World
<1>7. QED
  BY <1>3, <1>4, <1>5, <1>6 DEF Pursued, PursuedNext

\* A request that does not move goes on with what it knows.
LEMMA ErasesLater ==
  ASSUME TypeOK, ErasureInv, World, NEW r \in Requests, past'.erased[r] = past.erased[r],
         call'[r] = call[r], pc'[r] = pc[r], found'[r] = found[r], answer'[r] = answer[r]
  PROVE  Erases(r)'
<1>1. past.erased[r] \subseteq ids
  BY DEF TypeOK, TablesOK
<1>2. answer[r] = "OK" =>
        \A i \in past.erased[r] : row'[i].user = None /\ row'[i].holds \cap Named = {}
  BY <1>1 DEF ErasureInv, Erases, World
<1>3. ASSUME pc[r] \in Erasing
      PROVE  Pursued(call[r].by, found[r], past.erased[r], Through(pc[r]))'
  <2>1. call[r].kind = "erase" /\ call[r].by \in past.accounts /\ found[r] \in SUBSET ids
    BY <1>3, OwnCall DEF TypeOK, Fits
  <2>2. Pursued(call[r].by, found[r], past.erased[r], Through(pc[r]))
    BY <1>3 DEF ErasureInv, Erases
  <2>3. PursuedNext(call[r].by, found[r], past.erased[r], Through(pc[r]))
    BY <1>1, <1>3, <2>1, <2>2, PursuedLater
  <2>4. Through(pc[r])' = Through(pc[r])
    BY DEF Through
  <2>5. QED
    BY <2>3, <2>4 DEF Pursued, PursuedNext
<1>4. QED
  BY <1>2, <1>3 DEF ErasureInv, Erases

\* Nor does one that erases nothing.
LEMMA ErasesNothing ==
  ASSUME TypeOK, RequestsOK', ErasureInv, NEW r \in Requests, NEW c \in Calls, NEW p, NEW f, NEW a,
         Moves(r, c, p, f, a), c.kind # "erase", pc[r] = "idle" \/ call[r] = c,
         past'.erased = past.erased
  PROVE  Erases(r)'
<1>1. past.erased[r] = {}
  BY OwnCall DEF TypeOK, Fits, ErasureInv, Erases
<1>2. call'[r] = c /\ pc'[r] = p
  BY MovesOwn DEF TypeOK
<1>3. pc'[r] \notin Erasing
  BY <1>2 DEF RequestsOK, Fits
<1>4. QED
  BY <1>1, <1>3 DEF Erases

\* The erasures when a request moves: those of the others go on.
LEMMA ErasuresMoved ==
  ASSUME TypeOK, ErasureInv, World, NEW r \in Requests, NEW c, NEW p, NEW f, NEW a,
         Moves(r, c, p, f, a), \A q \in Requests : q # r => past'.erased[q] = past.erased[q],
         Erases(r)'
  PROVE  \A q \in Requests : Erases(q)'
<1>1. ASSUME NEW q \in Requests, q # r PROVE Erases(q)'
  BY <1>1, MovesOwn, ErasesLater DEF TypeOK
<1>2. QED
  BY <1>1

LEMMA FindErases ==
  ASSUME TypeOK, ErasureInv, NEW r \in Requests, NEW a \in Accounts, FindForErasure(r, a)
  PROVE  Erases(r)'
<1>1. /\ call'[r] = [kind |-> "erase", by |-> a] /\ pc'[r] = "bookings" /\ found'[r] = {}
      /\ answer'[r] = "none"
  BY EraseMoves, MovesOwn DEF TypeOK
<1>2. past'.erased[r] = {i \in ids : row[i].user = a} /\ past'.late = past.late /\ UNCHANGED row
  <2>1. r \in DOMAIN past.erased
    BY DEF TypeOK, TablesOK
  <2>2. /\ past'.erased = [past.erased EXCEPT ![r] = {i \in ids : row[i].user = a}]
        /\ past'.late = past.late /\ UNCHANGED row
    BY EraseMakes
  <2>3. QED
    BY <2>1, <2>2
<1>3. call'[r].kind = "erase" /\ call'[r].by = a /\ call'[r] # NoCall
  BY <1>1, CallsAssumption, CallMakes
<1>4. Through("bookings") = {} /\ ids' = ids
  BY <1>2 DEF Through, ids
<1>5. PursuedNext(a, {}, past'.erased[r], {})
  BY <1>2, <1>4 DEF PursuedNext
<1>6. Pursued(call[r].by, found[r], past.erased[r], Through(pc[r]))'
  <2>1. Through(pc[r])' = Through("bookings")
    BY <1>1 DEF Through
  <2>2. QED
    BY <1>1, <1>3, <1>4, <1>5, <2>1 DEF Pursued, PursuedNext
<1>7. QED
  BY <1>1, <1>3, <1>6 DEF Erases

LEMMA StripErases ==
  ASSUME TypeOK, ErasureInv, NEW r \in Requests,
         NEW now \in Erasing, NEW next \in Erasing, NEW kind \in RowKinds,
         Strips(r, now, kind, next), Through(next) = Through(now) \cup {kind}
  PROVE  Erases(r)'
<1> DEFINE a == call[r].by
           f == found[r] \cup RowsOf(kind, a)
<1>1. /\ call'[r] = call[r] /\ pc'[r] = next /\ found'[r] = f /\ answer'[r] = "none"
      /\ call[r] \in Calls /\ call[r].kind = "erase" /\ found[r] \subseteq ids
  <2>1. /\ Moves(r, call[r], next, f, "none")
        /\ call[r] \in Calls /\ call[r].kind = "erase" /\ found[r] \subseteq ids
    BY EraseMoves
  <2>2. QED
    BY <2>1, MovesOwn DEF TypeOK
<1>2. UNCHANGED <<account, row, past>>
  BY DEF Strips, Unchanged
<1>3. Pursued(a, found[r], past.erased[r], Through(now))
  BY DEF ErasureInv, Erases, Strips
<1>4. past.erased[r] \subseteq ids
  BY DEF TypeOK, TablesOK
<1>5. Pursued(a, f, past.erased[r], Through(next))
  BY <1>3, <1>4 DEF Pursued, RowsOf
<1>6. Pursued(call[r].by, found[r], past.erased[r], Through(pc[r]))'
  <2>1. Through(pc[r])' = Through(next)
    BY <1>1 DEF Through
  <2>2. QED
    BY <1>1, <1>2, <1>5, <2>1 DEF Pursued, ids, Live
<1>7. QED
  BY <1>1, <1>2, <1>6, CallsAssumption DEF Erases

LEMMA CommitErases ==
  ASSUME TypeOK, ErasureInv, NEW r \in Requests, CommitErasure(r)
  PROVE  Erases(r)'
<1> DEFINE a == call[r].by
<1>1. /\ pc[r] = "delete" /\ call[r] \in Calls /\ call[r].kind = "erase"
      /\ UNCHANGED <<call, past>>
  BY CommitMakes
<1>2. Finish(r, "OK") \/ Finish(r, "ERROR")
  BY CommitMakes
<1>3. pc'[r] = "done" /\ "done" \notin Erasing
  BY <1>2 DEF Finish, TypeOK, RequestsOK, Erasing
<1>4. CASE Finish(r, "ERROR")
  <2>1. answer'[r] = "ERROR"
    BY <1>4 DEF Finish, TypeOK, RequestsOK
  <2>2. QED
    BY <1>1, <1>3, <2>1, CallsAssumption DEF Erases
<1>5. CASE /\ a \in Live /\ \A i \in ids : Left(row'[i], row[i], a, i \in found[r])
  <2>1. Pursued(a, found[r], past.erased[r], Through("delete"))
    BY <1>1 DEF ErasureInv, Erases, Erasing
  <2>2. ASSUME NEW i \in past.erased[r]
        PROVE  row'[i].user = None /\ row'[i].holds \cap Named = {}
    <3>1. i \in ids /\ row[i].user = a /\ a # None
      BY <1>5, <2>1, NullAssumption DEF TypeOK, TablesOK, Pursued, Live
    <3>2. row[i].kind \in Through("delete")
      BY <3>1 DEF ErasureInv, PeopleInv, Through
    <3>3. i \in found[r]
      BY <1>5, <2>1, <3>2 DEF Pursued
    <3>4. row'[i].user = None /\ row'[i].holds = row[i].holds \cap {"answers"}
      BY <1>5, <3>1, <3>3 DEF Left
    <3>5. QED
      BY <3>4 DEF Named
  <2>3. QED
    BY <1>1, <1>3, <2>2, CallsAssumption DEF Erases
<1>6. QED
  BY <1>4, <1>5, CommitMakes

LEMMA InitErasure == Init => ErasureInv
  BY DEF Init, ErasureInv, PeopleInv, Erases, Erasing, ids

LEMMA NextPeople ==
  ASSUME TypeOK, ErasureInv, [Next]_vars, World, Detached
  PROVE  PeopleInv'
<1>1. CASE UNCHANGED vars
  BY <1>1 DEF vars, ErasureInv, PeopleInv, ids, Live
<1>2. ASSUME UNCHANGED <<row, favorites>>, Live \subseteq Live' PROVE PeopleInv'
  BY <1>2 DEF ErasureInv, PeopleInv, ids
<1>3. ASSUME Unchanged PROVE PeopleInv'
  BY <1>2, <1>3 DEF Unchanged, Live
<1>4. ASSUME NEW a, NEW address \in Addresses, Opens(a, address), UNCHANGED <<row, providers, favorites>>
      PROVE  PeopleInv'
  BY <1>2, <1>4, OpensType DEF TypeOK
<1>5. ASSUME BackOffice PROVE PeopleInv'
  BY <1>5 DEF BackOffice, SamePerson, ErasureInv, PeopleInv, Live
<1>6. ASSUME NEW address \in Addresses, SignIn(address) PROVE PeopleInv'
  <2>1. PICK a : Opens(a, Normalized(address))
    BY <1>6 DEF SignIn, Opens
  <2>2. QED
    BY <1>4, <1>6, <2>1, NormalAddress DEF SignIn
<1>7. ASSUME NEW r \in Requests, Upsert(r) PROVE PeopleInv'
  BY <1>2, <1>4, <1>7, UpsertMakes DEF Live
<1>8. ASSUME NEW r \in Requests, InsertRow(r) PROVE PeopleInv'
  <2>1. CASE UNCHANGED row
    BY <1>2, <1>8, <2>1, InsertMakes DEF Live
  <2>2. CASE \E i : Inserted(i, call[r], found[r])
    <3>1. PICK i : Inserted(i, call[r], found[r])
      BY <2>2
    <3>2. /\ UNCHANGED <<account, favorites>> /\ call[r] \in Calls /\ call[r].kind = "submit"
          /\ call[r].row \in {"volunteer", "message"} => found[r] = None
          /\ found[r] \in Accounts \cup {None}
      BY <1>8, InsertMakes DEF TypeOK, TablesOK
    <3>3. row'[i].user = found[r] /\ row'[i].kind = call[r].row /\ call[r].row \in RowKinds
      BY <3>1, <3>2, NewRowFields, CallFields DEF Inserted
    <3>4. QED
      BY <3>1, <3>2, <3>3 DEF Inserted, ErasureInv, PeopleInv, Live, RowKinds
  <2>3. QED
    BY <1>8, <2>1, <2>2, InsertMakes
<1>9. ASSUME NEW r \in Requests, WriteFavorite(r) PROVE PeopleInv'
  <2>1. /\ UNCHANGED <<account, row>> /\ \A f \in favorites' : f \in favorites \/ f[1] \in Live
    BY <1>9, FavoriteMakes
  <2>2. QED
    BY <2>1 DEF ErasureInv, PeopleInv, ids, Live
<1>10. ASSUME NEW r \in Requests, NEW a \in Accounts, FindForErasure(r, a) PROVE PeopleInv'
  BY <1>2, <1>10, EraseMakes DEF Live
<1>11. ASSUME NEW r \in Requests, StripBookings(r) \/ StripDonations(r) \/ StripConsultations(r)
       PROVE  Unchanged
  BY <1>11, StripMakes DEF Strips
<1>12. ASSUME NEW r \in Requests, CheckProvider(r) PROVE Unchanged
  BY <1>12 DEF CheckProvider
<1>13. ASSUME NEW r \in Requests, CommitErasure(r) PROVE PeopleInv'
  <2>1. CASE UNCHANGED <<account, row, favorites>>
    BY <1>2, <2>1 DEF Live
  <2>2. CASE /\ Live' = Live \ {call[r].by} /\ ids' = ids
             /\ favorites' = {f \in favorites : f[1] # call[r].by}
    <3>1. \A f \in favorites' : f[1] \in Live'
      BY <2>2 DEF ErasureInv, PeopleInv
    <3>2. \A i \in ids : /\ row'[i].user \in Live' \cup {None} /\ row'[i].kind = row[i].kind
                         /\ row'[i].user # None => row[i].user # None
      BY DEF World, Detached
    <3>3. QED
      BY <2>2, <3>1, <3>2 DEF ErasureInv, PeopleInv
  <2>3. QED
    BY <1>13, <2>1, <2>2, CommitMakes
<1>14. QED
  BY <1>1, <1>3, <1>5, <1>6, <1>7, <1>8, <1>9, <1>10, <1>11, <1>12, <1>13,
     RemoveMakes, StatusMakes, ScheduleMakes, Asking DEF Next

LEMMA NextErasures ==
  ASSUME TypeOK, TypeOK', ErasureInv, [Next]_vars, World
  PROVE  \A q \in Requests : Erases(q)'
<1>1. ASSUME UNCHANGED <<pc, call, found, answer, past>> PROVE \A q \in Requests : Erases(q)'
  BY <1>1, ErasesLater
<1>2. ASSUME NEW r \in Requests, NEW c \in Calls, NEW p, NEW f, NEW a, Moves(r, c, p, f, a),
             c.kind # "erase", pc[r] = "idle" \/ call[r] = c, past'.erased = past.erased
      PROVE  \A q \in Requests : Erases(q)'
  BY <1>2, ErasesNothing, ErasuresMoved DEF TypeOK
<1>3. CASE UNCHANGED vars
  BY <1>1, <1>3 DEF vars
<1>4. ASSUME NEW address \in Addresses, SignIn(address) PROVE \A q \in Requests : Erases(q)'
  <2>1. PICK a : Opens(a, Normalized(address))
    BY <1>4 DEF SignIn, Opens
  <2>2. past'.erased = past.erased /\ UNCHANGED <<pc, call, found, answer>>
    BY <1>4, <2>1, NormalAddress, OpensType DEF SignIn, TypeOK
  <2>3. QED
    BY <2>2, ErasesLater
<1>5. ASSUME NEW p \in Providers, RemoveProvider(p) PROVE \A q \in Requests : Erases(q)'
  BY <1>1, <1>5, RemoveMakes DEF BackOffice
<1>6. ASSUME NEW r \in Requests, NEW c \in Calls, Submit(r, c) PROVE \A q \in Requests : Erases(q)'
  BY <1>2, <1>6, Asking DEF Unchanged
<1>7. ASSUME NEW r \in Requests, Upsert(r) PROVE \A q \in Requests : Erases(q)'
  <2>1. past'.erased = past.erased
    BY <1>7, UpsertMakes, OpensType DEF TypeOK
  <2>2. QED
    BY <1>2, <1>7, <2>1, UpsertMakes
<1>8. ASSUME NEW r \in Requests, NEW id \in Records, NEW to \in Statuses, FindForStatus(r, id, to)
      PROVE  \A q \in Requests : Erases(q)'
  <2> DEFINE c == [kind |-> "status", id |-> id, to |-> to]
  <2>1. c \in Calls /\ c.kind # "erase"
    BY CallMakes
  <2>2. Unchanged /\ pc[r] = "idle" /\ \E p, f, z : Moves(r, c, p, f, z)
    BY <1>8, Asking
  <2> HIDE DEF c
  <2>3. QED
    BY <1>2, <2>1, <2>2 DEF Unchanged
<1>9. ASSUME NEW r \in Requests, NEW id \in Records, NEW x \in Providers, FindForSchedule(r, id, x)
      PROVE  \A q \in Requests : Erases(q)'
  <2> DEFINE c == [kind |-> "schedule", id |-> id, provider |-> x]
  <2>1. c \in Calls /\ c.kind # "erase"
    BY CallMakes
  <2>2. Unchanged /\ pc[r] = "idle" /\ \E p, f, z : Moves(r, c, p, f, z)
    BY <1>9, Asking
  <2> HIDE DEF c
  <2>3. QED
    BY <1>2, <2>1, <2>2 DEF Unchanged
<1>10. ASSUME NEW r \in Requests, NEW a \in Accounts, NEW x \in Items, StartFavorite(r, a, x)
       PROVE  \A q \in Requests : Erases(q)'
  <2> DEFINE c == [kind |-> "favorite", by |-> a, item |-> x]
  <2>1. c \in Calls /\ c.kind # "erase"
    BY CallMakes
  <2>2. Unchanged /\ pc[r] = "idle" /\ \E p, f, z : Moves(r, c, p, f, z)
    BY <1>10, Asking
  <2> HIDE DEF c
  <2>3. QED
    BY <1>2, <2>1, <2>2 DEF Unchanged
<1>11. ASSUME NEW r \in Requests, CheckProvider(r) PROVE \A q \in Requests : Erases(q)'
  BY <1>2, <1>11, CheckMakes DEF Unchanged
<1>12. ASSUME NEW r \in Requests, InsertRow(r) \/ WriteStatus(r) \/ WriteSchedule(r) \/ WriteFavorite(r)
       PROVE  \A q \in Requests : Erases(q)'
  <2>1. /\ pc[r] \notin {"idle", "done"} /\ UNCHANGED call /\ call[r] \in Calls
        /\ call[r].kind # "erase" /\ past'.erased = past.erased
        /\ Finish(r, "OK") \/ Finish(r, "ERROR")
    BY <1>12, InsertMakes, StatusMakes, ScheduleMakes, FavoriteMakes DEF BackOffice, Inserted
  <2>2. \E a : Moves(r, call[r], "done", None, a)
    BY <2>1, FinishMoves DEF TypeOK
  <2>3. QED
    BY <1>2, <2>1, <2>2
<1>13. ASSUME NEW r \in Requests, NEW a \in Accounts, FindForErasure(r, a)
       PROVE  \A q \in Requests : Erases(q)'
  <2>1. \A q \in Requests : q # r => past'.erased[q] = past.erased[q]
    BY <1>13, EraseMakes DEF TypeOK, TablesOK
  <2>2. Moves(r, [kind |-> "erase", by |-> a], "bookings", {}, "none")
    BY <1>13, EraseMoves
  <2>3. QED
    BY <1>13, <2>1, <2>2, FindErases, ErasuresMoved
<1>14. ASSUME NEW r \in Requests, StripBookings(r) \/ StripDonations(r) \/ StripConsultations(r)
       PROVE  \A q \in Requests : Erases(q)'
  <2>1. PICK now \in Erasing, next \in Erasing, kind \in RowKinds :
          Strips(r, now, kind, next) /\ Through(next) = Through(now) \cup {kind}
    BY <1>14, StripMakes DEF Erasing, RowKinds, Through
  <2>2. Moves(r, call[r], next, found[r] \cup RowsOf(kind, call[r].by), "none") /\ UNCHANGED past
    BY <2>1, EraseMoves DEF Strips, Unchanged
  <2>3. QED
    BY <2>1, <2>2, StripErases, ErasuresMoved
<1>15. ASSUME NEW r \in Requests, CommitErasure(r) PROVE \A q \in Requests : Erases(q)'
  <2>1. /\ pc[r] \notin {"idle", "done"} /\ UNCHANGED <<call, past>>
        /\ Finish(r, "OK") \/ Finish(r, "ERROR")
    BY <1>15, CommitMakes
  <2>2. \E a : Moves(r, call[r], "done", None, a)
    BY <2>1, FinishMoves DEF TypeOK
  <2>3. QED
    BY <1>15, <2>1, <2>2, CommitErases, ErasuresMoved
<1>16. QED
  BY <1>3, <1>4, <1>5, <1>6, <1>7, <1>8, <1>9, <1>10, <1>11, <1>12, <1>13, <1>14, <1>15 DEF Next

LEMMA NextErasure == TypeOK /\ ErasureInv /\ [Next]_vars => ErasureInv'
<1> SUFFICES ASSUME TypeOK, ErasureInv, [Next]_vars PROVE ErasureInv'
  OBVIOUS
<1>1. World /\ Detached
  BY NextWorld
<1>2. QED
  BY <1>1, NextType, NextPeople, NextErasures DEF ErasureInv

\* An erasure that was answered detached every row its account had when it began,
\* and left none of the columns that tell who the person was, whoever else hands in
\* rows, works on them or erases the same account meanwhile; and no row and no
\* favourite is left that names an account that went (deleteAccount).
THEOREM ErasureReaches == Spec => []ErasureReachesRows
<1>1. Spec => [](TypeOK /\ ErasureInv)
  BY InitType, NextType, InitErasure, NextErasure, PTL DEF Spec
<1>2. TypeOK /\ ErasureInv => ErasureReachesRows
  <2>1. SUFFICES ASSUME TypeOK, ErasureInv PROVE ErasureReachesRows
    OBVIOUS
  <2>2. \A i \in Erased : row[i].user = None /\ row[i].holds \cap Named = {}
    BY <2>1 DEF Erased, ErasureInv, Erases
  <2>3. QED
    BY <2>1, <2>2 DEF ErasureReachesRows, ErasureInv, PeopleInv
<1>3. QED
  BY <1>1, <1>2, PTL

-----------------------------------------------------------------------------
(* Mailboxes *)

\* What AddressInv says of the accounts, and of the insert of a consultation.
MailboxesApart ==
  /\ \A a \in Live : Normal[account[a]] = account[a]
  /\ \A a, b \in Live : account[a] = account[b] => a = b

OwnMailbox(p, c, f) ==
  p = "insert" /\ c.kind = "submit" /\ c.row = "consultation" /\ f \in Live
    => account[f] = Normalized(c.address)

\* A consultation is its account's, or was handed in too late.
Lost(i) == row[i].user = None /\ i \in past.late
OwnConsultation(i) ==
  row[i].address # None =>
    (row[i].user \in Live /\ account[row[i].user] = row[i].address) \/ Lost(i)

AddressInv ==
  /\ MailboxesApart
  /\ \A i \in ids : OwnConsultation(i)
  /\ \A r \in Requests : OwnMailbox(pc[r], call[r], found[r])

LEMMA InitAddress == Init => AddressInv
  BY DEF Init, AddressInv, MailboxesApart, OwnMailbox, OwnConsultation, Live, ids

LEMMA MailboxesLater ==
  ASSUME MailboxesApart, World, Live' \subseteq Live
  PROVE  MailboxesApart'
  BY DEF MailboxesApart, World

LEMMA MailboxOpened ==
  ASSUME TypeOK, MailboxesApart, NEW a, NEW address \in Addresses, Opens(a, Normalized(address)),
         Holder(Normalized(address)) = {}, UNCHANGED <<row, providers, favorites>>
  PROVE  MailboxesApart'
<1> DEFINE n == Normalized(address)
<1>1. /\ Live' = Live \cup {a} /\ a \notin Live /\ account'[a] = n
      /\ \A b \in Live : account'[b] = account[b]
  BY NormalAddress, OpensType DEF TypeOK
<1>2. Normal[n] = n
  BY NormalAddress
<1>3. \A b \in Live : account[b] # n
  BY DEF Holder
<1> HIDE DEF n
<1>4. QED
  BY <1>1, <1>2, <1>3 DEF MailboxesApart

LEMMA ConsultationsLater ==
  ASSUME TypeOK, AddressInv, World, Detached, NEW i \in ids
  PROVE  OwnConsultation(i)'
<1>1. SUFFICES ASSUME row'[i].address # None
               PROVE  \/ row'[i].user \in Live' /\ account'[row'[i].user] = row'[i].address
                      \/ row'[i].user = None /\ i \in past'.late
  BY DEF OwnConsultation, Lost
<1>2. /\ row'[i].address = row[i].address /\ row[i].address # None
      /\ row'[i].user \in Live' \cup {None} /\ past.late \subseteq past'.late
      /\ row'[i].user # row[i].user => i \in past.late
      /\ row'[i].user = row[i].user \/ row'[i].user = None
  BY <1>1 DEF World, Detached
<1>3. \/ row[i].user \in Live /\ account[row[i].user] = row[i].address
      \/ row[i].user = None /\ i \in past.late
  BY <1>2 DEF AddressInv, OwnConsultation, Lost
<1>4. None \notin Live /\ None \notin Live'
  BY NullAssumption DEF Live
<1>5. \A b \in Live \cap Live' : account'[b] = account[b]
  BY DEF World
<1>6. QED
  BY <1>2, <1>3, <1>4, <1>5

LEMMA MailboxKnown ==
  ASSUME TypeOK, AddressInv, World, NEW r \in Requests,
         call'[r] = call[r], pc'[r] = pc[r], found'[r] = found[r]
  PROVE  OwnMailbox(pc[r], call[r], found[r])'
<1>1. SUFFICES ASSUME pc[r] = "insert", call[r].kind = "submit", call[r].row = "consultation",
                      found[r] \in Live'
               PROVE  account'[found[r]] = Normalized(call[r].address)
  BY DEF OwnMailbox, Normalized
<1>2. found[r] \in past.accounts
  BY <1>1, OwnCall, NullAssumption DEF TypeOK, Fits, Live
<1>3. found[r] \in Live \cap Live' /\ account'[found[r]] = account[found[r]]
  BY <1>1, <1>2 DEF World
<1>4. QED
  BY <1>1, <1>3 DEF AddressInv, OwnMailbox

\* When a request moves to where it inserts no consultation, or knows the mailbox.
LEMMA MailboxMoved ==
  ASSUME TypeOK, AddressInv, World, NEW r \in Requests, NEW c, NEW p, NEW f, NEW a,
         Moves(r, c, p, f, a),
         p = "insert" /\ c.kind = "submit" /\ c.row = "consultation" /\ f \in Live'
           => account'[f] = Normalized(c.address)
  PROVE  \A q \in Requests : OwnMailbox(pc[q], call[q], found[q])'
<1>1. ASSUME NEW q \in Requests, q # r PROVE OwnMailbox(pc[q], call[q], found[q])'
  BY <1>1, MovesOwn, MailboxKnown DEF TypeOK
<1>2. call'[r] = c /\ pc'[r] = p /\ found'[r] = f
  BY MovesOwn DEF TypeOK
<1>3. OwnMailbox(pc[r], call[r], found[r])'
  BY <1>2 DEF OwnMailbox, Normalized
<1>4. QED
  BY <1>1, <1>3

LEMMA InsertMailbox ==
  ASSUME TypeOK, AddressInv, World, Detached, NEW r \in Requests, InsertRow(r)
  PROVE  \A i \in ids' : OwnConsultation(i)'
<1>1. CASE UNCHANGED <<row, past>>
  BY <1>1, ConsultationsLater DEF ids
<1>2. CASE \E i : Inserted(i, call[r], found[r])
  <2>1. PICK i : Inserted(i, call[r], found[r])
    BY <1>2
  <2>2. /\ UNCHANGED account /\ call[r] \in Calls /\ call[r].kind = "submit" /\ pc[r] = "insert"
        /\ call[r].row = "consultation" => found[r] # None
        /\ found[r] \in Accounts \cup {None}
    BY InsertMakes DEF TypeOK, TablesOK
  <2>3. /\ row'[i].user = found[r] /\ found[r] \in Live \cup {None} /\ Live' = Live
        /\ row'[i].address = IF call[r].row = "consultation" THEN Normalized(call[r].address) ELSE None
    BY <2>1, <2>2, NewRowFields DEF Inserted, Live
  <2>4. OwnConsultation(i)'
    BY <2>2, <2>3 DEF OwnConsultation, AddressInv, OwnMailbox
  <2>5. ids' = ids \cup {i}
    BY <2>1 DEF Inserted
  <2>6. QED
    BY <2>4, <2>5, ConsultationsLater
<1>3. QED
  BY <1>1, <1>2, InsertMakes

LEMMA NextAddress == TypeOK /\ ErasureInv /\ AddressInv /\ [Next]_vars => AddressInv'
<1> SUFFICES ASSUME TypeOK, ErasureInv, AddressInv, [Next]_vars PROVE AddressInv'
  OBVIOUS
<1> DEFINE Mailboxes == \A q \in Requests : OwnMailbox(pc[q], call[q], found[q])'
<1>1. World /\ Detached
  BY NextWorld
<1>2. ASSUME ids' = ids, Live' \subseteq Live, Mailboxes PROVE AddressInv'
  BY <1>1, <1>2, ConsultationsLater, MailboxesLater DEF AddressInv
<1>3. ASSUME ids' = ids, Live' \subseteq Live, NEW r \in Requests, NEW c, NEW p, NEW f, NEW a,
             Moves(r, c, p, f, a),
             ~ (p = "insert" /\ c.kind = "submit" /\ c.row = "consultation")
      PROVE  AddressInv'
  BY <1>1, <1>2, <1>3, MailboxMoved
<1>4. ASSUME NEW r \in Requests, pc[r] \notin {"idle", "done"}, UNCHANGED call,
             Finish(r, "OK") \/ Finish(r, "ERROR")
      PROVE  \E a : Moves(r, call[r], "done", None, a)
  BY <1>4, FinishMoves DEF TypeOK
<1>5. Unchanged => ids' = ids /\ Live' \subseteq Live
  BY DEF Unchanged, ids, Live
<1>6. CASE UNCHANGED vars
  BY <1>1, <1>2, <1>5, <1>6, MailboxKnown DEF vars, Unchanged
<1>7. ASSUME NEW address \in Addresses, SignIn(address) PROVE AddressInv'
  <2>1. PICK a : Opens(a, Normalized(address))
    BY <1>7 DEF SignIn, Opens
  <2>2. Mailboxes
    BY <1>1, <1>7, MailboxKnown DEF SignIn
  <2>3. MailboxesApart'
    BY <1>7, <2>1, MailboxOpened DEF SignIn, AddressInv
  <2>4. ids' = ids
    BY <1>7 DEF SignIn, ids
  <2>5. QED
    BY <1>1, <2>2, <2>3, <2>4, ConsultationsLater DEF AddressInv
<1>8. ASSUME NEW p \in Providers, RemoveProvider(p) PROVE AddressInv'
  <2>1. Mailboxes /\ ids' = ids /\ Live' \subseteq Live
    BY <1>1, <1>8, RemoveMakes, MailboxKnown DEF BackOffice, Live
  <2>2. QED
    BY <1>2, <2>1
<1>9. ASSUME NEW r \in Requests, NEW c \in Calls, Submit(r, c) PROVE AddressInv'
  BY <1>3, <1>5, <1>9, Asking
<1>10. ASSUME NEW r \in Requests, Upsert(r) PROVE AddressInv'
  <2> DEFINE n == Normalized(call[r].address)
  <2>1. /\ call[r] \in Calls /\ call[r].kind = "submit" /\ call[r].row = "consultation"
        /\ UNCHANGED <<row, providers, favorites>>
    BY <1>10, UpsertMakes
  <2>2. PICK a \in Accounts : /\ Moves(r, call[r], "insert", a, "none")
                              /\ \/ a \in Holder(n) /\ UNCHANGED <<account, past>>
                                 \/ Holder(n) = {} /\ Opens(a, n)
    BY <1>10, UpsertMakes
  <2>3. call[r].address \in Addresses /\ n \in Addresses
    BY <2>1, CallFields, NormalAddress
  <2>4. account'[a] = n /\ MailboxesApart'
    <3>1. CASE a \in Holder(n) /\ UNCHANGED <<account, past>>
      BY <1>1, <3>1, MailboxesLater DEF Holder, Live, AddressInv
    <3>2. CASE Holder(n) = {} /\ Opens(a, n)
      <4>1. account'[a] = n
        BY <2>1, <2>3, <3>2, OpensType DEF TypeOK
      <4>2. MailboxesApart'
        BY <2>1, <2>3, <3>2, MailboxOpened DEF AddressInv
      <4>3. QED
        BY <4>1, <4>2
    <3>3. QED
      BY <2>2, <3>1, <3>2
  <2>5. Mailboxes
    BY <1>1, <2>2, <2>4, MailboxMoved
  <2>6. ids' = ids
    BY <2>1 DEF ids
  <2>7. QED
    BY <1>1, <2>4, <2>5, <2>6, ConsultationsLater DEF AddressInv
<1>11. ASSUME NEW r \in Requests, InsertRow(r) PROVE AddressInv'
  <2>1. /\ pc[r] \notin {"idle", "done"} /\ UNCHANGED <<account, call>>
        /\ Finish(r, "OK") \/ Finish(r, "ERROR")
    BY <1>11, InsertMakes
  <2>2. Mailboxes
    BY <1>1, <1>4, <2>1, MailboxMoved
  <2>3. MailboxesApart'
    BY <1>1, <2>1, MailboxesLater DEF Live, AddressInv
  <2>4. QED
    BY <1>1, <1>11, <2>2, <2>3, InsertMailbox DEF AddressInv
<1>12. ASSUME NEW r \in Requests, WriteStatus(r) \/ WriteSchedule(r) \/ WriteFavorite(r)
       PROVE  AddressInv'
  <2>1. /\ pc[r] \notin {"idle", "done"} /\ UNCHANGED <<account, call>> /\ ids' = ids
        /\ Finish(r, "OK") \/ Finish(r, "ERROR")
    BY <1>12, StatusMakes, ScheduleMakes, FavoriteMakes DEF BackOffice, ids
  <2>2. QED
    BY <1>3, <1>4, <2>1 DEF Live
<1>13. ASSUME NEW r \in Requests, NEW id \in Records, NEW to \in Statuses, FindForStatus(r, id, to)
       PROVE  AddressInv'
  BY <1>3, <1>5, <1>13, Asking
<1>14. ASSUME NEW r \in Requests, NEW id \in Records, NEW p \in Providers, FindForSchedule(r, id, p)
       PROVE  AddressInv'
  BY <1>3, <1>5, <1>14, Asking
<1>15. ASSUME NEW r \in Requests, CheckProvider(r) PROVE AddressInv'
  BY <1>3, <1>5, <1>15, CheckMakes
<1>16. ASSUME NEW r \in Requests, NEW a \in Accounts, NEW x \in Items, StartFavorite(r, a, x)
       PROVE  AddressInv'
  <2> DEFINE c == [kind |-> "favorite", by |-> a, item |-> x]
  <2>1. Unchanged /\ Moves(r, c, "insert", None, "none") /\ c.kind # "submit"
    BY <1>16, Asking
  <2> HIDE DEF c
  <2>2. QED
    BY <1>3, <1>5, <2>1
<1>17. ASSUME NEW r \in Requests, NEW a \in Accounts, FindForErasure(r, a) PROVE AddressInv'
  <2>1. ids' = ids /\ Live' \subseteq Live
    BY <1>17, EraseMakes DEF ids, Live
  <2>2. QED
    BY <1>3, <1>17, <2>1, EraseMoves
<1>18. ASSUME NEW r \in Requests, StripBookings(r) \/ StripDonations(r) \/ StripConsultations(r)
       PROVE  AddressInv'
  <2>1. PICK now \in Erasing, next \in Erasing, kind \in RowKinds : Strips(r, now, kind, next)
    BY <1>18, StripMakes DEF Erasing, RowKinds
  <2>2. /\ Unchanged /\ next # "insert"
        /\ Moves(r, call[r], next, found[r] \cup RowsOf(kind, call[r].by), "none")
    BY <2>1, EraseMoves DEF Strips, Erasing
  <2>3. QED
    BY <1>3, <1>5, <2>2
<1>19. ASSUME NEW r \in Requests, CommitErasure(r) PROVE AddressInv'
  <2>1. /\ pc[r] \notin {"idle", "done"} /\ UNCHANGED call
        /\ Finish(r, "OK") \/ Finish(r, "ERROR")
    BY <1>19, CommitMakes
  <2>2. ids' = ids /\ Live' \subseteq Live
    BY <1>19, CommitMakes DEF ids, Live
  <2>3. QED
    BY <1>3, <1>4, <2>1, <2>2
<1>20. QED
  BY <1>6, <1>7, <1>8, <1>9, <1>10, <1>11, <1>12, <1>13, <1>14, <1>15, <1>16, <1>17, <1>18, <1>19
  DEF Next

\* However an address is typed, by whichever door, and however often its account was
\* erased, a mailbox has one account, and its consultations are that account's, but
\* for those handed in while the account was being erased (verifyOtp, submit of
\* consultations, deleteAccount).
THEOREM RequestsFind == Spec => []RequestsFindTheirAccount
<1>1. Spec => [](TypeOK /\ ErasureInv /\ AddressInv)
  BY InitType, NextType, InitErasure, NextErasure, InitAddress, NextAddress, PTL DEF Spec
<1>2. AddressInv => RequestsFindTheirAccount
  BY DEF AddressInv, MailboxesApart, OwnConsultation, Lost, RequestsFindTheirAccount
<1>3. QED
  BY <1>1, <1>2, PTL
=============================================================================
