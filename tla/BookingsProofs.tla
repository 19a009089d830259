--------------------------- MODULE BookingsProofs ---------------------------
(***************************************************************************)
(* Theorems about the booking engine, for every number of requests and     *)
(* every size of the catalogue.                                            *)
(***************************************************************************)
EXTENDS Bookings, TLAPS

TypeInv == TypeOK /\ CallInProgress

-----------------------------------------------------------------------------
(* Facts about rows *)

\* The row that create inserts is a row, filed under the slot and the duplicate
\* key of the call it was made for.
LEMMA NewRowType ==
  ASSUME NEW c \in CreateCalls
  PROVE  /\ NewRow(c) \in Row
         /\ NewRow(c) # NoRow
         /\ SlotOf(NewRow(c)) = SlotOf(c)
         /\ DuplicateKey(NewRow(c)) = DuplicateKey(c)
         /\ NewRow(c).status = "PENDING"
  BY NullAssumption DEF CreateCalls, NewRow, Row, Statuses, SlotOf, DuplicateKey

\* What the table holds for a stored booking is a row.
LEMMA StoredRow ==
  ASSUME TypeOK, NEW b \in Stored
  PROVE  b \in Requests /\ rows[b] \in Row
  BY DEF TypeOK, Stored

\* The type invariant holds before any request is made.
LEMMA InitType == Init => TypeInv
  BY DEF Init, TypeInv, TypeOK, CallInProgress, Answers

\* No step removes a row, and each leaves every row it does not write alone.
LEMMA UpdateRowType ==
  ASSUME TypeInv, NEW r \in Requests, NEW b \in Stored, NEW row \in Row,
         pc[r] \in {"write", "move"}, UpdateRow(r, b, row)
  PROVE  TypeInv'
<1>1. /\ rows' \in [Requests -> Row \cup {NoRow}]
      /\ \A a \in Stored : a \in Stored'
  <2>1. CASE rows' = [rows EXCEPT ![b] = row]
    BY <2>1, NullAssumption DEF TypeInv, TypeOK, Stored
  <2>2. CASE UNCHANGED rows
    BY <2>2 DEF TypeInv, TypeOK, Stored
  <2>3. QED
    BY <2>1, <2>2 DEF UpdateRow
<1>2. PICK a \in {"updated", "CONFLICT"} : Finish(r, a)
  BY DEF UpdateRow
<1>3. /\ pc' = [pc EXCEPT ![r] = "done"]
      /\ answer' = [answer EXCEPT ![r] = a]
      /\ UNCHANGED <<call, service, accepting, snapshot>>
  BY <1>2 DEF Finish, UpdateRow
<1>4. TypeOK'
  BY <1>1, <1>3 DEF TypeInv, TypeOK, Answers
<1>5. CallInProgress'
  BY <1>1, <1>3 DEF TypeInv, TypeOK, CallInProgress
<1>6. QED
  BY <1>4, <1>5 DEF TypeInv

\* A call is made: it is refused at once, or goes on to a statement that
\* matches its kind.
LEMMA CallMadeType ==
  ASSUME TypeInv, NEW r \in Requests, NEW c \in Calls, NEW next, NEW a \in Answers,
         Proceed(r, c, next) \/ Refuse(r, c, a),
         next = "check" => c \in CreateCalls,
         next = "write" => c \in StatusCalls /\ c.booking \in Stored,
         next = "move" => c \in MoveCalls /\ c.booking \in Stored,
         next \in {"check", "write", "move"},
         UNCHANGED <<rows, snapshot>>,
         service' \in [Services -> [active : BOOLEAN, provider : Providers]],
         accepting' \in [Providers -> BOOLEAN]
  PROVE  TypeInv'
<1>1. PICK p \in {next, "done"} :
         /\ pc' = [pc EXCEPT ![r] = p]
         /\ call' = [call EXCEPT ![r] = c]
         /\ answer' \in [Requests -> Answers]
  BY DEF Proceed, Refuse, TypeInv, TypeOK
<1>2. Stored' = Stored
  BY DEF Stored
<1>3. TypeOK'
  BY <1>1 DEF TypeInv, TypeOK
<1>4. CallInProgress'
  BY <1>1, <1>2 DEF TypeInv, TypeOK, CallInProgress
<1>5. QED
  BY <1>3, <1>4 DEF TypeInv

\* A step that only ends a request, with some answer, keeps the type invariant.
LEMMA FinishType ==
  ASSUME TypeInv, NEW r \in Requests, NEW a \in Answers, Finish(r, a),
         UNCHANGED <<rows, service, accepting, snapshot>>
  PROVE  TypeInv'
<1>1. Stored' = Stored
  BY DEF Stored
<1>2. TypeOK'
  BY DEF Finish, TypeInv, TypeOK
<1>3. CallInProgress'
  BY <1>1 DEF Finish, TypeInv, TypeOK, CallInProgress
<1>4. QED
  BY <1>2, <1>3 DEF TypeInv

\* The two checks of create's transaction keep the type invariant.
LEMMA CheckSnapshotType ==
  ASSUME TypeInv, NEW r \in Requests, CheckSnapshot(r)
  PROVE  TypeInv'
<1>1. CASE \E a \in Answers : Finish(r, a) /\ UNCHANGED snapshot
  BY <1>1, FinishType DEF CheckSnapshot
<1>2. CASE /\ pc' = [pc EXCEPT ![r] = "insert"]
           /\ snapshot' = [snapshot EXCEPT ![r] = Stored]
           /\ UNCHANGED <<call, answer>>
  <2>1. Stored' = Stored /\ pc[r] = "check"
    BY DEF Stored, CheckSnapshot
  <2>2. TypeOK'
    BY <1>2 DEF CheckSnapshot, TypeInv, TypeOK, Stored
  <2>3. CallInProgress'
    BY <1>2, <2>1 DEF CheckSnapshot, TypeInv, TypeOK, CallInProgress
  <2>4. QED
    BY <2>2, <2>3 DEF TypeInv
<1>3. QED
  BY <1>1, <1>2 DEF CheckSnapshot, Answers

\* The insert of create's transaction keeps the type invariant.
LEMMA CommitBookingType ==
  ASSUME TypeInv, NEW r \in Requests, CommitBooking(r)
  PROVE  TypeInv'
<1>1. call[r] \in CreateCalls
  BY DEF CommitBooking, TypeInv, CallInProgress
<1>2. rows' \in [Requests -> Row \cup {NoRow}] /\ Stored \subseteq Stored'
  BY <1>1, NewRowType DEF CommitBooking, TypeInv, TypeOK, Stored
<1>3. TypeOK'
  BY <1>2 DEF CommitBooking, Finish, TypeInv, TypeOK, Answers
<1>4. CallInProgress'
  BY <1>2 DEF CommitBooking, Finish, TypeInv, TypeOK, CallInProgress
<1>5. QED
  BY <1>3, <1>4 DEF TypeInv

\* The write of a status change or of a move keeps the type invariant.
LEMMA WriteType ==
  ASSUME TypeInv, NEW r \in Requests, WriteStatus(r) \/ MoveBooking(r)
  PROVE  TypeInv'
<1> DEFINE b == call[r].booking
<1>1. CASE WriteStatus(r)
  <2>1. call[r] \in StatusCalls /\ b \in Stored
    BY <1>1 DEF WriteStatus, TypeInv, CallInProgress
  <2>2. [rows[b] EXCEPT !.status = call[r].to] \in Row
    BY <2>1, StoredRow DEF TypeInv, Row, StatusCalls
  <2>3. QED
    BY <1>1, <2>1, <2>2, UpdateRowType DEF WriteStatus
<1>2. CASE MoveBooking(r)
  <2>1. call[r] \in MoveCalls /\ b \in Stored
    BY <1>2 DEF MoveBooking, TypeInv, CallInProgress
  <2>2. [rows[b] EXCEPT !.date = call[r].date, !.time = call[r].time] \in Row
    BY <2>1, StoredRow DEF TypeInv, Row, MoveCalls
  <2>3. QED
    BY <1>2, <2>1, <2>2, UpdateRowType DEF MoveBooking
<1>3. QED
  BY <1>1, <1>2

\* Every step of every handler keeps the type invariant.
LEMMA NextType == TypeInv /\ [Next]_vars => TypeInv'
<1> SUFFICES ASSUME TypeInv, [Next]_vars PROVE TypeInv'
  OBVIOUS
<1>1. CASE UNCHANGED vars
  <2>1. Stored' = Stored
    BY <1>1 DEF vars, Stored
  <2>2. QED
    BY <1>1, <2>1 DEF vars, TypeInv, TypeOK, CallInProgress
<1>2. ASSUME NEW r \in Requests, NEW s \in Services, NEW ph \in Phones,
             NEW d \in Dates, NEW t \in Times, LookUp(r, s, ph, d, t)
      PROVE  TypeInv'
  <2> DEFINE c == CreateCall(s, ph, d, t)
  <2>1. c \in CreateCalls
    BY DEF CreateCall, CreateCalls, TypeInv, TypeOK
  <2>2. c \in Calls
    BY <2>1 DEF Calls
  <2>3. \E a \in Answers : Proceed(r, c, "check") \/ Refuse(r, c, a)
    BY <1>2 DEF LookUp, Answers
  <2> HIDE DEF c
  <2>4. QED
    BY <1>2, <2>1, <2>2, <2>3, CallMadeType DEF LookUp, TypeInv, TypeOK
<1>3. ASSUME NEW r \in Requests, CheckSnapshot(r)
      PROVE  TypeInv'
  BY <1>3, CheckSnapshotType
<1>4. ASSUME NEW r \in Requests, CommitBooking(r)
      PROVE  TypeInv'
  BY <1>4, CommitBookingType
<1>5. ASSUME NEW r \in Requests, SerializationFailure(r) \/ UniqueViolation(r)
      PROVE  TypeInv'
  BY <1>5, FinishType DEF SerializationFailure, UniqueViolation, Answers
<1>6. ASSUME NEW r \in Requests, NEW b \in Requests, NEW to \in Statuses,
             NEW by \in Callers, ReadForStatus(r, b, to, by)
      PROVE  TypeInv'
  <2> DEFINE c == [kind |-> "status", booking |-> b, to |-> to]
  <2>1. c \in StatusCalls /\ c.booking = b
    BY DEF StatusCalls
  <2>2. c \in Calls
    BY <2>1 DEF Calls
  <2>3. PICK a \in Answers : Proceed(r, c, "write") \/ Refuse(r, c, a)
    BY <1>6 DEF ReadForStatus, Answers
  <2>4. b \in Stored /\ UNCHANGED <<rows, service, accepting, snapshot>>
    BY <1>6 DEF ReadForStatus
  <2>5. /\ service' \in [Services -> [active : BOOLEAN, provider : Providers]]
        /\ accepting' \in [Providers -> BOOLEAN]
    BY <2>4 DEF TypeInv, TypeOK
  <2> HIDE DEF c
  <2>6. QED
    BY <2>1, <2>2, <2>3, <2>4, <2>5, CallMadeType
<1>7. ASSUME NEW r \in Requests, WriteStatus(r) \/ MoveBooking(r)
      PROVE  TypeInv'
  BY <1>7, WriteType
<1>8. ASSUME NEW r \in Requests, NEW b \in Requests, NEW d \in Dates,
             NEW t \in Times, NEW by \in Callers, ReadForMove(r, b, d, t, by)
      PROVE  TypeInv'
  <2> DEFINE c == [kind |-> "move", booking |-> b, date |-> d, time |-> t]
  <2>1. c \in MoveCalls /\ c.booking = b
    BY DEF MoveCalls
  <2>2. c \in Calls
    BY <2>1 DEF Calls
  <2>3. PICK a \in Answers : Proceed(r, c, "move") \/ Refuse(r, c, a)
    BY <1>8 DEF ReadForMove, Answers
  <2>4. b \in Stored /\ UNCHANGED <<rows, service, accepting, snapshot>>
    BY <1>8 DEF ReadForMove
  <2>5. /\ service' \in [Services -> [active : BOOLEAN, provider : Providers]]
        /\ accepting' \in [Providers -> BOOLEAN]
    BY <2>4 DEF TypeInv, TypeOK
  <2> HIDE DEF c
  <2>6. QED
    BY <2>1, <2>2, <2>3, <2>4, <2>5, CallMadeType
<1>9. ASSUME NEW r \in Requests, NEW s \in Services, NEW on \in BOOLEAN,
             NEW p \in Providers, EditService(r, s, on, p)
      PROVE  TypeInv'
  <2>1. service' \in [Services -> [active : BOOLEAN, provider : Providers]]
    BY <1>9 DEF EditService, TypeInv, TypeOK
  <2>2. [kind |-> "catalog"] \in Calls
    BY DEF Calls, CatalogCalls
  <2>3. /\ Refuse(r, [kind |-> "catalog"], "updated")
        /\ UNCHANGED <<rows, accepting, snapshot>>
    BY <1>9 DEF EditService
  <2>4. QED
    BY <2>1, <2>2, <2>3 DEF Refuse, TypeInv, TypeOK, CallInProgress, Stored, Answers
<1>10. ASSUME NEW r \in Requests, NEW p \in Providers, NEW on \in BOOLEAN,
              EditProvider(r, p, on)
      PROVE  TypeInv'
  <2>1. accepting' \in [Providers -> BOOLEAN]
    BY <1>10 DEF EditProvider, TypeInv, TypeOK
  <2>2. [kind |-> "catalog"] \in Calls
    BY DEF Calls, CatalogCalls
  <2>3. /\ Refuse(r, [kind |-> "catalog"], "updated")
        /\ UNCHANGED <<rows, service, snapshot>>
    BY <1>10 DEF EditProvider
  <2>4. QED
    BY <2>1, <2>2, <2>3 DEF Refuse, TypeInv, TypeOK, CallInProgress, Stored, Answers
<1>11. QED
  BY <1>1, <1>2, <1>3, <1>4, <1>5, <1>6, <1>7, <1>8, <1>9, <1>10
     DEF Next, Spent

\* Every variable of the engine keeps its type, and a request under way
\* always finds the booking it read.
THEOREM TypeCorrect == Spec => [](TypeOK /\ CallInProgress)
<1>1. Spec => []TypeInv
  BY InitType, NextType, PTL DEF Spec
<1>2. TypeInv => TypeOK /\ CallInProgress
  BY DEF TypeInv
<1>3. QED
  BY <1>1, <1>2, PTL
-----------------------------------------------------------------------------
(* How the bookings table and the answers change *)

\* A finished request keeps its call and its answer.
LEMMA DoneStays ==
  ASSUME TypeInv, [Next]_vars, NEW q \in Requests, pc[q] = "done"
  PROVE  pc'[q] = "done" /\ call'[q] = call[q] /\ answer'[q] = answer[q]
<1>1. CASE UNCHANGED vars
  BY <1>1 DEF vars
<1>2. ASSUME NEW r \in Requests, NEW c, NEW next, NEW a,
             Proceed(r, c, next) \/ Refuse(r, c, a)
      PROVE  pc'[q] = "done" /\ call'[q] = call[q] /\ answer'[q] = answer[q]
  BY <1>2 DEF Proceed, Refuse, TypeInv, TypeOK
<1>3. ASSUME NEW r \in Requests, NEW a, pc[r] # "done", Finish(r, a)
      PROVE  pc'[q] = "done" /\ call'[q] = call[q] /\ answer'[q] = answer[q]
  BY <1>3 DEF Finish, TypeInv, TypeOK
<1>4. ASSUME NEW r \in Requests, CheckSnapshot(r)
      PROVE  pc'[q] = "done" /\ call'[q] = call[q] /\ answer'[q] = answer[q]
  <2>1. pc[r] # "done"
    BY <1>4 DEF CheckSnapshot
  <2>2. CASE \E a : Finish(r, a)
    BY <1>3, <2>1, <2>2
  <2>3. CASE pc' = [pc EXCEPT ![r] = "insert"] /\ UNCHANGED <<call, answer>>
    BY <2>1, <2>3 DEF TypeInv, TypeOK
  <2>4. QED
    BY <1>4, <2>2, <2>3 DEF CheckSnapshot
<1>5. ASSUME NEW r \in Requests, NEW b, NEW row, pc[r] # "done", UpdateRow(r, b, row)
      PROVE  pc'[q] = "done" /\ call'[q] = call[q] /\ answer'[q] = answer[q]
  BY <1>3, <1>5 DEF UpdateRow
<1>6. ASSUME NEW r \in Requests, NEW s, NEW ph, NEW d, NEW t, LookUp(r, s, ph, d, t)
      PROVE  pc'[q] = "done" /\ call'[q] = call[q] /\ answer'[q] = answer[q]
  BY <1>2, <1>6 DEF LookUp
<1>7. ASSUME NEW r \in Requests,
             CommitBooking(r) \/ SerializationFailure(r) \/ UniqueViolation(r)
      PROVE  pc'[q] = "done" /\ call'[q] = call[q] /\ answer'[q] = answer[q]
  <2>1. pc[r] # "done" /\ \E a : Finish(r, a)
    BY <1>7 DEF CommitBooking, SerializationFailure, UniqueViolation
  <2>2. QED
    BY <2>1, <1>3
<1>8. ASSUME NEW r \in Requests, NEW b, NEW to, NEW by, ReadForStatus(r, b, to, by)
      PROVE  pc'[q] = "done" /\ call'[q] = call[q] /\ answer'[q] = answer[q]
  BY <1>2, <1>8 DEF ReadForStatus
<1>9. ASSUME NEW r \in Requests, NEW b, NEW d, NEW t, NEW by,
             ReadForMove(r, b, d, t, by)
      PROVE  pc'[q] = "done" /\ call'[q] = call[q] /\ answer'[q] = answer[q]
  BY <1>2, <1>9 DEF ReadForMove
<1>10. ASSUME NEW r \in Requests, WriteStatus(r) \/ MoveBooking(r)
       PROVE  pc'[q] = "done" /\ call'[q] = call[q] /\ answer'[q] = answer[q]
  <2>1. pc[r] # "done" /\ \E b, row : UpdateRow(r, b, row)
    BY <1>10 DEF WriteStatus, MoveBooking
  <2>2. QED
    BY <2>1, <1>5
<1>11. ASSUME NEW r \in Requests, NEW s, NEW on, NEW p,
              EditService(r, s, on, p) \/ EditProvider(r, p, on)
       PROVE  pc'[q] = "done" /\ call'[q] = call[q] /\ answer'[q] = answer[q]
  BY <1>2, <1>11 DEF EditService, EditProvider
<1>12. QED
  BY <1>1, <1>4, <1>6, <1>7, <1>8, <1>9, <1>10, <1>11 DEF Next, Spent

\* A step inserts one row, replaces one row with another the index allows, or
\* leaves the table alone.
LEMMA TableStep ==
  ASSUME TypeInv, [Next]_vars
  PROVE  \/ UNCHANGED rows
         \/ \E r \in Requests : CommitBooking(r)
         \/ \E r \in Requests, b \in Stored, row \in Row :
              /\ WriteStatus(r) \/ MoveBooking(r)
              /\ b = call[r].booking
              /\ WriteStatus(r) => row = [rows[b] EXCEPT !.status = call[r].to]
              /\ MoveBooking(r) => row = [rows[b] EXCEPT !.date = call[r].date,
                                                        !.time = call[r].time]
              /\ ~IndexRefuses(b, row)
              /\ rows' = [rows EXCEPT ![b] = row]
              /\ Finish(r, "updated")
<1> SUFFICES ASSUME rows' # rows, ~ \E r \in Requests : CommitBooking(r)
             PROVE  \E r \in Requests, b \in Stored, row \in Row :
                      /\ WriteStatus(r) \/ MoveBooking(r)
                      /\ b = call[r].booking
                      /\ WriteStatus(r) => row = [rows[b] EXCEPT !.status = call[r].to]
                      /\ MoveBooking(r) => row = [rows[b] EXCEPT !.date = call[r].date,
                                                                !.time = call[r].time]
                      /\ ~IndexRefuses(b, row)
                      /\ rows' = [rows EXCEPT ![b] = row]
                      /\ Finish(r, "updated")
  OBVIOUS
<1>1. PICK r \in Requests : WriteStatus(r) \/ MoveBooking(r)
  <2>1. ASSUME NEW r \in Requests, NEW s, NEW ph, NEW d, NEW t, LookUp(r, s, ph, d, t)
        PROVE  UNCHANGED rows
    BY <2>1 DEF LookUp
  <2>2. ASSUME NEW r \in Requests,
               CheckSnapshot(r) \/ SerializationFailure(r) \/ UniqueViolation(r)
        PROVE  UNCHANGED rows
    BY <2>2 DEF CheckSnapshot, SerializationFailure, UniqueViolation
  <2>3. ASSUME NEW r \in Requests, NEW b, NEW to, NEW by, ReadForStatus(r, b, to, by)
        PROVE  UNCHANGED rows
    BY <2>3 DEF ReadForStatus
  <2>4. ASSUME NEW r \in Requests, NEW b, NEW d, NEW t, NEW by,
               ReadForMove(r, b, d, t, by)
        PROVE  UNCHANGED rows
    BY <2>4 DEF ReadForMove
  <2>5. ASSUME NEW r \in Requests, NEW s, NEW on, NEW p,
               EditService(r, s, on, p) \/ EditProvider(r, p, on)
        PROVE  UNCHANGED rows
    BY <2>5 DEF EditService, EditProvider
  <2>6. QED
    BY <2>1, <2>2, <2>3, <2>4, <2>5 DEF Next, Spent, vars
<1> DEFINE b == call[r].booking
<1>2. CASE WriteStatus(r)
  <2> DEFINE row == [rows[b] EXCEPT !.status = call[r].to]
  <2>1. call[r] \in StatusCalls /\ b \in Stored /\ pc[r] = "write"
    BY <1>2 DEF WriteStatus, TypeInv, CallInProgress
  <2>2. row \in Row /\ ~MoveBooking(r)
    BY <2>1, StoredRow DEF TypeInv, Row, StatusCalls, MoveBooking
  <2>3. UpdateRow(r, b, row)
    BY <1>2 DEF WriteStatus
  <2>4. /\ ~IndexRefuses(b, row)
        /\ rows' = [rows EXCEPT ![b] = row]
        /\ Finish(r, "updated")
    BY <2>3 DEF UpdateRow
  <2> HIDE DEF row
  <2>5. row = [rows[b] EXCEPT !.status = call[r].to]
    BY DEF row
  <2>6. QED
    BY <1>2, <2>1, <2>2, <2>4, <2>5
<1>3. CASE MoveBooking(r)
  <2> DEFINE row == [rows[b] EXCEPT !.date = call[r].date, !.time = call[r].time]
  <2>1. call[r] \in MoveCalls /\ b \in Stored /\ pc[r] = "move"
    BY <1>3 DEF MoveBooking, TypeInv, CallInProgress
  <2>2. row \in Row /\ ~WriteStatus(r)
    BY <2>1, StoredRow DEF TypeInv, Row, MoveCalls, WriteStatus
  <2>3. UpdateRow(r, b, row)
    BY <1>3 DEF MoveBooking
  <2>4. /\ ~IndexRefuses(b, row)
        /\ rows' = [rows EXCEPT ![b] = row]
        /\ Finish(r, "updated")
    BY <2>3 DEF UpdateRow
  <2> HIDE DEF row
  <2>5. row = [rows[b] EXCEPT !.date = call[r].date, !.time = call[r].time]
    BY DEF row
  <2>6. QED
    BY <1>3, <2>1, <2>2, <2>4, <2>5
<1>4. QED
  BY <1>1, <1>2, <1>3
-----------------------------------------------------------------------------
(* With booking_slot_unique, every write goes through the slot ledger *)

\* What a write that the index allows does to the ledger.
LEMMA AllowedWrite ==
  ASSUME SlotIndex, TypeOK, NEW b \in Requests, NEW row \in Row,
         ~IndexRefuses(b, row), rows' = [rows EXCEPT ![b] = row]
  PROVE  [Ledger!Next]_Held
<1> DEFINE s == SlotOf(row)
<1>1. rows \in [Requests -> Row \cup {NoRow}] /\ row # NoRow
  BY NullAssumption DEF TypeOK
<1>2. \A h \in Requests \ {b} : rows'[h] = rows[h]
  BY <1>1
<1>3. rows'[b] = row
  BY <1>1
<1>4. Held \in [Requests -> Slots \cup {<<>>}] /\ s \in Slots /\ s # <<>>
  BY <1>1 DEF Held, Active, Stored, SlotOf, Slots, Row
<1>5. \A h \in Requests : (h \in Active <=> Held[h] # <<>>)
  BY <1>1 DEF Held, Active, Stored, SlotOf, Row
<1>6. Held' = [Held EXCEPT ![b] = IF row.status = "CANCELLED" THEN <<>> ELSE s]
  <2>1. \A h \in Requests \ {b} : h \in Active' <=> h \in Active
    BY <1>2 DEF Active, Stored
  <2>2. b \in Active' <=> row.status # "CANCELLED"
    BY <1>1, <1>3 DEF Active, Stored
  <2>3. Held' = [h \in Requests |->
                   IF h \in Active' THEN SlotOf(rows'[h]) ELSE <<>>]
    BY DEF Held, SlotOf
  <2>4. Held = [h \in Requests |-> IF h \in Active THEN SlotOf(rows[h]) ELSE <<>>]
    BY DEF Held
  <2> HIDE DEF s
  <2>5. b \in Active' => SlotOf(rows'[b]) = s
    BY <1>3 DEF s
  <2>6. QED
    BY <1>2, <2>1, <2>2, <2>3, <2>4, <2>5
<1>7. CASE row.status = "CANCELLED"
  <2>1. CASE Held[b] = <<>>
    BY <1>4, <1>6, <1>7, <2>1
  <2>2. CASE Held[b] # <<>>
    BY <1>6, <1>7, <2>2 DEF Ledger!Next, Ledger!Release
  <2>3. QED
    BY <2>1, <2>2
<1>8. CASE row.status # "CANCELLED"
  <2>1. \A h \in Requests \ {b} : Held[h] # s
    BY <1>4, <1>8 DEF IndexRefuses, Held
  <2>2. CASE Held[b] = s
    BY <1>4, <1>6, <1>8, <2>2
  <2>3. CASE Held[b] # s
    <3>1. Ledger!Free(s)
      BY <2>1, <2>3 DEF Ledger!Free
    <3>2. Ledger!Claim(b, s) \/ Ledger!Exchange(b, s)
      BY <1>6, <1>8, <3>1 DEF Ledger!Claim, Ledger!Exchange
    <3>3. QED
      BY <1>4, <3>2 DEF Ledger!Next
  <2>4. QED
    BY <2>2, <2>3
<1>9. QED
  BY <1>7, <1>8

\* With the partial unique index in place, the engine implements the ledger of
\* slots: no interleaving of creates, status changes and moves claims a slot
\* another booking holds.
THEOREM ImplementsSlotLedger == ASSUME SlotIndex PROVE Spec => SlotLedgerSpec
<1>1. Init => Ledger!Init
  BY DEF Init, Ledger!Init, Held, Active, Stored
<1>2. TypeInv /\ [Next]_vars => [Ledger!Next]_Held
  <2> SUFFICES ASSUME TypeInv, [Next]_vars PROVE [Ledger!Next]_Held
    OBVIOUS
  <2>1. CASE UNCHANGED rows
    BY <2>1 DEF Held, Active, Stored
  <2>2. ASSUME NEW r \in Requests, CommitBooking(r) PROVE [Ledger!Next]_Held
    <3>1. call[r] \in CreateCalls
      BY <2>2 DEF CommitBooking, TypeInv, CallInProgress
    <3>2. QED
      BY <2>2, <3>1, NewRowType, AllowedWrite DEF CommitBooking, TypeInv
  <2>3. ASSUME NEW b \in Stored, NEW row \in Row, ~IndexRefuses(b, row),
               rows' = [rows EXCEPT ![b] = row]
        PROVE  [Ledger!Next]_Held
    BY <2>3, AllowedWrite, StoredRow DEF TypeInv
  <2>4. QED
    BY <2>1, <2>2, <2>3, TableStep
<1>3. QED
  BY <1>1, <1>2, InitType, NextType, PTL DEF Spec, SlotLedgerSpec, Ledger!Spec

\* A write that the index allows gives no slot to two bookings.
LEMMA AllowedWriteExclusive ==
  ASSUME SlotIndex, TypeOK, SlotHeldOnce, NEW b \in Requests, NEW row \in Row,
         ~IndexRefuses(b, row), rows' = [rows EXCEPT ![b] = row]
  PROVE  SlotHeldOnce'
<1>1. rows \in [Requests -> Row \cup {NoRow}]
  BY DEF TypeOK
<1>2. \A a \in Active' \ {b} : a \in Active /\ rows'[a] = rows[a]
  BY <1>1 DEF Active, Stored
<1>3. b \in Active' => \A a \in Active' \ {b} : SlotOf(rows[a]) # SlotOf(row)
  BY <1>1, <1>2 DEF IndexRefuses, Active, Stored
<1>4. rows'[b] = row
  BY <1>1
<1>5. QED
  BY <1>2, <1>3, <1>4 DEF SlotHeldOnce

\* With the partial unique index, no slot is ever held by two uncancelled
\* bookings, whatever the calls.
THEOREM IndexKeepsSlotsExclusive == ASSUME SlotIndex PROVE Spec => []SlotHeldOnce
<1>1. Init => SlotHeldOnce
  BY DEF Init, SlotHeldOnce, Active, Stored
<1>2. TypeInv /\ SlotHeldOnce /\ [Next]_vars => SlotHeldOnce'
  <2> SUFFICES ASSUME TypeInv, SlotHeldOnce, [Next]_vars PROVE SlotHeldOnce'
    OBVIOUS
  <2>1. CASE UNCHANGED rows
    BY <2>1 DEF SlotHeldOnce, Active, Stored
  <2>2. ASSUME NEW r \in Requests, CommitBooking(r) PROVE SlotHeldOnce'
    <3>1. call[r] \in CreateCalls
      BY <2>2 DEF CommitBooking, TypeInv, CallInProgress
    <3>2. QED
      BY <2>2, <3>1, NewRowType, AllowedWriteExclusive DEF CommitBooking, TypeInv
  <2>3. ASSUME NEW b \in Stored, NEW row \in Row, ~IndexRefuses(b, row),
               rows' = [rows EXCEPT ![b] = row]
        PROVE  SlotHeldOnce'
    BY <2>3, AllowedWriteExclusive, StoredRow DEF TypeInv
  <2>4. QED
    BY <2>1, <2>2, <2>3, TableStep
<1>3. QED
  BY <1>1, <1>2, InitType, NextType, PTL DEF Spec
-----------------------------------------------------------------------------
(* Without the index, SERIALIZABLE is enough for create calls alone *)

\* A stored row belongs to a request that has finished and is what its create
\* call asked for: true as long as nobody updates bookings.
RowsAsCreated ==
  \A b \in Stored :
    pc[b] = "done" /\ call[b] \in CreateCalls /\ rows[b] = NewRow(call[b])

\* What the checks of a transaction about to insert established about the
\* rows of its snapshot.
SnapshotChecked ==
  \A r \in Requests :
    pc[r] = "insert" =>
      \A b \in snapshot[r] :
        /\ b \in Stored
        /\ SlotOf(call[b]) # SlotOf(call[r])
        /\ DuplicateKey(call[b]) # DuplicateKey(call[r])

SerializableInv ==
  TypeInv /\ RowsAsCreated /\ SnapshotChecked /\ SlotHeldOnce /\ NoDuplicateBooking

\* A row nobody updated is active, under the slot and key it was created for.
LEMMA AsCreatedKeys ==
  ASSUME RowsAsCreated, NEW b \in Stored
  PROVE  /\ b \in Active
         /\ SlotOf(rows[b]) = SlotOf(call[b])
         /\ DuplicateKey(rows[b]) = DuplicateKey(call[b])
  BY NewRowType DEF RowsAsCreated, Active

\* No update runs when the only calls are creates and catalogue edits.
LEMMA NoUpdates ==
  ASSUME Kinds \cap {"status", "move"} = {}
  PROVE  /\ Init => \A r \in Requests : pc[r] \notin {"write", "move"}
         /\ TypeInv /\ (\A r \in Requests : pc[r] \notin {"write", "move"}) /\ [Next]_vars
              => (\A r \in Requests : pc[r] \notin {"write", "move"})'
<1>1. Init => \A r \in Requests : pc[r] \notin {"write", "move"}
  BY DEF Init
<1>2. ASSUME TypeInv, \A r \in Requests : pc[r] \notin {"write", "move"}, [Next]_vars
      PROVE  \A r \in Requests : pc'[r] \notin {"write", "move"}
  <2> DEFINE Quiet == \A r \in Requests : pc'[r] \notin {"write", "move"}
  <2>1. ASSUME UNCHANGED vars PROVE Quiet
    BY <1>2, <2>1 DEF vars
  <2>2. ASSUME NEW r \in Requests, NEW p \in {"check", "insert", "done"},
               pc' = [pc EXCEPT ![r] = p]
        PROVE  Quiet
    BY <1>2, <2>2 DEF TypeInv, TypeOK
  <2> HIDE DEF Quiet
  <2>3. ASSUME NEW r \in Requests, NEW s, NEW ph, NEW d, NEW t, LookUp(r, s, ph, d, t)
        PROVE  Quiet
    BY <2>2, <2>3 DEF LookUp, Proceed, Refuse
  <2>4. ASSUME NEW r \in Requests,
               \/ CheckSnapshot(r) \/ CommitBooking(r)
               \/ SerializationFailure(r) \/ UniqueViolation(r)
        PROVE  Quiet
    BY <2>2, <2>4 DEF CheckSnapshot, CommitBooking, SerializationFailure,
                      UniqueViolation, Finish
  <2>5. ASSUME NEW r \in Requests, NEW b, NEW to, NEW by, ReadForStatus(r, b, to, by)
        PROVE  FALSE
    BY <2>5 DEF ReadForStatus, Proceed, Refuse
  <2>6. ASSUME NEW r \in Requests, NEW b, NEW d, NEW t, NEW by,
               ReadForMove(r, b, d, t, by)
        PROVE  FALSE
    BY <2>6 DEF ReadForMove, Proceed, Refuse
  <2>7. ASSUME NEW r \in Requests, WriteStatus(r) \/ MoveBooking(r)
        PROVE  FALSE
    BY <1>2, <2>7 DEF WriteStatus, MoveBooking
  <2>8. ASSUME NEW r \in Requests, NEW s, NEW on, NEW p,
               EditService(r, s, on, p) \/ EditProvider(r, p, on)
        PROVE  Quiet
    BY <2>2, <2>8 DEF EditService, EditProvider, Refuse
  <2>9. Quiet
    BY <1>2, <2>1, <2>3, <2>4, <2>5, <2>6, <2>7, <2>8 DEF Next, Spent
  <2>10. QED
    BY <2>9 DEF Quiet
<1>3. QED
  BY <1>1, <1>2

\* A transaction that commits with no rival has no stored row against it: the
\* rows of its snapshot passed its checks, and the rows committed since are
\* not its rivals.
LEMMA CommitIsClear ==
  ASSUME SerializableInv, NEW r \in Requests, CommitBooking(r)
  PROVE  \A b \in Stored : /\ SlotOf(call[b]) # SlotOf(call[r])
                           /\ DuplicateKey(call[b]) # DuplicateKey(call[r])
<1> SUFFICES ASSUME NEW b \in Stored
             PROVE  /\ SlotOf(call[b]) # SlotOf(call[r])
                    /\ DuplicateKey(call[b]) # DuplicateKey(call[r])
  OBVIOUS
<1>1. CASE b \in snapshot[r]
  BY <1>1 DEF CommitBooking, SerializableInv, SnapshotChecked
<1>2. CASE b \notin snapshot[r]
  <2>1. b \in CommittedSince(r)
    BY <1>2 DEF CommittedSince
  <2>2. QED
    BY <2>1 DEF CommitBooking, Rivals
<1>3. QED
  BY <1>1, <1>2

\* A transaction of create that commits keeps the serializable invariant.
LEMMA CommitKeepsSerializable ==
  ASSUME SerializableInv, NEW r \in Requests, CommitBooking(r)
  PROVE  RowsAsCreated' /\ SnapshotChecked' /\ SlotHeldOnce' /\ NoDuplicateBooking'
<1> DEFINE row == NewRow(call[r])
<1>1. call[r] \in CreateCalls
  BY DEF CommitBooking, SerializableInv, TypeInv, CallInProgress
<1>2. row \in Row /\ row # NoRow /\ SlotOf(row) = SlotOf(call[r])
      /\ DuplicateKey(row) = DuplicateKey(call[r])
  BY <1>1, NewRowType
<1> HIDE DEF row
<1>3. /\ rows \in [Requests -> Row \cup {NoRow}]
      /\ rows' = [rows EXCEPT ![r] = row]
      /\ pc \in [Requests -> {"idle", "check", "insert", "write", "move", "done"}]
      /\ pc' = [pc EXCEPT ![r] = "done"]
      /\ pc[r] = "insert"
      /\ UNCHANGED <<call, snapshot>>
  BY DEF CommitBooking, Finish, SerializableInv, TypeInv, TypeOK, row
<1>4. /\ Stored' = Stored \cup {r}
      /\ r \notin Stored
      /\ \A b \in Stored : b # r /\ rows'[b] = rows[b]
      /\ rows'[r] = row
  BY <1>2, <1>3 DEF Stored, SerializableInv, RowsAsCreated
<1>5. Active' \subseteq Active \cup {r}
  BY <1>4 DEF Active
<1>6. \A b \in Active : /\ SlotOf(rows[b]) # SlotOf(row)
                        /\ DuplicateKey(rows[b]) # DuplicateKey(row)
  <2> SUFFICES ASSUME NEW b \in Active
               PROVE  /\ SlotOf(rows[b]) # SlotOf(row)
                      /\ DuplicateKey(rows[b]) # DuplicateKey(row)
    OBVIOUS
  <2>1. b \in Stored
    BY DEF Active
  <2>2. QED
    BY <1>2, <2>1, AsCreatedKeys, CommitIsClear DEF SerializableInv
<1>7. SlotHeldOnce' /\ NoDuplicateBooking'
  BY <1>4, <1>5, <1>6 DEF SerializableInv, SlotHeldOnce, NoDuplicateBooking, Active
<1>8. RowsAsCreated'
  BY <1>1, <1>3, <1>4 DEF SerializableInv, RowsAsCreated, row
<1>9. SnapshotChecked'
  <2> SUFFICES ASSUME NEW q \in Requests, pc'[q] = "insert", NEW b \in snapshot[q]
               PROVE  /\ b \in Stored'
                      /\ SlotOf(call[b]) # SlotOf(call[q])
                      /\ DuplicateKey(call[b]) # DuplicateKey(call[q])
    BY <1>3 DEF SnapshotChecked
  <2>1. pc[q] = "insert"
    BY <1>3
  <2>2. QED
    BY <1>4, <2>1 DEF SerializableInv, SnapshotChecked
<1>10. QED
  BY <1>7, <1>8, <1>9

\* A transaction that goes on to its insert saw no row like its own.
LEMMA CheckKeepsSerializable ==
  ASSUME SerializableInv, NEW r \in Requests, CheckSnapshot(r)
  PROVE  SnapshotChecked'
<1> SUFFICES ASSUME NEW q \in Requests, pc'[q] = "insert", NEW b \in snapshot'[q]
             PROVE  /\ b \in Stored'
                    /\ SlotOf(call'[b]) # SlotOf(call'[q])
                    /\ DuplicateKey(call'[b]) # DuplicateKey(call'[q])
  BY DEF SnapshotChecked, SlotOf, DuplicateKey
<1>1. /\ UNCHANGED <<rows, call>>
      /\ Stored' = Stored
      /\ pc \in [Requests -> {"idle", "check", "insert", "write", "move", "done"}]
      /\ snapshot \in [Requests -> SUBSET Requests]
  BY DEF CheckSnapshot, Finish, Stored, SerializableInv, TypeInv, TypeOK
<1>2. CASE q # r
  <2>1. pc[q] = "insert" /\ snapshot'[q] = snapshot[q]
    BY <1>1, <1>2 DEF CheckSnapshot, Finish
  <2>2. QED
    BY <1>1, <2>1 DEF SerializableInv, SnapshotChecked
<1>3. CASE q = r
  <2>1. ~SlotTaken(call[r]) /\ ~Duplicated(call[r]) /\ snapshot'[r] = Stored
    BY <1>1, <1>3 DEF CheckSnapshot, Finish
  <2>2. b \in Stored
    BY <1>3, <2>1
  <2>3. /\ b \in Active
        /\ SlotOf(rows[b]) = SlotOf(call[b])
        /\ DuplicateKey(rows[b]) = DuplicateKey(call[b])
    BY <2>2, AsCreatedKeys DEF SerializableInv
  <2>4. QED
    BY <1>1, <1>3, <2>1, <2>2, <2>3 DEF SlotTaken, Duplicated
<1>4. QED
  BY <1>2, <1>3

\* A step other than a commit or a snapshot check leaves rows, snapshots and
\* the calls of stored rows and of transactions about to insert alone.
LEMMA OtherStepsSerializable ==
  ASSUME TypeInv, [Next]_vars,
         \A r \in Requests : pc[r] \notin {"write", "move"},
         \A r \in Requests : ~CommitBooking(r) /\ ~CheckSnapshot(r)
  PROVE  /\ UNCHANGED <<rows, snapshot>>
         /\ \A q \in Requests : pc'[q] = "insert" => pc[q] = "insert"
         /\ \A q \in Requests : pc[q] # "idle" => call'[q] = call[q]
<1> DEFINE Calm == /\ UNCHANGED <<rows, snapshot>>
                   /\ \A q \in Requests : pc'[q] = "insert" => pc[q] = "insert"
                   /\ \A q \in Requests : pc[q] # "idle" => call'[q] = call[q]
<1>1. ASSUME UNCHANGED vars PROVE Calm
  BY <1>1 DEF vars
<1>2. ASSUME NEW r \in Requests, NEW c, NEW next, NEW a,
             Proceed(r, c, next) \/ Refuse(r, c, a), next # "insert",
             UNCHANGED <<rows, snapshot>>
      PROVE  Calm
  BY <1>2 DEF Proceed, Refuse, TypeInv, TypeOK
<1>3. ASSUME NEW r \in Requests, NEW a, Finish(r, a), UNCHANGED <<rows, snapshot>>
      PROVE  Calm
  BY <1>3 DEF Finish, TypeInv, TypeOK
<1> HIDE DEF Calm
<1>4. ASSUME NEW r \in Requests, NEW s, NEW ph, NEW d, NEW t, LookUp(r, s, ph, d, t)
      PROVE  Calm
  BY <1>2, <1>4 DEF LookUp
<1>5. ASSUME NEW r \in Requests, SerializationFailure(r) \/ UniqueViolation(r)
      PROVE  Calm
  BY <1>3, <1>5 DEF SerializationFailure, UniqueViolation
<1>6. ASSUME NEW r \in Requests, NEW b, NEW to, NEW by, ReadForStatus(r, b, to, by)
      PROVE  Calm
  BY <1>2, <1>6 DEF ReadForStatus
<1>7. ASSUME NEW r \in Requests, NEW b, NEW d, NEW t, NEW by,
             ReadForMove(r, b, d, t, by)
      PROVE  Calm
  BY <1>2, <1>7 DEF ReadForMove
<1>8. ASSUME NEW r \in Requests, NEW s, NEW on, NEW p,
             EditService(r, s, on, p) \/ EditProvider(r, p, on)
      PROVE  Calm
  BY <1>2, <1>8 DEF EditService, EditProvider
<1>9. \A r \in Requests : ~WriteStatus(r) /\ ~MoveBooking(r)
  BY DEF WriteStatus, MoveBooking
<1>10. Calm
  BY <1>1, <1>4, <1>5, <1>6, <1>7, <1>8, <1>9 DEF Next, Spent
<1>11. QED
  BY <1>10 DEF Calm

\* POST /bookings needs no unique index against itself: as long as bookings
\* are only created, the SERIALIZABLE transaction keeps slots exclusive and
\* admits no duplicate, with or without booking_slot_unique.
THEOREM SerializableSuffices ==
  ASSUME Kinds \cap {"status", "move"} = {}
  PROVE  Spec => [](SlotHeldOnce /\ NoDuplicateBooking)
<1> DEFINE Quiet == \A r \in Requests : pc[r] \notin {"write", "move"}
<1>1. Init => SerializableInv /\ Quiet
  BY InitType, NoUpdates
     DEF Init, SerializableInv, RowsAsCreated, SnapshotChecked, SlotHeldOnce,
         NoDuplicateBooking, Active, Stored
<1>2. SerializableInv /\ Quiet /\ [Next]_vars => SerializableInv' /\ Quiet'
  <2> SUFFICES ASSUME SerializableInv, Quiet, [Next]_vars
               PROVE  SerializableInv' /\ Quiet'
    OBVIOUS
  <2>1. Quiet' /\ TypeInv'
    BY NoUpdates, NextType DEF SerializableInv
  <2>2. ASSUME NEW r \in Requests, CommitBooking(r) PROVE SerializableInv'
    BY <2>1, <2>2, CommitKeepsSerializable DEF SerializableInv
  <2>3. ASSUME NEW r \in Requests, CheckSnapshot(r) PROVE SerializableInv'
    <3>1. UNCHANGED <<rows, call>> /\ Stored' = Stored
      BY <2>3 DEF CheckSnapshot, Finish, Stored
    <3>2. \A b \in Stored : pc'[b] = "done"
      BY <2>3, DoneStays DEF SerializableInv, RowsAsCreated, Stored
    <3>3. RowsAsCreated' /\ SlotHeldOnce' /\ NoDuplicateBooking'
      BY <3>1, <3>2
         DEF SerializableInv, RowsAsCreated, SlotHeldOnce, NoDuplicateBooking, Active
    <3>4. QED
      BY <2>1, <2>3, <3>3, CheckKeepsSerializable DEF SerializableInv
  <2>4. CASE \A r \in Requests : ~CommitBooking(r) /\ ~CheckSnapshot(r)
    <3>1. /\ UNCHANGED <<rows, snapshot>>
          /\ \A q \in Requests : pc'[q] = "insert" => pc[q] = "insert"
          /\ \A q \in Requests : pc[q] # "idle" => call'[q] = call[q]
      BY <2>4, OtherStepsSerializable DEF SerializableInv
    <3>2. Stored' = Stored /\ Active' = Active
      BY <3>1 DEF Stored, Active
    <3>3. \A b \in Stored : pc'[b] = "done" /\ call'[b] = call[b]
      BY DoneStays DEF SerializableInv, RowsAsCreated, Stored
    <3>4. RowsAsCreated' /\ SlotHeldOnce' /\ NoDuplicateBooking'
      BY <3>1, <3>2, <3>3
         DEF SerializableInv, RowsAsCreated, SlotHeldOnce, NoDuplicateBooking
    <3>5. SnapshotChecked'
      BY <3>1, <3>2, <3>3 DEF SerializableInv, SnapshotChecked
    <3>6. QED
      BY <2>1, <3>4, <3>5 DEF SerializableInv
  <2>5. QED
    BY <2>1, <2>2, <2>3, <2>4
<1>3. SerializableInv => SlotHeldOnce /\ NoDuplicateBooking
  BY DEF SerializableInv
<1> HIDE DEF Quiet
<1>4. QED
  BY <1>1, <1>2, <1>3, PTL DEF Spec
-----------------------------------------------------------------------------
(* What a request under way turns into *)

\* A request that is not finished is the one that moves, is answered and then
\* finished, or stays as it is.
LEMMA OwnSteps ==
  ASSUME TypeInv, [Next]_vars, NEW q \in Requests
  PROVE  \/ pc'[q] = pc[q] /\ call'[q] = call[q] /\ answer'[q] = answer[q]
         \/ \E s \in Services, ph \in Phones, d \in Dates, t \in Times :
              LookUp(q, s, ph, d, t)
         \/ CheckSnapshot(q) \/ CommitBooking(q)
         \/ SerializationFailure(q) \/ UniqueViolation(q)
         \/ \E b \in Requests, to \in Statuses, by \in Callers :
              ReadForStatus(q, b, to, by)
         \/ WriteStatus(q)
         \/ \E b \in Requests, d \in Dates, t \in Times, by \in Callers :
              ReadForMove(q, b, d, t, by)
         \/ MoveBooking(q)
         \/ Refuse(q, [kind |-> "catalog"], "updated")
<1> DEFINE Still == pc'[q] = pc[q] /\ call'[q] = call[q] /\ answer'[q] = answer[q]
<1>1. ASSUME UNCHANGED vars PROVE Still
  BY <1>1 DEF vars
<1>2. ASSUME NEW r \in Requests \ {q}, NEW c, NEW next, NEW a,
             Proceed(r, c, next) \/ Refuse(r, c, a) \/ Finish(r, a)
      PROVE  Still
  BY <1>2 DEF Proceed, Refuse, Finish, TypeInv, TypeOK
<1>3. ASSUME NEW r \in Requests \ {q}, CheckSnapshot(r) PROVE Still
  <2>1. CASE \E a : Finish(r, a)
    BY <1>2, <2>1
  <2>2. CASE pc' = [pc EXCEPT ![r] = "insert"] /\ UNCHANGED <<call, answer>>
    BY <2>2 DEF TypeInv, TypeOK
  <2>3. QED
    BY <1>3, <2>1, <2>2 DEF CheckSnapshot
<1> HIDE DEF Still
<1>4. ASSUME NEW r \in Requests \ {q}, NEW s, NEW ph, NEW d, NEW t,
             LookUp(r, s, ph, d, t)
      PROVE  Still
  BY <1>2, <1>4 DEF LookUp
<1>5. ASSUME NEW r \in Requests \ {q},
             CommitBooking(r) \/ SerializationFailure(r) \/ UniqueViolation(r)
      PROVE  Still
  BY <1>2, <1>5 DEF CommitBooking, SerializationFailure, UniqueViolation
<1>6. ASSUME NEW r \in Requests \ {q}, NEW b, NEW to, NEW by,
             ReadForStatus(r, b, to, by)
      PROVE  Still
  BY <1>2, <1>6 DEF ReadForStatus
<1>7. ASSUME NEW r \in Requests \ {q}, WriteStatus(r) \/ MoveBooking(r) PROVE Still
  <2>1. \E a : Finish(r, a)
    BY <1>7 DEF WriteStatus, MoveBooking, UpdateRow
  <2>2. QED
    BY <1>2, <2>1
<1>8. ASSUME NEW r \in Requests \ {q}, NEW b, NEW d, NEW t, NEW by,
             ReadForMove(r, b, d, t, by)
      PROVE  Still
  BY <1>2, <1>8 DEF ReadForMove
<1>9. ASSUME NEW r \in Requests \ {q}, NEW s, NEW on, NEW p,
             EditService(r, s, on, p) \/ EditProvider(r, p, on)
      PROVE  Still
  BY <1>2, <1>9 DEF EditService, EditProvider
<1>10. ASSUME NEW s, NEW on, NEW p, EditService(q, s, on, p) \/ EditProvider(q, p, on)
       PROVE  Refuse(q, [kind |-> "catalog"], "updated")
  BY <1>10 DEF EditService, EditProvider
<1>11. SUFFICES ASSUME ~Still
               PROVE  \/ \E s \in Services, ph \in Phones, d \in Dates, t \in Times :
                           LookUp(q, s, ph, d, t)
                      \/ CheckSnapshot(q) \/ CommitBooking(q)
                      \/ SerializationFailure(q) \/ UniqueViolation(q)
                      \/ \E b \in Requests, to \in Statuses, by \in Callers :
                           ReadForStatus(q, b, to, by)
                      \/ WriteStatus(q)
                      \/ \E b \in Requests, d \in Dates, t \in Times, by \in Callers :
                           ReadForMove(q, b, d, t, by)
                      \/ MoveBooking(q)
                      \/ Refuse(q, [kind |-> "catalog"], "updated")
  BY DEF Still
<1>12. Next /\ ~Spent
  BY <1>1, <1>11 DEF Spent
<1>13. QED
  BY <1>3, <1>4, <1>5, <1>6, <1>7, <1>8, <1>9, <1>10, <1>11, <1>12 DEF Next

\* Only a finished request has an answer, and only a finished one has a row.
AnsweredIsDone ==
  /\ \A r \in Requests : answer[r] # "none" => pc[r] = "done"
  /\ \A b \in Stored : pc[b] = "done"

\* No request has an answer before it is made.
LEMMA InitAnswered == Init => AnsweredIsDone
  BY DEF Init, AnsweredIsDone, Stored

\* A request has an answer only when it is done.
LEMMA NextAnswered == TypeInv /\ AnsweredIsDone /\ [Next]_vars => AnsweredIsDone'
<1> SUFFICES ASSUME TypeInv, AnsweredIsDone, [Next]_vars PROVE AnsweredIsDone'
  OBVIOUS
<1>1. ASSUME NEW q \in Requests, answer'[q] # "none" PROVE pc'[q] = "done"
  <2>1. CASE pc[q] = "done"
    BY <2>1, DoneStays
  <2>2. CASE answer[q] = "none" /\ \E a : Finish(q, a)
    BY <2>2 DEF Finish, TypeInv, TypeOK
  <2>3. CASE answer[q] = "none" /\ \E c, a : Refuse(q, c, a)
    BY <2>3 DEF Refuse, TypeInv, TypeOK
  <2>4. CASE answer[q] = "none" /\ answer'[q] = answer[q]
    BY <1>1, <2>4
  <2>5. CASE answer[q] = "none" /\ \E c, next : Proceed(q, c, next)
    BY <1>1, <2>5 DEF Proceed
  <2>6. CASE answer[q] = "none" /\ UNCHANGED answer
    BY <1>1, <2>6
  <2>7. answer[q] = "none" \/ pc[q] = "done"
    BY DEF AnsweredIsDone
  <2>8. QED
    BY <2>1, <2>2, <2>3, <2>4, <2>5, <2>6, <2>7, OwnSteps
       DEF LookUp, CheckSnapshot, CommitBooking, SerializationFailure,
           UniqueViolation, ReadForStatus, WriteStatus, ReadForMove, MoveBooking,
           UpdateRow
<1>2. ASSUME NEW b \in Stored' PROVE pc'[b] = "done"
  <2>1. CASE b \in Stored
    <3>1. b \in Requests /\ pc[b] = "done"
      BY <2>1 DEF AnsweredIsDone, Stored
    <3>2. QED
      BY <3>1, DoneStays
  <2>2. CASE b \notin Stored
    <3>1. b \in Requests /\ rows'[b] # rows[b]
      BY <1>2, <2>2 DEF Stored
    <3>2. PICK r \in Requests : CommitBooking(r)
      <4>1. ASSUME NEW a \in Stored, NEW row \in Row, rows' = [rows EXCEPT ![a] = row]
            PROVE  rows'[b] = rows[b]
        BY <2>2, <3>1, <4>1 DEF TypeInv, TypeOK
      <4>2. QED
        BY <3>1, <4>1, TableStep
    <3>3. b = r
      BY <3>1, <3>2 DEF CommitBooking, TypeInv, TypeOK
    <3>4. QED
      BY <3>2, <3>3 DEF CommitBooking, Finish, TypeInv, TypeOK
  <2>3. QED
    BY <2>1, <2>2
<1>3. QED
  BY <1>1, <1>2 DEF AnsweredIsDone

\* A row, once stored, stays stored.
LEMMA StoredGrows ==
  ASSUME TypeInv, [Next]_vars
  PROVE  Stored \subseteq Stored'
<1> SUFFICES ASSUME NEW b \in Stored PROVE rows'[b] # NoRow /\ b \in Requests
  BY DEF Stored
<1>1. b \in Requests /\ rows[b] # NoRow /\ rows \in [Requests -> Row \cup {NoRow}]
  BY DEF Stored, TypeInv, TypeOK
<1>2. ASSUME NEW a \in Requests, NEW row \in Row, rows' = [rows EXCEPT ![a] = row]
      PROVE  rows'[b] # NoRow
  BY <1>1, <1>2, NullAssumption
<1>3. ASSUME NEW r \in Requests, CommitBooking(r)
      PROVE  rows'[b] # NoRow
  <2>1. NewRow(call[r]) \in Row /\ rows' = [rows EXCEPT ![r] = NewRow(call[r])]
    BY <1>3, NewRowType DEF CommitBooking, TypeInv, CallInProgress
  <2>2. QED
    BY <1>2, <2>1
<1>4. QED
  BY <1>1, <1>2, <1>3, TableStep, StoredRow DEF TypeInv

-----------------------------------------------------------------------------
(* What callers were told of a booking *)

\* Each booking was made by a call of its own, whoever was told of a change of a
\* booking changed one that is stored, and each is what callers were told.
AnsweredInv ==
  /\ \A b \in Stored : call[b] \in CreateCalls
  /\ \A b \in Requests, kind \in {"status", "move"} : Changes(b, kind) # {} => b \in Stored
  /\ AnsweredChangesStand

\* Who was told of a change stays told.
LEMMA ChangesStay ==
  ASSUME TypeInv, AnsweredIsDone, [Next]_vars, NEW b, NEW kind, NEW q \in Changes(b, kind)
  PROVE  q \in Changes(b, kind)' /\ call'[q] = call[q]
<1>1. answer'[q] = answer[q] /\ call'[q] = call[q]
  BY DoneStays DEF Changes, AnsweredIsDone
<1>2. QED
  BY <1>1 DEF Changes

\* The statement of a request, of which its caller is then told.
LEMMA NewChange ==
  ASSUME TypeInv, AnsweredIsDone, [Next]_vars, NEW b \in Requests,
         NEW kind \in {"status", "move"}, NEW q \in Changes(b, kind)', q \notin Changes(b, kind)
  PROVE  /\ b \in Stored /\ call'[q] = call[q] /\ call[q].booking = b
         /\ kind = "status" => rows'[b] = [rows[b] EXCEPT !.status = call[q].to]
         /\ kind = "move" => rows'[b] = [rows[b] EXCEPT !.date = call[q].date,
                                                        !.time = call[q].time]
<1>1. /\ q \in Requests /\ answer'[q] = "updated" /\ call'[q].kind = kind
      /\ call'[q].booking = b
  BY DEF Changes
<1>2. answer[q] = "none"
  <2>1. CASE pc[q] = "done"
    BY <1>1, <2>1, DoneStays DEF Changes
  <2>2. QED
    BY <1>1, <2>1 DEF AnsweredIsDone
<1>3. rows \in [Requests -> Row \cup {NoRow}]
  BY DEF TypeInv, TypeOK
<1>4. WriteStatus(q) \/ MoveBooking(q)
  <2>1. ASSUME NEW a \in Answers \ {"updated"}, Finish(q, a) \/ \E c : Refuse(q, c, a)
        PROVE  FALSE
    BY <1>1, <2>1 DEF Finish, Refuse, TypeInv, TypeOK
  <2>2. ~CheckSnapshot(q)
    BY <1>1, <1>2, <2>1 DEF CheckSnapshot, Answers
  <2>3. ~CommitBooking(q) /\ ~SerializationFailure(q) /\ ~UniqueViolation(q)
    BY <2>1 DEF CommitBooking, SerializationFailure, UniqueViolation, Answers
  <2>4. ASSUME NEW c, NEW next, Proceed(q, c, next) PROVE FALSE
    BY <1>1, <1>2, <2>4 DEF Proceed
  <2>5. ASSUME NEW s, NEW ph, NEW d, NEW t, LookUp(q, s, ph, d, t) PROVE FALSE
    BY <2>1, <2>4, <2>5 DEF LookUp, Answers
  <2>6. ASSUME NEW a, NEW to, NEW by, ReadForStatus(q, a, to, by) PROVE FALSE
    BY <2>1, <2>4, <2>6 DEF ReadForStatus, Answers
  <2>7. ASSUME NEW a, NEW d, NEW t, NEW by, ReadForMove(q, a, d, t, by) PROVE FALSE
    BY <2>1, <2>4, <2>7 DEF ReadForMove, Answers
  <2>8. ~Refuse(q, [kind |-> "catalog"], "updated")
    BY <1>1 DEF Refuse, TypeInv, TypeOK
  <2>9. QED
    BY <1>1, <1>2, <2>2, <2>3, <2>5, <2>6, <2>7, <2>8, OwnSteps
<1>5. UNCHANGED call
  BY <1>4 DEF WriteStatus, MoveBooking, UpdateRow, Finish
<1>6. CASE WriteStatus(q)
  <2>1. call[q] \in StatusCalls /\ b \in Stored
    BY <1>1, <1>5, <1>6 DEF WriteStatus, TypeInv, CallInProgress
  <2>2. kind = "status"
    BY <1>1, <1>5, <2>1 DEF StatusCalls
  <2>3. UpdateRow(q, b, [rows[b] EXCEPT !.status = call[q].to])
    BY <1>1, <1>5, <1>6 DEF WriteStatus
  <2>4. rows' = [rows EXCEPT ![b] = [rows[b] EXCEPT !.status = call[q].to]]
    BY <1>1, <2>3 DEF UpdateRow, Finish, TypeInv, TypeOK
  <2>5. QED
    BY <1>1, <1>3, <1>5, <2>1, <2>2, <2>4
<1>7. CASE MoveBooking(q)
  <2>1. call[q] \in MoveCalls /\ b \in Stored
    BY <1>1, <1>5, <1>7 DEF MoveBooking, TypeInv, CallInProgress
  <2>2. kind = "move"
    BY <1>1, <1>5, <2>1 DEF MoveCalls
  <2>3. UpdateRow(q, b, [rows[b] EXCEPT !.date = call[q].date, !.time = call[q].time])
    BY <1>1, <1>5, <1>7 DEF MoveBooking
  <2>4. rows' = [rows EXCEPT ![b] = [rows[b] EXCEPT !.date = call[q].date,
                                                    !.time = call[q].time]]
    BY <1>1, <2>3 DEF UpdateRow, Finish, TypeInv, TypeOK
  <2>5. QED
    BY <1>1, <1>3, <1>5, <2>1, <2>2, <2>4
<1>8. QED
  BY <1>4, <1>6, <1>7

\* A row keeps its status, or gets one of which a caller is told; and so its slot.
LEMMA RowChange ==
  ASSUME TypeInv, AnsweredIsDone, [Next]_vars, NEW b \in Stored
  PROVE  /\ \/ rows'[b].status = rows[b].status
            \/ \E q \in Changes(b, "status")' : rows'[b].status = call'[q].to
         /\ \/ rows'[b].date = rows[b].date /\ rows'[b].time = rows[b].time
            \/ \E q \in Changes(b, "move")' :
                 rows'[b].date = call'[q].date /\ rows'[b].time = call'[q].time
<1>1. b \in Requests /\ rows[b] \in Row /\ rows \in [Requests -> Row \cup {NoRow}]
  BY StoredRow DEF TypeInv, TypeOK
<1>2. ASSUME NEW r \in Requests, CommitBooking(r) PROVE rows'[b] = rows[b]
  <2>1. pc[r] = "insert" /\ rows' = [rows EXCEPT ![r] = NewRow(call[r])]
    BY <1>2 DEF CommitBooking
  <2>2. b # r
    BY <2>1 DEF AnsweredIsDone
  <2>3. QED
    BY <1>1, <2>1, <2>2
<1>3. ASSUME NEW r \in Requests, NEW a \in Stored, NEW row \in Row,
             WriteStatus(r) \/ MoveBooking(r), a = call[r].booking, a # b,
             rows' = [rows EXCEPT ![a] = row]
      PROVE  rows'[b] = rows[b]
  BY <1>1, <1>3 DEF Stored
<1>4. ASSUME NEW r \in Requests, NEW row \in Row, b = call[r].booking, Finish(r, "updated"),
             rows' = [rows EXCEPT ![b] = row], WriteStatus(r),
             row = [rows[b] EXCEPT !.status = call[r].to]
      PROVE  /\ \E q \in Changes(b, "status")' : rows'[b].status = call'[q].to
             /\ rows'[b].date = rows[b].date /\ rows'[b].time = rows[b].time
  <2>1. call[r].kind = "status" /\ call' = call /\ answer'[r] = "updated"
    BY <1>4 DEF WriteStatus, TypeInv, TypeOK, CallInProgress, StatusCalls, Finish
  <2>2. /\ rows'[b].status = call[r].to
        /\ rows'[b].date = rows[b].date /\ rows'[b].time = rows[b].time
    BY <1>1, <1>4 DEF Row
  <2>3. r \in Changes(b, "status")'
    BY <1>4, <2>1 DEF Changes
  <2>4. QED
    BY <2>1, <2>2, <2>3
<1>5. ASSUME NEW r \in Requests, NEW row \in Row, b = call[r].booking, Finish(r, "updated"),
             rows' = [rows EXCEPT ![b] = row], MoveBooking(r),
             row = [rows[b] EXCEPT !.date = call[r].date, !.time = call[r].time]
      PROVE  /\ rows'[b].status = rows[b].status
             /\ \E q \in Changes(b, "move")' :
                  rows'[b].date = call'[q].date /\ rows'[b].time = call'[q].time
  <2>1. call[r].kind = "move" /\ call' = call /\ answer'[r] = "updated"
    BY <1>5 DEF MoveBooking, TypeInv, TypeOK, CallInProgress, MoveCalls, Finish
  <2>2. /\ rows'[b].date = call[r].date /\ rows'[b].time = call[r].time
        /\ rows'[b].status = rows[b].status
    BY <1>1, <1>5 DEF Row
  <2>3. r \in Changes(b, "move")'
    BY <1>5, <2>1 DEF Changes
  <2>4. QED
    BY <2>1, <2>2, <2>3
<1>6. CASE UNCHANGED rows
  BY <1>6
<1>7. ASSUME NEW r \in Requests, NEW a \in Stored, NEW row \in Row,
             WriteStatus(r) \/ MoveBooking(r), a = call[r].booking,
             WriteStatus(r) => row = [rows[a] EXCEPT !.status = call[r].to],
             MoveBooking(r) => row = [rows[a] EXCEPT !.date = call[r].date,
                                                    !.time = call[r].time],
             rows' = [rows EXCEPT ![a] = row], Finish(r, "updated")
      PROVE  /\ \/ rows'[b].status = rows[b].status
                \/ \E q \in Changes(b, "status")' : rows'[b].status = call'[q].to
             /\ \/ rows'[b].date = rows[b].date /\ rows'[b].time = rows[b].time
                \/ \E q \in Changes(b, "move")' :
                     rows'[b].date = call'[q].date /\ rows'[b].time = call'[q].time
  <2>1. CASE a # b
    BY <1>3, <1>7, <2>1
  <2>2. CASE a = b /\ WriteStatus(r)
    BY <1>4, <1>7, <2>2
  <2>3. CASE a = b /\ MoveBooking(r)
    BY <1>5, <1>7, <2>3
  <2>4. QED
    BY <1>7, <2>1, <2>2, <2>3
<1>8. CASE \E r \in Requests : CommitBooking(r)
  BY <1>2, <1>8
<1>9. QED
  BY <1>6, <1>7, <1>8, TableStep

\* The row a call is answered for, and a row nobody changed, are what callers
\* were told.
LEMMA NextAnsweredInv ==
  ASSUME TypeInv, AnsweredIsDone, AnsweredInv, [Next]_vars
  PROVE  AnsweredInv'
<1>1. ASSUME NEW b \in Stored PROVE b \in Requests /\ call'[b] = call[b] /\ b \in Stored'
  BY StoredGrows, DoneStays DEF AnsweredIsDone, Stored
<1>2. ASSUME NEW b \in Stored', b \notin Stored
      PROVE  CommitBooking(b) /\ b \in Requests
  <2>1. b \in Requests /\ rows'[b] # rows[b]
    BY <1>2 DEF Stored
  <2>2. ASSUME NEW a \in Stored, NEW row \in Row, rows' = [rows EXCEPT ![a] = row]
        PROVE  rows'[b] = rows[b]
    BY <1>2, <2>1, <2>2 DEF TypeInv, TypeOK
  <2>3. PICK r \in Requests : CommitBooking(r)
    BY <2>1, <2>2, TableStep
  <2>4. b = r
    BY <2>1, <2>3 DEF CommitBooking, TypeInv, TypeOK
  <2>5. QED
    BY <2>1, <2>3, <2>4
<1>3. ASSUME NEW b \in Requests, NEW kind \in {"status", "move"}, NEW q \in Changes(b, kind)'
      PROVE  b \in Stored
  BY <1>3, NewChange DEF AnsweredInv
<1>4. ASSUME NEW b \in Stored' PROVE call'[b] \in CreateCalls
  <2>1. CASE b \in Stored
    BY <1>1, <2>1 DEF AnsweredInv
  <2>2. CASE b \notin Stored
    BY <1>2, <2>2 DEF CommitBooking, Finish, TypeInv, CallInProgress
  <2>3. QED
    BY <2>1, <2>2
<1> DEFINE Told(b) ==
             /\ rows[b].status \in
                  IF Changes(b, "status") = {} THEN {"PENDING"}
                  ELSE {call[r].to : r \in Changes(b, "status")}
             /\ \E r \in IF Changes(b, "move") = {} THEN {b} ELSE Changes(b, "move") :
                  rows[b].date = call[r].date /\ rows[b].time = call[r].time
<1>5. ASSUME NEW b \in Stored', b \notin Stored PROVE Told(b)'
  <2>1. CommitBooking(b) /\ b \in Requests
    BY <1>2, <1>5
  <2>2. Changes(b, "status")' = {} /\ Changes(b, "move")' = {}
    BY <1>3, <1>5, <2>1
  <2>3. rows'[b] = NewRow(call[b]) /\ call' = call
    BY <2>1 DEF CommitBooking, Finish, TypeInv, TypeOK
  <2>4. NewRow(call[b]).status = "PENDING" /\ NewRow(call[b]).date = call[b].date
          /\ NewRow(call[b]).time = call[b].time
    BY DEF NewRow
  <2>5. QED
    BY <2>2, <2>3, <2>4
<1>6. ASSUME NEW b \in Stored PROVE Told(b)'
  <2>1. b \in Requests /\ call'[b] = call[b] /\ rows[b] \in Row
    BY <1>1, StoredRow DEF TypeInv
  <2>2. /\ rows[b].status \in IF Changes(b, "status") = {} THEN {"PENDING"}
                              ELSE {call[r].to : r \in Changes(b, "status")}
        /\ \E r \in IF Changes(b, "move") = {} THEN {b} ELSE Changes(b, "move") :
             rows[b].date = call[r].date /\ rows[b].time = call[r].time
    BY DEF AnsweredInv, AnsweredChangesStand
  <2>3. \A kind \in {"status", "move"} : \A q \in Changes(b, kind) :
          q \in Changes(b, kind)' /\ call'[q] = call[q]
    BY ChangesStay
  <2>4. rows'[b].status \in IF Changes(b, "status")' = {} THEN {"PENDING"}
                            ELSE {call'[r].to : r \in Changes(b, "status")'}
    <3>1. CASE \E q \in Changes(b, "status")' : rows'[b].status = call'[q].to
      BY <3>1
    <3>2. CASE rows'[b].status = rows[b].status /\ Changes(b, "status") # {}
      BY <2>2, <2>3, <3>2
    <3>3. CASE rows'[b].status = rows[b].status /\ Changes(b, "status") = {}
      <4>1. ASSUME NEW q \in Changes(b, "status")'
            PROVE  rows'[b].status = call'[q].to
        <5>1. rows'[b] = [rows[b] EXCEPT !.status = call[q].to] /\ call'[q] = call[q]
          BY <2>1, <3>3, NewChange
        <5>2. QED
          BY <2>1, <5>1 DEF Row
      <4>2. QED
        BY <2>2, <3>3, <4>1
    <3>4. QED
      BY <3>1, <3>2, <3>3, RowChange
  <2>5. \E r \in IF Changes(b, "move")' = {} THEN {b} ELSE Changes(b, "move")' :
          rows'[b].date = call'[r].date /\ rows'[b].time = call'[r].time
    <3>1. CASE \E q \in Changes(b, "move")' :
                 rows'[b].date = call'[q].date /\ rows'[b].time = call'[q].time
      BY <3>1
    <3>2. CASE /\ rows'[b].date = rows[b].date /\ rows'[b].time = rows[b].time
               /\ Changes(b, "move") # {}
      BY <2>2, <2>3, <3>2
    <3>3. CASE /\ rows'[b].date = rows[b].date /\ rows'[b].time = rows[b].time
               /\ Changes(b, "move") = {}
      <4>1. ASSUME NEW q \in Changes(b, "move")'
            PROVE  rows'[b].date = call'[q].date /\ rows'[b].time = call'[q].time
        <5>1. q \notin Changes(b, "move")
          BY <3>3
        <5>2. /\ rows'[b] = [rows[b] EXCEPT !.date = call[q].date, !.time = call[q].time]
              /\ call'[q] = call[q]
          BY <2>1, <5>1, NewChange
        <5>3. QED
          BY <2>1, <5>2 DEF Row
      <4>2. QED
        BY <2>1, <2>2, <3>3, <4>1
    <3>4. QED
      BY <3>1, <3>2, <3>3, RowChange
  <2>6. QED
    BY <2>4, <2>5
<1>7. \A b \in Stored' : Told(b)'
  BY <1>5, <1>6
<1>8. \A b \in Requests, kind \in {"status", "move"} : Changes(b, kind)' # {} => b \in Stored'
  BY <1>1, <1>3
<1>9. AnsweredChangesStand'
  BY <1>7 DEF AnsweredChangesStand
<1>10. QED
  BY <1>4, <1>8, <1>9 DEF AnsweredInv

\* The status changes and moves of admins and the portal write a booking in one
\* statement each, long after they read it, but only the columns they are about:
\* however many overlap, what one of them did is undone only by another of its kind
\* of which somebody is told, and one that booking_slot_unique refuses leaves no trace.
THEOREM ChangesStand == Spec => []AnsweredChangesStand
<1> DEFINE Inv == TypeInv /\ AnsweredIsDone /\ AnsweredInv
<1>1. Init => Inv
  <2> SUFFICES ASSUME Init PROVE AnsweredInv
    BY InitType, InitAnswered
  <2>1. Stored = {} /\ \A b, kind : Changes(b, kind) = {}
    BY DEF Init, Stored, Changes
  <2>2. QED
    BY <2>1 DEF AnsweredInv, AnsweredChangesStand
<1>2. Inv /\ [Next]_vars => Inv'
  BY NextType, NextAnswered, NextAnsweredInv
<1>3. Inv => AnsweredChangesStand
  BY DEF AnsweredInv
<1> HIDE DEF Inv
<1>4. QED
  BY <1>1, <1>2, <1>3, PTL DEF Spec

-----------------------------------------------------------------------------
(* Confirmation comes first *)

ConfirmedOnce(b) ==
  \E r \in Requests :
    /\ answer[r] = "updated"
    /\ call[r].kind = "status"
    /\ call[r].booking = b
    /\ call[r].to = "CONFIRMED"

\* Inductive: a booking past PENDING was confirmed, and so was one that a
\* request under way found confirmed.
ConfirmInv ==
  /\ \A b \in Stored :
       rows[b].status \in {"CONFIRMED", "COMPLETED", "NO_SHOW"} => ConfirmedOnce(b)
  /\ \A r \in Requests :
       pc[r] = "write" /\ call[r].to \in {"COMPLETED", "NO_SHOW"} =>
         ConfirmedOnce(call[r].booking)

\* That a booking was confirmed is never forgotten.
LEMMA ConfirmedOnceStays ==
  ASSUME TypeInv, AnsweredIsDone, [Next]_vars, NEW b, ConfirmedOnce(b)
  PROVE  ConfirmedOnce(b)'
<1>1. PICK r \in Requests : /\ answer[r] = "updated"
                            /\ call[r].kind = "status"
                            /\ call[r].booking = b
                            /\ call[r].to = "CONFIRMED"
  BY DEF ConfirmedOnce
<1>2. answer'[r] = answer[r] /\ call'[r] = call[r]
  BY <1>1, DoneStays DEF AnsweredIsDone
<1>3. QED
  BY <1>1, <1>2 DEF ConfirmedOnce

\* The request that writes a status past PENDING confirmed the booking itself
\* or knows that it was confirmed.
LEMMA WritesAfterConfirmation ==
  ASSUME TypeInv, AnsweredIsDone, ConfirmInv, [Next]_vars, NEW r \in Requests,
         WriteStatus(r), Finish(r, "updated"),
         call[r].to \in {"CONFIRMED", "COMPLETED", "NO_SHOW"}
  PROVE  ConfirmedOnce(call[r].booking)'
<1>1. call[r] \in StatusCalls /\ pc[r] = "write"
  BY DEF WriteStatus, TypeInv, CallInProgress
<1>2. CASE call[r].to = "CONFIRMED"
  <2>1. call' = call /\ answer'[r] = "updated" /\ call[r].kind = "status"
    BY <1>1 DEF Finish, TypeInv, TypeOK, StatusCalls
  <2>2. QED
    BY <1>2, <2>1 DEF ConfirmedOnce
<1>3. CASE call[r].to \in {"COMPLETED", "NO_SHOW"}
  <2>1. ConfirmedOnce(call[r].booking)
    BY <1>1, <1>3 DEF ConfirmInv
  <2>2. call' = call
    BY DEF Finish
  <2>3. ASSUME NEW b, ConfirmedOnce(b) PROVE ConfirmedOnce(b)'
    BY <2>3, ConfirmedOnceStays
  <2>4. QED
    BY <2>1, <2>2, <2>3 DEF ConfirmedOnce
<1>4. QED
  BY <1>2, <1>3

\* No handler takes a booking past CONFIRMED that nobody confirmed.
LEMMA NextConfirm ==
  ASSUME TypeInv, AnsweredIsDone, ConfirmInv, [Next]_vars
  PROVE  ConfirmInv'
<1>1. ASSUME NEW b \in Stored', rows'[b].status \in {"CONFIRMED", "COMPLETED", "NO_SHOW"}
      PROVE  ConfirmedOnce(b)'
  <2>1. b \in Requests /\ rows \in [Requests -> Row \cup {NoRow}]
    BY <1>1 DEF Stored, TypeInv, TypeOK
  <2>2. CASE b \in Stored /\ rows'[b].status = rows[b].status
    BY <1>1, <2>2, ConfirmedOnceStays DEF ConfirmInv
  <2>3. ASSUME NEW r \in Requests, CommitBooking(r) PROVE b \in Stored /\ rows'[b] = rows[b]
    <3>1. NewRow(call[r]).status = "PENDING" /\ rows' = [rows EXCEPT ![r] = NewRow(call[r])]
      BY <2>3, NewRowType DEF CommitBooking, TypeInv, CallInProgress
    <3>2. b # r
      BY <1>1, <2>1, <3>1
    <3>3. QED
      BY <1>1, <2>1, <3>1, <3>2 DEF Stored
  <2>4. ASSUME NEW r \in Requests, NEW a \in Stored, NEW row \in Row,
               WriteStatus(r), a = call[r].booking,
               row = [rows[a] EXCEPT !.status = call[r].to],
               rows' = [rows EXCEPT ![a] = row], Finish(r, "updated")
        PROVE  ConfirmedOnce(b)'
    <3>1. CASE b = a
      <4>1. rows[a] \in Row
        BY <2>4, StoredRow DEF TypeInv
      <4>2. row.status = call[r].to
        BY <2>4, <4>1 DEF Row
      <4>3. rows'[b] = row
        BY <2>1, <2>4, <3>1
      <4>4. call[r].to \in {"CONFIRMED", "COMPLETED", "NO_SHOW"}
        BY <1>1, <4>2, <4>3
      <4>5. ConfirmedOnce(call[r].booking)'
        BY <2>4, <4>4, WritesAfterConfirmation
      <4>6. call' = call
        BY <2>4 DEF Finish
      <4>7. QED
        BY <2>4, <3>1, <4>5, <4>6 DEF ConfirmedOnce
    <3>2. CASE b # a
      <4>1. rows'[b] = rows[b] /\ b \in Stored
        BY <1>1, <2>1, <2>4, <3>2 DEF Stored
      <4>2. QED
        BY <2>2, <4>1
    <3>3. QED
      BY <3>1, <3>2
  <2>5. ASSUME NEW r \in Requests, NEW a \in Stored, NEW row \in Row,
               row = [rows[a] EXCEPT !.date = call[r].date, !.time = call[r].time],
               rows' = [rows EXCEPT ![a] = row]
        PROVE  b \in Stored /\ rows'[b].status = rows[b].status
    <3>1. rows[a] \in Row /\ a \in Requests
      BY <2>5, StoredRow DEF TypeInv
    <3>2. row.status = rows[a].status
      BY <2>5, <3>1 DEF Row
    <3>3. QED
      BY <1>1, <2>1, <2>5, <3>1, <3>2 DEF Stored
  <2>6. CASE UNCHANGED rows
    BY <1>1, <2>2, <2>6 DEF Stored
  <2>7. QED
    BY <2>2, <2>3, <2>4, <2>5, <2>6, TableStep
<1>2. ASSUME NEW q \in Requests, pc'[q] = "write", call'[q].to \in {"COMPLETED", "NO_SHOW"}
      PROVE  ConfirmedOnce(call'[q].booking)
  <2>1. CASE pc'[q] = pc[q] /\ call'[q] = call[q]
    BY <1>2, <2>1 DEF ConfirmInv, ConfirmedOnce
  <2>2. ASSUME NEW b \in Requests, NEW to \in Statuses, NEW by, ReadForStatus(q, b, to, by)
        PROVE  ConfirmedOnce(call'[q].booking)
    <3> DEFINE c == [kind |-> "status", booking |-> b, to |-> to]
    <3>1. c.to = to /\ c.booking = b
      OBVIOUS
    <3> HIDE DEF c
    <3>2. pc[q] = "idle" /\ call' = [call EXCEPT ![q] = c] /\ b \in Stored
      BY <2>2 DEF ReadForStatus, Proceed, Refuse, c
    <3>3. call'[q] = c
      BY <3>2 DEF TypeInv, TypeOK
    <3>4. CanTransition(rows[b].status, to)
      BY <1>2, <2>2 DEF ReadForStatus, Refuse, TypeInv, TypeOK
    <3>5. rows[b].status = "CONFIRMED"
      BY <1>2, <3>1, <3>3, <3>4 DEF CanTransition
    <3>6. QED
      BY <3>1, <3>2, <3>3, <3>5 DEF ConfirmInv
  <2>3. CASE CheckSnapshot(q)
    BY <1>2, <2>3 DEF CheckSnapshot, Finish, TypeInv, TypeOK
  <2>4. ASSUME NEW s, NEW ph, NEW d, NEW t, LookUp(q, s, ph, d, t) PROVE FALSE
    BY <1>2, <2>4 DEF LookUp, Proceed, Refuse, TypeInv, TypeOK
  <2>5. ASSUME NEW b, NEW d, NEW t, NEW by, ReadForMove(q, b, d, t, by) PROVE FALSE
    BY <1>2, <2>5 DEF ReadForMove, Proceed, Refuse, TypeInv, TypeOK
  <2>6. ASSUME NEW a, Finish(q, a) \/ \E c : Refuse(q, c, a) PROVE FALSE
    BY <1>2, <2>6 DEF Finish, Refuse, TypeInv, TypeOK
  <2>7. QED
    BY <2>1, <2>2, <2>3, <2>4, <2>5, <2>6, OwnSteps
       DEF CommitBooking, SerializationFailure, UniqueViolation, WriteStatus,
           MoveBooking, UpdateRow
<1>3. ASSUME NEW q \in Requests, pc'[q] = "write", call'[q].to \in {"COMPLETED", "NO_SHOW"}
      PROVE  \E r \in Requests :
               /\ answer'[r] = "updated"
               /\ call'[r].kind = "status"
               /\ call'[r].booking = call'[q].booking
               /\ call'[r].to = "CONFIRMED"
  <2>1. PICK b : b = call'[q].booking
    OBVIOUS
  <2>2. ConfirmedOnce(b)
    BY <1>2, <1>3, <2>1
  <2>3. ConfirmedOnce(b)'
    BY <2>2, ConfirmedOnceStays
  <2>4. QED
    BY <2>1, <2>3 DEF ConfirmedOnce
<1>4. QED
  BY <1>1, <1>3 DEF ConfirmInv, ConfirmedOnce

\* No interleaving of admins and providers completes a booking, or marks it a
\* no-show, that nobody confirmed.
THEOREM ConfirmationFirst == Spec => []CompletedWasConfirmed
<1> DEFINE Inv == TypeInv /\ AnsweredIsDone /\ ConfirmInv
<1>1. Init => Inv
  BY InitType, InitAnswered DEF Init, ConfirmInv, Stored
<1>2. Inv /\ [Next]_vars => Inv'
  BY NextType, NextAnswered, NextConfirm
<1>3. Inv => CompletedWasConfirmed
  BY DEF ConfirmInv, ConfirmedOnce, CompletedWasConfirmed
<1> HIDE DEF Inv
<1>4. QED
  BY <1>1, <1>2, <1>3, PTL DEF Spec
=============================================================================
