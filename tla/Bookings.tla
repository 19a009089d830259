------------------------------ MODULE Bookings ------------------------------
(***************************************************************************)
(* The booking engine: POST /bookings, the two ways a booking's status     *)
(* changes (PATCH /admin/bookings/:id/status and the provider portal's own *)
(* copy) and the two ways a booking moves to another slot, each as the     *)
(* database statements its handler awaits one after the other.             *)
(*                                                                         *)
(* A request is one handler invocation.  It makes one call and ends with   *)
(* one answer; between two of its statements any other request may run.    *)
(* A request that creates a booking lends the row its own name, so the     *)
(* bookings table is a function from requests to rows.                     *)
(*                                                                         *)
(* PostgreSQL is modelled by what the code relies on: POST /bookings runs  *)
(* SERIALIZABLE over the snapshot of its first query, every other          *)
(* statement commits on its own at READ COMMITTED, and booking_slot_unique *)
(* (when SlotIndex) lets no two uncancelled rows hold one slot.            *)
(***************************************************************************)

CONSTANTS
  Requests,     \* concurrent handler invocations, and names of rows
  Providers, Services, Phones,
  Dates, Times, \* calendar dates and HH:mm labels
  Kinds,        \* the kinds of call made: a subset of AllKinds
  Callers,      \* who changes bookings: Admin, or a provider in the portal
  SlotIndex,    \* whether booking_slot_unique exists
  NoRow, NoCall, Admin

AllKinds == {"create", "status", "move", "catalog"}

ASSUME KindsAssumption == Kinds \subseteq AllKinds
ASSUME SlotIndexAssumption == SlotIndex \in BOOLEAN
ASSUME CallersAssumption == Callers \subseteq {Admin} \cup Providers

VARIABLES
  rows,         \* the bookings table
  service,      \* the services table: who serves it, and whether it is active
  accepting,    \* the providers table: active /\ acceptingBookings
  pc,           \* the statement each request executes next
  call,         \* the arguments of its call, and what its lookup found
  snapshot,     \* the rows its SERIALIZABLE snapshot contains
  answer        \* what its caller is told

vars == <<rows, service, accepting, pc, call, snapshot, answer>>

-----------------------------------------------------------------------------
(* Statuses: common/constants/statuses.ts and booking-status.machine.ts *)

Statuses == {"PENDING", "CONFIRMED", "COMPLETED", "CANCELLED", "NO_SHOW"}

\* Mutant: a pending booking may be completed at once.
CanTransitionSkipping(from, to) ==
  \/ from = "PENDING" /\ to \in {"CONFIRMED", "COMPLETED", "CANCELLED"}
  \/ from = "CONFIRMED" /\ to \in {"COMPLETED", "CANCELLED", "NO_SHOW"}

CanTransition(from, to) ==
  \/ from = "PENDING" /\ to \in {"CONFIRMED", "CANCELLED"}
  \/ from = "CONFIRMED" /\ to \in {"COMPLETED", "CANCELLED", "NO_SHOW"}

-----------------------------------------------------------------------------
(* Rows, calls and their types *)

Slots == Providers \X Dates \X Times

\* Of a row, or of the arguments of a create call.
SlotOf(x) == <<x.provider, x.date, x.time>>
DuplicateKey(x) == <<x.phone, x.service, x.date>>

Row == [service : Services, provider : Providers, phone : Phones,
        date : Dates, time : Times, status : Statuses]

CreateCalls == [kind : {"create"}, service : Services, provider : Providers,
                phone : Phones, date : Dates, time : Times]
StatusCalls == [kind : {"status"}, booking : Requests, to : Statuses]
MoveCalls == [kind : {"move"}, booking : Requests, date : Dates, time : Times]
CatalogCalls == [kind : {"catalog"}]
Calls == CreateCalls \cup StatusCalls \cup MoveCalls \cup CatalogCalls

Answers == {"none", "created", "updated", "SLOT_TAKEN", "DUPLICATE_BOOKING",
            "CONFLICT", "SERVICE_INACTIVE", "PROVIDER_UNAVAILABLE",
            "FORBIDDEN", "INVALID_TRANSITION"}

TypeOK ==
  /\ rows \in [Requests -> Row \cup {NoRow}]
  /\ service \in [Services -> [active : BOOLEAN, provider : Providers]]
  /\ accepting \in [Providers -> BOOLEAN]
  /\ pc \in [Requests -> {"idle", "check", "insert", "write", "move", "done"}]
  /\ call \in [Requests -> Calls \cup {NoCall}]
  /\ snapshot \in [Requests -> SUBSET Requests]
  /\ answer \in [Requests -> Answers]

ASSUME NullAssumption == NoRow \notin Row /\ NoCall \notin Calls

Stored == {b \in Requests : rows[b] # NoRow}
Active == {b \in Stored : rows[b].status # "CANCELLED"}

\* Mutant: the partial index covers pending bookings only.
IndexRefusesPending(b, row) ==
  /\ SlotIndex
  /\ row.status = "PENDING"
  /\ \E a \in Active \ {b} : SlotOf(rows[a]) = SlotOf(row)

\* booking_slot_unique refuses a statement that leaves row in place of b.
IndexRefuses(b, row) ==
  /\ SlotIndex
  /\ row.status # "CANCELLED"
  /\ \E a \in Active \ {b} : SlotOf(rows[a]) = SlotOf(row)

-----------------------------------------------------------------------------

Init ==
  /\ rows = [b \in Requests |-> NoRow]
  /\ service \in [Services -> [active : {TRUE}, provider : Providers]]
  /\ accepting = [p \in Providers |-> TRUE]
  /\ pc = [r \in Requests |-> "idle"]
  /\ call = [r \in Requests |-> NoCall]
  /\ snapshot = [r \in Requests |-> {}]
  /\ answer = [r \in Requests |-> "none"]

\* Request r makes call c and goes on to statement next.
Proceed(r, c, next) ==
  /\ pc[r] = "idle"
  /\ c.kind \in Kinds
  /\ call' = [call EXCEPT ![r] = c]
  /\ pc' = [pc EXCEPT ![r] = next]
  /\ UNCHANGED answer

\* Request r makes call c and is answered a at once.
Refuse(r, c, a) ==
  /\ pc[r] = "idle"
  /\ c.kind \in Kinds
  /\ call' = [call EXCEPT ![r] = c]
  /\ pc' = [pc EXCEPT ![r] = "done"]
  /\ answer' = [answer EXCEPT ![r] = a]

\* Request r, under way, is answered a.
Finish(r, a) ==
  /\ pc' = [pc EXCEPT ![r] = "done"]
  /\ answer' = [answer EXCEPT ![r] = a]
  /\ UNCHANGED call

-----------------------------------------------------------------------------
(* POST /bookings: BookingsService.create *)

CreateCall(s, ph, d, t) ==
  [kind |-> "create", service |-> s, provider |-> service[s].provider,
   phone |-> ph, date |-> d, time |-> t]

\* The service and its provider are read before the transaction opens.
LookUp(r, s, ph, d, t) ==
  LET c == CreateCall(s, ph, d, t) IN
  /\ \/ /\ ~service[s].active
        /\ Refuse(r, c, "SERVICE_INACTIVE")
     \/ /\ service[s].active /\ ~accepting[c.provider]
        /\ Refuse(r, c, "PROVIDER_UNAVAILABLE")
     \/ /\ service[s].active /\ accepting[c.provider]
        /\ Proceed(r, c, "check")
  /\ UNCHANGED <<rows, service, accepting, snapshot>>

SlotTaken(c) == \E b \in Active : SlotOf(rows[b]) = SlotOf(c)

\* Mutant: only a booking at the same time of day counts as a duplicate.
DuplicatedAtTime(c) ==
  \E b \in Active : /\ DuplicateKey(rows[b]) = DuplicateKey(c)
                    /\ rows[b].time = c.time

Duplicated(c) == \E b \in Active : DuplicateKey(rows[b]) = DuplicateKey(c)

\* Both checks read the snapshot taken by the first of them, so they are one
\* step; a refusal throws out of the transaction, which rolls back.
CheckSnapshot(r) ==
  /\ pc[r] = "check"
  /\ \/ SlotTaken(call[r]) /\ Finish(r, "SLOT_TAKEN") /\ UNCHANGED snapshot
     \/ /\ ~SlotTaken(call[r]) /\ Duplicated(call[r])
        /\ Finish(r, "DUPLICATE_BOOKING")
        /\ UNCHANGED snapshot
     \/ /\ ~SlotTaken(call[r]) /\ ~Duplicated(call[r])
        /\ pc' = [pc EXCEPT ![r] = "insert"]
        /\ snapshot' = [snapshot EXCEPT ![r] = Stored]
        /\ UNCHANGED <<call, answer>>
  /\ UNCHANGED <<rows, service, accepting>>

\* SERIALIZABLE transactions that committed after r's snapshot was taken.  An
\* update made since to the rows they inserted hides none of them: the
\* conflict is with the transaction, not with the row as it is now.
CommittedSince(r) == Stored \ snapshot[r]

\* Those among them that r must not commit beside: each inserted a row that
\* r's checks looked for and did not see, and looked itself for r's.
Rivals(r) ==
  {b \in CommittedSince(r) :
     \/ SlotOf(call[b]) = SlotOf(call[r])
     \/ DuplicateKey(call[b]) = DuplicateKey(call[r])}

\* Mutant: the provider column is filled with the service's id.
NewRowMisfiled(c) ==
  [service |-> c.service, provider |-> c.service, phone |-> c.phone,
   date |-> c.date, time |-> c.time, status |-> "PENDING"]

NewRow(c) ==
  [service |-> c.service, provider |-> c.provider, phone |-> c.phone,
   date |-> c.date, time |-> c.time, status |-> "PENDING"]

\* Mutant: the transaction runs at the default isolation level.
CommitBookingReadCommitted(r) ==
  /\ pc[r] = "insert"
  /\ ~IndexRefuses(r, NewRow(call[r]))
  /\ rows' = [rows EXCEPT ![r] = NewRow(call[r])]
  /\ Finish(r, "created")
  /\ UNCHANGED <<service, accepting, snapshot>>

\* The row is inserted and the transaction commits.
CommitBooking(r) ==
  /\ pc[r] = "insert"
  /\ Rivals(r) = {}
  /\ ~IndexRefuses(r, NewRow(call[r]))
  /\ rows' = [rows EXCEPT ![r] = NewRow(call[r])]
  /\ Finish(r, "created")
  /\ UNCHANGED <<service, accepting, snapshot>>

\* P2034.  PostgreSQL locks index pages and whole tables as readily as rows,
\* so any concurrent commit may cost r its transaction; a rival always does.
\* runBookingTransaction answers SLOT_TAKEN and does not retry, although the slot
\* may be free: the commit may be of another slot.
SerializationFailure(r) ==
  /\ pc[r] = "insert"
  /\ CommittedSince(r) # {}
  /\ Finish(r, "SLOT_TAKEN")
  /\ UNCHANGED <<rows, service, accepting, snapshot>>

\* P2002, passed on by runBookingTransaction; PrismaExceptionFilter makes it
\* a 409.
UniqueViolation(r) ==
  /\ pc[r] = "insert"
  /\ IndexRefuses(r, NewRow(call[r]))
  /\ Finish(r, "CONFLICT")
  /\ UNCHANGED <<rows, service, accepting, snapshot>>

-----------------------------------------------------------------------------
(* Status changes: BookingsService.updateStatus and the portal's copy.     *)
(* The booking is read, the transition validated against what was read,    *)
(* and the status then written to the row whatever it holds by then.       *)

\* The portal acts only on its own provider's bookings.  Who calls matters to
\* no later statement, so the call does not keep it.
Owns(by, b) == by = Admin \/ rows[b].provider = by

ReadForStatus(r, b, to, by) ==
  LET c == [kind |-> "status", booking |-> b, to |-> to] IN
  /\ b \in Stored
  /\ \/ ~Owns(by, b) /\ Refuse(r, c, "FORBIDDEN")
     \/ /\ Owns(by, b) /\ ~CanTransition(rows[b].status, to)
        /\ Refuse(r, c, "INVALID_TRANSITION")
     \/ /\ Owns(by, b) /\ CanTransition(rows[b].status, to)
        /\ Proceed(r, c, "write")
  /\ UNCHANGED <<rows, service, accepting, snapshot>>

\* UPDATE bookings SET ... WHERE id = b, as one statement: the whole update
\* is refused when the index refuses the row it makes.
UpdateRow(r, b, row) ==
  /\ \/ /\ ~IndexRefuses(b, row)
        /\ rows' = [rows EXCEPT ![b] = row]
        /\ Finish(r, "updated")
     \/ /\ IndexRefuses(b, row)
        /\ Finish(r, "CONFLICT")
        /\ UNCHANGED rows
  /\ UNCHANGED <<service, accepting, snapshot>>

WriteStatus(r) ==
  LET b == call[r].booking IN
  /\ pc[r] = "write"
  /\ UpdateRow(r, b, [rows[b] EXCEPT !.status = call[r].to])

-----------------------------------------------------------------------------
(* Rescheduling: BookingsService.reschedule and the portal's copy.  No     *)
(* transaction, no look at the status, no look for a duplicate.  The first *)
(* read yields only the provider, which no statement ever changes, so it   *)
(* and the conflict query are one step.                                    *)

ReadForMove(r, b, d, t, by) ==
  LET c == [kind |-> "move", booking |-> b, date |-> d, time |-> t]
      taken == \E a \in Active \ {b} :
                  SlotOf(rows[a]) = <<rows[b].provider, d, t>>
  IN
  /\ b \in Stored
  /\ \/ ~Owns(by, b) /\ Refuse(r, c, "FORBIDDEN")
     \/ Owns(by, b) /\ taken /\ Refuse(r, c, "SLOT_TAKEN")
     \/ Owns(by, b) /\ ~taken /\ Proceed(r, c, "move")
  /\ UNCHANGED <<rows, service, accepting, snapshot>>

\* Mutant: a booking that was moved has to be confirmed again.
MoveBookingReopening(r) ==
  LET b == call[r].booking IN
  /\ pc[r] = "move"
  /\ UpdateRow(r, b, [rows[b] EXCEPT !.date = call[r].date,
                                     !.time = call[r].time,
                                     !.status = "PENDING"])

MoveBooking(r) ==
  LET b == call[r].booking IN
  /\ pc[r] = "move"
  /\ UpdateRow(r, b, [rows[b] EXCEPT !.date = call[r].date,
                                     !.time = call[r].time])

-----------------------------------------------------------------------------
(* The catalogue changes under a create call: ServicesService.update,      *)
(* ProvidersService.update, toggleAcceptingBookings and assignService, by  *)
(* their effect on what create reads.                                      *)

EditService(r, s, on, p) ==
  /\ Refuse(r, [kind |-> "catalog"], "updated")
  /\ service' = [service EXCEPT ![s] = [active |-> on, provider |-> p]]
  /\ UNCHANGED <<rows, accepting, snapshot>>

EditProvider(r, p, on) ==
  /\ Refuse(r, [kind |-> "catalog"], "updated")
  /\ accepting' = [accepting EXCEPT ![p] = on]
  /\ UNCHANGED <<rows, service, snapshot>>

-----------------------------------------------------------------------------

\* Every call answered: the requests are spent, a bound of the model.
Spent ==
  /\ \A r \in Requests : pc[r] = "done"
  /\ UNCHANGED vars

Next ==
  \/ \E r \in Requests :
       \/ \E s \in Services, ph \in Phones, d \in Dates, t \in Times :
            LookUp(r, s, ph, d, t)
       \/ CheckSnapshot(r)
       \/ CommitBooking(r) \/ SerializationFailure(r) \/ UniqueViolation(r)
       \/ \E b \in Requests, to \in Statuses, by \in Callers :
            ReadForStatus(r, b, to, by)
       \/ WriteStatus(r)
       \/ \E b \in Requests, d \in Dates, t \in Times, by \in Callers :
            ReadForMove(r, b, d, t, by)
       \/ MoveBooking(r)
       \/ \E s \in Services, on \in BOOLEAN, p \in Providers :
            EditService(r, s, on, p)
       \/ \E p \in Providers, on \in BOOLEAN : EditProvider(r, p, on)
  \/ Spent

Spec == Init /\ [][Next]_vars

-----------------------------------------------------------------------------
(* Properties *)

\* What a request under way knows of its call: the shape its next statement
\* expects, and that the booking it read is still there (no handler deletes
\* bookings).
CallInProgress ==
  \A r \in Requests :
    /\ pc[r] \in {"check", "insert"} => call[r] \in CreateCalls
    /\ pc[r] = "write" => call[r] \in StatusCalls /\ call[r].booking \in Stored
    /\ pc[r] = "move" => call[r] \in MoveCalls /\ call[r].booking \in Stored


\* No provider is booked twice for one date and time by bookings that have not
\* been cancelled, whatever creates, status changes and moves run together.
\* Guards against a double booking by BookingsService.create, by a stale
\* status write that revives a cancelled booking, and by two moves.
SlotHeldOnce ==
  \A a, b \in Active : a # b => SlotOf(rows[a]) # SlotOf(rows[b])

\* No phone has two uncancelled bookings of one service on one date: the
\* duplicate rule of BookingsService.create.
NoDuplicateBooking ==
  \A a, b \in Active : a # b => DuplicateKey(rows[a]) # DuplicateKey(rows[b])

\* The slot each row holds.
Held == [b \in Requests |-> IF b \in Active THEN SlotOf(rows[b]) ELSE <<>>]

Ledger == INSTANCE SlotLedger
            WITH Holders <- Requests, NoSlot <- <<>>, held <- Held

\* Every statement that touches the bookings table claims a free slot, gives
\* one up, exchanges one for a free one, or leaves the ledger of slots alone.
SlotLedgerSpec == Ledger!Spec

\* The calls of a kind that changed a booking, as their callers were told.
Changes(b, kind) ==
  {r \in Requests :
     answer[r] = "updated" /\ call[r].kind = kind /\ call[r].booking = b}

\* A booking is what callers were told: its status is one that a status change
\* answered "updated" gave it, and its slot one that a move answered so gave it;
\* with no such change it is PENDING, with no such move where it was made.  So
\* status changes and moves that overlap undo nothing of each other, neither
\* comes back as it was read, and a call refused by the index leaves no trace.
AnsweredChangesStand ==
  \A b \in Stored :
    LET changes == Changes(b, "status")
        moves == Changes(b, "move")
    IN
    /\ rows[b].status \in
         IF changes = {} THEN {"PENDING"} ELSE {call[r].to : r \in changes}
    /\ \E r \in IF moves = {} THEN {b} ELSE moves :
         rows[b].date = call[r].date /\ rows[b].time = call[r].time

\* A booking is completed or a no-show only if some request confirmed it
\* earlier, however the status changes of admins and the portal interleave.
CompletedWasConfirmed ==
  \A b \in Stored :
    rows[b].status \in {"COMPLETED", "NO_SHOW"} =>
      \E r \in Requests :
        /\ answer[r] = "updated"
        /\ call[r].kind = "status"
        /\ call[r].booking = b
        /\ call[r].to = "CONFIRMED"

=============================================================================
