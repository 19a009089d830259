# Verification of the backend: TLA+ models, TLC runs, TLAPS proofs

The program is a NestJS 10 service over Prisma and PostgreSQL: an appointment
engine, donations with fundraising totals, accounts, a CMS and the admin and
provider portals around them. Source paths below are relative to the root of the
repository, where the service lives in `src/`.

Every HTTP request is an `async` handler. Node runs one piece of JavaScript at a
time, but a handler gives way at every `await`, several processes may serve one
database, and the state that matters is all in PostgreSQL. So the unit of
interleaving in every module is **one database statement, or one transaction**:
what a handler does between two awaits and what it asks the database next is one
action; anything may happen before the following one.

## 1. Inventory

| Component | State it keeps | Operations | What is hard | What makes it correct |
|---|---|---|---|---|
| Booking engine (`src/bookings`) | `bookings`: provider, service, phone, date, time, status | create, status change, reschedule, availability | slot races, stale status writes, SERIALIZABLE aborts that are not retried, the partial unique index, an answer read in four statements | a slot is held once; no duplicate booking; a booking is as callers were told; an open slot is offered |
| Provider portal (`src/providers/provider-portal.controller.ts`) | none of its own | its own copies of status change and reschedule | races with the admin's copies | same as above, on the provider's own bookings |
| Catalogue (`src/services`, `src/providers`, `src/categories`) | categories, services, form fields, providers, weekly schedules, blocked dates | create, edit, assign, remove, replace a schedule, block a date | no transactions: lookups go stale, replacements and removals in several statements | links resolve; a schedule has only accepted entries |
| Slot generation (`src/common/utils`) | none | dates of a range, slots of a day, what is left of them | last slot and last date, intervals that do not divide, UTC dates of local midnights | exactly the open slots are offered |
| Donations (`src/donations`) | `donations`: status, amount, links, gateway transaction | give, review, gateway callback | final-state test outside the transaction, redelivered callbacks, deadlock with deletion, INTEGER overflow | totals equal what was approved; approved at most once |
| Portfolio (`src/portfolio`) | cases and projects: `raised_amount`, `supporters`; their updates and stages | create, edit, delete, add an update or a stage | typed-in totals over credits; deletion under a review or an update | links resolve |
| Authentication (`src/auth`) | refresh tokens, OTP codes | OTP, login, refresh, password change, logout | check-then-act on a token; a session stored after "revoke all" | a token is used once; a password change ends every session |
| Admin accounts (`src/admin`) | admin users, roles | create, edit, reset, edit and delete a role | two managers demote each other; a role loses its permission | somebody can always manage roles |
| Notifications (`src/notifications`) | notifications, preferences, device tokens | event listeners, broadcast, push, pruning | events lost between commit and emission; payload shapes; accounts deleted during a broadcast; partial failures of a multicast | the person concerned is told, if they want to be; every device is counted; no token goes that was not refused |
| CMS (`src/cms`) | one JSON row, backups, media | section editors, pages, import, media | read, change in memory, write back; a backup that fails | an edit is lost only to an edit of its own section; migration completes what it shows; a file in use stays |
| Consultations, volunteers, contact (`src/consultations`, `src/volunteers`, `src/contact`) | what people hand in, with a status and an appointment | submit, status, schedule | check-then-act, an account found or created | scheduled means arranged; a request finds its mailbox's account |
| User accounts (`src/users`) | users, favourites, device tokens | profile, blocking, favourites, erasure | erasure beside whatever still writes rows of the account | erasure reaches every row it found |
| Audit log, governorates, articles, reports, legal pages | their tables | append; single-statement edits, lists, sums | little | see section 14 |
| Schema deployment (`scripts/apply-schema.js`) | the migrations table | baseline, deploy, refuse | half-applied states | never migrates over data it does not know |

How they interact: the booking and donation services emit in-process events after
their commits, and the notification listeners write rows and call
the push gateway. The portal and the admin controllers write the same `bookings`
rows through separate code. The donation review increments the totals of the
portfolio's tables inside its transaction, and deleting a case clears the links
of donations through the foreign key. The catalogue decides which provider a
booking is filed under. The token guard reads the account on every request, but
the refresh tokens are a table of their own.

`PROJECT.json` lists every component with its status and every hazard at its
line with the property that covers it.

## 2. Modules

| Module | Models | Proofs |
|---|---|---|
| `SlotLedger` | what the booking engine promises about slots: claim, exchange, release | target of the refinement |
| `Bookings` | booking engine, portal, and the catalogue's effect on it | `BookingsProofs` |
| `Calendar` | the arithmetic of availability: dates, weekdays, slots, what is left of them | in `CatalogueProofs` |
| `Catalogue` | categories, services, providers, schedules, blocked dates, beside availability and booking | `CatalogueProofs` |
| `Portfolio` | cases and projects, their totals, updates and stages | in `DonationsProofs` |
| `Donations` | donations, gateway callback, totals and links; extends `Portfolio` | `DonationsProofs` |
| `Auth` | codes, sign-in, refresh tokens, passwords, blocking and deletion as far as they end sessions | `AuthProofs` |
| `AdminAccounts` | administrator accounts, roles, the last-manager rule, the audit trail | `AdminAccountsProofs` |
| `CmsState` | the CMS row, its editors, import and migration, upload and removal of a media file | `CmsStateProofs` |
| `Notifications` | events and listeners, broadcast, preferences, devices, push, crash; liveness | `NotificationsProofs` (safety) |
| `Records` | what people hand in, the back office, erasure of an account | `RecordsProofs` |
| `MC*` | the same modules with symmetry sets and finite tables, for TLC | |

What composes what: `Catalogue` extends `Calendar` and puts bookings beside the
catalogue they depend on; `Donations` extends `Portfolio`; `Notifications` joins
the commits of bookings and donations to the listeners, accounts and devices;
`Records` joins four services to the deletion of accounts. `Bookings` is shown to
implement `SlotLedger`.

Left to do, in this order: the refinement of abstract specifications by components
other than `Bookings` (a session's life for `Auth`, a ledger of credits for
`Donations`) where they say more than the invariants proved so far; what
`NotificationsProofs` can still say of jobs that a crash loses; then the schema
deployment script.

## 3. Bookings

A *request* is one handler invocation. It makes one call (`call`), stands before
one statement (`pc`) and ends with one `answer`. A create call lends its row the
request's own name, so `rows` is a function from requests to rows.

| Action | Code |
|---|---|
| `LookUp` | the two reads of `BookingsService.create` before its transaction, and its refusals |
| `CheckSnapshot` | the conflict and duplicate queries inside the transaction; they share one snapshot, hence one step |
| `CommitBooking`, `SerializationFailure`, `UniqueViolation` | the insert and commit, P2034 (`runBookingTransaction` answers SLOT_TAKEN, no retry), P2002 (409 by the exception filter) |
| `ReadForStatus`, `WriteStatus` | `updateStatus` and the portal's copy: read and validate, then write by id |
| `ReadForMove`, `MoveBooking` | `reschedule` and the portal's copy: conflict query, then write by id |
| `EditService`, `EditProvider` | catalogue edits, by what `create` reads of them |

**What is assumed of PostgreSQL.** A SERIALIZABLE transaction never commits beside
a concurrent SERIALIZABLE one when each would have had to see the other's row
(`Rivals`); it may also abort because of any concurrent commit, since
PostgreSQL's predicate locks are coarse (`SerializationFailure`), but never when
no other such transaction committed since its snapshot. Updates of other handlers run at
READ COMMITTED and take no part in that. `booking_slot_unique` refuses any
statement that would leave two uncancelled rows in one slot, including the revival
of a cancelled one; `SlotIndex` says whether the index exists, as it did not
before its migration and does not where that migration has not run.

### Runs

| Run | Instance | Distinct states | Shows |
|---|---|---|---|
| `bookings` | 5 requests, 2 providers, 1 service, 1 phone, 1 date, 2 times; index; create, status, move | 36,804 | `SlotLedgerSpec`: the table implements `SlotLedger`. `AnsweredChangesStand`, `CompletedWasConfirmed`, `TypeOK` |
| `bookings_serializable` | 4 requests, 2 providers, 2 phones, 2 times; no index; create and catalogue | 19,108 | the transaction alone gives `SlotHeldOnce` and `NoDuplicateBooking` |

*Why these bounds are enough.* Five requests are a create, its confirmation,
a status change that has read the booking and not yet written, a cancellation, and
another create that takes the freed slot: the longest story in which a stale
write meets a slot given away. Two times make moves and exchanges of slots
possible; two providers make the portal's refusal and the reassignment of a
service possible; two phones tell a conflict from a duplicate. The requests that
are all spent stop the system: `Spent` is the model's bound, a stutter, so that a
deadlock reported by TLC is a real one.

*What the properties say of a booking.* `AnsweredChangesStand` ties a row to what
callers were told: its status is one that an answered status change gave it, its
slot one that an answered move gave it, and with none of them both are as they were
made. Status changes and moves write different columns of a row that each read
before, so that is all that can be said of overlapping ones: which of two status
changes stays is open.

*Divergences (no run of their own).* The comment of `runBookingTransaction`
(bookings.service.ts:125-126) does without a retry because "if the loser lost, the slot is
gone". That is not true of every abort: `SerializationFailure` may follow a commit
about another slot, by coarse locks, or one of the same phone and date at another time.
The caller is told SLOT_TAKEN and the slot is free. Which aborts there are is an assumption
about PostgreSQL (above), so no property is stated of them.

BACKEND.md, section 9, calls the last statuses terminal. Both status
handlers test the transition on a row they read earlier and write by id alone:
two changes of one booking that both read CONFIRMED end with the second one's
status, so a COMPLETED booking may become CANCELLED. The index keeps even that
from double-booking a slot, which `SlotLedgerSpec` shows.

### Proofs

`BookingsProofs` proves for every number of requests, providers, dates and so on:

- `TypeCorrect`. Inductive invariant `TypeInv`: `TypeOK` and `CallInProgress`,
  which says that a call under way has the shape its next statement expects and
  that the booking it read is still stored. The second part is needed for the
  writes by id.
- `ImplementsSlotLedger` (assuming the index): every step of the engine is a step
  of `SlotLedger` or leaves it alone. `TableStep` reduces every action to one
  write of one row that the index allowed; `AllowedWrite` maps such a write to a
  claim, an exchange, a release or nothing.
- `IndexKeepsSlotsExclusive` (assuming the index): `SlotHeldOnce`.
- `SerializableSuffices` (assuming that no status change and no move is made):
  `SlotHeldOnce` and `NoDuplicateBooking`, with or without the index.
  Strengthened by `RowsAsCreated` (a row has the keys of its call) and
  `SnapshotChecked` (a transaction about to insert saw no row like its own).
- `ChangesStand`: `AnsweredChangesStand`, strengthened by `AnsweredInv` (a row stands for
  a create, and an answered change is of a row that is stored) and by
  `AnsweredIsDone` (only requests that are done have an answer): a row changes by the one
  request that is answered in that step, in the columns of its kind.
- `ConfirmationFirst`: strengthened by `ConfirmInv`, which says of every row past
  PENDING, and of every status change in flight towards COMPLETED or NO_SHOW, that
  the confirmation has been answered.

The assumptions on constants are only those named in `Bookings`: the kinds of
call, the callers, the truth value of `SlotIndex` and that the null values are
none of the values.

## 4. Donations

The table is a sequence in the order of `created_at` (ties, which the database
may break either way, are left out). `causes` holds the totals of cases and
projects; a cause is either, since the code for the two is the same line by
line. A donation links to at most one of each. `Portfolio` has the calls on causes
alone, `Donations` the rest.

| Action | Code |
|---|---|
| `Give` | `DonationsService.create`; a foreign key refuses a deleted cause, the INTEGER column a huge amount |
| `ReadForReview`, `CommitReview`, `ReviewOverflow` | `adminUpdateStatus`: the final-state test outside, the status and the increments inside the transaction |
| `DeadlockVictim` | a review locks its donation and then its cause, a deletion the other way round; PostgreSQL rolls one of the two back |
| `FindTransaction`, `MatchDonation`, `ConfirmPayment` | the three statements of `handleWebhook`; the unique `gateway_tx_id` is P2002 |
| `CreateCause` | `createCase`, `createProject`: the unique code may refuse a case |
| `FindForEdit`, `EditCause`, `FindForDelete`, `DeleteCause`, `RemoveMissing` | `updateCase`, `deleteCase` and their copies for projects; `onDelete: SetNull` clears links, `Cascade` takes updates and stages along |
| `FindForNote`, `AddNote` | `addCaseUpdate`, `addProjectUpdate`, `addProjectStage` |

| Run | Instance | Distinct states | Shows |
|---|---|---|---|
| `donations` | 4 requests, 1 case and 1 project to start with and 1 case to create, amounts 1 and 4, 2 transaction ids, column maximum 3, a typed-in total of 3 | 232,042 | `LinksResolve`, `BooksBalance`, `TotalsCoverApprovals`, `GatewayOnlyAfterAdmin`, `TypeOK` |
| `donation_credited_twice` | 3 requests: a gift and two reviews | violated | `CreditedOnce` fails |

*Why these bounds are enough.* Four requests are a gift, two reviews in flight
and one more actor: a deletion, a callback, an edit or a second gift; or a creation,
an update and a deletion. `MaxInt` 3 stands for 2^31 - 1: a total of 1 takes two
credits of 1 and no third, one typed in at 3 takes none, and a gift of 4 fits no
column.

*Code bug.* The comment in `adminUpdateStatus` says that a donation can only be credited
once because a final state is never left. The test of the final state reads the
row before the transaction, and the transaction updates by id without repeating
it: two overlapping approvals both increment `raised_amount` and `supporters`.
`BooksBalance` shows what does hold: one credit per approval reported successful.

*What the properties say about the gateway.* No payment method counts as a gateway
method (`GATEWAY_METHODS` is empty), so the callback only ever decides donations
that an admin put into PENDING_CONFIRMATION. It credits no total; `BooksBalance`
and `TotalsCoverApprovals` are stated accordingly, over approvals by admins.

*Divergence (no run of its own).* A final state is not final for the callback, either.
`handleWebhook` reads the oldest pending donation and completes it by id, with its
"never regress from final states" (donations.service.ts:313, and the constant at :37) tested on the
row it read. A review that decides the donation in between is overwritten, which BACKEND.md:520
(section 16, 3) denies of out-of-order events; and of two callbacks of one transaction
at once, the second may repeat the decision or end in a 409, where it promises a 200
without a change. `GatewayOnlyAfterAdmin` does not catch that and is not meant to: it says only
where a donation that a callback decides comes from. What limits the damage is
`BooksBalance`: no callback touches a total.

*Also noticed.* `updateProject` drops the stages a caller sends, without a word.

## 5. Authentication and sessions

`Auth` follows every refresh token from its issue to its end. A request that ends
in tokens lends its name to its refresh token; a *session* is the chain of tokens
that one sign-in began, and has the name of that sign-in. All codes are mailed to
one address, and `user` says which account holds the address: deleted accounts
keep their ids, so the next sign-in makes a new one.

| Action | Code |
|---|---|
| `InvalidateCodes`, `StoreCode` | `requestOtp`: mark the older codes used; store and mail the new one (in production a failed mail is a 503 and the code stays) |
| `FindCode`, then `BurnCode`, `CountAttempt` or `ConsumeCode` | `verifyOtp`: what the latest unused code decides, and the update by id that follows |
| `FindUser`, `CreateUser` | `verifyOtp`: find the user by address, or create one; the unique address makes the loser of two creations a 409 |
| `IssueToken` | `generateTokens`; the foreign key refuses a deleted user's |
| `ReadForLogin` | `adminLogin` |
| `FindToken`, `RevokeToken`, `ReadOwner` | the three statements of `refreshTokens` |
| `FindForLogout`, `RevokeForLogout` | `logout` |
| `ReadForChange`, `ReadForReset`, `CommitPassword` | `changeAdminPassword` and `AdminUsersService.resetPassword`, which end in the same transaction |
| `SetActive`, `ReadForBlock`, `WriteBlock`, `ReadForDelete`, `DeleteAccount` | what `AdminUsersService.update`, `toggleBlock` and `deleteAccount` do to accounts |

The clock is not modelled: a code or a token that is looked up may always turn out
to have expired. `ends`, in a password call, is a history field: the sign-ins of
that administrator answered before the change.

| Run | Instance | Distinct states | Shows |
|---|---|---|---|
| `auth` | 5 requests, 1 administrator, 2 user ids, 2 passwords, all kinds of call | 139,750 | `SessionStaysDead`, `PasswordEndsIdleSessions`, `DeletionEndsSessions`, `EveryWrongAttemptCounts`, `TypeOK` |

*Why these bounds are enough.* Five requests are a sign-in, a refresh and a second
refresh of its token, and two more beside or after them, such as a password
change and a replay of the first token. `MaxAttempts` is 2, for the
5 of the code, so that two wrong codes use a code up and can overlap. Two user ids
let an address be deleted and taken again.

*Code bug (no run of its own).* A refresh reads its token, revokes it, reads the owner and stores the
successor in four statements. A password change that commits between the second
and the fourth revokes nothing of that session, which then goes on with the new
token, although the comment on `changeAdminPassword` says the sessions of the old
password die with it. What does hold is `PasswordEndsIdleSessions`: sessions with no
request under way end, whichever of their tokens is the live one.

For the same reason two refreshes that both read a token before either revokes it
are both answered, each with a successor; likewise two verifications of one code.
The model has these behaviours, and `SessionStaysDead` holds in spite of
them: when all tokens of a session are revoked, it is over for good.

The limit of five guesses has the gap, too: `verifyOtp` tests `attempts` as it read it, so
guesses that overlap are compared beyond the fifth (the test at auth.service.spec.ts:103,
"locks out after 5 attempts", makes them one by one). `EveryWrongAttemptCounts` does not
catch that. It says that the increments are not lost, so that the code is locked for whoever
reads it afterwards.

## 6. Administrator accounts and roles

`AdminAccounts` keeps the tables `admin_users` and `roles`, and of a role only
whether it grants `roles:write`, the permission in front of every route
here. The audit trail is the set of requests that have an entry.

| Action | Code |
|---|---|
| `AskCreate` ... `AskRemoveRole` (through `Admit`) | the controllers behind `JwtAccessStrategy` and `RolesGuard`, which decide on the caller's account and role as read at the start |
| `FindAccount`, `CheckRole`, `CheckProvider`, `CheckCapable`, `CheckLast` | the reads of `create` and `update`, in their order; `AfterRole` and `AfterProvider` say which of them a body skips |
| `InsertAccount`, `WriteAccount` | the write; the unique e-mail and provider, and the foreign key of the role, may refuse it |
| `Audit` | the service's own entry, before the answer; the insert may fail, and then the caller gets an error and the account stays as written |
| `FindRole`, `InsertRole`, `UpdateRole`, `DeleteRole` | `RolesService` |
| `LogRoleChange` | `ActivityLogInterceptor`: after the answer, and a failure is swallowed |

`crossed` is a history variable: the requests beside which some other request wrote
to a table before they wrote themselves. So is `changed`: the requests that wrote to one.

| Run | Instance | Distinct states | Shows |
|---|---|---|---|
| `admin_accounts` | 2 requests, 3 addresses, 2 roles, 1 provider, every kind of call, from every state of active, unbound accounts with a manager | 349,618 | `BindingsHold`, `TrailMatchesChanges`, `LastManagerOnlyByOverlap`, `TypeOK` |

*Why these bounds are enough.* The checks of a request can be made stale by one
other request, and the initial states are all those of active accounts, bound to no
provider, that have a manager, so no requests are spent on setting one up; the
requests themselves disable and bind. Three addresses are two
managers and one more account or a free address.

*Code bug (no run of its own).* The last-manager test and the update are separate statements: two
managers who disable or demote each other at the same time both pass the test. The
comment beside it calls the `active === false` arm no live path; overlapping
requests reach it. `LastManagerOnlyByOverlap` shows what does hold: alone, no update
takes the last manager away, whatever fields it has. The edit of a role can, and has no test.

*Divergence (no run of its own).* BACKEND.md:187 says that every mutating admin action
writes an entry of the activity log, and section 16, 12 (:535) requires it. `create` and
`update` of `AdminUsersService` write theirs in a statement of its own
(admin-users.service.ts:107 and :159): when that fails, the account has changed, no entry is
there, and the caller is told of an error, although a repeated creation then meets its own
account and gets a 409. `resetPassword` has the three writes in one transaction
(:180-196). `TrailMatchesChanges` says what is left: nobody is told "done" of an account change
without an entry, nobody refused has changed a thing, and no entry is false. For
roles the interceptor writes after the answer, and not even the first holds.

## 7. CMS

The whole CMS is one row of JSON columns. `row` is a record of those columns, and a
*document* is a function on the columns that it has, so that a body may leave some
out. A text counts by what it shows: blank, a default, something written,
or the URL or the id of the one media file that is followed.

| Action | Code |
|---|---|
| `ReadRow`, `CreateRow` | `getState`, with which every editor, the snapshot, the export and the import begin; two requests that both find no row collide on its key |
| `Compute` (in both), `Write` | the change in memory, and the update of the columns of that section |
| `Backup`, `Reread` | `createBackup` and the second half of `importState` |
| `ReplaceMenu`, `ReplaceHome` | the two editors that write without reading |
| `Upload`, `FindMedia`, `CheckReferences`, `Unlink`, `DeleteMedia` | `CmsMediaService` |

`Migrate` is the migration as a function: each gated step looks at the version the
document came with, and `Ensured` runs at every version. One setting stands for
those that `ensureSettingsInvariants` fills, one for those it leaves blank, and
`contactPhone` for the names of before version 6. `crossed` is a history
variable: the requests that hold a column they have read while another request
wrote it.

| Run | Instance | Distinct states | Shows |
|---|---|---|---|
| `cms` | 3 requests, 22 editor calls, from no row, a row of version 11 and one of version 10 | 151,069 | `EditsMeetOnlyInTheirSection`, `TypeKeysUnique`, `SnapshotCompletes`, `MigratesOnce`, `MediaInUseStays`, `TypeOK` |

*Why these bounds are enough.* A lost update needs two requests; a third lets a
removal of a file, or a third editor, run beside them. The bodies of replacements and imports are below, at and
above the current version, with and without each column that migration fills.

*Code bug (no run of its own).* `replaceState` says that an omitted field keeps what is stored. It
migrates the body first, and migration gives every body settings (and a body below
version 11 consultation types, below 5 payment methods), so a PUT without
settings resets them.

Other disagreements the model shows, without a run of their own:

- A media file in use can be removed. `isMediaReferenced` looks for its URL in the settings,
  the menu, the home page and the pages; its comment (cms-media.service.ts:117) says "anywhere in
  the CMS state JSON columns", and BACKEND.md:420 that removal fails if the file is still
  referenced. Consultation types and payment methods are columns too, and a page may
  name a file by its id, as the snapshot invites: none of these counts.
  `MediaInUseStays` is stated of the home page and the pages alone, which stand
  for the four columns searched; the model has types that show the file (`ShownIn`), and they lose it.
- No backup is ever stored: its log entry names the actor `system`, which
  is no administrator, and the failure is swallowed. `Backup` therefore changes nothing.
- An editor of pages that read before another unpublished a page publishes it again
  with the write of the whole column.
- A row of version 10 shows the default consultation types in the public snapshot,
  whatever editors save, until something writes the row at version 11.

## 8. Notifications

A *job* is one run of a listener, from the commit whose event it will hear, or
one broadcast. Events are emitted after the transaction and live in memory only,
so emission is a step of its own, and a crash between the two loses the job.

| Action | Code |
|---|---|
| `CreateBooking`, `ChangeStatus`, `CompleteDonation` | the commits that make news: `BookingsService.create`, `updateStatus`, `adminUpdateStatus` |
| `Emit` | the event, and what the listener takes from its payload (`PayloadUsers`) |
| `StartBroadcast` | `broadcastToSegment`: the users of a segment, read once |
| `ReadPref`, `WriteRow` | `NotificationsService.create`: the preference, then the row; the foreign key refuses a deleted account's, which ends the loop |
| `ReadDevices`, `SendBatch`, `DeleteDeadTokens` | `sendToUsers`, `sendBatch`: up to `MaxTokensPerCall` tokens at a time, FCM's answer for each or for none (`Answers`), pruning by its code (`DeadTokenCodes`) inside the same `try` |
| `StartPreferences`, `WritePreference` | `updatePreferences`: one upsert per key |
| `RegisterDevice`, `MarkRead`, `DeleteAccount` | the calls of users, with the cascades of a deletion |
| `LoseToken`, `Crash` | the environment: FCM gives a token up; the process stops and starts, with or without a credential (`Boot`) |

What FCM answers is modelled apart from the state of a token: a token it has given up gets
one of the two codes for that, and `messaging/invalid-argument` comes for every token
when the message is none that FCM takes. `oversized` says that the broadcast is
such a message: its DTO (`broadcast.dto.ts`) bounds a title by 200 and a body by 2000 characters, which
in Arabic script and JSON may be more than FCM's 4096 bytes. The texts of listeners, a sentence with a name, are taken to fit.

`seen`, in a job, is history: which settings of each user's preference there were
since it began.

| Run | Instance | Distinct states | Shows |
|---|---|---|---|
| `notifications` | 2 users, 3 devices in batches of 2, 1 booking, 1 donation, 1 broadcast, 2 jobs, 1 call from outside, a broadcast that fits or not | 168,793 | `PreferenceDecides`, `OnlyRefusedTokensPruned`, `EveryDeviceCounted`, `NewsArrives`, `JobsEnd`, `TypeOK` |
| `status_change_silent` | the same | violated | `StatusChangeNotifies` fails |

*Why these bounds are enough.* Three devices in batches of two are a full batch
and a rest, of one user or of two. Two jobs are a listener beside a broadcast, or
two listeners of one user; the call from outside is a deletion, a change of
preference in two writes, a device that moves to another account, a token that
ends or a crash, at any point of either.

*Divergence.* BACKEND.md says that a status change notifies the user. The event
carries the booking's row, and its listener looks for `userId` beside it.

*Code bug (no run of its own).* `DEAD_TOKEN_CODES` is introduced as "errors that mean the token is
gone for good, rather than a transient failure" (push.service.ts:31), and
has `messaging/invalid-argument` among them, which FCM answers of messages as well. A broadcast
too long for FCM therefore unregisters every live device it is sent to, and their owners
get no push any more until the app registers again. `OnlyRefusedTokensPruned` has that
case by name (without it, TLC finds the property violated) and denies every other: no
token goes because a call failed, because its neighbours in the batch are dead,
or because it moved to another account.

*What the counts mean.* `sent + failed` may exceed the devices found: when the
deletion of dead tokens fails, the batch is counted as failed after it was counted by
FCM's answer. `EveryDeviceCounted` is stated accordingly: nothing is counted as
sent twice, and nothing is left out.

*Fairness.* `WF_vars(Step(j))` for every job: the event loop resumes a handler whose
statement was answered, and the database client answers or throws. Nothing is
assumed of users, of FCM's tokens or of crashes. `NewsArrives` and `JobsEnd` hold
under it; a lost job counts as ended, and as excused.

## 9. Catalogue and availability

`Catalogue` has the tables by the columns that others depend on. A handler is the
list of rows it looks up (`Lookups`, one `findUnique` each) and the statements
that follow; none of them is in a transaction, so each is a step.

| Action | Code |
|---|---|
| `Start`, `Look` (through `Check`) | the lookups of every handler, their refusals, and what is remembered of the last |
| `WriteCategory`, `ToggleCategory`, `DeleteCategory` | `CategoriesService`; the counts of `remove` are read with the row |
| `ClearFields`, `WriteService`, `DeleteService`, `AssignService` | `ServicesService`, `ProvidersService.assignService` |
| `WriteProvider`, `ClearSchedule`, `WriteSchedule`, `ClearDates`, `DeleteProvider` | `ProvidersService`: `setSchedule` and `remove` in their statements |
| `FindDate`, `WriteDate` | `addUnavailableDate`, `removeUnavailableDate` |
| `ReadSchedule`, `ReadDates`, `AnswerAvailability` | the reads of `getAvailability`, and the slots computed from them |
| `Book` | the transaction of `BookingsService.create`, by its effect |

`Calendar` has the functions behind the answer, over days and hours: the dates of
a range are UTC dates of instants that move by local days, slots end before the
working day does. `witness` is history: which slots were open, and which shut, all through a
question that is under way.

| Run | Instance | Distinct states | Shows |
|---|---|---|---|
| `catalogue` | 3 requests, 2 categories, 2 services, 2 providers, 2 dates, 3 times, 5 schedules, an offset of 2 hours | 898,315 | `LinksResolve`, `AvailabilityIsCurrent`, `EntriesWereAccepted`, `TypeOK` |

*Why these bounds are enough.* Each read of a handler goes stale by one other
request; a second makes the mixed cases, such as two replacements of a schedule
beside a question. Two requests do anything, the third is a visitor. The
schedules have slots of one unit and of two, one of which is longer than what is left of its day, on one
weekday or on both. `AvailabilityIsCurrent` compares the code's functions with a
definition that has neither ranges nor loops (`OpenNow`, `Working`): it is also
the check of `Calendar`. The loops of `date.util.ts` are recursive functions whose
results are kept as sets, since what reads them looks members up.

*What is assumed.* The process runs in a time zone with one offset, in UTC or east of
it: `SteadyClock` of `CatalogueProofs`, under which the property is proved, too.
Neither half can be left out. With 2 hours before an instant and 3 after it, TLC finds
`AvailabilityIsCurrent` violated: `generateDateRange` moves a UTC midnight by local
days, so that after the change of the clock its instant is not a UTC midnight any
more, and the last date of a range may be missed. With an offset of -2 hours TLC finds
it violated as well: a UTC midnight is the evening before there, `getDay` takes that
evening's weekday, and a date is offered by the schedule of the day before it. The
service sets no time zone of its own.

*Divergence (no run of its own).* BACKEND.md:434 (section 9, 2) says that the availability endpoint
"returns only future, open slots". `getAvailability` (bookings.service.ts:31-116) reads no
clock, nor does the validation of its query: a range that begins in the past, or today, is answered with
slots that have gone by, and `create` takes them. The model has no clock for the same reason.
In `AvailabilityIsCurrent` "open" is what the schedule, the blocked dates and the bookings
leave open, gone by or not; it shows nothing of "future".

*What the model shows besides, without a property denying it:*

- Two overlapping replacements of a schedule mix their weeks where these have no
  weekday in common, and where they have one, the second is refused after it has deleted
  what was there. A removal of a provider that is refused has deleted the
  schedule and the blocked dates, one of a service its form fields.
- Categories may form a cycle: only a category's own id is refused as its parent.
- A booking asks neither for the schedule nor for blocked dates (BACKEND.md, "Bookings",
  7, says that a blocked slot gets a 409), and slots are taken by their label: a
  booking of a long slot leaves the short ones inside it open once the schedule changes.

## 10. Records and erasure

`Records` has the five tables of rows that people hand in, by who is named in
them: `holds` is the set of personal columns that still have their value.

| Action | Code |
|---|---|
| `Submit`, `Upsert`, `InsertRow` | the five `create`s; a consultation finds or creates the account of its normalised address in one statement |
| `SignIn` | `verifyOtp`: the account of an address, found or created |
| `FindForStatus`, `WriteStatus` | the status routes of consultations, volunteers and messages |
| `FindForSchedule`, `CheckProvider`, `WriteSchedule` | `ConsultationsService.schedule` |
| `RemoveProvider` | the foreign key's `SetNull` when a provider goes |
| `StartFavorite`, `WriteFavorite` | favourites |
| `FindForErasure`, `StripBookings`, `StripDonations`, `StripConsultations`, `CommitErasure` | `deleteAccount`: one READ COMMITTED transaction, whose statements each see what is committed by then |

| Run | Instance | Distinct states | Shows |
|---|---|---|---|
| `records` | 4 requests, 2 account ids, 2 spellings of 1 mailbox, 2 rows, 1 provider | 1,720,482 | `ErasureReachesRows`, `RequestsFindTheirAccount`, `ScheduledIsArranged`, `TypeOK` |
| `erasure_incomplete` | the same | violated | `ErasureReachesAnswers` fails |

*Why these bounds are enough.* Two rows are handed in while two other requests
erase, or one erases and the back office works; two account ids let the mailbox
be erased and taken again. `past` is history: the accounts there were, the rows
an erasure found, and the rows handed in while one ran.

*Code bug.* The erasure passes `extraFieldsJson: undefined`, which Prisma takes for
"leave it": the answers of a consultation form, which are a person's own account
of their circumstances, stay. The same column of a booking is not named at all.

*What the model shows besides:* a consultation inserted while its account is being
erased, after the statement that strips consultations, keeps its name and text and loses its account
(`SetNull`): no later sign-in finds it, and no later erasure reaches it.
`RequestsFindTheirAccount` says so with `past.late`. A consultation cancelled between
the two statements of `schedule` is scheduled.

## 11. Fairness

Only `Notifications` assumes any (section 8), since only there does the program
promise that something happens later. The other specifications are safety specifications
(`Init /\ [][Next]_vars`): a handler whose client or database goes away promises
no answer.

Where deadlock is checked, `Spent` lets a system stop whose requests are all used up.
`Catalogue`, `Records` and `Notifications` may stop where nobody calls any more, and their
configurations say `CHECK_DEADLOCK FALSE`.

## 12. What is proved

Every safety property that a passing run checks is also a theorem, for every value of
the constants and under the hypotheses named below. A module `XProofs` holds the theorems about `X`; `PROJECT.json` lists
them. Each proof has the same plan: an invariant that is inductive (TLC agreed with
it on the run's instance first), one step per action, and lemmas that say
what an action writes, so that the actions are expanded once.

The type invariants carry most of the weight. They say more than the ranges of the
variables: what a handler remembers fits the statement it stands before (`Fits`
in every module, `CallInProgress` in `BookingsProofs`: the call is of the kind that
gets there, the row it read is or was stored). Without that no write by id could be shown to keep anything.

| Theorem | States | Invariant it needs, beyond the type invariant |
|---|---|---|
| `BookingsProofs` (six) | the refinement and the invariants of section 3 | see there |
| Auth `DeletionEnds` | `DeletionEndsSessions` | none: it is inductive, since a token is stored only for an account that is there |
| Auth `DeadSessionsStayDead` | `SessionStaysDead` | none: a token comes to life only by a request that is on its way to one |
| Auth `PasswordEnds` | `PasswordEndsIdleSessions` | `SessionInv`: a session bears the name of the sign-in that opened it, and a refresh stays in a session of the same owner |
| Auth `AttemptsCount` | `EveryWrongAttemptCounts` | `CountInv`: the counter of a code is the number of requests told that they were wrong, and those are finitely many |
| Donations `LinksLead` | `LinksResolve` | none: it is inductive |
| Donations `GatewayAfterAdmin` | `GatewayOnlyAfterAdmin` | `DecisionsInv`: also for callbacks that have matched a donation and not yet confirmed it |
| Donations `BooksAlwaysBalance`, `ApprovalsCovered` | `BooksBalance`, `TotalsCoverApprovals` | `IdsInv` (an id of a cause is given once) and `BooksInv` (approvals are finitely many, and every total is its opening plus their amounts) |
| AdminAccounts `BindingsAlwaysHold` | `BindingsHold` | none: it is inductive by the unique index and the foreign key |
| AdminAccounts `ChangesAudited` | `TrailMatchesChanges` | `TrailInv`: also for requests between their write and their entry, which have changed a table, and those before it, which have not |
| AdminAccounts `LastManagerKept` | `LastManagerOnlyByOverlap` | `ReadsHold`: what a request read is still so while nobody else has written beside it, through all five reads |
| CmsState `MigratesOnceOnly`, `SnapshotIsComplete` | `MigratesOnce`, `SnapshotCompletes` | none: lemmas about `Migrate`, for every document |
| CmsState `EditorsMeet`, `MediaStays` | `EditsMeetOnlyInTheirSection`, `MediaInUseStays` | `HeldIsFresh`: while nobody has written beside a request, what it is about to write is its edit of the row as it is, and a file it is about to unlink is shown at most by a consultation type |
| CmsState `KeysStayUnique` | `TypeKeysUnique` | `KeysInv`: also for the lists about to be written |
| Notifications `DevicesCounted` | `EveryDeviceCounted` | `CountInv`: the counts of every job, of listeners as of broadcasts, add up at each statement of a push |
| Notifications `OnlyRefusedPruned` | `OnlyRefusedTokensPruned` | `CondemnedInv`: the tokens that a batch remembers to delete are gone, or were sent a broadcast too long |
| Notifications `SwitchesDecide` | `PreferenceDecides` | `SeenInv`: the history of a job has the present settings of everybody in its audience |
| Notifications `StatusChangesStaySilent` | no status change reaches a feed, ever: what the run `status_change_silent` shows on one instance | `SilentInv` |
| Catalogue `LinksLead`, `EntriesAccepted` | `LinksResolve`, `EntriesWereAccepted` | none: both are inductive |
| Catalogue `AnswersAreCurrent` | `AvailabilityIsCurrent` | `WatchInv`: what a question has read was so at some time since it began, and its history holds now. Open as in section 9, gone by or not |
| Records `AppointmentsStand` | `ScheduledIsArranged` | `ScheduleInv`: no status write under way says SCHEDULED |
| Records `ErasureReaches` | `ErasureReachesRows` | `ErasureInv`: rows name living accounts, and only in the three tables; an erasure under way has found its account's rows in the tables it went through, and others are late |
| Records `RequestsFind` | `RequestsFindTheirAccount` | `AddressInv`, with `ErasureInv`: addresses on file are normal and apart; a request about to insert a consultation for a living account goes by its address |

Every module but `BookingsProofs`, where it is part of one of the six, has its
`TypeCorrect` besides.

**From what.** The theorems use the named assumptions of the modules, which TLC evaluates on
every run: that ids of different tables are told apart and null values are none of
them, that limits are numbers, that what callers send has the shape that the validation
of its DTO lets through. Three theorems have a hypothesis of their own:
`AnswersAreCurrent` needs `SteadyClock` (section 9 says why neither half can go);
`KeysStayUnique` needs `WholeListsKeysOnce`, since nothing in `replaceState` or
`importState` looks for a key that occurs twice; and those of section 3 name theirs. The run of each
has an instance that satisfies it.

**Sums and loops.** A sum over a set of approvals (`BooksBalance`) and the loops of
`Calendar` are recursive functions, and the induction theorems of the library take an
operator as a parameter, which the provers cannot instantiate. The proofs go round that:
the fold over a finite set is shown to be defined on all its subsets, by a least
size for which it is not, and to change by its entry when an element comes or goes (`SumAdd`, `SumRemove`);
a loop's result is given in closed form, shown to satisfy the loop's equation, and
a least counterexample (`LeastNat`) shows that nothing else does. `DatesOfRange`,
`SlotsOfDay`, `DayOfWeek` and `SlotsOffered` are what comes of it: for every range,
week and interval, the code's loops list what their names say.

## 13. What is only model-checked

- `NewsArrives` and `JobsEnd`: liveness under fairness, and the predicate `ENABLED`
  behind it, are out of the prover's reach.
- The three violations. They are counterexamples, which need no proof; for
  `status_change_silent` there is a theorem that says it of every instance.

## 14. What is not modelled

- Wording, formatting, reference numbers (random, unique by an index that only
  turns a collision into a 409), paging, search and lists: they change nothing. A list paged
  by offset may repeat or miss rows that tie in `created_at`.
- The signature test of the gateway's callback and request validation: stateless
  filters in front of the handlers; the models take the requests that pass them.
  The guards on accounts and roles are modelled in `Auth` and `AdminAccounts`,
  where what they read can be stale. A blocked user is refused by the guard,
  but on routes with an optional account counts as a guest.
- In `Bookings`: account deletion, which redacts names and phones of a user's
  bookings and so can only merge duplicate keys, not slots; dates and hours that nobody offers
  (`create` takes any label, so the models let callers name any). Removal of services and
  providers is in `Catalogue`.
- In `Donations` and `Portfolio`: portfolio items, publishing, texts, and a number of supporters
  typed in by hand.
- In `Auth`: the clock (section 5), the signatures of JWTs, the rate limits in front of
  the routes: accounts of other addresses do not interact.
- In `AdminAccounts`: permissions other than `roles:write`, names and passwords.
- In `CmsState`: texts of media items; a body that repeats a key of consultation
  types, which replacement and import store as it is (`TypeKeysUnique` is about creation).
- In `Catalogue`: a service's own active flag (it is in `Bookings`), names, prices, order, and
  deadlocks between the replacement of a schedule and the removal of its provider.
- In `Records`: the profile's own fields, and the note kept with an answered message.
- Articles, governorates, reports and legal pages: single statements and reads.
  Of these, `GET /articles/:id` finds drafts as well, which its list and the
  portfolio's own detail page leave out, and `userReport` subtracts two counts that are not of one
  snapshot.
- The components marked `not_modelled` in `PROJECT.json`, each with its reason.
