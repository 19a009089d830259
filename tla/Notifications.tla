--------------------------- MODULE Notifications ---------------------------
(***************************************************************************)
(* The in-app feed and the pushes: the three event listeners, the          *)
(* broadcast of an admin, notification preferences, the registration of    *)
(* devices and the sending of multicasts to FCM.                           *)
(*                                                                         *)
(* A job is one run of a listener, from the commit that will emit its      *)
(* event, or one broadcast.  Every statement a job awaits is one step; a   *)
(* step of another job, of a user or of FCM may come between two of them,  *)
(* and a crash of the process loses every job: events live in memory only. *)
(***************************************************************************)
EXTENDS Naturals, FiniteSets, FiniteSetsExt

CONSTANTS
  Users, Tokens, Bookings, Donations,
  Blocked,           \* accounts an admin has blocked: their calls are refused
  Residents,         \* users of the governorate a broadcast may name
  Registered,        \* the user each token is registered to at first
  Chosen,            \* the preferences users have at first
  PrefDtos,          \* bodies of PUT /me/notification-preferences
  MaxTokensPerCall,  \* tokens FCM takes in one multicast
  MaxJobs,           \* bound: jobs begun
  MaxOthers,         \* bound: calls of users, tokens given up by FCM, crashes
  NoUser, Unborn

Keys == {"bookings", "donations", "system"}
Segments == {"all", "donors", "governorate"}
Broadcast == <<"broadcast", NoUser>>
Jobs == ({"booking.created", "booking.statusChanged"} \X Bookings)
          \cup ({"donation.completed"} \X Donations) \cup {Broadcast}

ASSUME SetsAssumption ==
  /\ IsFiniteSet(Tokens)
  /\ Bookings \cap Donations = {}
  /\ Blocked \subseteq Users /\ Residents \subseteq Users
  /\ Registered \in [Tokens -> Users \cup {NoUser}]
  /\ Chosen \in [Users -> [Keys -> BOOLEAN]]
  /\ PrefDtos \subseteq UNION {[S -> BOOLEAN] : S \in SUBSET Keys}
ASSUME NumbersAssumption ==
  /\ MaxTokensPerCall \in Nat \ {0}
  /\ MaxJobs \in Nat
  /\ MaxOthers \in Nat
ASSUME NullAssumption ==
  /\ NoUser \notin Users
  /\ Unborn \notin Users \cup {NoUser}

VARIABLES
  users,      \* accounts that exist
  owner,      \* the user_id of each booking and donation, Unborn before it exists
  prefs,      \* notification_preferences: a missing row counts as enabled
  device,     \* device_tokens: the user each token is registered to
  feed,       \* the notifications table
  gone,       \* tokens that FCM will not deliver to any more
  job,        \* what each job is doing
  prefCall,   \* keys a user's running preferences call has still to write
  others,     \* how many calls of users, losses of tokens and crashes there were
  pushEnabled, \* a Firebase credential was there when the process started
  oversized    \* the broadcast's title and body are longer than FCM takes

vars == <<users, owner, prefs, device, feed, gone, job, prefCall, others,
          pushEnabled, oversized>>

-----------------------------------------------------------------------------
(* Rows, jobs and their types *)

Row == [user : Users, about : Jobs, read : BOOLEAN]

\* The statements of a job, and how it ends: done; silent when the event named
\* no user; quiet when nobody wanted the news; failed by an exception; or lost.
Pushing == {"devices", "send", "prune"}
Active == {"committed", "pref", "row"} \cup Pushing
Ended == {"done", "silent", "quiet", "failed", "lost"}

\* The variables of a job.  `seen' is history: the settings of each user's
\* preference there have been since the job began.
Job == [pc : {"idle"} \cup Active \cup Ended,
        todo : SUBSET Users, cur : Users \cup {NoUser}, reached : SUBSET Users,
        audience : SUBSET Users, seen : SUBSET (Users \X BOOLEAN),
        devices : SUBSET Tokens, batch : SUBSET Tokens, dead : SUBSET Tokens,
        found : Nat, sent : Nat, failed : Nat]

\* What the statement of a job says of its other variables; `push' is pushEnabled.
\* Users are taken in turn, devices belong to the push, and batches are disjoint.
Fits(r, push) ==
  /\ r.pc = "row" <=> r.cur # NoUser
  /\ r.todo \subseteq r.audience \ r.reached /\ r.reached \subseteq r.audience
  /\ r.pc = "row" => r.cur \in r.audience \ (r.todo \cup r.reached)
  /\ r.pc = "pref" => r.todo # {}
  /\ r.pc \in Pushing => r.todo = {} /\ r.reached # {} /\ push
  /\ r.pc \in {"idle", "committed", "pref", "row", "devices"} =>
       r.found = 0 /\ r.sent = 0 /\ r.failed = 0
  /\ r.pc \notin {"send", "prune"} => r.devices = {}
  /\ r.pc = "send" => r.devices # {}
  /\ IF r.pc = "prune" THEN r.dead # {} /\ r.dead \subseteq r.batch \ r.devices
                       ELSE r.batch = {} /\ r.dead = {}
  /\ r.batch \cap r.devices = {}

\* The tables: an account that is gone left no row behind, and its preferences
\* count as on.
TablesOK ==
  /\ users \subseteq Users
  /\ owner \in [Bookings \cup Donations -> users \cup {NoUser, Unborn}]
  /\ prefs \in [Users -> [Keys -> BOOLEAN]]
  /\ \A u \in Users \ users : \A k \in Keys : prefs[u][k]
  /\ device \in [Tokens -> users \cup {NoUser}]
  /\ feed \subseteq Row /\ \A n \in feed : n.user \in users
  /\ gone \subseteq Tokens

\* The memory of the process.
JobsOK ==
  /\ job \in [Jobs -> Job]
  /\ \A j \in Jobs : Fits(job[j], pushEnabled)
  /\ prefCall \in [Users -> UNION {[S -> BOOLEAN] : S \in SUBSET Keys}]
  /\ others \in 0 .. MaxOthers
  /\ pushEnabled \in BOOLEAN
  /\ oversized \in BOOLEAN

TypeOK == TablesOK /\ JobsOK

\* Mutant: donations are filed under the wrong key.
KindToPrefSwapped(j) ==
  CASE j = Broadcast -> "system"
    [] OTHER -> "bookings"

KindToPref(j) ==
  CASE j = Broadcast -> "system"
    [] j[1] = "donation.completed" -> "donations"
    [] OTHER -> "bookings"

\* Mutant: the booking is nested in the payload of booking.created, too.
PayloadUsersNested(j) ==
  IF j[1] \in {"booking.statusChanged", "booking.created"} THEN {} ELSE job[j].todo

\* The users the payload of a job's event names to its listener.  The payload
\* of booking.statusChanged holds the row inside `booking', where nobody looks.
PayloadUsers(j) ==
  IF j[1] = "booking.statusChanged" THEN {} ELSE job[j].todo

\* findMany over the segment.  Donors are listed whether blocked or not.
Audience(segment) ==
  CASE segment = "all" -> users \ Blocked
    [] segment = "governorate" -> (Residents \cap users) \ Blocked
    [] segment = "donors" -> {owner[d] : d \in Donations} \cap Users

\* History: the switch a user would look for to have no more of such news.
Topic(j) ==
  IF j = Broadcast THEN "system"
  ELSE IF j[2] \in Donations THEN "donations" ELSE "bookings"

Quiet == [pc |-> "idle", todo |-> {}, cur |-> NoUser, reached |-> {},
          audience |-> {}, seen |-> {}, devices |-> {}, batch |-> {}, dead |-> {},
          found |-> 0, sent |-> 0, failed |-> 0]

\* A job for the users in todo begins; the settings in force are on record.
Begin(j, pc, todo) ==
  job' = [job EXCEPT ![j] = [Quiet EXCEPT
            !.pc = pc, !.todo = todo, !.audience = todo,
            !.seen = {<<u, prefs[u][Topic(j)]>> : u \in todo}]]

\* The process answers a broadcast with its counts, and forgets the rest.
End(j, pc, r) ==
  job' = [job EXCEPT ![j] =
    IF j = Broadcast
      THEN [Quiet EXCEPT !.pc = pc, !.audience = r.audience, !.reached = r.reached,
                         !.found = r.found, !.sent = r.sent, !.failed = r.failed]
      ELSE [Quiet EXCEPT !.pc = pc, !.audience = r.audience]]

Signed == users \ Blocked

\* Bounds: one more job, one more call or mishap from outside.
MayBegin(j) ==
  /\ job[j].pc = "idle"
  /\ Cardinality({i \in Jobs : job[i].pc # "idle"}) < MaxJobs
Outside == others < MaxOthers /\ others' = others + 1

-----------------------------------------------------------------------------
(* What makes news: each commits, and emits its event in a later step *)

\* POST /bookings, signed in or as a guest.
CreateBooking(b) ==
  /\ MayBegin(<<"booking.created", b>>)
  /\ owner[b] = Unborn
  /\ \E u \in Signed \cup {NoUser} :
       /\ owner' = [owner EXCEPT ![b] = u]
       /\ Begin(<<"booking.created", b>>, "committed", {u} \cap Users)
  /\ UNCHANGED <<users, prefs, device, feed, gone, prefCall, others,
                 pushEnabled, oversized>>

\* PATCH /admin/bookings/:id/status, once per booking here.
ChangeStatus(b) ==
  LET j == <<"booking.statusChanged", b>> IN
  /\ MayBegin(j)
  /\ owner[b] # Unborn
  /\ Begin(j, "committed", {owner[b]} \cap Users)
  /\ UNCHANGED <<users, owner, prefs, device, feed, gone, prefCall, others,
                 pushEnabled, oversized>>

\* An approval, or the callback of the gateway, completes a donation.
CompleteDonation(d) ==
  LET j == <<"donation.completed", d>> IN
  /\ MayBegin(j)
  /\ Begin(j, "committed", {owner[d]} \cap Users)
  /\ UNCHANGED <<users, owner, prefs, device, feed, gone, prefCall, others,
                 pushEnabled, oversized>>

-----------------------------------------------------------------------------
(* The jobs *)

\* The event is emitted with the row as committed: a listener returns at once
\* unless the payload names a user.
Emit(j) ==
  /\ job[j].pc = "committed"
  /\ IF PayloadUsers(j) # {}
       THEN job' = [job EXCEPT ![j].pc = "pref"]
       ELSE End(j, "silent", job[j])
  /\ UNCHANGED <<users, owner, prefs, device, feed, gone, prefCall, others,
                 pushEnabled, oversized>>

\* POST /admin/notifications/broadcast reads the users of the segment.  The body
\* it is called with may be more than FCM takes: the DTO bounds characters.
StartBroadcast(segment) ==
  /\ MayBegin(Broadcast)
  /\ oversized' \in BOOLEAN
  /\ IF Audience(segment) # {}
       THEN Begin(Broadcast, "pref", Audience(segment))
       ELSE End(Broadcast, "quiet", Quiet)
  /\ UNCHANGED <<users, owner, prefs, device, feed, gone, prefCall, others,
                 pushEnabled>>

\* r is what a job knows after one user: the next one's turn, or the push to
\* everybody who got a row, which a process without a credential skips.
AfterUser(j, r) ==
  IF r.todo # {} THEN job' = [job EXCEPT ![j] = [r EXCEPT !.pc = "pref"]]
  ELSE IF r.reached = {} THEN End(j, "quiet", r)
  ELSE IF ~pushEnabled THEN End(j, "done", r)
  ELSE job' = [job EXCEPT ![j] = [r EXCEPT !.pc = "devices"]]

\* create: the preference of the next user is read.
ReadPref(j) ==
  /\ job[j].pc = "pref"
  /\ \E u \in job[j].todo :
       LET r == [job[j] EXCEPT !.todo = @ \ {u}] IN
       IF prefs[u][KindToPref(j)]
         THEN job' = [job EXCEPT ![j] = [r EXCEPT !.pc = "row", !.cur = u]]
         ELSE AfterUser(j, r)
  /\ UNCHANGED <<users, owner, prefs, device, feed, gone, prefCall, others,
                 pushEnabled, oversized>>

\* create: the row is written.  The foreign key refuses it for an account
\* deleted meanwhile, which ends the job, a broadcast half-way and unpushed.
WriteRow(j) ==
  LET u == job[j].cur IN
  /\ job[j].pc = "row"
  /\ IF u \in users
       THEN /\ feed' = feed \cup {[user |-> u, about |-> j, read |-> FALSE]}
            /\ AfterUser(j, [job[j] EXCEPT !.cur = NoUser, !.reached = @ \cup {u}])
       ELSE /\ End(j, "failed", job[j])
            /\ UNCHANGED feed
  /\ UNCHANGED <<users, owner, prefs, device, gone, prefCall, others,
                 pushEnabled, oversized>>

\* sendToUsers: the devices of everybody who got a row.
ReadDevices(j) ==
  LET devices == {t \in Tokens : device[t] \in job[j].reached} IN
  /\ job[j].pc = "devices"
  /\ IF devices = {}
       THEN End(j, "done", job[j])
       ELSE job' = [job EXCEPT ![j] = [@ EXCEPT !.pc = "send", !.devices = devices,
                                                !.found = Cardinality(devices)]]
  /\ UNCHANGED <<users, owner, prefs, device, feed, gone, prefCall, others,
                 pushEnabled, oversized>>

\* The batches that may be sent next: as many of the devices as FCM takes.
Batches(devices) ==
  kSubset(IF Cardinality(devices) < MaxTokensPerCall
            THEN Cardinality(devices) ELSE MaxTokensPerCall, devices)

AfterBatch(j, r) ==
  IF r.devices # {}
    THEN job' = [job EXCEPT ![j] = [r EXCEPT !.pc = "send", !.batch = {}, !.dead = {}]]
    ELSE End(j, "done", r)

\* Mutant: a batch lost as a whole is not counted.
SendBatchUncounted(j) ==
  /\ job[j].pc = "send"
  /\ \E batch \in Batches(job[j].devices) :
       AfterBatch(j, [job[j] EXCEPT !.devices = @ \ batch])
  /\ UNCHANGED <<users, owner, prefs, device, feed, gone, prefCall, others,
                 pushEnabled, oversized>>

\* Mutant: a batch lost as a whole is sent again, until it arrives.
SendBatchRetrying(j) ==
  /\ job[j].pc = "send"
  /\ \/ job' = [job EXCEPT ![j].pc = "devices"]
     \/ \E batch \in Batches(job[j].devices) :
          AfterBatch(j, [job[j] EXCEPT !.devices = @ \ batch, !.sent = @ + Cardinality(batch)])
  /\ UNCHANGED <<users, owner, prefs, device, feed, gone, prefCall, others,
                 pushEnabled, oversized>>

\* What FCM may answer for a token: it is not to be delivered to, the message is
\* none that FCM takes, or it is delivered; and any may meet an error that passes.
Answers(j, t) ==
  LET refusals ==
        (IF t \in gone THEN {"registration-token-not-registered",
                             "invalid-registration-token"} ELSE {})
          \cup (IF j = Broadcast /\ oversized THEN {"invalid-argument"} ELSE {})
  IN {"server-unavailable"} \cup (IF refusals = {} THEN {"success"} ELSE refusals)

\* Mutant: an error that will pass is taken for a token that is gone, too.
DeadTokenCodesTransient ==
  {"registration-token-not-registered", "invalid-registration-token",
   "invalid-argument", "server-unavailable"}

DeadTokenCodes ==
  {"registration-token-not-registered", "invalid-registration-token",
   "invalid-argument"}

\* sendBatch: the multicast is refused or lost as a whole, or FCM answers for
\* each token, and those answered with a dead code are to be deleted.
SendBatch(j) ==
  /\ job[j].pc = "send"
  /\ \E batch \in Batches(job[j].devices) :
       LET r == [job[j] EXCEPT !.devices = @ \ batch] IN
       \/ AfterBatch(j, [r EXCEPT !.failed = @ + Cardinality(batch)])
       \/ \E code \in [batch -> UNION {Answers(j, t) : t \in batch}] :
            LET ok == {t \in batch : code[t] = "success"}
                dead == {t \in batch : code[t] \in DeadTokenCodes}
                q == [r EXCEPT !.sent = @ + Cardinality(ok),
                               !.failed = @ + Cardinality(batch \ ok)] IN
            /\ \A t \in batch : code[t] \in Answers(j, t)
            /\ IF dead = {}
                 THEN AfterBatch(j, q)
                 ELSE job' = [job EXCEPT ![j] =
                        [q EXCEPT !.pc = "prune", !.batch = batch, !.dead = dead]]
  /\ UNCHANGED <<users, owner, prefs, device, feed, gone, prefCall, others,
                 pushEnabled, oversized>>

\* sendBatch: the dead tokens are deleted.  Should the statement fail, the same
\* catch counts the whole batch as failed, once more for those already counted.
DeleteDeadTokens(j) ==
  /\ job[j].pc = "prune"
  /\ \/ /\ device' = [t \in Tokens |-> IF t \in job[j].dead THEN NoUser ELSE device[t]]
        /\ AfterBatch(j, job[j])
     \/ /\ AfterBatch(j, [job[j] EXCEPT !.failed = @ + Cardinality(job[j].batch)])
        /\ UNCHANGED device
  /\ UNCHANGED <<users, owner, prefs, feed, gone, prefCall, others,
                 pushEnabled, oversized>>

Step(j) ==
  Emit(j) \/ ReadPref(j) \/ WriteRow(j) \/ ReadDevices(j) \/ SendBatch(j)
    \/ DeleteDeadTokens(j)

-----------------------------------------------------------------------------
(* Users, devices and the process *)

\* PUT /me/notification-preferences arrives with some of the keys ...
StartPreferences(u) ==
  /\ Outside
  /\ u \in Signed
  /\ DOMAIN prefCall[u] = {}
  /\ \E dto \in PrefDtos : prefCall' = [prefCall EXCEPT ![u] = dto]
  /\ UNCHANGED <<users, owner, prefs, device, feed, gone, job, pushEnabled, oversized>>

\* ... and upserts them one by one, here in any order; the upsert fails once
\* the account is gone.
WritePreference(u) ==
  \E k \in DOMAIN prefCall[u] :
    LET enabled == prefCall[u][k] IN
    /\ IF u \in users
         THEN /\ prefs' = [prefs EXCEPT ![u][k] = enabled]
              /\ prefCall' = [prefCall EXCEPT ![u] =
                                [l \in DOMAIN @ \ {k} |-> @[l]]]
              /\ job' = [j \in Jobs |->
                   IF u \in job[j].audience /\ Topic(j) = k /\ job[j].pc \in Active
                     THEN [job[j] EXCEPT !.seen = @ \cup {<<u, enabled>>}]
                     ELSE job[j]]
         ELSE /\ prefCall' = [prefCall EXCEPT ![u] = <<>>]
              /\ UNCHANGED <<prefs, job>>
    /\ UNCHANGED <<users, owner, device, feed, gone, others, pushEnabled, oversized>>

\* POST /me/device-tokens: an upsert by token takes it from whoever had it.
RegisterDevice(u, t) ==
  /\ Outside
  /\ u \in Signed
  /\ t \notin gone
  /\ device[t] # u
  /\ device' = [device EXCEPT ![t] = u]
  /\ UNCHANGED <<users, owner, prefs, feed, gone, job, prefCall, pushEnabled, oversized>>

\* FCM: the app is removed from a device, or its token is replaced.
LoseToken(t) ==
  /\ Outside
  /\ t \notin gone
  /\ gone' = gone \cup {t}
  /\ UNCHANGED <<users, owner, prefs, device, feed, job, prefCall, pushEnabled, oversized>>

\* PATCH /me/notifications/:id/read, and POST /me/notifications/read-all.
MarkRead(u) ==
  /\ Outside
  /\ u \in Signed
  /\ \E n \in feed : n.user = u /\ ~n.read
  /\ \/ \E n \in feed :
          /\ n.user = u
          /\ feed' = (feed \ {n}) \cup {[n EXCEPT !.read = TRUE]}
     \/ feed' = {IF n.user = u THEN [n EXCEPT !.read = TRUE] ELSE n : n \in feed}
  /\ UNCHANGED <<users, owner, prefs, device, gone, job, prefCall, pushEnabled, oversized>>

\* Mutant: the preferences' rows are gone, and none counts as none.
DeleteAccountAndRows(u) ==
  /\ Outside
  /\ u \in Signed
  /\ users' = users \ {u}
  /\ owner' = [x \in DOMAIN owner |-> IF owner[x] = u THEN NoUser ELSE owner[x]]
  /\ prefs' = [prefs EXCEPT ![u] = <<>>]
  /\ device' = [t \in Tokens |-> IF device[t] = u THEN NoUser ELSE device[t]]
  /\ feed' = {n \in feed : n.user # u}
  /\ UNCHANGED <<gone, job, prefCall, pushEnabled, oversized>>

\* DELETE /me: the rows of the feed, the preferences and the devices go with
\* the account, and what it booked or gave is detached.
DeleteAccount(u) ==
  /\ Outside
  /\ u \in Signed
  /\ users' = users \ {u}
  /\ owner' = [x \in DOMAIN owner |-> IF owner[x] = u THEN NoUser ELSE owner[x]]
  /\ prefs' = [prefs EXCEPT ![u] = [k \in Keys |-> TRUE]]
  /\ device' = [t \in Tokens |-> IF device[t] = u THEN NoUser ELSE device[t]]
  /\ feed' = {n \in feed : n.user # u}
  /\ UNCHANGED <<gone, job, prefCall, pushEnabled, oversized>>

\* createPushClient: without a credential that is there, is JSON and is accepted
\* by the SDK, the process runs with no push client.
Boot == pushEnabled' \in BOOLEAN

\* The process stops and starts: whatever it held in memory is lost.
Crash ==
  /\ Outside
  /\ job' = [j \in Jobs |-> IF job[j].pc \in Active
                               THEN [Quiet EXCEPT !.pc = "lost"] ELSE job[j]]
  /\ prefCall' = [u \in Users |-> <<>>]
  /\ Boot
  /\ UNCHANGED <<users, owner, prefs, device, feed, gone, oversized>>

-----------------------------------------------------------------------------
Init ==
  /\ users = Users
  /\ owner \in {o \in [Bookings \cup Donations -> Users \cup {NoUser, Unborn}] :
                 /\ \A b \in Bookings : o[b] = Unborn
                 /\ \A d \in Donations : o[d] # Unborn}
  /\ prefs = Chosen
  /\ device = Registered
  /\ feed = {}
  /\ gone = {}
  /\ job = [j \in Jobs |-> Quiet]
  /\ prefCall = [u \in Users |-> <<>>]
  /\ others = 0
  /\ pushEnabled \in BOOLEAN
  /\ oversized = FALSE

Next ==
  \/ \E b \in Bookings : CreateBooking(b) \/ ChangeStatus(b)
  \/ \E d \in Donations : CompleteDonation(d)
  \/ \E s \in Segments : StartBroadcast(s)
  \/ \E j \in Jobs : Step(j)
  \/ \E u \in Users : \/ StartPreferences(u) \/ WritePreference(u) \/ MarkRead(u)
                       \/ DeleteAccount(u)
                       \/ \E t \in Tokens : RegisterDevice(u, t)
  \/ \E t \in Tokens : LoseToken(t)
  \/ Crash

\* The event loop resumes every job whose statement was answered, and each is
\* answered or fails.  Nothing else has to happen.
Fairness == \A j \in Jobs : WF_vars(Step(j))

Spec == Init /\ [][Next]_vars /\ Fairness

-----------------------------------------------------------------------------
(* Properties *)

HasRow(u, j) == \E n \in feed : n.user = u /\ n.about = j

\* The users of a job have their row, are gone, or want no such news; or the
\* process crashed.
Delivered(j) ==
  \/ job[j].pc \in {"quiet", "lost"}
  \/ \A u \in job[j].audience \cap users : HasRow(u, j)

\* The counts a broadcast answers: no device is reached that was not read, and
\* none that was read is left out of both counts, whatever FCM answered and
\* however the devices fell into batches.
EveryDeviceCounted ==
  LET r == job[Broadcast] IN
  r.pc \in {"send", "prune", "done"} =>
    /\ r.sent + Cardinality(r.devices) <= r.found
    /\ r.sent + r.failed + Cardinality(r.devices) >= r.found

\* Off means off, on means on: a row is created only for a user whose setting
\* for that kind of news was on at some moment of the job, and a user is passed
\* over only if it was off at some moment.
PreferenceDecides ==
  [][\A j \in Jobs : \A u \in Users :
       LET created == HasRow(u, j)' /\ ~HasRow(u, j)
           passed == /\ job[j].pc = "pref" /\ u \in job[j].todo
                     /\ u \notin job'[j].todo /\ job'[j].cur # u
                     /\ job'[j].pc # "lost"
       IN /\ created => <<u, TRUE>> \in job[j].seen
          /\ passed => <<u, FALSE>> \in job[j].seen]_vars

\* A transient failure never unregisters a device: the process itself deletes
\* a registration only for a token that FCM has given up, or one that a broadcast
\* too long for FCM was sent to.  The second is the code's own doing: it counts
\* messaging/invalid-argument among "errors that mean the token is gone for
\* good", and FCM answers it for a message it does not take, whoever it is for.
OnlyRefusedTokensPruned ==
  [][\A t \in Tokens :
       (device[t] \in users' /\ device'[t] = NoUser) =>
          \/ t \in gone
          \/ /\ oversized /\ job[Broadcast].pc = "prune"
             /\ t \in job[Broadcast].dead]_vars

\* The news of a booking made, or a donation completed, reaches the feed of its
\* user, unless the user goes, has it turned off, or the process crashes.
NewsArrives ==
  \A j \in Jobs \ {Broadcast} :
    (j[1] # "booking.statusChanged" /\ job[j].pc = "committed" /\ job[j].todo # {})
      ~> Delivered(j)

\* Every job ends: no preference, deletion or answer of FCM keeps one going.
JobsEnd == (\E j \in Jobs : job[j].pc \in Active)
             ~> (\A j \in Jobs : job[j].pc \notin Active)

\* A status change notifies the user (BACKEND.md): it never does.
StatusChangeNotifies ==
  \A b \in Bookings :
    LET j == <<"booking.statusChanged", b>> IN
    (job[j].pc = "committed" /\ job[j].todo # {}) ~> Delivered(j)
=============================================================================
