------------------------ MODULE NotificationsProofs ------------------------
(***************************************************************************)
(* Theorems about the feed and the pushes, for every number of users,      *)
(* devices, bookings, donations and jobs, and every size of a multicast.   *)
(***************************************************************************)
EXTENDS Notifications, FiniteSetTheorems, TLAPS

-----------------------------------------------------------------------------
(* Records of jobs *)

\* The record of job j becomes r.
Becomes(j, r) == job' = [job EXCEPT ![j] = r]

\* What Begin and End leave in the record.
Begun(j, p, todo) ==
  [Quiet EXCEPT !.pc = p, !.todo = todo, !.audience = todo,
                !.seen = {<<u, prefs[u][Topic(j)]>> : u \in todo}]
Ending(j, p, r) ==
  IF j = Broadcast
    THEN [Quiet EXCEPT !.pc = p, !.audience = r.audience, !.reached = r.reached,
                       !.found = r.found, !.sent = r.sent, !.failed = r.failed]
    ELSE [Quiet EXCEPT !.pc = p, !.audience = r.audience]

Stops == {"done", "silent", "quiet", "failed"}

LEMMA QuietIsJob == Quiet \in Job /\ Fits(Quiet, pushEnabled)
<1>1. Quiet \in Job
  BY DEF Quiet, Job
<1>2. Fits(Quiet, pushEnabled)
  BY NullAssumption DEF Quiet, Fits, Pushing
<1>3. QED
  BY <1>1, <1>2

LEMMA BegunIsJob ==
  ASSUME TablesOK, NEW j \in Jobs, NEW p \in {"committed", "pref"},
         NEW todo \in SUBSET Users, p = "pref" => todo # {}
  PROVE  Begun(j, p, todo) \in Job /\ Fits(Begun(j, p, todo), pushEnabled)
<1>1. \A u \in todo : prefs[u][Topic(j)] \in BOOLEAN
  BY DEF TablesOK, Topic, Keys
<1>2. {<<u, prefs[u][Topic(j)]>> : u \in todo} \in SUBSET (Users \X BOOLEAN)
  BY <1>1
<1>3. Begun(j, p, todo) \in Job
  BY <1>2 DEF Begun, Quiet, Job, Active
<1>4. Fits(Begun(j, p, todo), pushEnabled)
  BY NullAssumption DEF Begun, Quiet, Fits, Pushing
<1>5. QED
  BY <1>3, <1>4

LEMMA EndingIsJob ==
  ASSUME NEW j \in Jobs, NEW p \in Stops, NEW r \in Job, r.reached \subseteq r.audience
  PROVE  Ending(j, p, r) \in Job /\ Fits(Ending(j, p, r), pushEnabled)
<1> DEFINE e == Ending(j, p, r)
<1>1. e \in Job
  <2>1. p \in Ended
    BY DEF Stops, Ended
  <2>2. /\ r.audience \in SUBSET Users /\ r.reached \in SUBSET Users
        /\ r.found \in Nat /\ r.sent \in Nat /\ r.failed \in Nat
    BY DEF Job
  <2>3. CASE j = Broadcast
    BY <2>1, <2>2, <2>3 DEF Ending, Quiet, Job
  <2>4. CASE j # Broadcast
    BY <2>1, <2>2, <2>4 DEF Ending, Quiet, Job
  <2>5. QED
    BY <2>3, <2>4
<1>2. /\ e.pc = p /\ e.todo = {} /\ e.cur = NoUser /\ e.reached \subseteq e.audience
      /\ e.devices = {} /\ e.batch = {} /\ e.dead = {}
  BY DEF Ending, Quiet, Job
<1> HIDE DEF e
<1>3. Fits(e, pushEnabled)
  BY <1>2, NullAssumption DEF Fits, Pushing, Stops
<1>4. QED
  BY <1>1, <1>3 DEF e

\* How a job goes on after a user, and after a batch.
LEMMA Turns ==
  ASSUME NEW j, NEW r
  PROVE  /\ \A p, todo : Begin(j, p, todo) => Becomes(j, Begun(j, p, todo))
         /\ \A p : End(j, p, r) => Becomes(j, Ending(j, p, r))
         /\ AfterUser(j, r) =>
              \/ r.todo # {} /\ Becomes(j, [r EXCEPT !.pc = "pref"])
              \/ r.todo = {} /\ r.reached = {} /\ Becomes(j, Ending(j, "quiet", r))
              \/ r.todo = {} /\ Becomes(j, Ending(j, "done", r))
              \/ r.todo = {} /\ r.reached # {} /\ pushEnabled
                   /\ Becomes(j, [r EXCEPT !.pc = "devices"])
         /\ AfterBatch(j, r) =>
              \/ r.devices # {}
                   /\ Becomes(j, [r EXCEPT !.pc = "send", !.batch = {}, !.dead = {}])
              \/ r.devices = {} /\ Becomes(j, Ending(j, "done", r))
<1>1. \A p, todo : Begin(j, p, todo) => Becomes(j, Begun(j, p, todo))
  BY DEF Begin, Becomes, Begun
<1>2. \A p : End(j, p, r) => Becomes(j, Ending(j, p, r))
  BY DEF End, Becomes, Ending
<1>3. QED
  BY <1>1, <1>2 DEF AfterUser, AfterBatch, Becomes

-----------------------------------------------------------------------------
(* The type invariant *)

LEMMA BecomesType ==
  ASSUME JobsOK, NEW j \in Jobs, NEW r \in Job, Fits(r, pushEnabled), Becomes(j, r),
         UNCHANGED <<prefCall, others, pushEnabled>>,
         oversized' = oversized \/ oversized' \in BOOLEAN
  PROVE  JobsOK'
<1>1. job' \in [Jobs -> Job]
  BY DEF JobsOK, Becomes
<1>2. ASSUME NEW i \in Jobs PROVE Fits(job'[i], pushEnabled)
  BY DEF JobsOK, Becomes
<1>3. \A i \in Jobs : Fits(job[i], pushEnabled)'
  BY <1>2 DEF Fits
<1>4. QED
  BY <1>1, <1>3 DEF JobsOK

LEMMA OwnJob ==
  ASSUME JobsOK, NEW j \in Jobs
  PROVE  job[j] \in Job /\ Fits(job[j], pushEnabled)
  BY DEF JobsOK

LEMMA JobsDiffer ==
  /\ \A b \in Bookings : /\ <<"booking.created", b>> \in Jobs
                         /\ <<"booking.statusChanged", b>> \in Jobs
  /\ \A d \in Donations : <<"donation.completed", d>> \in Jobs
  /\ Broadcast \in Jobs
  BY DEF Jobs

LEMMA InitType == Init => TypeOK
<1> SUFFICES ASSUME Init PROVE TypeOK
  OBVIOUS
<1>1. TablesOK
  BY SetsAssumption DEF Init, TablesOK
<1>2. JobsOK
  <2>1. <<>> \in [{} -> BOOLEAN]
    OBVIOUS
  <2>2. <<>> \in UNION {[S -> BOOLEAN] : S \in SUBSET Keys}
    BY <2>1
  <2>3. job \in [Jobs -> Job] /\ \A j \in Jobs : job[j] = Quiet
    BY QuietIsJob DEF Init
  <2>4. \A j \in Jobs : Fits(job[j], pushEnabled)
    BY <2>3, QuietIsJob
  <2>5. /\ prefCall \in [Users -> UNION {[S -> BOOLEAN] : S \in SUBSET Keys}]
        /\ others \in 0 .. MaxOthers /\ pushEnabled \in BOOLEAN
    BY <2>2, NumbersAssumption DEF Init
  <2>6. oversized \in BOOLEAN
    BY DEF Init
  <2>7. QED
    BY <2>3, <2>4, <2>5, <2>6 DEF JobsOK
<1>3. QED
  BY <1>1, <1>2 DEF TypeOK

LEMMA BeginType ==
  ASSUME TypeOK, NEW j \in Jobs, NEW p \in {"committed", "pref"},
         NEW todo \in SUBSET Users, p = "pref" => todo # {}, Begin(j, p, todo),
         UNCHANGED <<prefCall, others, pushEnabled>>,
         oversized' = oversized \/ oversized' \in BOOLEAN
  PROVE  JobsOK'
<1>1. Begun(j, p, todo) \in Job /\ Fits(Begun(j, p, todo), pushEnabled)
  BY BegunIsJob DEF TypeOK
<1>2. Becomes(j, Begun(j, p, todo))
  BY Turns
<1>3. QED
  BY <1>1, <1>2, BecomesType DEF TypeOK

\* What makes news keeps the type invariant.
LEMMA NewsType ==
  ASSUME TypeOK
  PROVE  /\ \A b \in Bookings : CreateBooking(b) \/ ChangeStatus(b) => TypeOK'
         /\ \A d \in Donations : CompleteDonation(d) => TypeOK'
         /\ \A s \in Segments : StartBroadcast(s) => TypeOK'
<1> USE DEF TypeOK
<1>1. ASSUME NEW b \in Bookings, CreateBooking(b) PROVE TypeOK'
  <2>1. PICK u \in Signed \cup {NoUser} :
          /\ owner' = [owner EXCEPT ![b] = u]
          /\ Begin(<<"booking.created", b>>, "committed", {u} \cap Users)
    BY <1>1 DEF CreateBooking
  <2>2. UNCHANGED <<users, prefs, device, feed, gone, prefCall, others, pushEnabled, oversized>>
    BY <1>1 DEF CreateBooking
  <2>3. TablesOK'
    BY <2>1, <2>2 DEF TablesOK, Signed
  <2>4. JobsOK'
    BY <2>1, <2>2, BeginType, JobsDiffer
  <2>5. QED
    BY <2>3, <2>4
<1>2. ASSUME NEW b \in Bookings, ChangeStatus(b) PROVE TypeOK'
  <2>1. Begin(<<"booking.statusChanged", b>>, "committed", {owner[b]} \cap Users)
    BY <1>2 DEF ChangeStatus
  <2>2. UNCHANGED <<users, owner, prefs, device, feed, gone, prefCall, others, pushEnabled, oversized>>
    BY <1>2 DEF ChangeStatus
  <2>3. TablesOK'
    BY <2>2 DEF TablesOK
  <2>4. JobsOK'
    BY <2>1, <2>2, BeginType, JobsDiffer
  <2>5. QED
    BY <2>3, <2>4
<1>3. ASSUME NEW d \in Donations, CompleteDonation(d) PROVE TypeOK'
  <2>1. Begin(<<"donation.completed", d>>, "committed", {owner[d]} \cap Users)
    BY <1>3 DEF CompleteDonation
  <2>2. UNCHANGED <<users, owner, prefs, device, feed, gone, prefCall, others, pushEnabled, oversized>>
    BY <1>3 DEF CompleteDonation
  <2>3. TablesOK'
    BY <2>2 DEF TablesOK
  <2>4. JobsOK'
    BY <2>1, <2>2, BeginType, JobsDiffer
  <2>5. QED
    BY <2>3, <2>4
<1>4. ASSUME NEW s \in Segments, StartBroadcast(s) PROVE TypeOK'
  <2>1. /\ UNCHANGED <<users, owner, prefs, device, feed, gone, prefCall, others, pushEnabled>>
        /\ oversized' \in BOOLEAN
    BY <1>4 DEF StartBroadcast
  <2>2. TablesOK'
    BY <2>1 DEF TablesOK
  <2>3. Audience(s) \in SUBSET Users
    BY DEF Audience, Segments, TablesOK
  <2>4. CASE Audience(s) # {}
    <3>1. Begin(Broadcast, "pref", Audience(s))
      BY <1>4, <2>4 DEF StartBroadcast
    <3>2. QED
      BY <2>1, <2>2, <2>3, <2>4, <3>1, BeginType, JobsDiffer
  <2>5. CASE Audience(s) = {}
    <3>1. End(Broadcast, "quiet", Quiet)
      BY <1>4, <2>5 DEF StartBroadcast
    <3>2. Quiet.reached \subseteq Quiet.audience /\ "quiet" \in Stops
      BY DEF Quiet, Stops
    <3>3. QED
      BY <2>1, <2>2, <3>1, <3>2, Turns, QuietIsJob, EndingIsJob, BecomesType, JobsDiffer
  <2>6. QED
    BY <2>4, <2>5
<1>5. QED
  BY <1>1, <1>2, <1>3, <1>4

\* A job that goes on with r after a user, or after a batch, keeps it.
LEMMA TurnsType ==
  ASSUME TypeOK, NEW j \in Jobs, NEW r \in Job,
         r.todo \subseteq r.audience \ r.reached, r.reached \subseteq r.audience,
         UNCHANGED <<prefCall, others, pushEnabled, oversized>>
  PROVE  /\ \A p \in Stops : End(j, p, r) => JobsOK'
         /\ AfterUser(j, r) /\ r.cur = NoUser /\ r.found = 0 /\ r.sent = 0 /\ r.failed = 0
              /\ r.devices = {} /\ r.batch = {} /\ r.dead = {} => JobsOK'
         /\ AfterBatch(j, r) /\ r.cur = NoUser /\ r.todo = {} /\ r.reached # {}
              /\ pushEnabled => JobsOK'
<1> USE DEF TypeOK
<1>1. \A p \in Stops : Becomes(j, Ending(j, p, r)) => JobsOK'
  BY EndingIsJob, BecomesType
<1>2. \A p \in Stops : End(j, p, r) => JobsOK'
  BY <1>1, Turns
<1>3. ASSUME AfterUser(j, r), r.cur = NoUser, r.found = 0, r.sent = 0, r.failed = 0,
             r.devices = {}, r.batch = {}, r.dead = {}
      PROVE  JobsOK'
  <2> DEFINE g(p) == [r EXCEPT !.pc = p]
  <2>1. \A p \in Active : /\ g(p) \in Job /\ g(p).pc = p /\ g(p).todo = r.todo
                          /\ g(p).cur = r.cur /\ g(p).reached = r.reached
                          /\ g(p).audience = r.audience /\ g(p).devices = r.devices
                          /\ g(p).batch = r.batch /\ g(p).dead = r.dead
                          /\ g(p).found = r.found /\ g(p).sent = r.sent
                          /\ g(p).failed = r.failed
    BY DEF Job
  <2>2. "pref" \in Active /\ "devices" \in Active /\ "quiet" \in Stops /\ "done" \in Stops
    BY DEF Active, Pushing, Stops
  <2> HIDE DEF g
  <2>3. r.todo # {} => Fits(g("pref"), pushEnabled)
    BY <1>3, <2>1, <2>2 DEF Fits, Pushing
  <2>4. r.todo = {} /\ r.reached # {} /\ pushEnabled => Fits(g("devices"), pushEnabled)
    BY <1>3, <2>1, <2>2 DEF Fits, Pushing
  <2>5. CASE r.todo # {} /\ Becomes(j, g("pref"))
    BY <2>1, <2>2, <2>3, <2>5, BecomesType
  <2>6. CASE r.todo = {} /\ r.reached # {} /\ pushEnabled /\ Becomes(j, g("devices"))
    BY <2>1, <2>2, <2>4, <2>6, BecomesType
  <2>7. QED
    BY <1>1, <1>3, <2>2, <2>5, <2>6, Turns DEF g
<1>4. ASSUME AfterBatch(j, r), r.cur = NoUser, r.todo = {}, r.reached # {}, pushEnabled
      PROVE  JobsOK'
  <2> DEFINE g == [r EXCEPT !.pc = "send", !.batch = {}, !.dead = {}]
  <2>1. /\ g \in Job /\ g.pc = "send" /\ g.todo = {} /\ g.cur = NoUser
        /\ g.reached = r.reached /\ g.audience = r.audience /\ g.devices = r.devices
        /\ g.batch = {} /\ g.dead = {}
    BY <1>4 DEF Job, Active, Pushing
  <2> HIDE DEF g
  <2>2. r.devices # {} => Fits(g, pushEnabled)
    BY <1>4, <2>1 DEF Fits, Pushing
  <2>3. CASE r.devices # {} /\ Becomes(j, g)
    BY <2>1, <2>2, <2>3, BecomesType
  <2>4. QED
    BY <1>1, <1>4, <2>3, Turns DEF g, Stops
<1>5. QED
  BY <1>2, <1>3, <1>4

\* A batch, and those of it that were reached, are counted.
LEMMA BatchCounts ==
  ASSUME NEW D \in SUBSET Tokens, NEW batch \in Batches(D)
  PROVE  /\ batch \in SUBSET D
         /\ Cardinality(batch) \in Nat /\ Cardinality(D) \in Nat
         /\ Cardinality(D \ batch) = Cardinality(D) - Cardinality(batch)
         /\ \A ok \in SUBSET batch :
              /\ Cardinality(ok) \in Nat /\ Cardinality(batch \ ok) \in Nat
              /\ Cardinality(batch \ ok) = Cardinality(batch) - Cardinality(ok)
<1>1. batch \in SUBSET D
  BY DEF Batches, kSubset
<1>2. IsFiniteSet(D) /\ IsFiniteSet(batch)
  BY <1>1, SetsAssumption, FS_Subset
<1>3. ASSUME NEW S, NEW T \in SUBSET S, IsFiniteSet(S)
      PROVE  /\ Cardinality(S) \in Nat /\ Cardinality(T) \in Nat /\ Cardinality(S \ T) \in Nat
             /\ Cardinality(S \ T) = Cardinality(S) - Cardinality(T)
  <2>1. IsFiniteSet(T) /\ IsFiniteSet(S \ T)
    BY <1>3, FS_Subset
  <2>2. Cardinality(S \ T) = Cardinality(S) - Cardinality(S \cap T) /\ S \cap T = T
    BY <1>3, FS_Difference
  <2>3. QED
    BY <1>3, <2>1, <2>2, FS_CardinalityType
<1>4. QED
  BY <1>1, <1>2, <1>3

\* The three ends of a multicast: it is lost; or answered, and there are dead
\* tokens to delete, or none.
Left(j, b) == [job[j] EXCEPT !.devices = @ \ b]
Lost(j, b) == [Left(j, b) EXCEPT !.failed = @ + Cardinality(b)]
Answered(j, b, ok) == [Left(j, b) EXCEPT !.sent = @ + Cardinality(ok),
                                         !.failed = @ + Cardinality(b \ ok)]
Holding(r, b, dead) == [r EXCEPT !.pc = "prune", !.batch = b, !.dead = dead]

\* The tokens that a job may delete.
Condemned(j, t) == t \in gone \/ (j = Broadcast /\ oversized)

LEMMA SendBatchCases ==
  ASSUME NEW j, SendBatch(j)
  PROVE  \E b \in Batches(job[j].devices) :
           \/ AfterBatch(j, Lost(j, b))
           \/ \E ok \in SUBSET b, dead \in SUBSET b :
                /\ \A t \in dead : Condemned(j, t)
                /\ \/ AfterBatch(j, Answered(j, b, ok))
                   \/ dead # {} /\ Becomes(j, Holding(Answered(j, b, ok), b, dead))
<1>1. PICK b \in Batches(job[j].devices) :
        \/ AfterBatch(j, Lost(j, b))
        \/ \E code \in [b -> UNION {Answers(j, t) : t \in b}] :
             LET ok == {t \in b : code[t] = "success"}
                 dead == {t \in b : code[t] \in DeadTokenCodes}
                 q == Answered(j, b, ok) IN
             /\ \A t \in b : code[t] \in Answers(j, t)
             /\ IF dead = {} THEN AfterBatch(j, q) ELSE Becomes(j, Holding(q, b, dead))
  BY DEF SendBatch, Becomes, Left, Lost, Answered, Holding
<1>2. ASSUME NEW t, NEW c \in Answers(j, t), c \in DeadTokenCodes PROVE Condemned(j, t)
  BY <1>2 DEF Answers, DeadTokenCodes, Condemned
<1>3. CASE AfterBatch(j, Lost(j, b))
  BY <1>3
<1>4. ASSUME NEW code,
             LET ok == {t \in b : code[t] = "success"}
                 dead == {t \in b : code[t] \in DeadTokenCodes}
                 q == Answered(j, b, ok) IN
             /\ \A t \in b : code[t] \in Answers(j, t)
             /\ IF dead = {} THEN AfterBatch(j, q) ELSE Becomes(j, Holding(q, b, dead))
      PROVE  \E ok \in SUBSET b, dead \in SUBSET b :
               /\ \A t \in dead : Condemned(j, t)
               /\ \/ AfterBatch(j, Answered(j, b, ok))
                  \/ dead # {} /\ Becomes(j, Holding(Answered(j, b, ok), b, dead))
  <2> DEFINE ok == {t \in b : code[t] = "success"}
             dead == {t \in b : code[t] \in DeadTokenCodes}
  <2>1. \A t \in dead : Condemned(j, t)
    BY <1>2, <1>4
  <2>2. ok \in SUBSET b /\ dead \in SUBSET b
    OBVIOUS
  <2>3. \/ AfterBatch(j, Answered(j, b, ok))
        \/ dead # {} /\ Becomes(j, Holding(Answered(j, b, ok), b, dead))
    BY <1>4
  <2> HIDE DEF ok, dead
  <2>4. QED
    BY <2>1, <2>2, <2>3
<1>5. QED
  BY <1>1, <1>3, <1>4

\* The records they leave: r is q, but for batch b, and for the counts.
Sends(r, q, b) ==
  /\ r \in Job /\ r.pc = q.pc /\ r.todo = q.todo /\ r.cur = q.cur /\ r.seen = q.seen
  /\ r.reached = q.reached /\ r.audience = q.audience /\ r.found = q.found
  /\ r.devices = q.devices \ b

LEMMA SentRecords ==
  ASSUME JobsOK, NEW j \in Jobs, NEW b \in Batches(job[j].devices), NEW ok \in SUBSET b
  PROVE  /\ Sends(Lost(j, b), job[j], b)
         /\ Lost(j, b).sent = job[j].sent
         /\ Lost(j, b).failed = job[j].failed + Cardinality(b)
         /\ Sends(Answered(j, b, ok), job[j], b)
         /\ Answered(j, b, ok).sent = job[j].sent + Cardinality(ok)
         /\ Answered(j, b, ok).failed = job[j].failed + Cardinality(b \ ok)
<1>1. job[j] \in Job /\ job[j].devices \in SUBSET Tokens
  BY OwnJob DEF Job
<1>2. /\ b \in SUBSET job[j].devices /\ Cardinality(b) \in Nat
      /\ Cardinality(ok) \in Nat /\ Cardinality(b \ ok) \in Nat
  BY <1>1, BatchCounts
<1>3. /\ Left(j, b) \in Job
      /\ Left(j, b).pc = job[j].pc /\ Left(j, b).todo = job[j].todo
      /\ Left(j, b).cur = job[j].cur /\ Left(j, b).seen = job[j].seen
      /\ Left(j, b).reached = job[j].reached /\ Left(j, b).audience = job[j].audience
      /\ Left(j, b).devices = job[j].devices \ b /\ Left(j, b).found = job[j].found
      /\ Left(j, b).sent = job[j].sent /\ Left(j, b).failed = job[j].failed
  BY <1>1 DEF Left, Job
<1>4. /\ Lost(j, b) \in Job /\ Lost(j, b).pc = job[j].pc /\ Lost(j, b).todo = job[j].todo
      /\ Lost(j, b).cur = job[j].cur /\ Lost(j, b).seen = job[j].seen
      /\ Lost(j, b).reached = job[j].reached /\ Lost(j, b).audience = job[j].audience
      /\ Lost(j, b).devices = job[j].devices \ b /\ Lost(j, b).found = job[j].found
      /\ Lost(j, b).sent = job[j].sent
      /\ Lost(j, b).failed = job[j].failed + Cardinality(b)
  BY <1>2, <1>3 DEF Lost, Job
<1> DEFINE q == Answered(j, b, ok)
<1>5. q \in Job
  <2>1. Left(j, b).sent + Cardinality(ok) \in Nat /\ Left(j, b).failed + Cardinality(b \ ok) \in Nat
    BY <1>2, <1>3 DEF Job
  <2>2. QED
    BY <1>3, <2>1 DEF Answered, Job
<1>6. /\ q.pc = job[j].pc /\ q.todo = job[j].todo
      /\ q.cur = job[j].cur /\ q.seen = job[j].seen
      /\ q.reached = job[j].reached /\ q.audience = job[j].audience
      /\ q.devices = job[j].devices \ b /\ q.found = job[j].found
      /\ q.sent = job[j].sent + Cardinality(ok)
      /\ q.failed = job[j].failed + Cardinality(b \ ok)
  BY <1>3 DEF Answered, Job
<1> HIDE DEF q
<1>7. QED
  BY <1>4, <1>5, <1>6 DEF q, Sends

LEMMA HeldRecord ==
  ASSUME NEW r \in Job, NEW b \in SUBSET Tokens, NEW dead \in SUBSET b
  PROVE  LET g == Holding(r, b, dead) IN
         /\ g \in Job /\ g.pc = "prune" /\ g.batch = b /\ g.dead = dead
         /\ g.todo = r.todo /\ g.cur = r.cur /\ g.reached = r.reached
         /\ g.audience = r.audience /\ g.devices = r.devices /\ g.seen = r.seen
         /\ g.found = r.found /\ g.sent = r.sent /\ g.failed = r.failed
  BY DEF Holding, Job, Active, Pushing

\* The statements of a job keep the type invariant.
LEMMA StepsType ==
  ASSUME TypeOK, NEW j \in Jobs
  PROVE  Step(j) => TypeOK'
<1> USE DEF TypeOK
<1>0. job[j] \in Job /\ Fits(job[j], pushEnabled)
  BY OwnJob
<1>1. ASSUME Emit(j) PROVE TypeOK'
  <2>1. UNCHANGED <<users, owner, prefs, device, feed, gone, prefCall, others, pushEnabled, oversized>>
    BY <1>1 DEF Emit
  <2>2. TablesOK'
    BY <2>1 DEF TablesOK
  <2>3. job[j].pc = "committed"
    BY <1>1 DEF Emit
  <2>4. CASE PayloadUsers(j) # {}
    <3> DEFINE g == [job[j] EXCEPT !.pc = "pref"]
    <3>1. Becomes(j, g)
      BY <1>1, <2>4 DEF Emit, Becomes, JobsOK
    <3>2. job[j].todo # {}
      BY <2>4 DEF PayloadUsers
    <3>3. /\ g \in Job /\ g.pc = "pref" /\ g.todo = job[j].todo /\ g.cur = job[j].cur
          /\ g.reached = job[j].reached /\ g.audience = job[j].audience
          /\ g.devices = job[j].devices /\ g.batch = job[j].batch /\ g.dead = job[j].dead
          /\ g.found = job[j].found /\ g.sent = job[j].sent /\ g.failed = job[j].failed
      BY <1>0 DEF Job, Active
    <3> HIDE DEF g
    <3>4. Fits(g, pushEnabled)
      BY <1>0, <2>3, <3>2, <3>3 DEF Fits, Pushing
    <3>5. QED
      BY <2>1, <2>2, <3>1, <3>3, <3>4, BecomesType
  <2>5. CASE PayloadUsers(j) = {}
    <3>1. End(j, "silent", job[j])
      BY <1>1, <2>5 DEF Emit
    <3>2. QED
      BY <1>0, <2>1, <2>2, <3>1, TurnsType DEF Fits, Stops
  <2>6. QED
    BY <2>4, <2>5
<1>2. ASSUME ReadPref(j) PROVE TypeOK'
  <2>1. UNCHANGED <<users, owner, prefs, device, feed, gone, prefCall, others, pushEnabled, oversized>>
    BY <1>2 DEF ReadPref
  <2>2. TablesOK'
    BY <2>1 DEF TablesOK
  <2> DEFINE r(u) == [job[j] EXCEPT !.todo = @ \ {u}]
             g(u) == [r(u) EXCEPT !.pc = "row", !.cur = u]
  <2>3. PICK u \in job[j].todo : \/ prefs[u][KindToPref(j)] /\ Becomes(j, g(u))
                                 \/ AfterUser(j, r(u))
    BY <1>2 DEF ReadPref, Becomes
  <2>4. job[j].pc = "pref" /\ u \in Users
    BY <1>0, <1>2 DEF ReadPref, Job
  <2>5. /\ r(u) \in Job /\ r(u).pc = job[j].pc
        /\ r(u).todo = job[j].todo \ {u} /\ r(u).cur = job[j].cur
        /\ r(u).reached = job[j].reached /\ r(u).audience = job[j].audience
        /\ r(u).devices = job[j].devices /\ r(u).batch = job[j].batch
        /\ r(u).dead = job[j].dead /\ r(u).found = job[j].found
        /\ r(u).sent = job[j].sent /\ r(u).failed = job[j].failed
    BY <1>0 DEF Job
  <2>6. /\ g(u) \in Job /\ g(u).pc = "row" /\ g(u).todo = r(u).todo /\ g(u).cur = u
        /\ g(u).reached = r(u).reached /\ g(u).audience = r(u).audience
        /\ g(u).devices = r(u).devices /\ g(u).batch = r(u).batch /\ g(u).dead = r(u).dead
        /\ g(u).found = r(u).found /\ g(u).sent = r(u).sent /\ g(u).failed = r(u).failed
    BY <2>4, <2>5 DEF Job, Active
  <2> HIDE DEF g, r
  <2>7. CASE Becomes(j, g(u))
    <3>1. u # NoUser
      BY <2>4, NullAssumption
    <3>2. Fits(g(u), pushEnabled)
      BY <1>0, <2>3, <2>4, <2>5, <2>6, <3>1 DEF Fits, Pushing
    <3>3. QED
      BY <2>1, <2>2, <2>6, <2>7, <3>2, BecomesType
  <2>8. CASE AfterUser(j, r(u))
    <3>1. /\ r(u).todo \subseteq r(u).audience \ r(u).reached
          /\ r(u).reached \subseteq r(u).audience
          /\ r(u).cur = NoUser /\ r(u).found = 0 /\ r(u).sent = 0 /\ r(u).failed = 0
          /\ r(u).devices = {} /\ r(u).batch = {} /\ r(u).dead = {}
      BY <1>0, <2>4, <2>5 DEF Fits
    <3>2. QED
      BY <2>1, <2>2, <2>5, <2>8, <3>1, TurnsType
  <2>9. QED
    BY <2>3, <2>7, <2>8
<1>3. ASSUME WriteRow(j) PROVE TypeOK'
  <2>1. UNCHANGED <<users, owner, prefs, device, gone, prefCall, others, pushEnabled, oversized>>
    BY <1>3 DEF WriteRow
  <2>2. job[j].pc = "row"
    BY <1>3 DEF WriteRow
  <2>3. CASE job[j].cur \in users
    <3> DEFINE r == [job[j] EXCEPT !.cur = NoUser, !.reached = @ \cup {job[j].cur}]
    <3>1. /\ feed' = feed \cup {[user |-> job[j].cur, about |-> j, read |-> FALSE]}
          /\ AfterUser(j, r)
      BY <1>3, <2>3 DEF WriteRow
    <3>2. TablesOK'
      <4>1. job[j].cur \in Users
        BY <2>3 DEF TablesOK
      <4>2. [user |-> job[j].cur, about |-> j, read |-> FALSE] \in Row
        BY <4>1 DEF Row
      <4>3. [user |-> job[j].cur, about |-> j, read |-> FALSE].user = job[j].cur
        OBVIOUS
      <4>4. feed' \subseteq Row
        BY <3>1, <4>2 DEF TablesOK
      <4>5. \A n \in feed' : n.user \in users
        BY <2>3, <3>1, <4>3 DEF TablesOK
      <4>6. QED
        BY <2>1, <4>4, <4>5 DEF TablesOK
    <3>3. /\ r \in Job /\ r.todo = job[j].todo /\ r.cur = NoUser
          /\ r.reached = job[j].reached \cup {job[j].cur} /\ r.audience = job[j].audience
          /\ r.devices = job[j].devices /\ r.batch = job[j].batch /\ r.dead = job[j].dead
          /\ r.found = job[j].found /\ r.sent = job[j].sent /\ r.failed = job[j].failed
      BY <1>0, <2>3 DEF Job, TablesOK
    <3> HIDE DEF r
    <3>4. /\ r.todo \subseteq r.audience \ r.reached /\ r.reached \subseteq r.audience
          /\ r.found = 0 /\ r.sent = 0 /\ r.failed = 0
          /\ r.devices = {} /\ r.batch = {} /\ r.dead = {}
      BY <1>0, <2>2, <3>3 DEF Fits
    <3>5. QED
      BY <2>1, <3>1, <3>2, <3>3, <3>4, TurnsType
  <2>4. CASE job[j].cur \notin users
    <3>1. End(j, "failed", job[j]) /\ UNCHANGED feed
      BY <1>3, <2>4 DEF WriteRow
    <3>2. TablesOK'
      BY <2>1, <3>1 DEF TablesOK
    <3>3. QED
      BY <1>0, <2>1, <3>1, <3>2, TurnsType DEF Fits, Stops
  <2>5. QED
    BY <2>3, <2>4
<1>4. ASSUME ReadDevices(j) PROVE TypeOK'
  <2>1. UNCHANGED <<users, owner, prefs, device, feed, gone, prefCall, others, pushEnabled, oversized>>
    BY <1>4 DEF ReadDevices
  <2>2. TablesOK'
    BY <2>1 DEF TablesOK
  <2> DEFINE D == {t \in Tokens : device[t] \in job[j].reached}
             g == [job[j] EXCEPT !.pc = "send", !.devices = D, !.found = Cardinality(D)]
  <2>3. job[j].pc = "devices"
    BY <1>4 DEF ReadDevices
  <2>4. CASE D = {}
    BY <1>0, <1>4, <2>1, <2>2, <2>4, TurnsType DEF ReadDevices, Fits, Stops
  <2>5. CASE D # {}
    <3>1. Becomes(j, g)
      BY <1>4, <2>5 DEF ReadDevices, Becomes, JobsOK
    <3>2. Cardinality(D) \in Nat
      BY SetsAssumption, FS_Subset, FS_CardinalityType
    <3>3. /\ g \in Job /\ g.pc = "send" /\ g.todo = job[j].todo /\ g.cur = job[j].cur
          /\ g.reached = job[j].reached /\ g.audience = job[j].audience
          /\ g.devices = D /\ g.batch = job[j].batch /\ g.dead = job[j].dead
      BY <1>0, <3>2 DEF Job, Active, Pushing
    <3> HIDE DEF g
    <3>4. Fits(g, pushEnabled)
      BY <1>0, <2>3, <2>5, <3>3 DEF Fits, Pushing
    <3>5. QED
      BY <2>1, <2>2, <3>1, <3>3, <3>4, BecomesType
  <2>6. QED
    BY <2>4, <2>5
<1>5. ASSUME SendBatch(j) PROVE TypeOK'
  <2>1. UNCHANGED <<users, owner, prefs, device, feed, gone, prefCall, others, pushEnabled, oversized>>
    BY <1>5 DEF SendBatch
  <2>2. TablesOK'
    BY <2>1 DEF TablesOK
  <2>3. job[j].pc = "send"
    BY <1>5 DEF SendBatch
  <2>4. /\ job[j].todo = {} /\ job[j].cur = NoUser /\ job[j].reached # {}
        /\ job[j].reached \subseteq job[j].audience /\ pushEnabled
    BY <1>0, <2>3 DEF Fits, Pushing
  <2>5. PICK b \in Batches(job[j].devices) :
          \/ AfterBatch(j, Lost(j, b))
          \/ \E ok \in SUBSET b, dead \in SUBSET b :
               /\ \A t \in dead : Condemned(j, t)
               /\ \/ AfterBatch(j, Answered(j, b, ok))
                  \/ dead # {} /\ Becomes(j, Holding(Answered(j, b, ok), b, dead))
    BY <1>5, SendBatchCases
  <2>6. b \in SUBSET job[j].devices /\ b \in SUBSET Tokens
    BY <1>0, <2>5, BatchCounts DEF Job
  <2>7. CASE AfterBatch(j, Lost(j, b))
    <3>1. {} \in SUBSET b
      OBVIOUS
    <3>2. /\ Lost(j, b) \in Job /\ Lost(j, b).todo = {} /\ Lost(j, b).cur = NoUser
          /\ Lost(j, b).reached = job[j].reached /\ Lost(j, b).audience = job[j].audience
      BY <2>4, <3>1, SentRecords DEF Sends
    <3>3. QED
      BY <2>1, <2>2, <2>4, <2>7, <3>2, TurnsType
  <2>8. ASSUME NEW ok \in SUBSET b, NEW dead \in SUBSET b, \A t \in dead : Condemned(j, t),
               \/ AfterBatch(j, Answered(j, b, ok))
               \/ dead # {} /\ Becomes(j, Holding(Answered(j, b, ok), b, dead))
        PROVE  TypeOK'
    <3> DEFINE q == Answered(j, b, ok)
    <3>1. /\ q \in Job /\ q.pc = "send" /\ q.todo = {} /\ q.cur = NoUser
          /\ q.reached = job[j].reached /\ q.audience = job[j].audience
          /\ q.devices = job[j].devices \ b
      <4>1. ok \in SUBSET b
        OBVIOUS
      <4>2. Sends(q, job[j], b)
        BY <4>1, SentRecords
      <4>3. QED
        BY <2>3, <2>4, <4>2 DEF Sends
    <3> HIDE DEF q
    <3>2. CASE AfterBatch(j, q)
      BY <2>1, <2>2, <2>4, <3>1, <3>2, TurnsType
    <3>3. CASE dead # {} /\ Becomes(j, Holding(q, b, dead))
      <4> DEFINE g == Holding(q, b, dead)
      <4>1. /\ g \in Job /\ g.pc = "prune" /\ g.todo = {} /\ g.cur = NoUser
            /\ g.reached = job[j].reached /\ g.audience = job[j].audience
            /\ g.devices = job[j].devices \ b /\ g.batch = b /\ g.dead = dead
        BY <2>6, <3>1, HeldRecord
      <4>2. Becomes(j, g)
        BY <3>3
      <4> HIDE DEF g
      <4>3. Fits(g, pushEnabled)
        BY <2>4, <3>3, <4>1 DEF Fits, Pushing
      <4>4. QED
        BY <2>1, <2>2, <4>1, <4>2, <4>3, BecomesType
    <3>4. QED
      BY <2>8, <3>2, <3>3 DEF q
  <2>9. QED
    BY <2>5, <2>7, <2>8
<1>6. ASSUME DeleteDeadTokens(j) PROVE TypeOK'
  <2>1. UNCHANGED <<users, owner, prefs, feed, gone, prefCall, others, pushEnabled, oversized>>
    BY <1>6 DEF DeleteDeadTokens
  <2>2. \/ device' = [t \in Tokens |-> IF t \in job[j].dead THEN NoUser ELSE device[t]]
        \/ UNCHANGED device
    BY <1>6 DEF DeleteDeadTokens
  <2>3. TablesOK'
    <3>1. device' \in [Tokens -> users \cup {NoUser}]
      BY <2>2 DEF TablesOK
    <3>2. QED
      BY <2>1, <3>1 DEF TablesOK
  <2>4. job[j].pc = "prune"
    BY <1>6 DEF DeleteDeadTokens
  <2>5. /\ job[j].todo = {} /\ job[j].cur = NoUser /\ job[j].reached # {}
        /\ job[j].reached \subseteq job[j].audience /\ pushEnabled
    BY <1>0, <2>4 DEF Fits, Pushing
  <2> DEFINE g == [job[j] EXCEPT !.failed = @ + Cardinality(job[j].batch)]
  <2>6. AfterBatch(j, job[j]) \/ AfterBatch(j, g)
    BY <1>6 DEF DeleteDeadTokens
  <2>7. Cardinality(job[j].batch) \in Nat
    BY <1>0, SetsAssumption, FS_Subset, FS_CardinalityType DEF Job
  <2>8. /\ g \in Job /\ g.todo = {} /\ g.cur = NoUser /\ g.reached = job[j].reached
        /\ g.audience = job[j].audience
    BY <1>0, <2>5, <2>7 DEF Job
  <2> HIDE DEF g
  <2>9. QED
    BY <1>0, <2>1, <2>3, <2>5, <2>6, <2>8, TurnsType
<1>7. QED
  BY <1>1, <1>2, <1>3, <1>4, <1>5, <1>6 DEF Step

\* Steps that leave the memory of the process alone.
LEMMA QuietMemory ==
  ASSUME JobsOK, UNCHANGED <<job, pushEnabled, oversized>>,
         prefCall' \in [Users -> UNION {[S -> BOOLEAN] : S \in SUBSET Keys}],
         others' \in 0 .. MaxOthers
  PROVE  JobsOK'
<1>1. \A j \in Jobs : Fits(job[j], pushEnabled)'
  BY DEF JobsOK, Fits
<1>2. QED
  BY <1>1 DEF JobsOK

LEMMA OutsideCounts == Outside /\ JobsOK => others' \in 0 .. MaxOthers
  BY NumbersAssumption DEF Outside, JobsOK

LEMMA NoCall == <<>> \in UNION {[S -> BOOLEAN] : S \in SUBSET Keys}
<1>1. <<>> \in [{} -> BOOLEAN]
  OBVIOUS
<1>2. QED
  BY <1>1

\* What users, devices and FCM do keeps the type invariant.
LEMMA UsersType ==
  ASSUME TypeOK, NEW u \in Users
  PROVE  /\ StartPreferences(u) \/ WritePreference(u) \/ MarkRead(u) \/ DeleteAccount(u) => TypeOK'
         /\ \A t \in Tokens : RegisterDevice(u, t) => TypeOK'
<1> USE DEF TypeOK
<1>1. ASSUME StartPreferences(u) PROVE TypeOK'
  <2>1. PICK dto \in PrefDtos : prefCall' = [prefCall EXCEPT ![u] = dto]
    BY <1>1 DEF StartPreferences
  <2>2. prefCall' \in [Users -> UNION {[S -> BOOLEAN] : S \in SUBSET Keys}]
    BY <2>1, SetsAssumption DEF JobsOK
  <2>3. UNCHANGED <<users, owner, prefs, device, feed, gone, job, pushEnabled, oversized>> /\ Outside
    BY <1>1 DEF StartPreferences
  <2>4. TablesOK'
    BY <2>3 DEF TablesOK
  <2>5. QED
    BY <2>2, <2>3, <2>4, OutsideCounts, QuietMemory
<1>2. ASSUME WritePreference(u) PROVE TypeOK'
  <2>1. PICK k \in DOMAIN prefCall[u] : 
          IF u \in users
            THEN /\ prefs' = [prefs EXCEPT ![u][k] = prefCall[u][k]]
                 /\ prefCall' = [prefCall EXCEPT ![u] = [l \in DOMAIN @ \ {k} |-> @[l]]]
                 /\ job' = [j \in Jobs |->
                      IF u \in job[j].audience /\ Topic(j) = k /\ job[j].pc \in Active
                        THEN [job[j] EXCEPT !.seen = @ \cup {<<u, prefCall[u][k]>>}]
                        ELSE job[j]]
            ELSE prefCall' = [prefCall EXCEPT ![u] = <<>>] /\ UNCHANGED <<prefs, job>>
    BY <1>2 DEF WritePreference
  <2>2. UNCHANGED <<users, owner, device, feed, gone, others, pushEnabled, oversized>>
    BY <1>2 DEF WritePreference
  <2>3. PICK S \in SUBSET Keys : prefCall[u] \in [S -> BOOLEAN]
    BY DEF JobsOK
  <2>4. others' \in 0 .. MaxOthers
    BY <2>2 DEF JobsOK
  <2>5. CASE u \in users
    <3>1. prefs' \in [Users -> [Keys -> BOOLEAN]] /\ \A x \in Users \ {u} : prefs'[x] = prefs[x]
      BY <2>1, <2>3, <2>5 DEF TablesOK
    <3>2. TablesOK'
      BY <2>2, <2>5, <3>1 DEF TablesOK
    <3>3. [l \in DOMAIN prefCall[u] \ {k} |-> prefCall[u][l]] \in [S \ {k} -> BOOLEAN]
      BY <2>3
    <3>4. prefCall' \in [Users -> UNION {[T -> BOOLEAN] : T \in SUBSET Keys}]
      <4>1. [l \in DOMAIN prefCall[u] \ {k} |-> prefCall[u][l]]
              \in UNION {[T -> BOOLEAN] : T \in SUBSET Keys}
        BY <3>3
      <4>2. QED
        BY <2>1, <2>5, <4>1 DEF JobsOK
    <3>5. ASSUME NEW j \in Jobs PROVE job'[j] \in Job /\ Fits(job'[j], pushEnabled)
      <4> DEFINE g == [job[j] EXCEPT !.seen = @ \cup {<<u, prefCall[u][k]>>}]
      <4>1. job[j] \in Job /\ Fits(job[j], pushEnabled)
        BY OwnJob
      <4>2. job'[j] = job[j] \/ job'[j] = g
        BY <2>1, <2>5
      <4>3. <<u, prefCall[u][k]>> \in Users \X BOOLEAN
        BY <2>1, <2>3
      <4>4. /\ g \in Job /\ g.pc = job[j].pc /\ g.todo = job[j].todo /\ g.cur = job[j].cur
            /\ g.reached = job[j].reached /\ g.audience = job[j].audience
            /\ g.devices = job[j].devices /\ g.batch = job[j].batch /\ g.dead = job[j].dead
            /\ g.found = job[j].found /\ g.sent = job[j].sent /\ g.failed = job[j].failed
        BY <4>1, <4>3 DEF Job
      <4> HIDE DEF g
      <4>5. Fits(g, pushEnabled)
        BY <4>1, <4>4 DEF Fits
      <4>6. QED
        BY <4>1, <4>2, <4>4, <4>5
    <3>6. job' \in [Jobs -> Job]
      <4>1. job' = [j \in Jobs |-> job'[j]]
        BY <2>1, <2>5
      <4>2. QED
        BY <3>5, <4>1
    <3>7. \A j \in Jobs : Fits(job[j], pushEnabled)'
      BY <2>2, <3>5 DEF Fits
    <3>8. QED
      BY <2>2, <2>4, <3>2, <3>4, <3>6, <3>7 DEF JobsOK
  <2>6. CASE u \notin users
    <3>1. prefCall' \in [Users -> UNION {[T -> BOOLEAN] : T \in SUBSET Keys}]
      BY <2>1, <2>6, NoCall DEF JobsOK
    <3>2. UNCHANGED <<prefs, job>>
      BY <2>1, <2>6
    <3>3. TablesOK'
      BY <2>2, <3>2 DEF TablesOK
    <3>4. QED
      BY <2>2, <2>4, <3>1, <3>2, <3>3, QuietMemory
  <2>7. QED
    BY <2>5, <2>6
<1>3. ASSUME MarkRead(u) PROVE TypeOK'
  <2>1. UNCHANGED <<users, owner, prefs, device, gone, job, prefCall, pushEnabled, oversized>> /\ Outside
    BY <1>3 DEF MarkRead
  <2>2. ASSUME NEW n \in feed
        PROVE  [n EXCEPT !.read = TRUE] \in Row /\ [n EXCEPT !.read = TRUE].user = n.user
    BY DEF TablesOK, Row
  <2>3. feed' \subseteq Row /\ \A n \in feed' : n.user \in users
    <3>1. ASSUME NEW n \in feed, feed' = (feed \ {n}) \cup {[n EXCEPT !.read = TRUE]}
          PROVE  feed' \subseteq Row /\ \A m \in feed' : m.user \in users
      BY <2>2, <3>1 DEF TablesOK
    <3>2. ASSUME feed' = {IF n.user = u THEN [n EXCEPT !.read = TRUE] ELSE n : n \in feed}
          PROVE  feed' \subseteq Row /\ \A m \in feed' : m.user \in users
      BY <2>2, <3>2 DEF TablesOK
    <3>3. QED
      BY <1>3, <3>1, <3>2 DEF MarkRead
  <2>4. TablesOK'
    BY <2>1, <2>3 DEF TablesOK
  <2>5. QED
    BY <2>1, <2>4, OutsideCounts, QuietMemory DEF JobsOK
<1>4. ASSUME DeleteAccount(u) PROVE TypeOK'
  <2>1. /\ users' = users \ {u}
        /\ owner' = [x \in DOMAIN owner |-> IF owner[x] = u THEN NoUser ELSE owner[x]]
        /\ prefs' = [prefs EXCEPT ![u] = [k \in Keys |-> TRUE]]
        /\ device' = [t \in Tokens |-> IF device[t] = u THEN NoUser ELSE device[t]]
        /\ feed' = {n \in feed : n.user # u}
    BY <1>4 DEF DeleteAccount
  <2>2. UNCHANGED <<gone, job, prefCall, pushEnabled, oversized>> /\ Outside
    BY <1>4 DEF DeleteAccount
  <2>3. owner' \in [Bookings \cup Donations -> users' \cup {NoUser, Unborn}]
    BY <2>1 DEF TablesOK
  <2>4. device' \in [Tokens -> users' \cup {NoUser}]
    BY <2>1 DEF TablesOK
  <2>5. prefs' \in [Users -> [Keys -> BOOLEAN]] /\ \A x \in Users \ users' : \A k \in Keys : prefs'[x][k]
    BY <2>1 DEF TablesOK
  <2>6. TablesOK'
    BY <2>1, <2>2, <2>3, <2>4, <2>5 DEF TablesOK
  <2>7. QED
    BY <2>2, <2>6, OutsideCounts, QuietMemory DEF JobsOK
<1>5. ASSUME NEW t \in Tokens, RegisterDevice(u, t) PROVE TypeOK'
  <2>1. UNCHANGED <<users, owner, prefs, feed, gone, job, prefCall, pushEnabled, oversized>> /\ Outside
    BY <1>5 DEF RegisterDevice
  <2>2. u \in users /\ device' = [device EXCEPT ![t] = u]
    BY <1>5 DEF RegisterDevice, Signed
  <2>3. TablesOK'
    BY <2>1, <2>2 DEF TablesOK
  <2>4. QED
    BY <2>1, <2>3, OutsideCounts, QuietMemory DEF JobsOK
<1>6. QED
  BY <1>1, <1>2, <1>3, <1>4, <1>5

LEMMA MishapsType ==
  ASSUME TypeOK
  PROVE  /\ \A t \in Tokens : LoseToken(t) => TypeOK'
         /\ Crash => TypeOK'
<1> USE DEF TypeOK
<1>1. ASSUME NEW t \in Tokens, LoseToken(t) PROVE TypeOK'
  <2>1. UNCHANGED <<users, owner, prefs, device, feed, job, prefCall, pushEnabled, oversized>> /\ Outside
    BY <1>1 DEF LoseToken
  <2>2. TablesOK'
    BY <1>1, <2>1 DEF TablesOK, LoseToken
  <2>3. QED
    BY <2>1, <2>2, OutsideCounts, QuietMemory DEF JobsOK
<1>2. ASSUME Crash PROVE TypeOK'
  <2> DEFINE l == [Quiet EXCEPT !.pc = "lost"]
  <2>1. /\ UNCHANGED <<users, owner, prefs, device, feed, gone, oversized>>
        /\ Outside /\ pushEnabled' \in BOOLEAN
    BY <1>2 DEF Crash, Boot
  <2>2. TablesOK'
    BY <2>1 DEF TablesOK
  <2>3. prefCall' \in [Users -> UNION {[S -> BOOLEAN] : S \in SUBSET Keys}]
    BY <1>2, NoCall DEF Crash
  <2>4. l \in Job /\ Fits(l, pushEnabled')
    BY NullAssumption DEF Quiet, Job, Ended, Fits, Pushing
  <2>5. ASSUME NEW j \in Jobs PROVE job'[j] \in Job /\ Fits(job'[j], pushEnabled')
    <3>1. job[j] \in Job /\ Fits(job[j], pushEnabled)
      BY OwnJob
    <3>2. CASE job[j].pc \in Active
      BY <1>2, <2>4, <3>2 DEF Crash
    <3>3. CASE job[j].pc \notin Active
      <4>1. Fits(job[j], pushEnabled')
        BY <3>1, <3>3 DEF Fits, Active
      <4>2. QED
        BY <1>2, <3>1, <3>3, <4>1 DEF Crash
    <3>4. QED
      BY <3>2, <3>3
  <2>6. job' \in [Jobs -> Job]
    <3>1. job' = [j \in Jobs |-> job'[j]]
      BY <1>2 DEF Crash
    <3>2. QED
      BY <2>5, <3>1
  <2>7. \A j \in Jobs : Fits(job[j], pushEnabled)'
    BY <2>5 DEF Fits
  <2>8. QED
    BY <2>1, <2>2, <2>3, <2>6, <2>7, OutsideCounts DEF JobsOK
<1>3. QED
  BY <1>1, <1>2

LEMMA NextType == TypeOK /\ [Next]_vars => TypeOK'
<1> SUFFICES ASSUME TypeOK, [Next]_vars PROVE TypeOK'
  OBVIOUS
<1>1. CASE Next
  BY <1>1, NewsType, StepsType, UsersType, MishapsType DEF Next
<1>2. CASE UNCHANGED vars
  <2>1. TablesOK'
    BY <1>2 DEF vars, TypeOK, TablesOK
  <2>2. QED
    BY <1>2, <2>1, QuietMemory DEF vars, TypeOK, JobsOK
<1>3. QED
  BY <1>1, <1>2

\* What the statement of a job says of its audience, devices and counts always
\* holds; a deleted account leaves no row of the feed, no device, booking or
\* donation that names it, whatever jobs and calls ran across the deletion; and
\* only a process with a credential is ever pushing.
THEOREM TypeCorrect == Spec => []TypeOK
<1>1. Init => TypeOK
  BY InitType
<1>2. TypeOK /\ [Next]_vars => TypeOK'
  BY NextType
<1>3. QED
  BY <1>1, <1>2, PTL DEF Spec

-----------------------------------------------------------------------------
(* What one statement of a job does *)

\* No device is reached that was not read, and none is left out of both counts.
CountsOK(r) ==
  /\ r.sent + Cardinality(r.devices) <= r.found
  /\ r.sent + r.failed + Cardinality(r.devices) >= r.found

LEMMA NoDevices == Cardinality({}) = 0
  BY FS_EmptySet

\* How a job goes on with r.
LEMMA TurnRecords ==
  ASSUME JobsOK, NEW j \in Jobs, NEW r \in Job
  PROVE  LET e == job'[j] IN
         /\ \A p \in Stops : End(j, p, r) =>
              /\ e.pc = p /\ e.todo = {} /\ e.cur = NoUser
              /\ (r.devices = {} /\ CountsOK(r) => CountsOK(e))
         /\ AfterUser(j, r) =>
              /\ e.pc \in {"pref", "devices", "quiet", "done"} /\ e.todo = r.todo
              /\ (e.pc \in Active => e.audience = r.audience /\ e.seen = r.seen)
              /\ r.cur = NoUser => e.cur = NoUser
              /\ (r.devices = {} /\ CountsOK(r) => CountsOK(e))
         /\ AfterBatch(j, r) =>
              /\ e.pc \in {"send", "done"}
              /\ (e.pc \in Active => e.audience = r.audience /\ e.seen = r.seen)
              /\ CountsOK(r) => CountsOK(e)
<1> DEFINE e == job'[j]
<1>0. \A q : Becomes(j, q) => e = q
  BY DEF JobsOK, Becomes
<1>1. ASSUME NEW p \in Stops, Becomes(j, Ending(j, p, r))
      PROVE  /\ e.pc = p /\ e.todo = {} /\ e.cur = NoUser
             /\ (r.devices = {} /\ CountsOK(r) => CountsOK(e))
  <2>1. e = Ending(j, p, r)
    BY <1>0, <1>1
  <2>2. e.pc = p /\ e.todo = {} /\ e.cur = NoUser /\ e.devices = {}
    BY <2>1 DEF Ending, Quiet
  <2>3. ASSUME r.devices = {}, CountsOK(r) PROVE CountsOK(e)
    <3>1. CASE j = Broadcast
      <4>1. e.found = r.found /\ e.sent = r.sent /\ e.failed = r.failed
        BY <2>1, <3>1 DEF Ending, Quiet
      <4>2. QED
        BY <2>2, <2>3, <4>1 DEF CountsOK
    <3>2. CASE j # Broadcast
      <4>1. e.found = 0 /\ e.sent = 0 /\ e.failed = 0
        BY <2>1, <3>2 DEF Ending, Quiet
      <4>2. QED
        BY <2>2, <4>1, NoDevices DEF CountsOK
    <3>3. QED
      BY <3>1, <3>2
  <2>4. QED
    BY <2>2, <2>3
<1>2. ASSUME NEW p \in {"pref", "devices"}, Becomes(j, [r EXCEPT !.pc = p])
      PROVE  /\ e.pc = p /\ e.todo = r.todo /\ e.cur = r.cur /\ e.audience = r.audience
             /\ e.seen = r.seen /\ (CountsOK(r) => CountsOK(e))
  <2>1. e = [r EXCEPT !.pc = p]
    BY <1>0, <1>2
  <2>2. /\ e.pc = p /\ e.todo = r.todo /\ e.cur = r.cur /\ e.audience = r.audience
        /\ e.seen = r.seen /\ e.devices = r.devices /\ e.found = r.found
        /\ e.sent = r.sent /\ e.failed = r.failed
    BY <2>1 DEF Job
  <2>3. QED
    BY <2>2 DEF CountsOK
<1>3. ASSUME Becomes(j, [r EXCEPT !.pc = "send", !.batch = {}, !.dead = {}])
      PROVE  /\ e.pc = "send" /\ e.audience = r.audience /\ e.seen = r.seen
             /\ CountsOK(r) => CountsOK(e)
  <2>1. e = [r EXCEPT !.pc = "send", !.batch = {}, !.dead = {}]
    BY <1>0, <1>3
  <2>2. /\ e.pc = "send" /\ e.audience = r.audience /\ e.seen = r.seen
        /\ e.devices = r.devices /\ e.found = r.found
        /\ e.sent = r.sent /\ e.failed = r.failed
    BY <2>1 DEF Job
  <2>3. QED
    BY <2>2 DEF CountsOK
<1> HIDE DEF e
<1>4. "quiet" \in Stops /\ "done" \in Stops /\ "quiet" \notin Active /\ "done" \notin Active
  BY DEF Stops, Active, Pushing
<1>5. \A p \in Stops : End(j, p, r) =>
         /\ e.pc = p /\ e.todo = {} /\ e.cur = NoUser
         /\ (r.devices = {} /\ CountsOK(r) => CountsOK(e))
  BY <1>1, Turns
<1>6. AfterUser(j, r) =>
         /\ e.pc \in {"pref", "devices", "quiet", "done"} /\ e.todo = r.todo
         /\ (e.pc \in Active => e.audience = r.audience /\ e.seen = r.seen)
         /\ r.cur = NoUser => e.cur = NoUser
         /\ (r.devices = {} /\ CountsOK(r) => CountsOK(e))
  BY <1>1, <1>2, <1>4, Turns
<1>7. AfterBatch(j, r) =>
         /\ e.pc \in {"send", "done"}
         /\ (e.pc \in Active => e.audience = r.audience /\ e.seen = r.seen)
         /\ CountsOK(r) => CountsOK(e)
  BY <1>1, <1>3, <1>4, Turns
<1>8. QED
  BY <1>5, <1>6, <1>7 DEF e

\* A job that goes on keeps its audience and what it remembers, looks at the
\* preference of a user before it passes over that user or writes the row, writes
\* one row at most, holds only tokens it may delete, and counts every device; and
\* nobody is named by the news of a status.
Keeps(j) ==
  LET q == job[j]  r == job'[j] IN
  /\ UNCHANGED <<users, prefs, gone>>
  /\ q.pc \in Active
  /\ (r.pc \in Active => r.audience = q.audience /\ r.seen = q.seen)
  /\ (r.pc = "row" => r.cur \in q.audience /\ prefs[r.cur][KindToPref(j)])
  /\ (r.pc = "prune" => \A t \in r.dead : Condemned(j, t))
  /\ CountsOK(q) => CountsOK(r)
  /\ \A u \in Users :
       (q.pc = "pref" /\ u \in q.todo /\ u \notin r.todo /\ r.cur # u)
         => (u \in q.audience /\ ~prefs[u][KindToPref(j)])
  /\ \A n \in feed' \ feed : q.pc = "row" /\ n.user = q.cur /\ n.about = j /\ q.cur \in users
  /\ (j[1] = "booking.statusChanged" /\ q.pc = "committed" => r.pc = "silent")

LEMMA StepKeeps ==
  ASSUME TypeOK, NEW j \in Jobs, Step(j)
  PROVE  Keeps(j)
<1> USE DEF TypeOK
<1> DEFINE q == job[j]  r == job'[j]
<1>0. q \in Job /\ Fits(q, pushEnabled)
  BY OwnJob
<1>1. \A g : Becomes(j, g) => r = g
  BY DEF JobsOK, Becomes
<1>2. ASSUME Emit(j) PROVE Keeps(j)
  <2>1. UNCHANGED <<users, prefs, gone, feed>> /\ q.pc = "committed"
    BY <1>2 DEF Emit
  <2>2. CASE PayloadUsers(j) # {}
    <3>1. r = [q EXCEPT !.pc = "pref"]
      BY <1>1, <1>2, <2>2 DEF Emit, JobsOK
    <3>2. /\ r.pc = "pref" /\ r.audience = q.audience /\ r.seen = q.seen /\ r.devices = q.devices
          /\ r.found = q.found /\ r.sent = q.sent /\ r.failed = q.failed
      BY <1>0, <3>1 DEF Job
    <3>3. j[1] # "booking.statusChanged"
      BY <2>2 DEF PayloadUsers
    <3> HIDE DEF q, r
    <3>4. CountsOK(q) => CountsOK(r)
      BY <3>2 DEF CountsOK
    <3>5. QED
      BY <2>1, <3>2, <3>3, <3>4 DEF Keeps, Active, q, r
  <2>3. CASE PayloadUsers(j) = {}
    <3>1. End(j, "silent", q) /\ q.devices = {}
      BY <1>0, <1>2, <2>1, <2>3 DEF Emit, Fits
    <3>2. r.pc = "silent" /\ (CountsOK(q) => CountsOK(r))
      BY <1>0, <3>1, TurnRecords DEF Stops
    <3>3. QED
      BY <2>1, <3>2 DEF Keeps, Active, Pushing
  <2>4. QED
    BY <2>2, <2>3
<1>3. ASSUME ReadPref(j) PROVE Keeps(j)
  <2>1. UNCHANGED <<users, prefs, gone, feed>> /\ q.pc = "pref"
    BY <1>3 DEF ReadPref
  <2> DEFINE s(u) == [q EXCEPT !.todo = @ \ {u}]
             g(u) == [s(u) EXCEPT !.pc = "row", !.cur = u]
  <2>2. PICK u \in q.todo : \/ prefs[u][KindToPref(j)] /\ Becomes(j, g(u))
                            \/ ~prefs[u][KindToPref(j)] /\ AfterUser(j, s(u))
    BY <1>3 DEF ReadPref, Becomes
  <2>3. u \in q.audience /\ u \in Users /\ q.devices = {}
    BY <1>0, <2>1, <2>2 DEF Fits, Job
  <2>4. /\ s(u) \in Job /\ s(u).todo = q.todo \ {u} /\ s(u).audience = q.audience
        /\ s(u).seen = q.seen /\ s(u).devices = q.devices /\ s(u).found = q.found
        /\ s(u).sent = q.sent /\ s(u).failed = q.failed
    BY <1>0 DEF Job
  <2>5. CountsOK(q) => CountsOK(s(u))
    BY <2>4 DEF CountsOK
  <2>6. CASE prefs[u][KindToPref(j)] /\ Becomes(j, g(u))
    <3>1. r = g(u)
      BY <1>1, <2>6
    <3>2. /\ r.pc = "row" /\ r.cur = u /\ r.todo = q.todo \ {u} /\ r.audience = q.audience
          /\ r.seen = q.seen /\ r.devices = q.devices /\ r.found = q.found
          /\ r.sent = q.sent /\ r.failed = q.failed
      BY <1>0, <3>1 DEF Job
    <3> HIDE DEF q, r
    <3>3. CountsOK(q) => CountsOK(r)
      BY <3>2 DEF CountsOK
    <3>4. QED
      BY <2>1, <2>3, <2>6, <3>2, <3>3 DEF Keeps, Active, q, r
  <2>7. CASE ~prefs[u][KindToPref(j)] /\ AfterUser(j, s(u))
    <3> HIDE DEF s
    <3>1. /\ r.pc \in {"pref", "devices", "quiet", "done"} /\ r.todo = s(u).todo
          /\ (r.pc \in Active => r.audience = s(u).audience /\ r.seen = s(u).seen)
          /\ (s(u).devices = {} /\ CountsOK(s(u)) => CountsOK(r))
      BY <2>4, <2>7, TurnRecords
    <3>2. /\ r.pc \in {"pref", "devices", "quiet", "done"} /\ r.todo = q.todo \ {u}
          /\ (r.pc \in Active => r.audience = q.audience /\ r.seen = q.seen)
          /\ CountsOK(q) => CountsOK(r)
      BY <2>3, <2>4, <2>5, <3>1
    <3> HIDE DEF q, r
    <3>3. QED
      BY <2>1, <2>3, <2>7, <3>2 DEF Keeps, Active, q, r
  <2>8. QED
    BY <2>2, <2>6, <2>7
<1>4. ASSUME WriteRow(j) PROVE Keeps(j)
  <2>1. UNCHANGED <<users, prefs, gone>> /\ q.pc = "row"
    BY <1>4 DEF WriteRow
  <2>2. CASE q.cur \in users
    <3> DEFINE s == [q EXCEPT !.cur = NoUser, !.reached = @ \cup {q.cur}]
               n == [user |-> q.cur, about |-> j, read |-> FALSE]
    <3>1. feed' = feed \cup {n} /\ AfterUser(j, s)
      BY <1>4, <2>2 DEF WriteRow
    <3>2. /\ s \in Job /\ s.audience = q.audience /\ s.seen = q.seen
          /\ s.devices = q.devices /\ s.found = q.found /\ s.sent = q.sent
          /\ s.failed = q.failed
      BY <1>0, <2>2 DEF Job, TablesOK
    <3>3. CountsOK(q) => CountsOK(s)
      BY <3>2 DEF CountsOK
    <3>4. q.devices = {}
      BY <1>0, <2>1 DEF Fits
    <3>5. n.user = q.cur /\ n.about = j
      OBVIOUS
    <3> HIDE DEF s, n
    <3>6. /\ r.pc \in {"pref", "devices", "quiet", "done"}
          /\ (r.pc \in Active => r.audience = s.audience /\ r.seen = s.seen)
          /\ (s.devices = {} /\ CountsOK(s) => CountsOK(r))
      BY <3>1, <3>2, TurnRecords
    <3>7. CountsOK(q) => CountsOK(r)
      BY <3>2, <3>3, <3>4, <3>6
    <3>8. \A m \in feed' \ feed : m.user = q.cur /\ m.about = j
      BY <3>1, <3>5
    <3> HIDE DEF q, r
    <3>9. QED
      BY <2>1, <2>2, <3>2, <3>6, <3>7, <3>8 DEF Keeps, Active, q, r
  <2>3. CASE q.cur \notin users
    <3>1. End(j, "failed", q) /\ UNCHANGED feed /\ q.devices = {}
      BY <1>0, <1>4, <2>1, <2>3 DEF WriteRow, Fits
    <3>2. r.pc = "failed" /\ (CountsOK(q) => CountsOK(r))
      BY <1>0, <3>1, TurnRecords DEF Stops
    <3>3. QED
      BY <2>1, <3>1, <3>2 DEF Keeps, Active, Pushing
  <2>4. QED
    BY <2>2, <2>3
<1>5. ASSUME ReadDevices(j) PROVE Keeps(j)
  <2> DEFINE D == {t \in Tokens : device[t] \in q.reached}
  <2>1. UNCHANGED <<users, prefs, gone, feed>> /\ q.pc = "devices" /\ q.devices = {}
        /\ q.found = 0 /\ q.sent = 0 /\ q.failed = 0
    BY <1>0, <1>5 DEF ReadDevices, Fits
  <2>2. CASE D = {}
    <3>1. End(j, "done", q)
      BY <1>5, <2>2 DEF ReadDevices
    <3>2. r.pc = "done" /\ (CountsOK(q) => CountsOK(r))
      BY <1>0, <2>1, <3>1, TurnRecords DEF Stops
    <3>3. QED
      BY <2>1, <3>2 DEF Keeps, Active, Pushing
  <2>3. CASE D # {}
    <3>1. r = [q EXCEPT !.pc = "send", !.devices = D, !.found = Cardinality(D)]
      BY <1>5, <2>3 DEF ReadDevices, JobsOK
    <3> HIDE DEF D
    <3>2. /\ r.pc = "send" /\ r.devices = D /\ r.found = Cardinality(D)
          /\ r.sent = q.sent /\ r.failed = q.failed
          /\ r.audience = q.audience /\ r.seen = q.seen
      BY <1>0, <3>1 DEF Job
    <3>3. Cardinality(D) \in Nat
      BY SetsAssumption, FS_Subset, FS_CardinalityType DEF D
    <3> HIDE DEF q, r
    <3>4. CountsOK(r)
      BY <2>1, <3>2, <3>3 DEF CountsOK
    <3>5. QED
      BY <2>1, <3>2, <3>4 DEF Keeps, Active, Pushing, q, r
  <2>4. QED
    BY <2>2, <2>3
<1>6. ASSUME SendBatch(j) PROVE Keeps(j)
  <2>1. UNCHANGED <<users, prefs, gone, feed>> /\ q.pc = "send"
    BY <1>6 DEF SendBatch
  <2>2. PICK b \in Batches(q.devices) :
          \/ AfterBatch(j, Lost(j, b))
          \/ \E ok \in SUBSET b, dead \in SUBSET b :
               /\ \A t \in dead : Condemned(j, t)
               /\ \/ AfterBatch(j, Answered(j, b, ok))
                  \/ dead # {} /\ Becomes(j, Holding(Answered(j, b, ok), b, dead))
    BY <1>6, SendBatchCases
  <2>3. /\ b \in SUBSET Tokens /\ Cardinality(b) \in Nat /\ Cardinality(q.devices) \in Nat
        /\ Cardinality(q.devices \ b) = Cardinality(q.devices) - Cardinality(b)
        /\ \A ok \in SUBSET b :
             /\ Cardinality(ok) \in Nat /\ Cardinality(b \ ok) \in Nat
             /\ Cardinality(b \ ok) = Cardinality(b) - Cardinality(ok)
    BY <1>0, <2>2, BatchCounts DEF Job
  <2>4. q.found \in Nat /\ q.sent \in Nat /\ q.failed \in Nat
    BY <1>0 DEF Job
  <2>5. CASE AfterBatch(j, Lost(j, b))
    <3> DEFINE l == Lost(j, b)
    <3>1. {} \in SUBSET b
      OBVIOUS
    <3>2. Sends(l, q, b) /\ l.sent = q.sent /\ l.failed = q.failed + Cardinality(b)
      BY <3>1, SentRecords
    <3> HIDE DEF l
    <3>3. /\ l \in Job /\ l.audience = q.audience /\ l.seen = q.seen
          /\ l.found = q.found /\ l.devices = q.devices \ b
      BY <3>2 DEF Sends
    <3> HIDE DEF q, r
    <3>4. CountsOK(q) => CountsOK(l)
      BY <2>3, <2>4, <3>2, <3>3 DEF CountsOK
    <3>5. /\ r.pc \in {"send", "done"}
          /\ (r.pc \in Active => r.audience = l.audience /\ r.seen = l.seen)
          /\ (CountsOK(l) => CountsOK(r))
      BY <2>5, <3>3, TurnRecords DEF l, r
    <3>6. QED
      BY <2>1, <3>3, <3>4, <3>5 DEF Keeps, Active, Pushing, q, r
  <2>6. ASSUME NEW ok \in SUBSET b, NEW dead \in SUBSET b, \A t \in dead : Condemned(j, t),
               \/ AfterBatch(j, Answered(j, b, ok))
               \/ dead # {} /\ Becomes(j, Holding(Answered(j, b, ok), b, dead))
        PROVE  Keeps(j)
    <3> DEFINE l == Answered(j, b, ok)
    <3>1. ok \in SUBSET b
      OBVIOUS
    <3>2. /\ Sends(l, q, b) /\ l.sent = q.sent + Cardinality(ok)
          /\ l.failed = q.failed + Cardinality(b \ ok)
      BY <3>1, SentRecords
    <3>3. /\ Cardinality(ok) \in Nat /\ Cardinality(b \ ok) \in Nat
          /\ Cardinality(b \ ok) = Cardinality(b) - Cardinality(ok)
      BY <2>3, <3>1
    <3> HIDE DEF l
    <3>4. /\ l \in Job /\ l.audience = q.audience /\ l.seen = q.seen
          /\ l.found = q.found /\ l.devices = q.devices \ b
      BY <3>2 DEF Sends
    <3> HIDE DEF q, r
    <3>5. CountsOK(q) => CountsOK(l)
      BY <2>3, <2>4, <3>2, <3>3, <3>4 DEF CountsOK
    <3>6. CASE AfterBatch(j, l)
      <4>1. /\ r.pc \in {"send", "done"}
            /\ (r.pc \in Active => r.audience = l.audience /\ r.seen = l.seen)
            /\ (CountsOK(l) => CountsOK(r))
        BY <3>4, <3>6, TurnRecords DEF r
      <4>2. QED
        BY <2>1, <3>4, <3>5, <4>1 DEF Keeps, Active, Pushing, q, r
    <3>7. CASE Becomes(j, Holding(l, b, dead))
      <4>1. r = Holding(l, b, dead)
        BY <1>1, <3>7 DEF r
      <4>2. /\ r.pc = "prune" /\ r.dead = dead /\ r.audience = l.audience
            /\ r.seen = l.seen /\ r.devices = l.devices /\ r.found = l.found
            /\ r.sent = l.sent /\ r.failed = l.failed
        BY <2>3, <3>4, <4>1, HeldRecord
      <4>3. CountsOK(l) => CountsOK(r)
        BY <4>2 DEF CountsOK
      <4>4. \A t \in r.dead : Condemned(j, t)
        BY <2>6, <4>2
      <4>5. QED
        BY <2>1, <3>4, <3>5, <4>2, <4>3, <4>4 DEF Keeps, Active, Pushing, q, r
    <3>8. QED
      BY <2>6, <3>6, <3>7 DEF l
  <2>7. QED
    BY <2>2, <2>5, <2>6
<1>7. ASSUME DeleteDeadTokens(j) PROVE Keeps(j)
  <2> DEFINE g == [q EXCEPT !.failed = @ + Cardinality(q.batch)]
  <2>1. UNCHANGED <<users, prefs, gone, feed>> /\ q.pc = "prune"
    BY <1>7 DEF DeleteDeadTokens
  <2>2. AfterBatch(j, q) \/ AfterBatch(j, g)
    BY <1>7 DEF DeleteDeadTokens
  <2>3. Cardinality(q.batch) \in Nat /\ q.devices \in SUBSET Tokens
    BY <1>0, SetsAssumption, FS_Subset, FS_CardinalityType DEF Job
  <2>4. /\ g \in Job /\ g.audience = q.audience /\ g.seen = q.seen /\ g.found = q.found
        /\ g.devices = q.devices /\ g.sent = q.sent /\ g.failed = q.failed + Cardinality(q.batch)
    BY <1>0, <2>3 DEF Job
  <2>5. q.found \in Nat /\ q.sent \in Nat /\ q.failed \in Nat /\ Cardinality(q.devices) \in Nat
    BY <1>0, <2>3, SetsAssumption, FS_Subset, FS_CardinalityType DEF Job
  <2> HIDE DEF g, q, r
  <2>6. CountsOK(q) => CountsOK(g)
    BY <2>3, <2>4, <2>5 DEF CountsOK
  <2>7. ASSUME NEW l \in Job, AfterBatch(j, l)
        PROVE  /\ r.pc \in {"send", "done"}
               /\ (r.pc \in Active => r.audience = l.audience /\ r.seen = l.seen)
               /\ (CountsOK(l) => CountsOK(r))
    BY <2>7, TurnRecords DEF r
  <2>8. /\ r.pc \in {"send", "done"}
        /\ (r.pc \in Active => r.audience = q.audience /\ r.seen = q.seen)
        /\ (CountsOK(q) => CountsOK(r))
    BY <1>0, <2>2, <2>4, <2>6, <2>7 DEF q
  <2>9. QED
    BY <2>1, <2>8 DEF Keeps, Active, Pushing, q, r
<1>8. QED
  BY <1>2, <1>3, <1>4, <1>5, <1>6, <1>7 DEF Step

-----------------------------------------------------------------------------
(* What any step does to one job *)

\* Job j begins: with users to serve, or with an audience of nobody.
Starts(j) ==
  /\ job[j].pc = "idle" /\ UNCHANGED <<users, prefs>>
  /\ \/ \E todo \in SUBSET Users, p \in {"committed", "pref"} :
          /\ job'[j] = Begun(j, p, todo)
          /\ j[1] = "booking.statusChanged" => p = "committed"
     \/ j = Broadcast /\ job'[j] = Ending(j, "quiet", Quiet)

\* The preference k of user u is written, and job j takes note of it.
Notes(j) ==
  /\ UNCHANGED users
  /\ \E u \in users, k \in Keys, x \in BOOLEAN :
       /\ prefs' = [prefs EXCEPT ![u][k] = x]
       /\ job'[j] = IF u \in job[j].audience /\ Topic(j) = k /\ job[j].pc \in Active
                      THEN [job[j] EXCEPT !.seen = @ \cup {<<u, x>>}] ELSE job[j]

\* Job j stays as it is, and so do the preferences of the accounts there are.
Rests(j) == job'[j] = job[j] /\ \A u \in users' : u \in users /\ prefs'[u] = prefs[u]

NewRow(j) == \E u \in Users : HasRow(u, j)' /\ ~HasRow(u, j)

\* A statement of a job changes no other job.
LEMMA StepMoves ==
  ASSUME NEW j, Step(j)
  PROVE  \E g : Becomes(j, g)
<1>1. ASSUME NEW r, AfterUser(j, r) \/ AfterBatch(j, r) \/ \E p : End(j, p, r)
      PROVE  \E g : Becomes(j, g)
  BY <1>1, Turns
<1>2. CASE Emit(j)
  BY <1>1, <1>2 DEF Emit, Becomes
<1>3. CASE ReadPref(j)
  BY <1>1, <1>3 DEF ReadPref, Becomes
<1>4. CASE WriteRow(j)
  BY <1>1, <1>4 DEF WriteRow
<1>5. CASE ReadDevices(j)
  BY <1>1, <1>5 DEF ReadDevices, Becomes
<1>6. CASE SendBatch(j)
  BY <1>1, <1>6, SendBatchCases
<1>7. CASE DeleteDeadTokens(j)
  BY <1>1, <1>7 DEF DeleteDeadTokens
<1>8. QED
  BY <1>2, <1>3, <1>4, <1>5, <1>6, <1>7 DEF Step

LEMMA JobChanges ==
  ASSUME TypeOK, [Next]_vars, NEW j \in Jobs
  PROVE  /\ Step(j) \/ Starts(j) \/ Notes(j) \/ Rests(j)
              \/ job'[j] = [Quiet EXCEPT !.pc = "lost"]
         /\ gone \subseteq gone'
         /\ NewRow(j) => Step(j)
<1> USE DEF TypeOK
<1> DEFINE Change == /\ Step(j) \/ Starts(j) \/ Notes(j) \/ Rests(j)
                          \/ job'[j] = [Quiet EXCEPT !.pc = "lost"]
                     /\ gone \subseteq gone'
                     /\ NewRow(j) => Step(j)
<1>0. \A i, g : Becomes(i, g) => job'[j] = IF i = j THEN g ELSE job[j]
  BY DEF JobsOK, Becomes
<1>1. UNCHANGED feed => ~NewRow(j)
  BY DEF NewRow, HasRow
<1>2. ASSUME NEW i \in Jobs, UNCHANGED <<users, prefs, gone, feed>>, job[i].pc = "idle",
             \/ \E todo \in SUBSET Users, p \in {"committed", "pref"} :
                  /\ Becomes(i, Begun(i, p, todo))
                  /\ i[1] = "booking.statusChanged" => p = "committed"
             \/ i = Broadcast /\ Becomes(i, Ending(i, "quiet", Quiet))
      PROVE  Change
  <2>1. Starts(j) \/ Rests(j)
    BY <1>0, <1>2 DEF Starts, Rests
  <2>2. QED
    BY <1>1, <1>2, <2>1
<1>3. ASSUME NEW b \in Bookings, CreateBooking(b) \/ ChangeStatus(b) PROVE Change
  <2>1. /\ <<"booking.created", b>> \in Jobs /\ <<"booking.statusChanged", b>> \in Jobs
    BY JobsDiffer
  <2>2. UNCHANGED <<users, prefs, gone, feed>>
    BY <1>3 DEF CreateBooking, ChangeStatus
  <2>3. PICK i \in {<<"booking.created", b>>, <<"booking.statusChanged", b>>} :
          /\ job[i].pc = "idle"
          /\ \E todo \in SUBSET Users : Begin(i, "committed", todo)
    BY <1>3 DEF CreateBooking, ChangeStatus, MayBegin
  <2>4. QED
    BY <1>2, <2>1, <2>2, <2>3, Turns
<1>4. ASSUME NEW d \in Donations, CompleteDonation(d) PROVE Change
  <2>1. <<"donation.completed", d>> \in Jobs
    BY JobsDiffer
  <2>2. UNCHANGED <<users, prefs, gone, feed>> /\ job[<<"donation.completed", d>>].pc = "idle"
    BY <1>4 DEF CompleteDonation, MayBegin
  <2>3. \E todo \in SUBSET Users : Begin(<<"donation.completed", d>>, "committed", todo)
    BY <1>4 DEF CompleteDonation
  <2>4. QED
    BY <1>2, <2>1, <2>2, <2>3, Turns
<1>5. ASSUME NEW s \in Segments, StartBroadcast(s) PROVE Change
  <2>1. UNCHANGED <<users, prefs, gone, feed>> /\ job[Broadcast].pc = "idle"
    BY <1>5 DEF StartBroadcast, MayBegin
  <2>2. Audience(s) \in SUBSET Users
    BY DEF Audience, Segments, TablesOK
  <2>3. Begin(Broadcast, "pref", Audience(s)) \/ End(Broadcast, "quiet", Quiet)
    BY <1>5 DEF StartBroadcast
  <2>4. Broadcast[1] # "booking.statusChanged"
    BY DEF Broadcast
  <2>5. QED
    BY <1>2, <2>1, <2>2, <2>3, <2>4, Turns, JobsDiffer
<1>6. ASSUME NEW i \in Jobs, Step(i) PROVE Change
  <2>1. Keeps(i)
    BY <1>6, StepKeeps
  <2>2. CASE i = j
    BY <1>6, <2>1, <2>2 DEF Keeps
  <2>3. CASE i # j
    <3>1. job'[j] = job[j]
      <4>1. \E g : Becomes(i, g)
        BY <1>6, StepMoves
      <4>2. QED
        BY <1>0, <2>3, <4>1
    <3>2. ~NewRow(j)
      BY <2>1, <2>3 DEF Keeps, NewRow, HasRow
    <3>3. QED
      BY <2>1, <3>1, <3>2 DEF Keeps, Rests
  <2>4. QED
    BY <2>2, <2>3
<1>7. ASSUME NEW u \in Users,
             \/ StartPreferences(u) \/ MarkRead(u)
             \/ \E t \in Tokens : RegisterDevice(u, t)
      PROVE  Change
  <2>1. UNCHANGED <<users, prefs, job>> /\ gone \subseteq gone'
    BY <1>7 DEF StartPreferences, MarkRead, RegisterDevice
  <2>2. ~NewRow(j)
    <3>1. CASE UNCHANGED feed
      BY <1>1, <3>1
    <3>2. CASE MarkRead(u)
      <4>1. \A n \in feed : [n EXCEPT !.read = TRUE].user = n.user
                              /\ [n EXCEPT !.read = TRUE].about = n.about
        BY DEF TablesOK, Row
      <4>2. \A n \in feed' : \E m \in feed : n.user = m.user /\ n.about = m.about
        <5>1. ASSUME NEW n \in feed, feed' = (feed \ {n}) \cup {[n EXCEPT !.read = TRUE]}
              PROVE  \A k \in feed' : \E m \in feed : k.user = m.user /\ k.about = m.about
          BY <4>1, <5>1
        <5>2. ASSUME feed' = {IF n.user = u THEN [n EXCEPT !.read = TRUE] ELSE n : n \in feed}
              PROVE  \A k \in feed' : \E m \in feed : k.user = m.user /\ k.about = m.about
          BY <4>1, <5>2
        <5>3. QED
          BY <3>2, <5>1, <5>2 DEF MarkRead
      <4>3. QED
        BY <4>2 DEF NewRow, HasRow
    <3>3. QED
      BY <1>7, <3>1, <3>2 DEF StartPreferences, RegisterDevice
  <2>3. QED
    BY <2>1, <2>2 DEF Rests
<1>8. ASSUME NEW u \in Users, WritePreference(u) PROVE Change
  <2>1. PICK k \in DOMAIN prefCall[u] :
          IF u \in users
            THEN /\ prefs' = [prefs EXCEPT ![u][k] = prefCall[u][k]]
                 /\ job' = [i \in Jobs |->
                      IF u \in job[i].audience /\ Topic(i) = k /\ job[i].pc \in Active
                        THEN [job[i] EXCEPT !.seen = @ \cup {<<u, prefCall[u][k]>>}]
                        ELSE job[i]]
            ELSE UNCHANGED <<prefs, job>>
    BY <1>8 DEF WritePreference
  <2>2. UNCHANGED <<users, gone, feed>>
    BY <1>8 DEF WritePreference
  <2>3. k \in Keys /\ prefCall[u][k] \in BOOLEAN
    BY <2>1 DEF JobsOK
  <2>4. CASE u \in users
    <3>1. Notes(j)
      BY <2>1, <2>2, <2>3, <2>4 DEF Notes
    <3>2. QED
      BY <1>1, <2>2, <3>1
  <2>5. CASE u \notin users
    BY <1>1, <2>1, <2>2, <2>5 DEF Rests
  <2>6. QED
    BY <2>4, <2>5
<1>9. ASSUME NEW u \in Users, DeleteAccount(u) PROVE Change
  <2>1. /\ users' = users \ {u} /\ prefs' = [prefs EXCEPT ![u] = [k \in Keys |-> TRUE]]
        /\ feed' \subseteq feed /\ UNCHANGED <<gone, job>>
    BY <1>9 DEF DeleteAccount
  <2>2. Rests(j) /\ ~NewRow(j)
    BY <2>1 DEF Rests, TablesOK, NewRow, HasRow
  <2>3. QED
    BY <2>1, <2>2
<1>10. ASSUME Crash PROVE Change
  <2>1. UNCHANGED <<users, prefs, gone, feed>>
    BY <1>10 DEF Crash
  <2>2. job'[j] = job[j] \/ job'[j] = [Quiet EXCEPT !.pc = "lost"]
    BY <1>10 DEF Crash
  <2>3. QED
    BY <1>1, <2>1, <2>2 DEF Rests
<1>11. ASSUME NEW t \in Tokens, LoseToken(t) PROVE Change
  <2>1. UNCHANGED <<users, prefs, job, feed>> /\ gone \subseteq gone'
    BY <1>11 DEF LoseToken
  <2>2. QED
    BY <1>1, <2>1 DEF Rests
<1>12. CASE UNCHANGED vars
  BY <1>1, <1>12 DEF vars, Rests
<1>13. QED
  BY <1>3, <1>4, <1>5, <1>6, <1>7, <1>8, <1>9, <1>10, <1>11, <1>12 DEF Next

-----------------------------------------------------------------------------
(* The counts of a broadcast *)

CountInv == \A j \in Jobs : CountsOK(job[j])

LEMMA CountsKept == TypeOK /\ CountInv /\ [Next]_vars => CountInv'
<1> SUFFICES ASSUME TypeOK, CountInv, [Next]_vars, NEW j \in Jobs PROVE CountsOK(job'[j])
  BY DEF CountInv, CountsOK
<1>1. CountsOK(job[j])
  BY DEF CountInv
<1>2. \A r : r.devices = {} /\ r.found = 0 /\ r.sent = 0 /\ r.failed = 0 => CountsOK(r)
  BY NoDevices DEF CountsOK
<1>3. CASE Step(j)
  BY <1>1, <1>3, StepKeeps DEF Keeps
<1>4. CASE Starts(j)
  <2>1. /\ job'[j].devices = {} /\ job'[j].found = 0 /\ job'[j].sent = 0
        /\ job'[j].failed = 0
    BY <1>4 DEF Starts, Begun, Ending, Quiet
  <2>2. QED
    BY <1>2, <2>1
<1>5. CASE Notes(j)
  <2>1. job[j] \in Job
    BY OwnJob DEF TypeOK
  <2>2. /\ job'[j].devices = job[j].devices /\ job'[j].found = job[j].found
        /\ job'[j].sent = job[j].sent /\ job'[j].failed = job[j].failed
    BY <1>5, <2>1 DEF Notes, Job
  <2>3. QED
    BY <1>1, <2>2 DEF CountsOK
<1>6. CASE job'[j] = [Quiet EXCEPT !.pc = "lost"]
  <2>1. /\ job'[j].devices = {} /\ job'[j].found = 0 /\ job'[j].sent = 0
        /\ job'[j].failed = 0
    BY <1>6 DEF Quiet
  <2>2. QED
    BY <1>2, <2>1
<1>7. QED
  BY <1>1, <1>3, <1>4, <1>5, <1>6, JobChanges DEF Rests

\* The counts a broadcast answers, of sendToUsers and sendBatch: however many
\* devices there were and however many a multicast takes, whichever batches were
\* lost and whether the dead tokens could be deleted, no device is reported as
\* reached that was not read, and none that was read is missing from both counts.
THEOREM DevicesCounted == Spec => []EveryDeviceCounted
<1>1. Init => CountInv
  <2> SUFFICES ASSUME Init, NEW j \in Jobs PROVE CountsOK(job[j])
    BY DEF CountInv
  <2>1. /\ job[j].devices = {} /\ job[j].found = 0 /\ job[j].sent = 0
        /\ job[j].failed = 0
    BY DEF Init, Quiet
  <2>2. QED
    BY <2>1, NoDevices DEF CountsOK
<1>2. CountInv => EveryDeviceCounted
  BY JobsDiffer DEF CountInv, CountsOK, EveryDeviceCounted
<1>3. QED
  BY <1>1, <1>2, CountsKept, TypeCorrect, PTL DEF Spec

-----------------------------------------------------------------------------
(* Registrations of devices *)

CondemnedInv == \A j \in Jobs : \A t \in job[j].dead : Condemned(j, t)

\* A broadcast keeps the text it was called with.
LEMMA TextStays ==
  ASSUME [Next]_vars, job[Broadcast].pc # "idle"
  PROVE  UNCHANGED oversized
<1>1. CASE \E b \in Bookings : CreateBooking(b) \/ ChangeStatus(b)
  BY <1>1 DEF CreateBooking, ChangeStatus
<1>2. CASE \/ \E d \in Donations : CompleteDonation(d)
           \/ \E t \in Tokens : LoseToken(t)
           \/ Crash
  BY <1>2 DEF CompleteDonation, LoseToken, Crash
<1>3. ~ \E s \in Segments : StartBroadcast(s)
  BY DEF StartBroadcast, MayBegin
<1>4. CASE \E j \in Jobs : Step(j)
  BY <1>4 DEF Step, Emit, ReadPref, WriteRow, ReadDevices, SendBatch, DeleteDeadTokens
<1>5. CASE \E u \in Users : \/ StartPreferences(u) \/ WritePreference(u) \/ MarkRead(u)
                             \/ DeleteAccount(u)
                             \/ \E t \in Tokens : RegisterDevice(u, t)
  BY <1>5 DEF StartPreferences, WritePreference, MarkRead, DeleteAccount, RegisterDevice
<1>6. CASE UNCHANGED vars
  BY <1>6 DEF vars
<1>7. QED
  BY <1>1, <1>2, <1>3, <1>4, <1>5, <1>6 DEF Next

LEMMA CondemnedKept == TypeOK /\ TypeOK' /\ CondemnedInv /\ [Next]_vars => CondemnedInv'
<1> SUFFICES ASSUME TypeOK, TypeOK', CondemnedInv, [Next]_vars, NEW j \in Jobs,
                    NEW t \in job'[j].dead
             PROVE  t \in gone' \/ (j = Broadcast /\ oversized')
  BY DEF CondemnedInv, Condemned
<1>1. gone \subseteq gone'
  BY JobChanges
<1>2. Condemned(j, t) /\ job[j].pc # "idle" => t \in gone' \/ (j = Broadcast /\ oversized')
  BY <1>1, TextStays DEF Condemned
<1>3. job'[j].pc = "prune"
  BY DEF TypeOK, JobsOK, Fits
<1>4. CASE Step(j)
  <2>1. Condemned(j, t) /\ job[j].pc \in Active
    BY <1>3, <1>4, StepKeeps DEF Keeps
  <2>2. QED
    BY <1>2, <2>1 DEF Active, Pushing
<1>5. CASE Starts(j) \/ job'[j] = [Quiet EXCEPT !.pc = "lost"]
  <2>1. job'[j].dead = {}
    BY <1>5 DEF Starts, Begun, Ending, Quiet
  <2>2. QED
    BY <2>1
<1>6. CASE Notes(j) \/ Rests(j)
  <2>1. job[j] \in Job
    BY OwnJob DEF TypeOK
  <2>2. job'[j].dead = job[j].dead /\ job'[j].pc = job[j].pc
    BY <1>6, <2>1 DEF Notes, Rests, Job
  <2>3. Condemned(j, t)
    BY <2>2 DEF CondemnedInv
  <2>4. QED
    BY <1>2, <1>3, <2>2, <2>3
<1>7. QED
  BY <1>4, <1>5, <1>6, JobChanges

\* sendBatch deletes the registration of an account that stays only for a token
\* FCM answered with one of DEAD_TOKEN_CODES: one it has given up, or one that a
\* broadcast too long for FCM was sent to, never one it merely failed to reach nor
\* the rest of a batch that held a dead one, whatever came between the multicast
\* and the deletion.
THEOREM OnlyRefusedPruned == Spec => OnlyRefusedTokensPruned
<1>1. Init => CondemnedInv
  BY DEF Init, CondemnedInv, Quiet
<1> DEFINE Refused(t) == \/ t \in gone
                         \/ /\ oversized /\ job[Broadcast].pc = "prune"
                            /\ t \in job[Broadcast].dead
<1>2. TypeOK /\ CondemnedInv /\ [Next]_vars =>
        [\A t \in Tokens :
           (device[t] \in users' /\ device'[t] = NoUser) => Refused(t)]_vars
  <2> SUFFICES ASSUME TypeOK, CondemnedInv, Next, NEW t \in Tokens,
                      device[t] \in users', device'[t] = NoUser
               PROVE  Refused(t)
    OBVIOUS
  <2>1. device[t] \in Users \cup {NoUser} /\ users \subseteq Users
    BY DEF TypeOK, TablesOK
  <2>2. ASSUME UNCHANGED <<device, users>> PROVE Refused(t)
    BY <2>1, <2>2, NullAssumption
  <2>3. CASE \E u \in Users : DeleteAccount(u)
    <3>1. PICK u \in Users : DeleteAccount(u)
      BY <2>3
    <3>2. users' = users \ {u} /\ device' = [x \in Tokens |-> IF device[x] = u THEN NoUser ELSE device[x]]
      BY <3>1 DEF DeleteAccount
    <3>3. QED
      BY <2>1, <3>2, NullAssumption
  <2>4. CASE \E u \in Users, x \in Tokens : RegisterDevice(u, x)
    <3>1. PICK u \in Users, x \in Tokens : RegisterDevice(u, x)
      BY <2>4
    <3>2. device' = [device EXCEPT ![x] = u] /\ UNCHANGED users
      BY <3>1 DEF RegisterDevice
    <3>3. device[t] # NoUser /\ device'[t] # NoUser
      BY <2>1, <3>2, NullAssumption DEF TypeOK, TablesOK
    <3>4. QED
      BY <3>3
  <2>5. CASE \E j \in Jobs : Step(j)
    <3>1. PICK j \in Jobs : Step(j)
      BY <2>5
    <3>2. CASE DeleteDeadTokens(j)
      <4>1. UNCHANGED users
        BY <3>2 DEF DeleteDeadTokens
      <4>2. CASE UNCHANGED device
        BY <2>2, <4>1, <4>2
      <4>3. CASE device' = [x \in Tokens |-> IF x \in job[j].dead THEN NoUser ELSE device[x]]
        <5>1. t \in job[j].dead
          BY <2>1, <4>1, <4>3, NullAssumption
        <5>2. Condemned(j, t) /\ job[j].pc = "prune"
          BY <3>2, <5>1 DEF CondemnedInv, DeleteDeadTokens
        <5>3. QED
          BY <5>1, <5>2 DEF Condemned
      <4>4. QED
        BY <3>2, <4>2, <4>3 DEF DeleteDeadTokens
    <3>3. CASE Emit(j) \/ ReadPref(j) \/ WriteRow(j) \/ ReadDevices(j) \/ SendBatch(j)
      <4>1. UNCHANGED <<device, users>>
        BY <3>3 DEF Emit, ReadPref, WriteRow, ReadDevices, SendBatch
      <4>2. QED
        BY <2>2, <4>1
    <3>4. QED
      BY <3>1, <3>2, <3>3 DEF Step
  <2>6. CASE \E b \in Bookings : CreateBooking(b) \/ ChangeStatus(b)
    BY <2>2, <2>6 DEF CreateBooking, ChangeStatus
  <2>7. CASE \/ \E d \in Donations : CompleteDonation(d)
             \/ \E s \in Segments : StartBroadcast(s)
             \/ \E x \in Tokens : LoseToken(x)
             \/ Crash
    BY <2>2, <2>7 DEF CompleteDonation, StartBroadcast, LoseToken, Crash
  <2>8. CASE \E u \in Users : StartPreferences(u) \/ WritePreference(u) \/ MarkRead(u)
    BY <2>2, <2>8 DEF StartPreferences, WritePreference, MarkRead
  <2>9. QED
    BY <2>3, <2>4, <2>5, <2>6, <2>7, <2>8 DEF Next
<1>3. QED
  BY <1>1, <1>2, CondemnedKept, TypeCorrect, PTL DEF Spec, OnlyRefusedTokensPruned

-----------------------------------------------------------------------------
(* Preferences *)

\* A job under way remembers the setting every user of its audience has now, and
\* that the user whose row it is about to write had it on; but for users who are
\* gone, whose preferences count as on again and whose row will be refused.
Remembers(j) ==
  job[j].pc \in Active =>
    /\ \A u \in job[j].audience \cap users : <<u, prefs[u][Topic(j)]>> \in job[j].seen
    /\ job[j].pc = "row" /\ job[j].cur \in users => <<job[j].cur, TRUE>> \in job[j].seen

SeenInv == \A j \in Jobs : Remembers(j)

LEMMA OneTopic ==
  ASSUME NEW j \in Jobs
  PROVE  KindToPref(j) = Topic(j) /\ Topic(j) \in Keys
<1>1. CASE j = Broadcast
  <2>1. j[1] # "donation.completed"
    BY <1>1 DEF Broadcast
  <2>2. KindToPref(j) = "system"
    BY <1>1, <2>1 DEF KindToPref
  <2>3. Topic(j) = "system"
    BY <1>1 DEF Topic
  <2>4. QED
    BY <2>2, <2>3 DEF Keys
<1>2. CASE j \in {"donation.completed"} \X Donations
  <2>1. j[1] = "donation.completed" /\ j[2] \in Donations
    BY <1>2
  <2>2. j # Broadcast
    BY <2>1 DEF Broadcast
  <2>3. QED
    BY <2>1, <2>2 DEF KindToPref, Topic, Keys
<1>3. CASE j \in {"booking.created", "booking.statusChanged"} \X Bookings
  <2>1. j[2] \notin Donations /\ j # Broadcast /\ j[1] # "donation.completed"
    BY <1>3, SetsAssumption DEF Broadcast
  <2>2. QED
    BY <2>1 DEF KindToPref, Topic, Keys
<1>4. QED
  BY <1>1, <1>2, <1>3 DEF Jobs

LEMMA SeenKept == TypeOK /\ TypeOK' /\ SeenInv /\ [Next]_vars => SeenInv'
<1> SUFFICES ASSUME TypeOK, TypeOK', SeenInv, [Next]_vars, NEW j \in Jobs
             PROVE  Remembers(j)'
  BY DEF SeenInv
<1> DEFINE q == job[j]  r == job'[j]
<1>1. Remembers(j) /\ q \in Job /\ Fits(q, pushEnabled)
  BY OwnJob DEF SeenInv, TypeOK
<1>2. CASE Step(j)
  <2>1. Keeps(j)
    BY <1>2, StepKeeps
  <2>2. ASSUME r.pc \in Active PROVE Remembers(j)'
    <3>1. \A u \in r.audience \cap users : <<u, prefs[u][Topic(j)]>> \in r.seen
      BY <1>1, <2>1, <2>2 DEF Remembers, Keeps
    <3>2. ASSUME r.pc = "row", r.cur \in users PROVE <<r.cur, TRUE>> \in r.seen
      <4>1. r.cur \in r.audience /\ prefs[r.cur][Topic(j)]
        BY <2>1, <2>2, <3>2, OneTopic DEF Keeps
      <4>2. prefs[r.cur][Topic(j)] = TRUE
        BY <3>2, <4>1, OneTopic DEF TypeOK, TablesOK
      <4>3. QED
        BY <3>1, <3>2, <4>1, <4>2
    <3>3. UNCHANGED <<users, prefs>> /\ Topic(j)' = Topic(j)
      BY <2>1 DEF Keeps, Topic
    <3>4. QED
      BY <3>1, <3>2, <3>3 DEF Remembers
  <2>3. QED
    BY <2>2 DEF Remembers
<1>3. CASE Starts(j)
  <2>1. UNCHANGED <<users, prefs>>
    BY <1>3 DEF Starts
  <2>2. CASE j = Broadcast /\ r = Ending(j, "quiet", Quiet)
    BY <2>2 DEF Ending, Quiet, Remembers, Active, Pushing
  <2>3. ASSUME NEW todo \in SUBSET Users, NEW p \in {"committed", "pref"}, r = Begun(j, p, todo)
        PROVE  Remembers(j)'
    <3>1. /\ r.pc = p /\ r.audience = todo
          /\ r.seen = {<<u, prefs[u][Topic(j)]>> : u \in todo}
      BY <2>3 DEF Begun, Quiet
    <3>2. QED
      BY <2>1, <3>1 DEF Remembers, Topic
  <2>4. QED
    BY <1>3, <2>2, <2>3 DEF Starts
<1>4. CASE Notes(j)
  <2>1. PICK u \in users, k \in Keys, x \in BOOLEAN :
          /\ prefs' = [prefs EXCEPT ![u][k] = x]
          /\ r = IF u \in q.audience /\ Topic(j) = k /\ q.pc \in Active
                   THEN [q EXCEPT !.seen = @ \cup {<<u, x>>}] ELSE q
    BY <1>4 DEF Notes
  <2>2. UNCHANGED users /\ Topic(j)' = Topic(j)
    BY <1>4 DEF Notes, Topic
  <2>3. /\ r.pc = q.pc /\ r.audience = q.audience /\ r.cur = q.cur
        /\ q.seen \subseteq r.seen
        /\ (u \in q.audience /\ Topic(j) = k /\ q.pc \in Active => <<u, x>> \in r.seen)
    BY <1>1, <2>1 DEF Job
  <2>4. ASSUME NEW v \in q.audience \cap users, q.pc \in Active
        PROVE  <<v, prefs'[v][Topic(j)]>> \in r.seen
    <3>1. <<v, prefs[v][Topic(j)]>> \in r.seen
      BY <1>1, <2>3, <2>4 DEF Remembers
    <3>2. v \in Users /\ u \in Users /\ Topic(j) \in Keys
      BY OneTopic DEF TypeOK, TablesOK
    <3>3. prefs'[v][Topic(j)] = IF v = u /\ Topic(j) = k THEN x ELSE prefs[v][Topic(j)]
      BY <2>1, <3>2 DEF TypeOK, TablesOK
    <3>4. QED
      BY <2>3, <2>4, <3>1, <3>3
  <2>5. QED
    BY <1>1, <2>2, <2>3, <2>4 DEF Remembers
<1>5. CASE Rests(j)
  <2>1. r = q /\ \A u \in users' : u \in users /\ prefs'[u] = prefs[u]
    BY <1>5 DEF Rests
  <2>2. Topic(j)' = Topic(j)
    BY DEF Topic
  <2>3. QED
    BY <1>1, <2>1, <2>2 DEF Remembers
<1>6. CASE r = [Quiet EXCEPT !.pc = "lost"]
  BY <1>6 DEF Quiet, Remembers, Active, Pushing
<1>7. QED
  BY <1>2, <1>3, <1>4, <1>5, <1>6, JobChanges

\* Off means off, on means on: create writes a row only for a user who had the
\* switch for that kind of news on at some moment of the job, and passes over only
\* one who had it off, however preferences, deletions and jobs run together.
THEOREM SwitchesDecide == Spec => PreferenceDecides
<1>1. Init => SeenInv
  <2>1. \A j \in Jobs : Init => job[j].pc \notin Active
    BY DEF Init, Quiet, Active, Pushing
  <2>2. QED
    BY <2>1 DEF SeenInv, Remembers
<1> DEFINE A == \A j \in Jobs : \A u \in Users :
       LET created == HasRow(u, j)' /\ ~HasRow(u, j)
           passed == /\ job[j].pc = "pref" /\ u \in job[j].todo
                     /\ u \notin job'[j].todo /\ job'[j].cur # u
                     /\ job'[j].pc # "lost"
       IN /\ created => <<u, TRUE>> \in job[j].seen
          /\ passed => <<u, FALSE>> \in job[j].seen
<1>2. TypeOK /\ SeenInv /\ [Next]_vars => [A]_vars
  <2> SUFFICES ASSUME TypeOK, SeenInv, [Next]_vars, NEW j \in Jobs, NEW u \in Users
               PROVE  LET created == HasRow(u, j)' /\ ~HasRow(u, j)
                          passed == /\ job[j].pc = "pref" /\ u \in job[j].todo
                                    /\ u \notin job'[j].todo /\ job'[j].cur # u
                                    /\ job'[j].pc # "lost"
                      IN /\ created => <<u, TRUE>> \in job[j].seen
                         /\ passed => <<u, FALSE>> \in job[j].seen
    BY DEF A
  <2>1. Remembers(j) /\ job[j] \in Job
    BY OwnJob DEF SeenInv, TypeOK
  <2>2. ASSUME HasRow(u, j)', ~HasRow(u, j) PROVE <<u, TRUE>> \in job[j].seen
    <3>1. Keeps(j)
      BY <2>2, JobChanges, StepKeeps DEF NewRow
    <3>2. job[j].pc = "row" /\ u = job[j].cur /\ u \in users
      BY <2>2, <3>1 DEF Keeps, HasRow
    <3>3. QED
      BY <2>1, <3>2 DEF Remembers, Active
  <2>3. ASSUME job[j].pc = "pref", u \in job[j].todo, u \notin job'[j].todo,
               job'[j].cur # u, job'[j].pc # "lost"
        PROVE  <<u, FALSE>> \in job[j].seen
    <3>1. ~Starts(j) /\ ~Rests(j) /\ job'[j] # [Quiet EXCEPT !.pc = "lost"]
      BY <2>3 DEF Starts, Rests, Quiet
    <3>2. ~Notes(j)
      BY <2>1, <2>3 DEF Notes, Job
    <3>3. Keeps(j)
      BY <3>1, <3>2, JobChanges, StepKeeps
    <3>4. u \in job[j].audience /\ ~prefs[u][Topic(j)]
      BY <2>3, <3>3, OneTopic DEF Keeps
    <3>5. u \in users /\ prefs[u][Topic(j)] = FALSE
      BY <3>4, OneTopic DEF TypeOK, TablesOK
    <3>6. QED
      BY <2>1, <2>3, <3>4, <3>5 DEF Remembers, Active
  <2>4. QED
    BY <2>2, <2>3
<1>3. QED
  BY <1>1, <1>2, SeenKept, TypeCorrect, PTL DEF Spec, PreferenceDecides

-----------------------------------------------------------------------------
(* The news of a status *)

\* No row of the feed is about a change of status, and no such job gets beyond
\* the test of its payload.
SilentInv ==
  \A j \in Jobs : j[1] = "booking.statusChanged" =>
    /\ job[j].pc \in {"idle", "committed", "silent", "lost"}
    /\ \A u \in Users : ~HasRow(u, j)

\* BACKEND.md says that a change of status notifies the user.  The listener looks
\* for the user beside the booking and the payload nests it inside: no behaviour
\* of the program, with whatever users, bookings and calls, puts a change of
\* status in anybody's feed.
THEOREM StatusChangesStaySilent == Spec => []SilentInv
<1>1. Init => SilentInv
  BY DEF Init, SilentInv, HasRow, Quiet
<1>2. TypeOK /\ SilentInv /\ [Next]_vars => SilentInv'
  <2> SUFFICES ASSUME TypeOK, SilentInv, [Next]_vars, NEW j \in Jobs,
                      j[1] = "booking.statusChanged"
               PROVE  /\ job'[j].pc \in {"idle", "committed", "silent", "lost"}
                      /\ \A u \in Users : ~HasRow(u, j)'
    BY DEF SilentInv, HasRow
  <2>1. /\ job[j].pc \in {"idle", "committed", "silent", "lost"} /\ job[j] \in Job
        /\ \A u \in Users : ~HasRow(u, j)
    BY OwnJob DEF SilentInv, TypeOK
  <2>2. CASE Step(j)
    <3>1. Keeps(j)
      BY <2>2, StepKeeps
    <3>2. job[j].pc = "committed"
      BY <2>1, <3>1 DEF Keeps, Active, Pushing
    <3>3. job'[j].pc = "silent" /\ \A n \in feed' \ feed : FALSE
      BY <3>1, <3>2 DEF Keeps
    <3>4. QED
      BY <2>1, <3>3 DEF HasRow
  <2>3. CASE ~Step(j)
    <3>1. \A u \in Users : ~HasRow(u, j)'
      BY <2>1, <2>3, JobChanges DEF NewRow
    <3>2. CASE Starts(j)
      <4>1. j # Broadcast
        BY DEF Broadcast
      <4>2. PICK todo \in SUBSET Users : job'[j] = Begun(j, "committed", todo)
        BY <3>2, <4>1 DEF Starts
      <4>3. job'[j].pc = "committed"
        BY <4>2 DEF Begun, Quiet
      <4>4. QED
        BY <3>1, <4>3
    <3>3. CASE Notes(j)
      <4>1. job'[j].pc = job[j].pc
        BY <2>1, <3>3 DEF Notes, Job
      <4>2. QED
        BY <2>1, <3>1, <4>1
    <3>4. CASE Rests(j)
      BY <2>1, <3>1, <3>4 DEF Rests
    <3>5. CASE job'[j] = [Quiet EXCEPT !.pc = "lost"]
      <4>1. job'[j].pc = "lost"
        BY <3>5 DEF Quiet
      <4>2. QED
        BY <3>1, <4>1
    <3>6. QED
      BY <2>3, <3>2, <3>3, <3>4, <3>5, JobChanges
  <2>4. QED
    BY <2>2, <2>3
<1>3. QED
  BY <1>1, <1>2, TypeCorrect, PTL DEF Spec
=============================================================================
