----------------------------- MODULE Portfolio -----------------------------
(***************************************************************************)
(* The cases and projects people give for: the calls of                    *)
(* PortfolioAdminController that create, edit and delete one, and that add *)
(* an update or a stage to it.  What is kept of a cause is the two totals  *)
(* the donations move; the fields only shown to readers are left out.      *)
(*                                                                         *)
(* A request is one handler invocation; each statement or transaction it   *)
(* awaits is one step, between which any other request may run.  An        *)
(* operation on a case and its copy for projects are one action: a cause   *)
(* is either.  Donations links its rows to the causes and adds its own     *)
(* calls to the requests.                                                  *)
(***************************************************************************)
EXTENDS Naturals

CONSTANTS
  Requests,         \* concurrent handler invocations, and names of notes
  Cases, Projects,  \* ids of the causes that collect money
  Existing,         \* those there from the start
  Opening,          \* the hand-entered total they start from
  TypedIn,          \* totals admins type into the portfolio later
  MaxInt,           \* largest value of an INTEGER column
  Kinds,            \* the kinds of call made
  NoCause, NoCall

Causes == Cases \cup Projects

ASSUME TotalsAssumption ==
  /\ MaxInt \in Nat
  /\ Opening \in 0 .. MaxInt
  /\ TypedIn \subseteq 0 .. MaxInt
ASSUME CausesAssumption == Cases \cap Projects = {} /\ Existing \subseteq Causes
ASSUME NoCauseAssumption ==
  NoCause \notin Causes \cup [raised : 0 .. MaxInt, supporters : Nat]

VARIABLES
  causes,       \* the cases and projects tables: totals, or NoCause
  used,         \* the ids ever given to a cause: uuids, never given again
  notes,        \* case_updates, project_updates, project_stages: the cause of each
  pc,           \* the statement each request executes next
  call,         \* the arguments of its call, and what its lookup found
  answer        \* what its caller is told

-----------------------------------------------------------------------------
(* Rows and calls *)

Totals == [raised : 0 .. MaxInt, supporters : Nat]

Live == {c \in Causes : causes[c] # NoCause}

\* An admin may type in the totals of a cause as it is created.
Creations == [kind : {"create"}, cause : Causes, raised : {0} \cup TypedIn]
Edits == [kind : {"edit"}, cause : Causes, raised : TypedIn]
Deletions == [kind : {"delete"}, cause : Causes]
Notes == [kind : {"note"}, cause : Causes]

PortfolioTypeOK ==
  /\ causes \in [Causes -> Totals \cup {NoCause}]
  /\ used \in SUBSET Causes
  /\ notes \in [Requests -> Causes \cup {NoCause}]

PortfolioInit ==
  /\ causes = [c \in Causes |->
       IF c \in Existing THEN [raised |-> Opening, supporters |-> 0] ELSE NoCause]
  /\ used = Existing
  /\ notes = [r \in Requests |-> NoCause]
  /\ pc = [r \in Requests |-> "idle"]
  /\ call = [r \in Requests |-> NoCall]
  /\ answer = [r \in Requests |-> "none"]

\* Request r makes call c and goes on to statement next.
Proceed(r, c, next) ==
  /\ pc[r] = "idle"
  /\ c.kind \in Kinds
  /\ call' = [call EXCEPT ![r] = c]
  /\ pc' = [pc EXCEPT ![r] = next]
  /\ UNCHANGED answer

\* Request r makes call c, whose only statement decides answer a.
AnswerNow(r, c, a) ==
  /\ pc[r] = "idle"
  /\ c.kind \in Kinds
  /\ call' = [call EXCEPT ![r] = c]
  /\ pc' = [pc EXCEPT ![r] = "done"]
  /\ answer' = [answer EXCEPT ![r] = a]

\* Request r, under way, is answered a.
Finish(r, a) ==
  /\ pc' = [pc EXCEPT ![r] = "done"]
  /\ answer' = [answer EXCEPT ![r] = a]
  /\ UNCHANGED call

-----------------------------------------------------------------------------
(* PortfolioService: every call but a creation looks the row up             *)
(* (findCaseById, findProjectById) and then names it again by its id        *)

\* The total of a new cause is the one sent, or zero.  A number of supporters
\* typed in beside it is left at zero.
NewTotals(raised) == [raised |-> raised, supporters |-> 0]

\* The code of a case is unique: another case may have it.
CreateCause(r, c, raised) ==
  LET creation == [kind |-> "create", cause |-> c, raised |-> raised] IN
  /\ c \notin used
  /\ \/ /\ AnswerNow(r, creation, "created")
        /\ causes' = [causes EXCEPT ![c] = NewTotals(raised)]
        /\ used' = used \cup {c}
     \/ /\ c \in Cases /\ Live \cap Cases # {}
        /\ AnswerNow(r, creation, "CONFLICT")
        /\ UNCHANGED <<causes, used>>
  /\ UNCHANGED notes

\* Call c of request r finds its cause, and statement next comes after.
FindCause(r, c, next) ==
  /\ \/ c.cause \notin Live /\ AnswerNow(r, c, "NOT_FOUND")
     \/ c.cause \in Live /\ Proceed(r, c, next)
  /\ UNCHANGED <<causes, used, notes>>

\* An edit that sends raisedAmount replaces the total.
FindForEdit(r, c, raised) ==
  FindCause(r, [kind |-> "edit", cause |-> c, raised |-> raised], "edit")

EditCause(r) ==
  LET c == call[r].cause IN
  /\ pc[r] = "edit"
  /\ \/ /\ c \in Live
        /\ causes' = [causes EXCEPT ![c].raised = call[r].raised]
        /\ Finish(r, "updated")
     \/ c \notin Live /\ Finish(r, "NOT_FOUND") /\ UNCHANGED causes
  /\ UNCHANGED <<used, notes>>

FindForDelete(r, c) == FindCause(r, [kind |-> "delete", cause |-> c], "delete")

\* onDelete: Cascade takes the updates and stages along.
RemoveCause(r) ==
  LET c == call[r].cause IN
  /\ pc[r] = "delete"
  /\ c \in Live
  /\ causes' = [causes EXCEPT ![c] = NoCause]
  /\ notes' = [n \in Requests |-> IF notes[n] = c THEN NoCause ELSE notes[n]]
  /\ Finish(r, "updated")
  /\ UNCHANGED used

\* The row went after it was looked up.
RemoveMissing(r) ==
  /\ pc[r] = "delete"
  /\ call[r].cause \notin Live
  /\ Finish(r, "NOT_FOUND")
  /\ UNCHANGED <<causes, used, notes>>

FindForNote(r, c) == FindCause(r, [kind |-> "note", cause |-> c], "note")

\* An update or a stage; its foreign key refuses a cause that has gone.
AddNote(r) ==
  LET c == call[r].cause IN
  /\ pc[r] = "note"
  /\ \/ /\ c \in Live
        /\ notes' = [notes EXCEPT ![r] = c]
        /\ Finish(r, "created")
     \/ c \notin Live /\ Finish(r, "BAD_LINK") /\ UNCHANGED notes
  /\ UNCHANGED <<causes, used>>
=============================================================================
