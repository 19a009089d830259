----------------------------- MODULE Donations -----------------------------
(***************************************************************************)
(* Donations and the fundraising totals they move: POST /donations, the    *)
(* review by admins (PATCH /admin/donations/:id/status) and the callback   *)
(* of a payment gateway (POST /webhooks/payment), beside the calls of the  *)
(* portfolio on the cases and projects they are given for.                 *)
(*                                                                         *)
(* A request is one handler invocation; each statement or transaction it   *)
(* awaits is one step, between which any other request may run.  Donations *)
(* are kept in the order of created_at.                                    *)
(***************************************************************************)
EXTENDS Portfolio, Sequences, FiniteSets, FiniteSetsExt

CONSTANTS
  Amounts,          \* amounts callers send
  TxIds,            \* transaction ids of the payment gateway
  NoTx

AllKinds == {"give", "review", "webhook", "create", "edit", "delete", "note"}

ASSUME AmountsAssumption == Amounts \subseteq Nat \ {0}
ASSUME KindsAssumption == Kinds \subseteq AllKinds
ASSUME NoTxAssumption == NoTx \notin TxIds

VARIABLE donations  \* the donations table, oldest first

vars == <<donations, causes, used, notes, pc, call, answer>>

portfolio == <<causes, used, notes>>

-----------------------------------------------------------------------------
(* Rows, calls and their types *)

Statuses == {"PENDING_CONFIRMATION", "PENDING_REVIEW", "COMPLETED", "FAILED"}
FinalStates == {"COMPLETED", "FAILED"}

\* What a donation may be given for: a case, a project, both or neither.
Links == {L \in SUBSET Causes :
            \A c, d \in L : {c, d} \subseteq Cases \/ {c, d} \subseteq Projects => c = d}

Donation == [links : Links, amount : Amounts, status : Statuses,
             tx : TxIds \cup {NoTx}]

Ids == DOMAIN donations

Gifts == [kind : {"give"}, links : Links, amount : Amounts]
Reviews == [kind : {"review"}, donation : Nat \ {0}, to : Statuses]
Callbacks == [kind : {"webhook"}, tx : TxIds, amount : Amounts, success : BOOLEAN,
              donation : Nat]
Calls == Gifts \cup Reviews \cup Callbacks \cup Creations \cup Edits \cup Deletions
           \cup Notes

Answers == {"none", "created", "updated", "already", "INVALID_TRANSITION",
            "NOT_FOUND", "BAD_LINK", "CONFLICT", "ERROR"}

Statements == {"idle", "write", "match", "confirm", "edit", "delete", "note", "done"}

\* The call c that fits statement p and answer a.
Fits(p, c, a) ==
  /\ p = "idle" => c = NoCall
  /\ p # "done" => a = "none"
  /\ p = "write" => c \in Reviews /\ c.donation \in Ids
  /\ p \in {"match", "confirm"} => c \in Callbacks
  /\ p = "confirm" => c.donation \in Ids
  /\ p = "edit" => c \in Edits
  /\ p = "delete" => c \in Deletions
  /\ p = "note" => c \in Notes
  /\ a = "created" => c \in Gifts \cup Creations \cup Notes
  /\ a = "updated" => c \in Reviews \cup Callbacks \cup Edits \cup Deletions
  /\ a = "updated" /\ c.kind = "review" => c.donation \in Ids

TypeOK ==
  /\ PortfolioTypeOK
  /\ donations \in Seq(Donation)
  /\ pc \in [Requests -> Statements]
  /\ call \in [Requests -> Calls \cup {NoCall}]
  /\ answer \in [Requests -> Answers]
  /\ \A r \in Requests : Fits(pc[r], call[r], answer[r])

-----------------------------------------------------------------------------

Init == PortfolioInit /\ donations = <<>>

-----------------------------------------------------------------------------
(* POST /donations: DonationsService.create *)

\* Mutant: the status a gateway method would start from.
NewDonationAwaitingGateway(c) ==
  [links |-> c.links, amount |-> c.amount, status |-> "PENDING_CONFIRMATION",
   tx |-> NoTx]

\* No method of GATEWAY_METHODS exists, so every donation starts in review.
NewDonation(c) ==
  [links |-> c.links, amount |-> c.amount, status |-> "PENDING_REVIEW",
   tx |-> NoTx]

Give(r, links, amount) ==
  LET c == [kind |-> "give", links |-> links, amount |-> amount] IN
  /\ \/ /\ amount > MaxInt
        /\ AnswerNow(r, c, "ERROR")
        /\ UNCHANGED donations
     \/ /\ amount <= MaxInt /\ ~(links \subseteq Live)
        /\ AnswerNow(r, c, "BAD_LINK")
        /\ UNCHANGED donations
     \/ /\ amount <= MaxInt /\ links \subseteq Live
        /\ AnswerNow(r, c, "created")
        /\ donations' = Append(donations, NewDonation(c))
  /\ UNCHANGED portfolio

-----------------------------------------------------------------------------
(* Review: DonationsService.adminUpdateStatus *)

ReadForReview(r, d, to) ==
  LET c == [kind |-> "review", donation |-> d, to |-> to] IN
  /\ \/ /\ donations[d].status \in FinalStates
        /\ AnswerNow(r, c, "INVALID_TRANSITION")
     \/ /\ donations[d].status \notin FinalStates
        /\ Proceed(r, c, "write")
  /\ UNCHANGED <<donations, portfolio>>

\* Mutant: the projects' copy of the credit is missing.
CreditedCases(r) ==
  IF call[r].to = "COMPLETED"
  THEN donations[call[r].donation].links \cap Cases ELSE {}

\* The causes a review credits.  becameComplete looks at the status read
\* first, which was not final, so it only says that `to` is COMPLETED.
Credited(r) ==
  IF call[r].to = "COMPLETED" THEN donations[call[r].donation].links ELSE {}

\* Mutant: the sum is not held to the width of its column.
OverflowsIgnored(r) == FALSE

\* raised_amount is an INTEGER column: an increment past its end fails.
Overflows(r) ==
  \E c \in Credited(r) :
    causes[c].raised + donations[call[r].donation].amount > MaxInt

\* Mutant: the increments are awaited outside the transaction.
CommitReviewPiecewise(r) ==
  LET d == call[r].donation IN
  /\ pc[r] = "write"
  /\ donations' = [donations EXCEPT ![d].status = call[r].to]
  /\ UNCHANGED <<used, notes>>
  /\ IF Overflows(r)
     THEN Finish(r, "ERROR") /\ UNCHANGED causes
     ELSE /\ causes' = [c \in Causes |->
               IF c \in Credited(r)
               THEN [raised |-> causes[c].raised + donations[d].amount,
                     supporters |-> causes[c].supporters + 1]
               ELSE causes[c]]
          /\ Finish(r, "updated")

\* The transaction: the status as it was asked for, whatever the row holds by
\* now, and the increments of the causes the row links to by now.
CommitReview(r) ==
  LET d == call[r].donation IN
  /\ pc[r] = "write"
  /\ ~Overflows(r)
  /\ donations' = [donations EXCEPT ![d].status = call[r].to]
  /\ causes' = [c \in Causes |->
       IF c \in Credited(r)
       THEN [raised |-> causes[c].raised + donations[d].amount,
             supporters |-> causes[c].supporters + 1]
       ELSE causes[c]]
  /\ Finish(r, "updated")
  /\ UNCHANGED <<used, notes>>

\* The transaction rolls back: an increment overflows.
ReviewOverflow(r) ==
  /\ pc[r] = "write"
  /\ Overflows(r)
  /\ Finish(r, "ERROR")
  /\ UNCHANGED <<donations, portfolio>>

\* Review r holds the row of its donation and waits for its cause, while the
\* deletion q holds the cause and waits to clear the donation's link.
Deadlocked(r, q) ==
  /\ pc[r] = "write" /\ pc[q] = "delete"
  /\ call[q].cause \in Credited(r)

\* PostgreSQL ends a deadlock by rolling one of the two back.
DeadlockVictim(v) ==
  /\ \E q \in Requests : Deadlocked(v, q) \/ Deadlocked(q, v)
  /\ Finish(v, "ERROR")
  /\ UNCHANGED <<donations, portfolio>>

-----------------------------------------------------------------------------
(* The gateway's callback: DonationsService.handleWebhook.  Its amount is   *)
(* matched by the query, so the test for AMOUNT_MISMATCH never fails, and   *)
(* so does its status, so neither does the test for a final state.          *)

HeldBy(tx) == {d \in Ids : donations[d].tx = tx}

FindTransaction(r, tx, amount, success) ==
  LET c == [kind |-> "webhook", tx |-> tx, amount |-> amount, success |-> success,
            donation |-> 0]
  IN
  /\ \/ HeldBy(tx) # {} /\ AnswerNow(r, c, "already")
     \/ HeldBy(tx) = {} /\ Proceed(r, c, "match")
  /\ UNCHANGED <<donations, portfolio>>

\* Mutant: any donation not yet decided matches.
MatchingAnyPending(c) ==
  {d \in Ids : /\ donations[d].status \notin FinalStates
               /\ donations[d].amount = c.amount
               /\ donations[d].tx = NoTx}

Matching(c) ==
  {d \in Ids : /\ donations[d].status = "PENDING_CONFIRMATION"
               /\ donations[d].amount = c.amount
               /\ donations[d].tx = NoTx}

\* The oldest match is taken.
MatchDonation(r) ==
  /\ pc[r] = "match"
  /\ \/ Matching(call[r]) = {} /\ Finish(r, "NOT_FOUND")
     \/ /\ Matching(call[r]) # {}
        /\ call' = [call EXCEPT ![r].donation = Min(Matching(call[r]))]
        /\ pc' = [pc EXCEPT ![r] = "confirm"]
        /\ UNCHANGED answer
  /\ UNCHANGED <<donations, portfolio>>

\* The update names the donation alone; a transaction id stored meanwhile on
\* another donation makes it P2002.  No total is credited.
ConfirmPayment(r) ==
  LET d == call[r].donation
      status == IF call[r].success THEN "COMPLETED" ELSE "FAILED"
  IN
  /\ pc[r] = "confirm"
  /\ \/ /\ HeldBy(call[r].tx) \subseteq {d}
        /\ donations' = [donations EXCEPT ![d].status = status,
                                          ![d].tx = call[r].tx]
        /\ Finish(r, "updated")
     \/ /\ ~(HeldBy(call[r].tx) \subseteq {d})
        /\ Finish(r, "CONFLICT")
        /\ UNCHANGED donations
  /\ UNCHANGED portfolio

-----------------------------------------------------------------------------
(* The portfolio beside the donations *)

\* Mutant: the foreign key does not clear the links.
DeleteCauseDangling(r) == RemoveCause(r) /\ UNCHANGED donations

\* onDelete: SetNull clears the links in the same statement.
DeleteCause(r) ==
  /\ RemoveCause(r)
  /\ donations' = [d \in Ids |-> [donations[d] EXCEPT !.links = @ \ {call[r].cause}]]

PortfolioCalls(r) ==
  /\ \/ \E c \in Causes, raised \in {0} \cup TypedIn : CreateCause(r, c, raised)
     \/ \E c \in Causes, raised \in TypedIn : FindForEdit(r, c, raised)
     \/ EditCause(r)
     \/ \E c \in Causes : FindForDelete(r, c) \/ FindForNote(r, c)
     \/ RemoveMissing(r)
     \/ AddNote(r)
  /\ UNCHANGED donations

-----------------------------------------------------------------------------

\* Every call answered: the requests are spent, a bound of the model.
Spent ==
  /\ \A r \in Requests : pc[r] = "done"
  /\ UNCHANGED vars

Next ==
  \/ \E r \in Requests :
       \/ \E links \in Links, amount \in Amounts : Give(r, links, amount)
       \/ \E d \in Ids, to \in Statuses : ReadForReview(r, d, to)
       \/ CommitReview(r) \/ ReviewOverflow(r) \/ DeadlockVictim(r)
       \/ \E tx \in TxIds, amount \in Amounts, success \in BOOLEAN :
            FindTransaction(r, tx, amount, success)
       \/ MatchDonation(r) \/ ConfirmPayment(r)
       \/ PortfolioCalls(r) \/ DeleteCause(r)
  \/ Spent

Spec == Init /\ [][Next]_vars
-----------------------------------------------------------------------------
(* Properties *)

\* Whatever hangs off a case or project, a donation's link, an update or a
\* stage, leads to one that exists, however gifts, reviews, notes and deletions
\* run together: what lets the transaction of adminUpdateStatus credit a cause
\* without a look, and lets addCaseUpdate and its copies look before they add.
LinksResolve ==
  /\ \A d \in Ids : donations[d].links \subseteq Live
  /\ \A n \in Requests : notes[n] \in Live \cup {NoCause}

Approvals ==
  {r \in Requests : /\ answer[r] = "updated"
                    /\ call[r].kind = "review"
                    /\ call[r].to = "COMPLETED"}

\* The causes whose total no edit replaced.
Derived ==
  {c \in Live : ~ \E r \in Requests : /\ answer[r] = "updated"
                                      /\ call[r].kind = "edit"
                                      /\ call[r].cause = c}

\* The total a cause started from: Opening, or what was typed in at its creation.
StartOf(c) ==
  IF c \in Existing THEN Opening
  ELSE (CHOOSE x \in {call[r] : r \in {q \in Requests : answer[q] = "created"}} :
          x.kind = "create" /\ x.cause = c).raised

Gift(r) == donations[call[r].donation]

\* Unless an admin typed another one in, a total is what it started from plus
\* exactly one credit for every approval an admin was told had succeeded: a
\* refused, overflowing or deadlocked review leaves no part of a credit, and
\* the gateway's callback none at all.
BooksBalance ==
  \A c \in Derived :
    LET credits == {r \in Approvals : c \in Gift(r).links} IN
    /\ causes[c].raised = StartOf(c) + SumFunction([r \in credits |-> Gift(r).amount])
    /\ causes[c].supporters = Cardinality(credits)

\* The donations of a cause that admins completed, the gateway having no part.
ApprovedFor(c) ==
  {d \in Ids : /\ c \in donations[d].links
               /\ donations[d].status = "COMPLETED"
               /\ donations[d].tx = NoTx}

\* No approved money is missing from a total: "a donation marked approved while
\* its case total silently failed to move would be worse than either alone".
TotalsCoverApprovals ==
  \A c \in Derived :
    causes[c].raised >=
      StartOf(c) + SumFunction([d \in ApprovedFor(c) |-> donations[d].amount])

\* The gateway's callback decides only donations that an admin set to
\* PENDING_CONFIRMATION before: with no gateway method, nothing else reaches
\* it, and no donation waits for a callback that cannot come.
GatewayOnlyAfterAdmin ==
  \A d \in Ids :
    donations[d].tx # NoTx \/ donations[d].status = "PENDING_CONFIRMATION" =>
      \E r \in Requests : /\ answer[r] = "updated"
                          /\ call[r].kind = "review"
                          /\ call[r].donation = d
                          /\ call[r].to = "PENDING_CONFIRMATION"

\* A donation is credited once at most (the comment in adminUpdateStatus).
CreditedOnce ==
  \A c \in Derived :
    causes[c].raised <=
      StartOf(c) + SumFunction([d \in {e \in Ids : c \in donations[e].links} |->
                                 donations[d].amount])
=============================================================================
