----------------------------- MODULE SlotLedger -----------------------------
(***************************************************************************)
(* What the booking engine promises its callers about appointment slots,   *)
(* with nothing said of requests, transactions or indexes: a slot belongs  *)
(* to at most one booking, a booking obtains only a slot nobody holds, and *)
(* keeps exactly that slot until it gives it up or exchanges it.           *)
(* BACKEND.md section 9 (rule 3) and section 16 (criterion 7) ask for it.  *)
(***************************************************************************)

CONSTANTS
  Holders,     \* what may hold a slot: the rows of the bookings table
  Slots,       \* (provider, date, time slot) triples
  NoSlot       \* what a row that holds nothing holds

VARIABLE held  \* held[h]: the slot of h, or NoSlot

Free(s) == \A h \in Holders : held[h] # s

Init == held = [h \in Holders |-> NoSlot]

\* A holder without a slot obtains a free one.
Claim(h, s) ==
  /\ held[h] = NoSlot
  /\ Free(s)
  /\ held' = [held EXCEPT ![h] = s]

\* A holder exchanges its slot for a free one.
Exchange(h, s) ==
  /\ held[h] # NoSlot
  /\ Free(s)
  /\ held' = [held EXCEPT ![h] = s]

\* A holder gives its slot up.
Release(h) ==
  /\ held[h] # NoSlot
  /\ held' = [held EXCEPT ![h] = NoSlot]

Next ==
  \E h \in Holders :
    \/ \E s \in Slots : Claim(h, s) \/ Exchange(h, s)
    \/ Release(h)

Spec == Init /\ [][Next]_held
=============================================================================
