--------------------------- MODULE MCAdminAccounts ---------------------------
(* AdminAccounts with finite sets for TLC. *)
EXTENDS AdminAccounts, TLC

\* One body per field, and the two that take rights away in two ways at once.
SentEdits ==
  {[role |-> x, active |-> Keep, provider |-> Keep] : x \in Roles}
    \cup {[role |-> Keep, active |-> x, provider |-> Keep] : x \in BOOLEAN}
    \cup {[role |-> x, active |-> FALSE, provider |-> Keep] : x \in Roles}
    \cup {[role |-> Keep, active |-> Keep, provider |-> x] :
           x \in Providers \cup {NoProvider}}

Interchangeable == Permutations(Requests) \cup Permutations(Admins)
                     \cup Permutations(Roles)
=============================================================================
