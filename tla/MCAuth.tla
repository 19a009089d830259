------------------------------- MODULE MCAuth -------------------------------
(* Auth with finite sets for TLC. *)
EXTENDS Auth, TLC

\* Requests, and ids of users, are interchangeable: no definition tells two of
\* them apart.
Interchangeable == Permutations(Requests) \cup Permutations(Users)
=============================================================================
