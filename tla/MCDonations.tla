---------------------------- MODULE MCDonations ----------------------------
(* Donations with finite sets for TLC. *)
EXTENDS Donations, TLC

\* Requests, and transaction ids, are interchangeable: no definition tells two
\* of them apart.
Interchangeable == Permutations(Requests) \cup Permutations(TxIds)
=============================================================================
