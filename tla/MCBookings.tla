----------------------------- MODULE MCBookings -----------------------------
(* Bookings with finite sets for TLC. *)
EXTENDS Bookings, TLC

\* Requests and phones are interchangeable: no definition tells two apart.
Interchangeable == Permutations(Requests) \cup Permutations(Phones)
=============================================================================
