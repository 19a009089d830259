----------------------------- MODULE MCCatalogue -----------------------------
EXTENDS Catalogue, TLC

CONSTANTS r1, r2, r3, c1, c2, s1, s2, p1, p2

Off == [d \in Weekdays |-> NoEntry]
On(S, e) == [d \in Weekdays |-> IF d \in S THEN e ELSE NoEntry]
Long == [start |-> 1, end |-> 4, minutes |-> 2]
Short == [start |-> 1, end |-> 3, minutes |-> 1]

MCWeeks == {Off, On({1}, Short), On({0, 1}, Short), On({0}, Long)}
MCInitialWeek == On({1}, Long)
MCFieldSets == {{"phone"}}

Visits == {"availability", "book"}
MCKinds == (r1 :> AllKinds) @@ (r2 :> AllKinds) @@ (r3 :> Visits)
Interchangeable == Permutations({r1, r2})
=============================================================================
