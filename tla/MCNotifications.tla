--------------------------- MODULE MCNotifications ---------------------------
EXTENDS Notifications, TLC

CONSTANTS u1, u2, t1, t2, t3

MCBlocked == {}
MCResidents == {u1}
MCRegistered == (t1 :> u1) @@ (t2 :> u1) @@ (t3 :> u2)
MCChosen == (u1 :> [bookings |-> TRUE, donations |-> TRUE, system |-> TRUE])
              @@ (u2 :> [bookings |-> TRUE, donations |-> FALSE, system |-> FALSE])
MCPrefDtos == {[bookings |-> FALSE, system |-> FALSE], [donations |-> FALSE],
                [donations |-> TRUE, system |-> TRUE]}
=============================================================================
