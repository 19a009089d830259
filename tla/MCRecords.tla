------------------------------ MODULE MCRecords ------------------------------
EXTENDS Records, TLC

CONSTANTS r1, r2, r3, r4

MCNormal == ("me@x" :> "me@x") @@ ("Me@X" :> "me@x")
MCKinds == (r1 :> {"submit", "favorite"}) @@ (r2 :> {"submit"})
             @@ (r3 :> {"erase", "status"}) @@ (r4 :> {"erase", "schedule"})
=============================================================================
