------------------------------ MODULE MCOutbox ------------------------------
EXTENDS Outbox, TLC

CONSTANTS m1, m2, n1, n2

MCTo == (m1 :> n1) @@ (m2 :> n2)
MCKinds == [t \in Targets |-> IF t = n1 THEN PathKinds \ {"keyless"} ELSE {"keyless", "none"}]
MCBackoff == [n \in 1..MaxRetries |-> n]
=============================================================================
