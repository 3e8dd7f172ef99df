---------------------------- MODULE MessageSpool ----------------------------
(***************************************************************************)
(* What a node promises about one message handed to sendRemoteMessage,     *)
(* seen from outside: it is in the hands of a call, then spooled or done,  *)
(* and once it is done it is never spooled again.  `wire' holds the        *)
(* messages of which at least one copy was handed to a peer.               *)
(* Outbox.tla implements this specification.                               *)
(***************************************************************************)
CONSTANT Msgs

VARIABLES stage, wire

svars == <<stage, wire>>

Stages == {"new", "calling", "spooled", "done"}

Init ==
    /\ stage = [m \in Msgs |-> "new"]
    /\ wire = {}

\* A user hands a message over; the call may answer at once.
Call(m) ==
    /\ stage[m] = "new"
    /\ \/ /\ \E s \in {"calling", "spooled"} : stage' = [stage EXCEPT ![m] = s]
          /\ wire' = wire
       \/ /\ stage' = [stage EXCEPT ![m] = "done"]
          /\ wire' = wire \cup {m}

\* A copy goes out.  Late copies of a message already done are allowed:
\* receivers drop them by message id.
Post(m) ==
    /\ stage[m] # "new"
    /\ stage' = [stage EXCEPT ![m] = "done"]
    /\ wire' = wire \cup {m}

\* The call could not reach the target: the message waits in the spool.
Spool(m) ==
    /\ stage[m] = "calling"
    /\ stage' = [stage EXCEPT ![m] = "spooled"]
    /\ wire' = wire

\* Messages are given up: expired in the spool, or lost with the process.
Drop(S) ==
    /\ \A m \in S : stage[m] \in {"calling", "spooled"}
    /\ stage' = [m \in Msgs |-> IF m \in S THEN "done" ELSE stage[m]]
    /\ wire' = wire

Next ==
    \/ \E m \in Msgs : Call(m) \/ Post(m) \/ Spool(m)
    \/ \E S \in SUBSET Msgs : Drop(S)

Spec == Init /\ [][Next]_svars
=============================================================================
