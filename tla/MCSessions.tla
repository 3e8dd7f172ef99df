----------------------------- MODULE MCSessions -----------------------------
(* One user over Telnet and SSH.                                              *)
EXTENDS Sessions, TLC

CONSTANTS t1, ssh1, ann, annAway, p1, p2, k1, k2

\* Two ways in for one user. Over Telnet he errs at times.
MCClient ==
    t1 :> [names |-> {ann}, passwords |-> {p1, p2}, keys |-> {}, contacts |-> {ann}] @@
    ssh1 :> [names |-> {ann}, passwords |-> {p1}, keys |-> {k1, k2}, contacts |-> {annAway}]

\* A namesake at another node.
MCNick == [u \in {ann, annAway} |-> "ann"]
=============================================================================
