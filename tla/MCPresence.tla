---------------------------- MODULE MCPresence -------------------------------
\* Presence on small meshes.
EXTENDS Presence, TLC

CONSTANTS e1, r1, r2, alice1, alice2

\* One user on the edge.
OneHome == alice1 :> e1
OneNick == alice1 :> "alice"
TwoLogins == alice1 :> 2

\* The same name on the edge and on a relay.
TwoHomes == alice1 :> e1 @@ alice2 :> r2
TwoNicks == [u \in {alice1, alice2} |-> "alice"]
ThreeLogins == alice1 :> 2 @@ alice2 :> 1

OneTunnel == {<<r1, e1>>}
=============================================================================
