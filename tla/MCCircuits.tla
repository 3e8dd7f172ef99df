----------------------------- MODULE MCCircuits -----------------------------
EXTENDS Circuits, TLC

CONSTANTS r1, r2, tgt, s1, s2, k1, k2, c1, c2, c3

\* Two messages to one target, which is reached over two relays in either order.
MCTo == (s1 :> tgt) @@ (s2 :> tgt)
MCRoutes == tgt :> {<<r1, r2>>, <<r2, r1>>}

Symmetry == Permutations({s1, s2})
=============================================================================
