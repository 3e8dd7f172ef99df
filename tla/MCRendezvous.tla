---------------------------- MODULE MCRendezvous ----------------------------
EXTENDS Rendezvous

CONSTANTS r1, r2, c1, c2, c3, c4, m1, m2
=============================================================================
