---------------------------- MODULE MCPeerManager ----------------------------
EXTENDS PeerManager, TLC

CONSTANTS a1, a2, a3, h1, h2, h3

\* One address per host.
MCHostOf == (a1 :> h1) @@ (a2 :> h2) @@ (a3 :> h3)
=============================================================================
