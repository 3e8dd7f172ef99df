------------------------------ MODULE MCAutoNat ------------------------------
EXTENDS AutoNat, TLC

CONSTANTS c1, c2, p1, p2, a1, a2

MCPeerOf == (c1 :> p2) @@ (c2 :> p1)
MCVotes == (a1 :> {p1}) @@ (a2 :> {p2})
MCWriters == {<<c1, "res">>, <<c2, "ini">>}
MCPayload == Notes \cup [type : {"DIALBACK_REQUEST", "DIALBACK_CONFIRM"}, nonce : Dialback]
=============================================================================
