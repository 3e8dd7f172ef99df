\* Two channels, to two peers that have each seen the node before: either
\* address may be agreed on, one after the other.
CONSTANTS
    c1 = c1
    c2 = c2
    p1 = p1
    p2 = p2
    a1 = a1
    a2 = a2
    Chan = {c1, c2}
    NoChan = NoChan
    Peers = {p1, p2}
    PeerOf <- MCPeerOf
    Address = {a1, a2}
    NoAddress = NoAddress
    Votes <- MCVotes
    Dialback = {d1, d2}
    Writers <- MCWriters
    Notes = {n1}
    Payload <- MCPayload
    MaxDialbacks = 1
    MaxFaults = 1
SPECIFICATION FairSpec
INVARIANTS Delivered SlotCount
PROPERTIES HandshakesEnd PromotedByTest DialbackEnds
CHECK_DEADLOCK FALSE
