\* Two relays of which one may be bound, a pool of one, two calls of maintenance,
\* another sender to r1, verdicts of AutoNAT; three faults, dials and verdicts counted.
CONSTANTS
    r1 = r1
    r2 = r2
    c1 = c1
    c2 = c2
    c3 = c3
    c4 = c4
    m1 = m1
    m2 = m2
    Relay = {r1, r2}
    Chan = {c1, c2, c3, c4}
    NoChan = NoChan
    PoolSize = 1
    Maintainer = {m1, m2}
    Bootstrap = {r1, r2}
    Contacted = {r1}
    MaxRelays = 1
    TransitMin = 1
    AllowEdgeRouting = TRUE
    NatRoles = {"EDGE", "RELAY"}
    MaxFaults = 3
SPECIFICATION FairSpec
INVARIANTS TypeOK PoolBound TransitRole
PROPERTIES OnlyAccepted TunnelKept RebindsAll
