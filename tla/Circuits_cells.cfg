\* Nothing breaks, and still no cell is peeled.
CONSTANTS
    r1 = r1
    r2 = r2
    tgt = tgt
    s1 = s1
    s2 = s2
    k1 = k1
    k2 = k2
    c1 = c1
    c2 = c2
    c3 = c3
    Relay = {r1, r2}
    Chan = {k1, k2}
    NoChan = NoChan
    PoolSize = 1
    Send = {s1, s2}
    To <- MCTo
    Routes <- MCRoutes
    Id = {c1, c2, c3}
    NoId = NoId
    MaxFaults = 0
SYMMETRY Symmetry
CHECK_DEADLOCK FALSE
SPECIFICATION Spec
INVARIANT CellsPeeled
