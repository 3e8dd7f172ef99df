CONSTANTS
    r1 = r1
    r2 = r2
    b = b
    c = c
    g = g
    d = d
    Relay = {r1, r2}
    Edge = {b, c}
    Named = {r1, r2}
    Roams = {b}
    MayBind <- MCMayBind
    Start <- MCStart
    MaxIds = 2
    MaxMoves = 2
    Global = {g}
    Direct = {d}
    From <- MCFrom
    To <- MCTo
    HopLimit = 3
    Restarts = {r1}
    MaxSent = 1
SPECIFICATION FairSpec
INVARIANTS FloodReaches DirectArrives OwnOnce
PROPERTY Settle
CHECK_DEADLOCK FALSE
