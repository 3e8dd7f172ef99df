\* Two messages to two nodes: the routes to n1 come with a KEM key, of n2
\* anything may be known.  The worker and one forced run, one restart.
CONSTANTS
    m1 = m1
    m2 = m2
    n1 = n1
    n2 = n2
    Msgs = {m1, m2}
    Targets = {n1, n2}
    Mesh = {n1, n2}
    To <- MCTo
    Kinds <- MCKinds
    Flushes = {f1}
    Worker = worker
    NoMsg = NoMsg
    MaxRetries = 2
    Ttl = 2
    Backoff <- MCBackoff
    BatchLimit = 1
    MaxCrashes = 1
SPECIFICATION FairSpec
INVARIANTS TypeOK NoSilentLoss
PROPERTIES SpoolsOnce EveryRowLeaves
