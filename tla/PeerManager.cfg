\* Three addresses on three hosts, a pool of two; a1 is a bootstrap peer,
\* a3 uses one of our ports; one write of the file may land late.
CONSTANTS
    a1 = a1
    a2 = a2
    a3 = a3
    h1 = h1
    h2 = h2
    h3 = h3
    Addr = {a1, a2, a3}
    Host = {h1, h2, h3}
    HostOf <- MCHostOf
    OwnPort = {a3}
    OwnHosts = {}
    Bootstrap = {a1}
    Capacity = 2
    StartScore = 4
    GossipScore = 2
    Penalty = 1
    SampleScore = 3
    MaxFailures = 1
    LoadFailures = 1
    NoHost = NoHost
    FailureCap = 1
    MaxLate = 1
SPECIFICATION Spec
INVARIANTS TypeOK PoolBound PoolClean SampleHeard
PROPERTY GossipNeverForgives
