\* Two relays, an edge tunnelled to one of them that may crash, and one name
\* used on the edge and on the other relay.
CONSTANTS
    e1 = e1
    r1 = r1
    r2 = r2
    alice1 = alice1
    alice2 = alice2
    Relay = {r1, r2}
    Edge = {e1}
    User = {alice1, alice2}
    Home <- TwoHomes
    Nick <- TwoNicks
    Ttl = 1
    MaxSessions <- ThreeLogins
    MaxIds = 1
    MaxInFlight = 1
    MaxDelay = 1
    MayBind <- OneTunnel
    MayCrash = {e1}
SPECIFICATION FairSpec
INVARIANT TypeOK
PROPERTIES ReturnKept GoneLeave
