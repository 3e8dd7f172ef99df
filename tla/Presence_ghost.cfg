\* Two relays, an edge tunnelled to one of them, one user; nothing crashes.
CONSTANTS
    e1 = e1
    r1 = r1
    r2 = r2
    alice1 = alice1
    alice2 = alice2
    Relay = {r1, r2}
    Edge = {e1}
    User = {alice1}
    Home <- OneHome
    Nick <- OneNick
    Ttl = 1
    MaxSessions <- TwoLogins
    MaxIds = 1
    MaxInFlight = 1
    MaxDelay = 1
    MayBind <- OneTunnel
    MayCrash = {}
SPECIFICATION FairSpec
PROPERTY LogoffLeaves
