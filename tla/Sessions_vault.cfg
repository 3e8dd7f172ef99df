\* One user with two keys.
\* Everything may have been closed.
CONSTANTS
    t1 = t1
    ssh1 = ssh1
    ann = ann
    annAway = annAway
    p1 = p1
    p2 = p2
    k1 = k1
    k2 = k2
    Telnet = {t1}
    Ssh = {ssh1}
    NoConn = NoConn
    User = {ann}
    Client <- MCClient
    Remote = {annAway}
    Nick <- MCNick
    Password = {p1, p2}
    Key = {k1, k2}
    NoKey = NoKey
    OwnSalt = OwnSalt
    Console = Console
    General = General
    Line = {l1}
    MaxAttempts = 1
CHECK_DEADLOCK FALSE
SPECIFICATION Spec
INVARIANT VaultOpens

