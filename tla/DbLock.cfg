\* Two processes that start, close and crash in any order; an id may recur.
CONSTANTS
    p1 = p1
    p2 = p2
    p3 = p3
    i1 = i1
    i2 = i2
    i3 = i3
    i4 = i4
    Process = {p1, p2}
    Pid = {i1, i2, i3}
    NoFile = NoFile
    Unreadable = Unreadable
    MaxCrashes = 2
SPECIFICATION FairSpec
INVARIANTS LockTypeOK Exclusive
PROPERTIES OpensAgain
