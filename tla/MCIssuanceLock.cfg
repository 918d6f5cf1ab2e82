CONSTANTS
    p1 = p1
    p2 = p2
    c1 = c1
    c2 = c2
    c3 = c3
    Pid = {p1, p2}
    Caller = {c1, c2, c3}
    home <- MCHome
    Unlocked = Unlocked
    Absent = Absent
    Unreadable = Unreadable
SPECIFICATION FairSpec
INVARIANTS LockTypeOK WorkIsGuarded
PROPERTIES FailsClosed EveryCallReturns ExclusiveSpec
