\* Weeks of two and a longest lock of four time units; deposits of 3, too few for any
\* power, of 5, and of both together, whose power is more than that of the parts.
SPECIFICATION Spec
CONSTANTS
    Users = {bob, carol}
    WEEK = 2
    MAXTIME = 4
    Deposits = {3, 5}
    Funds = 8
    MaxTime = 5
SYMMETRY UserSymmetry
INVARIANTS TypeOK TotalIsSum PowerMatchesLock
PROPERTY PowerFollowsLocks
