SPECIFICATION Spec
CONSTANTS
    Workers = {w1, w2}
    Folios = {1, 2}
    Charges = {c1, c2, c3, c4, c5}
    Keys = {k1}
    MaxPaid = 1
    MaxPosts = 1
    None = None
    Ops = {"post", "postKeyed", "reverse", "transfer", "audit", "crash"}
SYMMETRY Symmetry
INVARIANTS
    TypeOK
    ReversedOnce
    AcceptedGroupWhole
PROPERTIES
    LockedNotReversed
CONSTRAINT OneGroup
CHECK_DEADLOCK FALSE
