SPECIFICATION Spec
CONSTANTS
    Workers = {w1}
    Folios = {1, 2}
    Charges = {c1, c2, c3, c4}
    Keys = {k1}
    MaxPaid = 1
    MaxPosts = 2
    None = None
    Ops = {"post", "postKeyed", "pay", "reverse", "transfer", "move", "settle", "close", "audit", "lockFolio"}
SYMMETRY Symmetry
INVARIANTS
    BalanceAtRest
CHECK_DEADLOCK FALSE
