SPECIFICATION Spec
CONSTANTS
    Workers = {w1, w2}
    Res = {r1}
    Rooms = {k1, k2}
    None = None
    Ops = {"confirm", "assign", "move", "cancel", "noShow", "auditNoShow", "checkIn", "checkOut", "payment", "expire", "audit", "staff"}
SYMMETRY Symmetry
INVARIANTS
    TypeOK
    InHouseHasRoom
    EffectsOnce
PROPERTIES
    Lifecycle
