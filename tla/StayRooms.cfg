SPECIFICATION Spec
CONSTANTS
    Workers = {w1, w2}
    Res = {r1, r2}
    Rooms = {k1, k2}
    None = None
    Ops = {"confirm", "assign", "move", "checkIn", "checkOut", "split", "channelCancel", "upgrade"}
SYMMETRY Symmetry
INVARIANTS
    InHouseHasRoom
CONSTRAINT OneCheckIn
