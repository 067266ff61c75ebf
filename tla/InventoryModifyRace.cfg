SPECIFICATION Spec
CONSTANTS
    Workers = {w1, w2}
    Res = {r1, r2}
    Types = {t1}
    Feeds = {}
    Horizon = 2
    OverbookingPct = 0
    Rooms <- MCRooms
    FeedType <- MCFeedType
    Free = Free
    Paths = {"create", "modify"}
SYMMETRY Symmetry
INVARIANTS
    NoOversell
