SPECIFICATION Spec
CONSTANTS
    Workers = {w1, w2}
    Res = {r1, r2, r3}
    Types = {t1}
    Feeds = {f1}
    Horizon = 2
    OverbookingPct = 100
    Rooms <- MCRooms
    FeedType <- MCFeedType
    Free = Free
    Paths = {"create", "accept", "amend", "postNight", "release", "ical"}
SYMMETRY Symmetry
INVARIANTS
    TypeOK
    NoOversell
