SPECIFICATION Spec
CONSTANTS
    Workers = {w1, w2, w3}
    Res = {r1, r2}
    Types = {t1, t2}
    Feeds = {}
    Horizon = 1
    OverbookingPct = 0
    Rooms <- MCRooms
    FeedType <- MCFeedType
    Free = Free
    Paths = {"accept", "channelNew", "connectBook", "modify", "channelModify", "connectModify", "amend", "upgrade", "split", "postOnce"}
SYMMETRY LockSymmetry
INVARIANTS
    PostingOutsideCycles
CONSTRAINT OneOfEach
