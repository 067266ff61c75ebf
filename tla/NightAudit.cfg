SPECIFICATION Spec
CONSTANTS
    Audits = {a1, a2}
    Stays = {s1, s2}
    Accepted = {s1}
    Extras = {s1}
    s1 = s1
    s2 = s2
    Arrival <- Arrivals
    Departure <- Departures
    LastDate = 2
    MaxFaults = 1
    None = None
SYMMETRY Symmetry
INVARIANTS
    TypeOK
    NightChargedOnce
    NothingForgotten
    ClosedNightLocked
PROPERTIES
    NoShowOnlyAbsent
CHECK_DEADLOCK FALSE
