SPECIFICATION FairSpec
CONSTANTS
    Consequences = {e1}
    Dispatchers = {w1, w2}
    Subs = {s1, s2}
    QueueWorkers = {v1, v2}
    MaxAttempts = 2
    Faults = {"listener", "unknown", "crash", "lease", "database", "deactivate"}
    MaxFaults = 2
    None = None
INVARIANTS
    TypeOK
    HandedOverUnlessSkipped
PROPERTIES
    CompletedIsFinal
    OutcomeIsFinal
    EverythingSettles
CHECK_DEADLOCK FALSE
