SPECIFICATION Spec
CONSTANTS
    Consequences = {e1}
    Dispatchers = {w1}
    Subs = {s1}
    QueueWorkers = {v1}
    MaxAttempts = 1
    Faults = {"listener"}
    MaxFaults = 1
    None = None
INVARIANTS
    HandedOver
CHECK_DEADLOCK FALSE
