SPECIFICATION Spec
CONSTANTS
    Workers = {w1, w2}
    Cards = {c1}
    Externals = {x1}
    Claims = {r1, r2}
    Installments = {i1, i2}
    Amount = 2
    None = None
SYMMETRY Symmetry
CONSTRAINT InstallmentBound
INVARIANTS
    TypeOK
    LedgerTruth
    AllocationsBacked
    Announced
    FolioCredited
PROPERTIES
    NewestReleasedFirst
    NoMoneyAfterDenial
    GuestMoneyKept
CHECK_DEADLOCK FALSE
