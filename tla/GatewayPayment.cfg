SPECIFICATION Spec
CONSTANTS
    Workers = {w1, w2, w3}
    Amount = 3
    Gateways = {"stripe", "tokenized", "hosted"}
SYMMETRY Symmetry
CONSTRAINT WorkBound
INVARIANTS
    TypeOK
    RefundsReconciled
    PaymentTruth
    DepositBacked
PROPERTIES
    NothingStranded
CHECK_DEADLOCK FALSE
