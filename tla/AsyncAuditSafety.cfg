\* Per-event writes (SQLite, or any repository without WriteBatch).
SPECIFICATION Spec
CONSTANTS
    e1 = e1
    e2 = e2
    e3 = e3
    e4 = e4
    c1 = c1
    c2 = c2
    Events <- ThreeEvents
    Closers <- TwoClosers
    QueueSize = 1
    BatchSize = 2
    BatchIsTransaction = FALSE
    MaxFailures = 2
SYMMETRY CallerSymmetry
INVARIANTS
    TypeOK
    Conservation
    CloseMeansDrained
    RefusedLeavesNoTrace
    RowsInAcceptanceOrder
    DuplicatesBounded
PROPERTIES
    ImplementsLedger
CHECK_DEADLOCK FALSE
