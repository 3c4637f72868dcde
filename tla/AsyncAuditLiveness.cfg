\* The store recovers after at most one failed attempt.
SPECIFICATION FairSpec
CONSTANTS
    e1 = e1
    e2 = e2
    e3 = e3
    e4 = e4
    c1 = c1
    c2 = c2
    Events <- TwoEvents
    Closers <- TwoClosers
    QueueSize = 1
    BatchSize = 2
    BatchIsTransaction = TRUE
    MaxFailures = 1
PROPERTIES
    AcknowledgedIsStored
    WriteReturns
    CloseReturns
CHECK_DEADLOCK FALSE
