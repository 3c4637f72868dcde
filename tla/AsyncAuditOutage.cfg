\* The store never comes back: only the code's own steps are fair.
SPECIFICATION OutageSpec
CONSTANTS
    e1 = e1
    e2 = e2
    e3 = e3
    e4 = e4
    c1 = c1
    c2 = c2
    Events <- FourEvents
    Closers <- OneCloser
    QueueSize = 1
    BatchSize = 1
    BatchIsTransaction = FALSE
    MaxFailures = 0
PROPERTIES
    CancelledWriteReturns
CHECK_DEADLOCK FALSE
