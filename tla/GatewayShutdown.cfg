\* The store may stay down; one request in the queue, one with the worker and
\* one blocked.
SPECIFICATION GatewayFairSpec
CONSTANTS
    e1 = e1
    e2 = e2
    e3 = e3
    deferredClose = deferredClose
    Events <- ThreeEvents
    Closers <- OneCloser
    QueueSize = 1
    BatchSize = 1
    BatchIsTransaction = TRUE
    MaxFailures = 0
INVARIANTS
    GatewayTypeOK
    RepositoriesOutliveQueue
    RefusedOnlyWhenRushed
PROPERTY
    GatewayExits
CHECK_DEADLOCK FALSE
