CONSTANTS
    a1 = a1
    a2 = a2
    alice = alice
    bob = bob
    t1 = t1
    t2 = t2
    t3 = t3
    Approvals <- OneApproval
    Admins <- OneAdmin
    Attempts <- TwoAttempts
    Unsupported = {}
    MaxFaults = 0
SPECIFICATION Spec
INVARIANT
    CompletionsAreRecorded
CHECK_DEADLOCK FALSE
