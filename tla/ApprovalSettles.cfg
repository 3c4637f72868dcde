CONSTANTS
    a1 = a1
    a2 = a2
    alice = alice
    bob = bob
    t1 = t1
    t2 = t2
    t3 = t3
    Approvals <- TwoApprovals
    Admins <- OneAdmin
    Attempts <- OneAttempt
    Unsupported = {a2}
    MaxFaults = 1
SPECIFICATION FairSpec
PROPERTY
    ExecutionSettles
CHECK_DEADLOCK FALSE
