CONSTANTS
    a1 = a1
    a2 = a2
    alice = alice
    bob = bob
    t1 = t1
    t2 = t2
    t3 = t3
    Approvals <- OneApproval
    Admins <- TwoAdmins
    Attempts <- ThreeAttempts
    Unsupported = {}
    MaxFaults = 2
SPECIFICATION Spec
SYMMETRY CallSymmetry
INVARIANTS
    TypeOK
    ClaimantUnique
    AtMostOnce
    AnswersAreTrue
    EvidenceIsTrue
PROPERTY
    ImplementsLifecycle
CHECK_DEADLOCK FALSE
