CONSTANTS
    i1 = i1
    i2 = i2
    c1 = c1
    v1 = v1
    v2 = v2
    own = own
    admin = admin
    seed = seed
    Instances <- TwoInstances
    Creations <- OneCreation
    Revocations <- TwoRevocations
    Names <- TwoNames
    SeedName = admin
    Seed = seed
    Migrations = 2
    MaxFaults = 1
    MaxCrashes = 1
SPECIFICATION Spec
INVARIANTS
    TypeOK
    MigrationsAtomic
    EventsNameTheirKey
PROPERTIES
    RevocationIsFinal
    InstancesServe
CHECK_DEADLOCK FALSE
