CONSTANTS
    Documents <- MCDocuments
    Principals <- MCPrincipals
    Roles = {"admin", "sales", "analyst"}
    Admin = "admin"
    Teams = {"it", "crm", "risk"}
    NoTeam = "none"
    MaxDocuments = 3
    None = None
SPECIFICATION Spec
INVARIANTS
    TypeOK
    RefusalsHaveCause
    TraceIsSettled
PROPERTIES
    ImplementsPolicy
CHECK_DEADLOCK FALSE
