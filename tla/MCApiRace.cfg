SPECIFICATION Spec
CONSTANTS
    Requests = {h1, h2, h3}
    Calls <- AllCalls
    Seed <- SeedRows
    None = None
SYMMETRY Symmetry
INVARIANTS
    TypeOK
    SameTenant
    FanoutSameTenant
PROPERTIES
    TenantIsolation
    ChangesAreAsked
    FaultsNeedARace
    RepliesJustified
    FanoutJustified
CHECK_DEADLOCK FALSE
