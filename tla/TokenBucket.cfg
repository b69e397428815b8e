SPECIFICATION Spec
CONSTANTS
    Limit = 2
    Minute = 6
    Pauses = {1, 2, 3, 7}
    MaxNow = 9
    MaxCalls = 6
    MaxSetBacks = 1
INVARIANTS
    TypeOK
    RateBound
PROPERTY ImplementsRateLimit
