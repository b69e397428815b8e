SPECIFICATION EngineSpec
CONSTANTS
    a1 = a1
    a2 = a2
    a3 = a3
    c1 = c1
    c2 = c2
    r1 = r1
    r2 = r2
    loud = loud
    quiet = quiet
    email = email
    NoItem = NoItem
    NoBucket = NoBucket
    DeliveryAttempt = {a1, a2}
    NotificationChannel = {c1}
    Recipient = {r1, r2}
    Worker = {w1, w2}
    Tenant = {loud}
    Kind = {email}
    ChannelOf <- MCChannelOf
    RecipientOf <- MCRecipientOf
    TenantOf <- MCTenantOf
    KindOf <- MCKindOf
    InitialLimit <- OneEach
    NewLimits = {2}
    Skipped = {c1}
    Scheduled = {}
    Deletable = {r2}
    MaxAttempts = 2
    MaxFaults = 1
    MaxRestarts = 1
    MaxUpdates = 1
SYMMETRY WorkerSymmetry
INVARIANTS
    EngineTypeOK
    InFlightExact
    QueuesServable
    SendingIsHeld
    ChannelTruthful
CHECK_DEADLOCK FALSE
