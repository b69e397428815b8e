SPECIFICATION FairEngineSpec
CONSTANTS
    a1 = a1
    a2 = a2
    a3 = a3
    c1 = c1
    c2 = c2
    r1 = r1
    r2 = r2
    loud = loud
    quiet = quiet
    email = email
    NoItem = NoItem
    NoBucket = NoBucket
    DeliveryAttempt = {a1, a2}
    NotificationChannel = {c1}
    Recipient = {r1, r2}
    Worker = {w1}
    Tenant = {loud}
    Kind = {email}
    ChannelOf <- MCChannelOf
    RecipientOf <- MCRecipientOf
    TenantOf <- MCTenantOf
    KindOf <- MCKindOf
    InitialLimit <- OneEach
    NewLimits = {}
    Skipped = {}
    Scheduled = {c1}
    Deletable = {}
    MaxAttempts = 2
    MaxFaults = 0
    MaxRestarts = 0
    MaxUpdates = 0
PROPERTY ScheduledIsSent
CHECK_DEADLOCK FALSE
