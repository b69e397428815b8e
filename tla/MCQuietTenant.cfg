SPECIFICATION FairEngineSpec
CONSTANTS
    a1 = a1
    a2 = a2
    a3 = a3
    c1 = c1
    c2 = c2
    r1 = r1
    r2 = r2
    loud = loud
    quiet = quiet
    email = email
    NoItem = NoItem
    NoBucket = NoBucket
    DeliveryAttempt = {a1, a2, a3}
    NotificationChannel = {c1, c2}
    Recipient = {r1, r2}
    Worker = {w1, w2}
    Tenant = {loud, quiet}
    Kind = {email}
    ChannelOf <- MCChannelOf
    RecipientOf <- MCRecipientOf
    TenantOf <- MCTenantOf
    KindOf <- MCKindOf
    InitialLimit <- LoudNone
    NewLimits = {}
    Skipped = {}
    Scheduled = {}
    Deletable = {r2}
    MaxAttempts = 2
    MaxFaults = 1
    MaxRestarts = 1
    MaxUpdates = 0
PROPERTY QuietTenantServed
CHECK_DEADLOCK FALSE
