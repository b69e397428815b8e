SPECIFICATION AloneSpec
CONSTANTS
    a1 = a1
    a2 = a2
    a3 = a3
    c1 = c1
    c2 = c2
    r1 = r1
    r2 = r2
    NoItem = NoItem
    DeliveryAttempt = {a1, a2, a3}
    NotificationChannel = {c1, c2}
    Recipient = {r1, r2}
    Worker = {w1, w2}
    ChannelOf <- MCChannelOf
    RecipientOf <- MCRecipientOf
    Skipped = {}
    Scheduled = {c2}
    Deletable = {}
    MaxAttempts = 2
    MaxFaults = 0
    MaxRestarts = 0
INVARIANT RollupAgrees
