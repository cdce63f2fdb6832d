SPECIFICATION FairSpec
CONSTANTS
    t1 = t1
    t2 = t2
    Tabs = {t1, t2}
    MaxSessions = 2
    MaxActs = 2
    MaxOrphans = 1
    MaxLost = 1
    HasLocks = TRUE
INVARIANTS
    AuthTypeOK
    NoTokenRefused
    SignedOutStaysOut
    WaitsForRefresh
PROPERTY
    TabsConverge
CHECK_DEADLOCK FALSE
