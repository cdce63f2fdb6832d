SPECIFICATION LedgerSpec
CONSTANTS
    u1 = u1
    o1 = o1
    o2 = o2
    t1 = t1
    m1 = m1
    k1 = k1
    Users = {u1}
    Ops = {o1, o2}
    Tasks = {t1}
    Midjourneys = {m1}
    Keys = {k1}
    Owner <- MCOwner
    Opening <- MCOpening
    JobOpening <- MCJobOpening
    MaxWalletQuota = 3
    Amounts = {0, 2}
    MaxHour = 2
    MaxVersion = 2
    MaxSequence = 3
SYMMETRY SymmetricRequests
CHECK_DEADLOCK FALSE
INVARIANTS
    LedgerTypeOK
    WalletReconciles
    SequenceGapless
    ChargedIffSettled
    JobChargeReconciles
    HoursReconcile
PROPERTIES
    FinishedIsFinal
