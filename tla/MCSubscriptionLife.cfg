SPECIFICATION SubSpec
CONSTANTS
    u1 = u1
    u2 = u2
    r1 = r1
    r2 = r2
    r3 = r3
    s1 = s1
    s2 = s2
    s3 = s3
    Requests = {r1, r2}
    Subs = {s1, s2, s3}
    Customers = {u1, u2}
    SubOwner <- LifeOwner
    SubTotal <- LifeTotal
    SubOrder <- LifeOrder
    Consumptions = {1, 2}
    Deltas <- SettlementDeltas
    Events <- LifeEvents
SYMMETRY LifeSymmetry
CHECK_DEADLOCK FALSE
INVARIANTS
    SubTypeOK
    UsedWithinTotal
PROPERTIES
    EarliestExpiryFirst
