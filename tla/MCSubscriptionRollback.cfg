SPECIFICATION SubSpec
CONSTANTS
    u1 = u1
    u2 = u2
    r1 = r1
    r2 = r2
    r3 = r3
    s1 = s1
    s2 = s2
    s3 = s3
    Requests = {r1, r2, r3}
    Subs = {s1}
    Customers = {u1}
    SubOwner <- OneOwner
    SubTotal <- OneTotal
    SubOrder <- OneOrder
    Consumptions = {1, 2}
    Deltas = {}
    Events = {"rollback"}
SYMMETRY SymmetricRequests
CHECK_DEADLOCK FALSE
INVARIANTS
    UsageAccounted
