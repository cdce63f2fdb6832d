SPECIFICATION Spec
CONSTANTS
    p1 = p1
    p2 = p2
    r1 = r1
    r2 = r2
    Readers = {p1, p2}
    Revokers = {r1, r2}
    TTL = 2
    Horizon = 6
    MaxFaults = 1
SYMMETRY Symmetric
INVARIANTS
    CacheTypeOK
    RevokedIsRefused
PROPERTY
    StaleAtMostTTL
CHECK_DEADLOCK FALSE
