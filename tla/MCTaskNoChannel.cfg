SPECIFICATION Spec
CONSTANTS
    u1 = u1
    t1 = t1
    t2 = t2
    w1 = w1
    w2 = w2
    w3 = w3
    sub = sub
    Users = {u1}
    Ops = {}
    Tasks = {t1}
    Midjourneys = {}
    Keys = {}
    Owner <- WalletOwner
    Opening <- MCOpening
    JobOpening <- WalletJobs
    MaxWalletQuota = 20
    Amounts = {}
    MaxHour = 1
    MaxVersion = 0
    MaxSequence = 6
    Workers = {w1, w2}
    Roles = {"poll", "nochannel"}
    Legacy = {}
    SubTask <- NoSubs
    Actuals = {1, 3}
    MaxTransitions = 4
    MaxFaults = 0
    Crashes = FALSE
    Subs = {}
    SubOwner <- NoSubs
    SubTotal <- NoSubs
    SubOrder <- NoOrder
SYMMETRY SymmetricWorkers
CHECK_DEADLOCK FALSE
INVARIANTS
    ChargeMatchesOutcome
