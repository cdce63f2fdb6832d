SPECIFICATION Spec
CONSTANTS
    u1 = u1
    t1 = t1
    t2 = t2
    w1 = w1
    w2 = w2
    w3 = w3
    sub = sub
    Users = {u1}
    Ops = {}
    Tasks = {t1, t2}
    Midjourneys = {}
    Keys = {}
    Owner <- BothOwner
    Opening <- MCOpening
    JobOpening <- BothJobs
    MaxWalletQuota = 20
    Amounts = {}
    MaxHour = 1
    MaxVersion = 0
    MaxSequence = 6
    Workers = {w1, w2, w3}
    Roles = {"poll", "sweep", "cancel"}
    Legacy = {}
    SubTask <- MCSubTask
    Actuals = {1, 3}
    MaxTransitions = 3
    MaxFaults = 1
    Crashes = TRUE
    Subs = {sub}
    SubOwner <- MCSubOwner
    SubTotal <- MCSubTotal
    SubOrder <- MCSubOrder
SYMMETRY SymmetricWorkers
CHECK_DEADLOCK FALSE
INVARIANTS
    AsyncTypeOK
    ChargeMatchesOutcome
    TaskChargeReconciles
    BooksAgree
PROPERTIES
    TerminalIsFinal
