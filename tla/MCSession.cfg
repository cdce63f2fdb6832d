SPECIFICATION FairSpec
CONSTANTS
    u1 = u1
    r1 = r1
    r2 = r2
    tok = tok
    sub = sub
    Users = {u1}
    Ops = {r1, r2}
    Tasks = {}
    Midjourneys = {}
    Keys = {}
    Owner <- MCOwner
    Opening <- MCOpening
    JobOpening <- NoJobs
    MaxWalletQuota = 8
    Amounts = {3}
    MaxHour = 1
    MaxVersion = 0
    MaxSequence = 2
    Tokens = {tok}
    TokenOf <- MCTokenOf
    TokenOpening <- MCTokenOpening
    Unlimited = {}
    Playground = {}
    ForcePreConsume = {r1}
    TrustQuota = 2
    Preference <- Mixed
    Asked = {0, 2, 4}
    Usages = {1, 3}
    Subs = {sub}
    SubOwner <- MCSubOwner
    SubTotal <- MCSubTotal
    SubOrder <- MCSubOrder
    Strict = {}
    FaultPoints <- SessionFaults
    MaxFaults = 2
    Crashes = TRUE
CHECK_DEADLOCK FALSE
INVARIANTS
    SessionTypeOK
    SettledChargesActual
    TokensAgreeWithFunding
PROPERTIES
    PreConsumeNeverOverdraws
    ImplementsMetering
    ReservationReleased
