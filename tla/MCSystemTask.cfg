SPECIFICATION FairSpec
CONSTANTS
    n1 = n1
    n2 = n2
    Nodes = {n1, n2}
    Survivor = n1
    MaxRows = 2
    TTL = 2
    MaxPause = 2
    Crashes = TRUE
    MaxErrors = 2
INVARIANTS
    RunnerTypeOK
    OrphanHasLock
PROPERTIES
    LeaseRespected
    OutcomeIsFinal
    EveryTaskEnds
