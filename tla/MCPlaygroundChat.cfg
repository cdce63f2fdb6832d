SPECIFICATION FairSpec
CONSTANTS
    MaxSends = 2
    MaxChunks = 2
    MaxMounts = 2
    MaxEdits = 1
    MaxStored = 3
    Modes = {"stream", "plain"}
    RepeatedDeltas = FALSE
INVARIANTS
    ChatTypeOK
    OnlyOwnText
    CompleteAnswerIsWhole
    SpinnerHasRequest
PROPERTY
    GenerationEnds
CHECK_DEADLOCK FALSE
