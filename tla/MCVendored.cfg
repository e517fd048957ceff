CONSTANTS
    WORD_BITS = 4
    LENGTHS = {1, 2, 3}
    ADDRESSES = 5
    Reverted = Reverted
    SetType = "address"
    SetInput = {0, 1, 2, 4}
    KeyType = "address"
    ValueType = "uint256"
    KeyInput = {0, 1, 2, 4}
    ValueInput = {0, 1, 15}
    KEY_BITS = 3
    VALUE_BITS = 2
    KEY_MAX_GAP = 3
    CkptValue = {1, 3}
    CkptDelta = {2}
    MaxBlockNumber = 9
    MaxDuplicates = 1
    Specs <- MCSpecs
    RequestInput <- MCRequests
    Parallel = 2
SPECIFICATION MCSpec
INVARIANTS
    SetIsSound
    ReadsAgree
    CastsAreExact
    LookupsAsTracked
    PushesAsCounted
    ExitCodeTells
PROPERTIES
    ImplementsSet
    ImplementsMap
    PastIsFixed
    EveryJobIsReported
CHECK_DEADLOCK FALSE
