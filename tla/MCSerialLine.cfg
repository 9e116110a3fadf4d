SPECIFICATION FairSpec
CONSTANTS
    Byte = {0, 1, 2, 3, 4, 5, 6, 7, 8}
    AA = 7
    NN = 8
    Prefix = 2
    OpKill = 1
    Brace = 3
    RingDump = 4
    SeedKey = 5
    SeedPlain = 6
    Messages <- MCMessages
    MaxReq = 3
    MaxStallWaits = 1
    KeyRingSize = 2
    CounterSpan = 4
    MaxMessages = 3
    None = none
INVARIANTS
    TypeOK
    DispatchIntact
    RequestNotLost
    KeysKept
    KeysGenuine
PROPERTIES
    ReaderReturns
CHECK_DEADLOCK FALSE
