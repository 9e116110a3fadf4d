SPECIFICATION FairSpec
CONSTANTS
    Op <- MCOp
    Call <- MCCall
    RawHash <- MCRawHash
    NoId = noid
    OpSlots = 2
    Pid = {0, 1}
    SuitePids = {0}
    MaxFires <- MCMaxFires
    MaxLost = 1
    None = none
INVARIANTS
    TypeOK
    ReplayWindow
PROPERTIES
    RunEventually
CHECK_DEADLOCK FALSE
