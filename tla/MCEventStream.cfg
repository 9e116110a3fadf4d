SPECIFICATION FairSpec
CONSTANTS
    Base = 4
    M1 = 3
    M2 = 2
    Capacity = 3
    MaxFrameLen = 4
    Pieces <- MCPieces
    Fallback <- MCFallback
    Banners <- MCBanners
    Line <- MCLine
    MaxEvents = 3
    MaxAsked = 2
INVARIANTS
    TypeOK
    DecodedIsEmitted
    NoTruncation
    IdsInOrder
PROPERTIES
    AnswersArrive
CHECK_DEADLOCK FALSE
