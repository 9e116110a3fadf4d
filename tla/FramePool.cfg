SPECIFICATION Spec
CONSTANTS
    PoolFrames = 5
    PoolBase = 3
    FrameSize = 2
    NoFrame = none
INVARIANTS
    TypeOK
    CountIsTaken
PROPERTIES
    Implements
