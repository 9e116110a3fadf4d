SPECIFICATION Spec
CONSTANTS
    Frame = {1, 2, 3, 4, 5, 6, 7, 8, 9, 10, 11, 12, 13}
    KernelRam = kernel
    Window = window
    NoFrame = none
    Images <- MCImages
    Proc = {p1, p2}
    Snap = {s1}
INVARIANTS
    TypeOK
    FramesAccounted
    OwnedOnce
    UserReach
    CheckpointFaithful
CHECK_DEADLOCK FALSE
