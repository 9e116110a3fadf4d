SPECIFICATION Spec
CONSTANTS
    MaxProc = 2
    MaxSnap = 1
    Frame = {k, f1, f2, f3, f4, f5}
    KernelRoot = k
    NoFrame = none
    Cap <- MCCap
    SpawnCap = "spawn"
    Image <- MCImage
    Ceiling <- MCCeiling
    Budget <- MCBudget
    Spawnable = {"worker"}
    KeyImages = {"doom"}
    Suites <- MCSuites
    Deadlines = {0, 1}
    MaxAge = 2
    TickUnits = 2
    MaxUart = 1
INVARIANT
    ResumesIntoUser
