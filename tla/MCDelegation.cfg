SPECIFICATION Spec
CONSTANTS
    MaxProc = 3
    MaxSnap = 1
    Frame = {k, f1, f2, f3, f4, f5}
    KernelRoot = k
    NoFrame = none
    Cap <- MCCap
    SpawnCap = "spawn"
    Image <- MCImage
    Ceiling <- MCCeiling
    Budget <- MCNoBudget
    Spawnable = {"redelegator", "worker"}
    KeyImages = {"doom"}
    Suites <- MCChain
    Deadlines = {}
    MaxAge = 0
    TickUnits = 1
    MaxUart = 1
INVARIANTS
    Attenuation
    AnchorBeforeEvents
