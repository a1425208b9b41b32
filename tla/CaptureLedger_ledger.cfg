SPECIFICATION Spec
CONSTANTS
    None = None  cold = cold
    Folders = {cold}
    Shots = 2
    MaxNumber = 4
    MaxRuns = 2
    MaxBias = 3
    MaxFaults = 2
CHECK_DEADLOCK FALSE
INVARIANTS TypeOK FramesKept CompleteMeansStored BiasFileIsVerified
