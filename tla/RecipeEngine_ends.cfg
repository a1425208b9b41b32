SPECIFICATION FairSpec
CONSTANTS
    a = a  b = b  None = None
    Cameras = {a, b}
    Recipes <- EndingRecipes
    MaxRuns = 2
    ResultKinds = {"ok", "failed"}
CHECK_DEADLOCK FALSE
INVARIANT StoresOwnResults
PROPERTY CancelledRunEnds
