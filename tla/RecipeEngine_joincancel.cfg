SPECIFICATION Spec
CONSTANTS
    a = a  b = b  None = None
    Cameras = {a, b}
    Recipes <- JoinRecipes
    MaxRuns = 1
    ResultKinds = {"ok"}
CHECK_DEADLOCK FALSE
INVARIANT ForkedAborted
