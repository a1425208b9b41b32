SPECIFICATION Spec
CONSTANTS
    a = a  b = b  None = None
    Cameras = {a, b}
    Recipes <- AllRecipes
    MaxRuns = 1
    ResultKinds = {"ok", "failed", "biasFile", "foreign"}
CHECK_DEADLOCK FALSE
INVARIANTS
    TypeOK ReceiptsExactlyOnce SucceededMeansStored UnjoinedAborted BiasIsLatest
    FileNumbersDisjoint SafetyBeforeStep StartedChamberStopped
PROPERTIES ReportsSpec
