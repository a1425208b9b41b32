SPECIFICATION Spec
CONSTANTS
    c1 = c1  c2 = c2
    Cells <- MCCells
    Rank <- MCRank
    Steps = {1, 2}
    Template <- MCTemplate
    Forked = {1}
    Plans <- MCPlans
    MaxRuns = 2
    Times = {1, 4}
    Zone = 1
    MaxFaults = 1
INVARIANTS
    TypeOK StoredInOrder DoneMeansEveryStep DoneOnce ClosedIsTrue NothingLeftRunning
PROPERTY BoardSpec
