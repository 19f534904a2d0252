CONSTANTS
    Products = {p1, p2}
    Checkers = {c1, c2}
    Nothing = Nothing
    MaxTokens = 2
    MaxReports = 1
    MaxFaults = 1
    Alone = p1
SPECIFICATION MCSpec
INVARIANTS ProvenBeforeIssue MachineAgrees NeighboursApart
PROPERTIES RemovedIsGone ClaimEnds
CHECK_DEADLOCK FALSE
