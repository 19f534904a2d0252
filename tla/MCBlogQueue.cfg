CONSTANTS
    Posts = {p1, p2, p3}
    NoPost = NoPost
    Flows = {f1, f2}
    Horizon = 4
    Schedule = {1, 3, 4}
    MaxSlotAttempts = 2
    MaxPublishAttempts = 2
    MaxAttempts = 2
SPECIFICATION BlogQueueSpec
SYMMETRY Symmetry
PROPERTIES HolesAreChosen PromiseKept
CHECK_DEADLOCK FALSE
