CONSTANTS
    u1 = u1
    Products = {p1}
    Sites = {p1}
    Users = {u1}
    Owner <- MCOwner
    Workers = {w1, w2}
    JobIds = {j1,j2}
    TurnIds = {t1}
    Rent = 1
    Month = 1
    MaxCharge = 0
    SleepFailCap = 1
    MaxBalance = 1
    MaxReports = 1
SPECIFICATION EndingsSpec
PROPERTIES ProvisioningEnds DeletedGoesDark ClaimedTurnEnds
CHECK_DEADLOCK FALSE
