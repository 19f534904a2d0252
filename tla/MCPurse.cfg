CONSTANTS
    u1 = u1
    Products = {p1}
    Sites = {p1}
    Users = {u1}
    Owner <- MCOwner
    Workers = {w1, w2}
    JobIds = {j1, j2}
    TurnIds = {t1, t2}
    Rent = 1
    Month = 2
    MaxCharge = 1
    SleepFailCap = 1
    MaxBalance = 3
    MaxReports = 1
SPECIFICATION PurseSpec
SYMMETRY Symmetry
INVARIANTS PaidAhead ChargedOnce BlockedRunsNoTurn
PROPERTY TenancyHolds
