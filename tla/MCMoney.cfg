CONSTANTS
    Users <- MCUsers
    Members <- MCMembers
    NoOne = NoOne
    Payments = {"p1", "p2"}
    NoPayment = NoPayment
    Tasks = {"t1", "t2"}
    NoTask = NoTask
    Callers = {c1, c2}
    BuyerOf <- MCBuyers
    OwnerOf <- MCOwners
    Upper <- MCUpper
    Engaged = {"ann"}
    Pack = 2
    Extra = 1
    Gift = 2
    Cost = 1
    WithdrawMin = 2
    PayoutMin = 1
    MaxClaims = 3
    MaxFailures = 2
SPECIFICATION MCSpec
INVARIANTS ClaimedOnce NothingBurns OneFailureOneLoss GiftsOnce
PROPERTIES PaidIsRecorded
CHECK_DEADLOCK FALSE
