CONSTANTS
    Cards = {k1, k2}
    Alone = k1
    First = First
    Nothing = Nothing
    Purge = Purge
    PurgeFailCap = 2
    MaxFaults = 3
SPECIFICATION MCSpec
INVARIANTS ToldIsTrue KeysAgree TurnNotCut RestoredIsWhole ErasedIsGone
PROPERTIES CardResolves DeletedIsErased
CHECK_DEADLOCK FALSE
