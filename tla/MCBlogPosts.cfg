CONSTANTS
    Posts = {p1}
    NoPost = NoPost
    Flows = {f1, f2}
    Horizon = 1
    Schedule = {1}
    MaxSlotAttempts = 2
    MaxPublishAttempts = 2
    MaxAttempts = 2
SPECIFICATION PipelineSpec
INVARIANTS OneSender NothingUnseenGoesOut
PROPERTIES DueIsTried DraftEnds
