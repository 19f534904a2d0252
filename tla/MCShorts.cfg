CONSTANTS
    Attempts = {a1, a2}
    MaxTries = 2
    MaxPresses = 1
SPECIFICATION MCSpec
INVARIANTS NoPostTwice OneUpload
PROPERTIES LetterWarns PublishingEnds
CHECK_DEADLOCK FALSE
