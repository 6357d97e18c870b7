SPECIFICATION Spec
CONSTANTS
    Images = 2
    LastGroup = 1
    DecodeModes = {FALSE}
    Resend = TRUE
    Loads = {TRUE}
    Settles = TRUE
    MaxTries = 2
    MaxAhead = 0
INVARIANTS
    AnswersMatched
