SPECIFICATION Spec
CONSTANTS
    Images = 2
    LastGroup = 2
    DecodeModes = {TRUE, FALSE}
    Resend = FALSE
    Loads = {TRUE}
    Settles = TRUE
    MaxTries = 1
    MaxAhead = 1
INVARIANTS
    TypeOK
    NoForeignPixels
    BasePresent
    ContextLive
    TasksServed
    AnswerOwnImage
    NothingLeaked
