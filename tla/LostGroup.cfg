SPECIFICATION Spec
CONSTANTS
    Images = 1
    LastGroup = 2
    DecodeModes = {TRUE}
    Resend = FALSE
    Loads = {TRUE}
    Settles = TRUE
    MaxTries = 1
    MaxAhead = 0
INVARIANTS
    Cumulative
