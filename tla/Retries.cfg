SPECIFICATION FairSpec
CONSTANTS
    Images = 1
    LastGroup = 1
    DecodeModes = {FALSE}
    Resend = TRUE
    Loads = {TRUE, FALSE}
    Settles = FALSE
    MaxTries = 2
    MaxAhead = 0
PROPERTIES
    ThreadsStop
