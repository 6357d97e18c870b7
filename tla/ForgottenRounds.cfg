SPECIFICATION Spec
CONSTANTS
    Configs <- MCForgetful
INVARIANTS
    CorrectionsKept
