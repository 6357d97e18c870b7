SPECIFICATION Spec
CONSTANTS
    Cases <- MCCases
    Scorings <- MCScorings
    Addresses = {1, 2}
INVARIANTS
    TypeOK
    SelectionStable
    ThisRoundOnly
    SelectionOwn
    CorrectionsPersist
