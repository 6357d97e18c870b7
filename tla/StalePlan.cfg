SPECIFICATION Spec
CONSTANTS
    Cases <- MCStalePlan
    Scorings <- MCScorings
    Addresses = {1, 2}
INVARIANTS
    ThisRoundOnly
