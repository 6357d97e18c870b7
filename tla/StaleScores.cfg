SPECIFICATION Spec
CONSTANTS
    Cases <- MCStaleScores
    Scorings <- MCScorings
    Addresses = {1, 2}
INVARIANTS
    ScoresCurrent
