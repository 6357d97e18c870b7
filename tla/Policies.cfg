SPECIFICATION Spec
CONSTANTS
    Configs <- MCPolicies
INVARIANTS
    TypeOK
    ScheduleSound
    AnswerComplete
    CorrectionsKept
    WholeGroups
    SessionsReleased
    SpeculationKept
    SpeculationWithin
PROPERTIES
    Answered
    ImplementsService
