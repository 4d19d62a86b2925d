SPECIFICATION Spec
CONSTANTS
    Call = {c1, c2}
    Sub = {s1, s2}
    Report = {r1, r2}
    None = None
    Shared = Shared
    channel = channel
    Section <- MCSection
    MaxToolCalls = 3
    MaxTokens = 2
    MaxSubAgents = 2
    AnswerTokens = 2
    MaxTurns = 2
    MaxFacts = 2
    MaxTaskSpawns = 1
    Cap = 2
    MaxSaves = 3
    MaxNow = 2
SYMMETRY Symmetry
INVARIANTS
    AgentTypeOK
    AllowedWithinBudget
    OverspendBounded
    AcceptedReportIsReturned
    CancelledOnlyOnRequest
    StartedCallsAreCompleted
PROPERTY
    PrunesOldest
CHECK_DEADLOCK FALSE
