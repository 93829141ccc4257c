SPECIFICATION Spec
CONSTANTS
    RoundId = {1, 2}
    NoSubject = NoSubject
    MaxRounds = 2
    MaxPending = 2
    RoundSeconds = 1
    ScopeIds = {11}
    ActionIds = {1, 2}
    Request = {"q1"}
    Resource = {"x"}
    NoId = NoId
    ScopeSeconds = 2
    MaxAttempts = 2
    EvidenceSeconds = 1
    MaxTime = 1
    MaxEpoch = 1
    MaxEdits = 1
INVARIANTS SendReviewed RowsValid
PROPERTY KeepsPromise
CHECK_DEADLOCK FALSE
