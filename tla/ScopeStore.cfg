SPECIFICATION Spec
CONSTANTS
    Grant <- Grants
    Action <- Actions
    Evidence <- Reviewed
    NoId = NoId
    MaxDepth = 1
    MaxTime = 2
INVARIANTS TreeBudget EvidenceValid
PROPERTIES HistoryExtends WithdrawalFinal
