CONSTANTS
    Call = {c1, c2}
    Controls = {c1}
    NoCall = NoCall
    Key <- ReviewKey
    NoSub = "none"
    Approver = {"ann", "bob"}
    Anonymous = "anonymous"
    Rule <- ReviewRule
    Floor <- ReviewFloor
    Guarded = {TRUE}
    MaxTtl = 2
    RateMax = 2
    Window = 1
    MaxSpent = 2
    MaxTime = 0
    MaxGen = 1
    MaxApprovals = 1
SPECIFICATION FairSpec
INVARIANTS PermitSound
PROPERTIES DispatchCovered CallsEnd
