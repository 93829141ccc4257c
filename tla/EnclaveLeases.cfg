CONSTANTS
    Call = {c1, c2}
    Controls = {}
    NoCall = NoCall
    Key <- LeaseKey
    NoSub = "none"
    Approver = {"ann", "bob"}
    Anonymous = "anonymous"
    Rule <- LeaseRule
    Floor <- LeaseFloor
    Guarded = {FALSE}
    MaxTtl = 2
    RateMax = 2
    Window = 2
    MaxSpent = 3
    MaxTime = 2
    MaxGen = 1
    MaxApprovals = 2
SYMMETRY Symmetry
SPECIFICATION Spec
INVARIANT AllowanceBounded
PROPERTIES LeaseNeverReset DispatchCovered
