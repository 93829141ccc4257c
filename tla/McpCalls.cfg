CONSTANTS
    Invocation = {i1}
    Run = {w1, w2}
    Bundle <- OneBundle
    Rule = {"r1", "r2"}
    Allowing = {"r1"}
    Kind = {"typed", "legacy"}
    Size = {1}
    Gate = {"guarded"}
    Ttl = 1
    Capacity = 1
    RecordLimit = 1
    MaxTime = 2
    MaxGen = 1
SPECIFICATION FairSpec
INVARIANTS CalledAtMostOnce ReceiptHonest LedgerReadable
 
