CONSTANTS
    NoRequest = NoRequest
    Run = {w1, w2}
    Task = {t1}
    Slot = {1, 2}
    Request = {q1, q2}
    MaxTime = 1
    Lifetime = 1
    MaxGen = 1
    Gate = {"plain", "remote", "guarded"}
SPECIFICATION FairSpec
INVARIANTS TypeOK AtMostOnce ReceiptHonest NoOrphan
PROPERTIES DispatchAuthorized LedgerSpec RunsEnd
