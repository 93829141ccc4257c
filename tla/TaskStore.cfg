\* One task of two slots, two requests, a clock that runs past the expiry.
CONSTANTS
    Task = {t1}
    Slot = {s1, s2}
    Request = {q1, q2}
    NoRequest = NoRequest
    MaxTime = 3
    Lifetime = 2
SYMMETRY Symmetry
SPECIFICATION HistorySpec
INVARIANTS TypeOK NeverCorrupt ExpiryFinal
PROPERTIES ChargeIrreversible AuthorityShrinks
