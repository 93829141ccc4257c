SPECIFICATION Spec
CONSTANTS
    Attempt = {1, 2}
    Ttl = 2
INVARIANT LoginAuditAgrees
CHECK_DEADLOCK FALSE
