SPECIFICATION Spec
CONSTANTS
    Earlier <- MCEarlier
    Request <- MCRequest
    Capacity = 2
    BatchMax = 2
    MaxSequence = 4
    MaxFaults = 1
    MaxOpens = 2
    Transport = {"spool"}
    BatchSize = 2
    Pump = "pump"
INVARIANTS ChainHolds ExportComplete AlertsExact
CHECK_DEADLOCK FALSE
PROPERTIES FlushHonest
