CONSTANTS
    Invocation = {i1}
    Run = {w1}
    Bundle <- ThreeBundles
    Rule = {"r1", "r2"}
    Allowing = {"r1"}
    Kind = {"typed", "withheld", "legacy"}
    Size = {0}
    Gate = {"guarded", "fixture"}
    Ttl = 2
    Capacity = 1
    RecordLimit = 1
    MaxTime = 2
    MaxGen = 1
SPECIFICATION Spec
PROPERTIES RegistryAdvances DispatchCovered DisclosureCovered
