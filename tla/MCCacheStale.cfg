CONSTANTS
    k1 = k1
    k2 = k2
    c1 = c1
    c2 = c2
    f1 = f1
    f2 = f2
    f3 = f3
    Keys <- OneKey
    Callers <- TwoCallers
    Flags <- ThreeFlags
    Messages <- StaleMessages
    Cap = 1
    PTTL = 1
    MinPTTL = 1
    NTTL = 1
    MinNTTL = 1
    FailTTL = 1
    Prefetch = 0
    Duration = 2
    Percentage = 50
    StaleUpto = 1
    Verify = FALSE
    KeepTTL = FALSE
    DisableSuccess = {}
    DisableDenial = {}
    Latency = 1
    MaxTime = 4
SPECIFICATION Spec
SYMMETRY ThreadSymmetry
INVARIANTS BoundedStaleness
PROPERTIES LiveSuccessKept
