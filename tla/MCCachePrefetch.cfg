CONSTANTS
    k1 = k1
    k2 = k2
    c1 = c1
    c2 = c2
    f1 = f1
    f2 = f2
    f3 = f3
    Keys <- TwoKeys
    Callers <- OneCaller
    Flags <- ThreeFlags
    Messages <- PrefetchMessages
    Cap = 1
    PTTL = 2
    MinPTTL = 1
    NTTL = 1
    MinNTTL = 1
    FailTTL = 0
    Prefetch = 2
    Duration = 2
    Percentage = 50
    StaleUpto = 1
    Verify = TRUE
    KeepTTL = FALSE
    DisableSuccess = {}
    DisableDenial = {}
    Latency = 1
    MaxTime = 3
SPECIFICATION FairSpec
INVARIANTS NoTTLExtension
PROPERTIES UsesInflightProtocol QueryEnds
