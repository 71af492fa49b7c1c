CONSTANTS
    k1 = k1
    k2 = k2
    c1 = c1
    c2 = c2
    c3 = c3
    f1 = f1
    f2 = f2
    f3 = f3
    f4 = f4
    Keys <- TwoKeys
    Callers <- ThreeCallers
    Flags <- FourFlags
    a = a
    b = b
    ip1 = ip1
    ip2 = ip2
    NoObject = NoObject
    Objects <- TwoObjects
    Ips <- TwoIps
    Values <- AllValues
    MaxChanges = 2
    MaxBreaks = 1
    KeepEmpty = FALSE
    None = None
    N = 2
    SerialSpace = 16
    InitialSerials = {0, 15}
    Refresh = 2
    Retry = 1
    Expire = 3
    Jitter = 1
    Backoff = 1
    Exchange = 1
    MaxPrimaryChanges = 2
    MaxNotifies = 1
    Resign = 3
    Validity = 6
    ResignJitter = 1
    SerialLead = 0
    MaxTicks = 9
    MaxEdits = 2
SPECIFICATION TasksSpec
CHECK_DEADLOCK FALSE
INVARIANTS IndexSound Mirrors ServedAge  
PROPERTIES ImplementsSingleFlight NoKeyStuck Converges SecondaryConverges
