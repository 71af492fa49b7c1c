CONSTANTS
    p1 = p1
    p2 = p2
    c1 = c1
    c2 = c2
    e1 = e1
    e2 = e2
    e3 = e3
    s1 = s1
    s2 = s2
    s3 = s3
    Exchanges <- ThreeExchanges
    Conns <- ThreeConns
    PoolCap = 2
    Queries <- TwoQueries
    Proxies <- TwoProxies
    Policy = "sequential"
    MaxFails = 1
    MaxConcurrent = 0
    MaxDrops = 0
    MaxCount = 2
SPECIFICATION ForwardSpec
SYMMETRY QuerySymmetry
INVARIANTS OneProber ExclusiveConn NoCrossTalk
 
