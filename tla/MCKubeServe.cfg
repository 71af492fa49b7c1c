CONSTANTS
    NoKey = NoKey
    NoSvc = NoSvc
    Keys <- MCKeys
    Family <- MCFamily
    Dashed <- MCDashed
    Strip <- MCStrip
    Outside <- MCOutside
    HostIps = {"j4"}
    Configs <- MCConfigs
    Stores <- MCStores
    Busy <- MCBusy
    Questions <- MCQuestions
    RawServices <- MCUpdates
    Asked <- MCAsked
    EndpointSets <- MCEndpointUpdates
    Pods <- MCPods
    Namespaces <- MCNamespaces
    MaxUpdates = 2
    s1 = s1
    s2 = s2
    x = x
    y = y
    z = z
    w = w
    ip1 = ip1
    ip2 = ip2
    NoObject = NoObject
    NoService = NoService
    Objects <- FourSlices
    Services <- TwoServices
    Ips <- TwoIps
    Values <- FixedValues
    LabelOf <- FixedLabel
    MaxChanges = 2
    MaxBreaks = 1
SPECIFICATION QueriesSpec
CHECK_DEADLOCK FALSE
INVARIANTS IndexExact KeptCurrent AnswersTrue  
