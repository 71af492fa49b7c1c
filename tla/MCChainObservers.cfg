SPECIFICATION ChainSpec
CHECK_DEADLOCK FALSE
CONSTANTS
    V4 <- MCV4
    ReverseOf <- MCReverse
    MaxDepth = 8
    MaxImport = 2
    Globs <- MCGlobs
    Everyone <- MCEveryone
    NameOf <- MCNames
    NumOf <- MCNums
    NetOf <- MCNets
    RangeOf <- MCRanges
    ExprOf <- MCExprs
    RegexOf <- MCRegexes
    LikeOf <- MCLikes
    RecordOf <- MCRecords
    SearchOf <- MCSearch
    KeyOf <- MCKeys
    Corefiles <- MCCorefiles
    Confs <- MCConfOf
    Starts <- MCStarts
    Edits <- MCPlain
    HostsFiles <- MCHosts
    Queries <- MCQueries
    Ups <- MCUps
    Weights <- MCWeights
    Draws <- MCDraws
    MaxQueries = 2
    MaxEdits = 1
    MaxReloads = 1
INVARIANTS ObserversSeeClientQuestion
