CONSTANTS
    c1 = c1
    c2 = c2
    Origin <- MCOrigin
    Hash <- MCHash
    MaxName = 5
    MaxHops = 8
    MaxOwners = 2
    Files <- MCFiles
    Questions <- MCQuestions
    Zones <- MCZones
    Overhead = 1
    MsgLimit = 5
    Clients <- MCClients
    To <- Listed
    AnyClient = FALSE
    MaxVersions = 2
SPECIFICATION ZonesSpec
CHECK_DEADLOCK FALSE
INVARIANTS RightKind AnswerJustified DenialProven WholeTransfer
