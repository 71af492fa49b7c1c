CONSTANTS
    i1 = i1
    i2 = i2
    i3 = i3
    None = None
    Versions <- AllVersions
    FirstVersion = "first"
    Unparsable = {"broken"}
    Unstartable = {"failing"}
    EditAnyTime = FALSE
    Slots <- ThreeSlots
    MaxEdits = 2
    MaxHups = 1
    one = one
    many = many
    none = none
    Pipelined <- ThreePipelined
    Parts <- PartsOf
    Channel = 1
    ATTEMPTS = 3
    p1 = p1
    p2 = p2
    c1 = c1
    c2 = c2
SPECIFICATION ServerSpec
CHECK_DEADLOCK FALSE
INVARIANTS NeverDown OneWatcher AnsweredBeforeClose NoFalseExit ConcurrencyLimit
PROPERTIES EditLoaded TermExits  QueryEnds
