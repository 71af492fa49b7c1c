CONSTANTS
    i1 = i1
    i2 = i2
    i3 = i3
    None = None
    Versions <- AllVersions
    FirstVersion = "first"
    Unparsable = {"broken"}
    Unstartable = {"failing"}
    EditAnyTime = TRUE
    Slots <- ThreeSlots
    MaxEdits = 2
    MaxHups = 0
SPECIFICATION FairSpec
CHECK_DEADLOCK FALSE
PROPERTIES EditLoaded
