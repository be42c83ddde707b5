CONSTANTS
    Images <- MCImages
    Special <- MCSpecial
    kPageSize = 4
    kSlotStartVAddr = 4
    kSlotEndVAddr = 47
    MaxFaults = 2
SPECIFICATION Spec
INVARIANTS RegionsMatchSections LoadedAsLinked
CHECK_DEADLOCK FALSE
