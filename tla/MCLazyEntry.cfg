CONSTANTS
    Item = {1, 2, 3}
    MaxLevel = 1
    M = 1
    M0 = 2
    EfConstruction = 3
    Alpha = 1
    Dist <- MCDist
    Thread = {t1, t2}
    Absent = Absent
    MaxBuilds = 2
SYMMETRY ThreadSymmetry
SPECIFICATION Spec
PROPERTIES
    RoomyEntryKeepsLinks
CHECK_DEADLOCK FALSE
