CONSTANTS
    Item = {1, 2, 3}
    MaxLevel = 1
    M = 1
    M0 = 2
    EfConstruction = 3
    Alpha = 1
    Dist <- MCDist
    Thread = {t1, t2}
    Absent = Absent
    MaxBuilds = 2
SYMMETRY ThreadSymmetry
SPECIFICATION Spec
INVARIANTS
    TypeOK
    DegreeBound
    NothingMissing
    LinksLead
    LevelsNested
    EntryPointsStand
    BuiltIsWalkable
PROPERTIES
    BuildMeetsContract
CHECK_DEADLOCK FALSE
