CONSTANTS
    Item = {1, 2}
    MaxLevel = 2
    M = 1
    M0 = 2
    EfConstruction = 2
    Alpha = 1
    Dist <- MCDist
    Thread = {t1, t2}
    Absent = Absent
    MaxBuilds = 2
SPECIFICATION FairSpec
PROPERTIES
    BuildAdvances
    BuildEnds
CHECK_DEADLOCK FALSE
