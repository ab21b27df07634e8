CONSTANTS
    Item = {1, 2, 3}
    MaxLevel = 1
    Point <- MCPoint
    Dist <- MCDist
    M = 2
    M0 = 1
    Absent = Absent
    NoFilter = NoFilter
    DefaultEf = 1
    Queries <- MCQueries
SPECIFICATION MCSpec
INVARIANTS
    TypeOK
    NothingMissing
    FoundOnce
    ItselfOnlyByScan
    CancelledForgets
    FindsEnough
    DescentIsGreedy
    ScanIsExact
PROPERTIES
    QueryEnds
    QueryAdvances
CHECK_DEADLOCK FALSE
