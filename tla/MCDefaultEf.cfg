CONSTANTS
    Item = {1, 2, 3}
    MaxLevel = 0
    Point <- MCPoint
    Dist <- MCDist
    M = 1
    M0 = 1
    Absent = Absent
    NoFilter = NoFilter
    DefaultEf = 1
    Queries <- MCQueries
SPECIFICATION Spec
INVARIANTS
    FindsCount
CHECK_DEADLOCK FALSE
