CONSTANTS
    Item = {1, 2}
    MaxLevel = 1
    Vector <- MCVector
    NoVector = NoVector
    Distance <- MCDistance
    RawOf <- MCRawOf
    Recode <- MCRecode
    NoMeta = NoMeta
    Probe = 1
    MaxOps = 2
    ReusedAfter = {}
SPECIFICATION Spec
INVARIANTS
    TypeOK
    OpenIsValid
    OpenIsSearchable
    UnmarkedIsLinked
    OldDistanceLockedOut
PROPERTIES
    BuildOpens
    KeepsPromise
