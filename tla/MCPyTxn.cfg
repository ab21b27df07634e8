CONSTANTS
    Writer = {"writer of 1", "writer of 2", "writer of 2 with m = 5"}
    Index = {1, 2}
    IndexOf <- MCIndexOf
    Buildable = {"writer of 1", "writer of 2"}
    Reader = {r}
    Item = {1}
    Vector = {a, b}
    NoVector = NoVector
    NotBuilt = NotBuilt
    NoTxn = NoTxn
    Closed = Closed
SPECIFICATION Spec
INVARIANTS
    NothingLostSilently
    ReadersSeeBuilt
    UnmarkedIsLinked
PROPERTIES
    ExitPublishes
