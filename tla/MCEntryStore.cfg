CONSTANTS
    BitsPerByte = 2
    WordBytes = 2
    Distance <- MCDistance
    NameOf <- MCNameOf
    CodecOf <- MCCodecOf
    HeaderBytes <- MCHeaderBytes
    BqPrefix <- MCBqPrefix
    Index = {1, 2}
    Item = {1, 4}
    Dims = 5
    Vector <- MCVector
    NoVector = NoVector
    Level = {0, 1}
    Moves <- MCMoves
    FromArroy = {2}
    MaxOps = 4
SPECIFICATION Spec
INVARIANTS
    CursorAscends
    VectorsReadBack
    MetadataReadsBack
    StoredAsAdded
    OnlyMarksPanic
    QuantizedDistances
    HostsAgree
PROPERTIES
    IndexesApart
    ConversionKeepsItems
CHECK_DEADLOCK FALSE
