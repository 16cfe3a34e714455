CONSTANTS
    PAGE_TABLE_SIZE = 2
    Room <- SmallRoom
    Frames = {f1, f2, f3, f4, f5}
    NULL = NULL
    Sizes = {1, 3}
    Words <- Pictures
    ZeroAvl = {TRUE}
SPECIFICATION Spec
INVARIANTS
    TypeOK
    FramesAccounted
    MarkedIsOwned
    NoStaleTranslation
PROPERTY
    ImplementsAddressSpace
CHECK_DEADLOCK FALSE
