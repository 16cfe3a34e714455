CONSTANTS
    PAGE_SIZE = 4
    HEAP = 3
    Sizes = {1, 3, 4}
    PoolSizes <- TwoPools
    Bytes <- Pictures
SPECIFICATION Spec
INVARIANTS
    TypeOK
    LinksSpellLists
    BlocksTile
PROPERTY
    ImplementsBlocks
CHECK_DEADLOCK FALSE
