CONSTANTS
    Entries = {1, 2, 3}
    runQueue = runQueue
    kbdQueue = kbdQueue
    inProgress = inProgress
    blockedQueue = blockedQueue
    Queues = {runQueue, kbdQueue, inProgress, blockedQueue}
    NULL = NULL
    Parent = Parent
    Blocks = {0, 3}
    NoBlock = NoBlock
    NoBytes = NoBytes
    SignedBlocks = {0}
    Residues = {NULL}
    BUF_SIZE = 4
    Codes = {k1, k2}
    Blank = Blank
    Workloads <- OneBlocks
SPECIFICATION Spec
INVARIANTS
    TypeOK
    NeverFaults
    EveryThreadAccounted
    HaltedCanWake
    NoKeyWhileWaiting
    ReadReturnsItsBlock
PROPERTIES
    ParentRunsLast
    TakesTurns
    KeysInOrder
