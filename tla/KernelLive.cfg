CONSTANTS
    Entries = {1, 2, 3}
    runQueue = runQueue
    kbdQueue = kbdQueue
    inProgress = inProgress
    blockedQueue = blockedQueue
    Queues = {runQueue, kbdQueue, inProgress, blockedQueue}
    NULL = NULL
    Parent = Parent
    Blocks = {0, 3}
    NoBlock = NoBlock
    NoBytes = NoBytes
    SignedBlocks = {0}
    Residues = {NULL}
    BUF_SIZE = 2
    Codes = {key}
    Blank = Blank
    Workloads <- LiveBoots
SPECIFICATION FairSpec
INVARIANT DiskMatchesCounts
PROPERTIES
    EverySnakeRuns
    BusyReadsComplete
    BusyKeysArrive
CHECK_DEADLOCK FALSE
