CONSTANTS
    Entries = {1, 2, 3, 4}
    runQueue = runQueue
    kbdQueue = kbdQueue
    inProgress = inProgress
    blockedQueue = blockedQueue
    Queues = {runQueue, kbdQueue, inProgress, blockedQueue}
    NULL = NULL
    Parent = Parent
    Blocks = {0, 3}
    NoBlock = NoBlock
    NoBytes = NoBytes
    SignedBlocks = {0}
    Residues = {NULL}
    BUF_SIZE = 4
    Codes = {key}
    Blank = Blank
    Workloads <- KmainBoot
SPECIFICATION Spec
INVARIANT
    ExitedNeverRuns
CHECK_DEADLOCK FALSE
