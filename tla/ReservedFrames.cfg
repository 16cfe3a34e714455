CONSTANTS
    FRAME_SIZE = 4
    TopFrame = 6
    MAX_MEM_REGIONS = 8
    MAX_EXCLUDE_REGIONS = 4
    Words = {0, 3}
    Machines <- FirmwareOnTop
SPECIFICATION Spec
INVARIANT
    OnlyRAM
CHECK_DEADLOCK FALSE
