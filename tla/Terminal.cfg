CONSTANTS
    rows = 3
    cols = 2
    TAB_SIZE = 2
    Blank = Blank
    BUF_SIZE = 3
    LetterOf <- Letters
    CharOf <- Chars
    ShiftDown = {"2A", "36"}
    ShiftUp = {"AB", "B6"}
    OtherCodes = {"AA"}
    LeftShift <- Left
    RightShift <- Right
    Shifted <- UpperCase
    Lines <- Negative
    BootLines <- Boots
    INT_MAX = 127
    SHRT_MAX = 63
SPECIFICATION Spec
INVARIANTS
    TypeOK
    StoresOnScreen
    ScreenShowsPaper
    ShiftFollowsRightShift
