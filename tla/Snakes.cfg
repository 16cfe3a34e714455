CONSTANTS
    rows = 3
    cols = 3
    TAB_SIZE = 1
    Blank = Blank
    MAX_VISIBLE_SNAKE = 7
    NULL = NULL
    Scrawl = Scrawl
    MaxScrawls = 1
    Setups <- Demos
SPECIFICATION Spec
INVARIANTS
    TypeOK
    SnakesApart
    ScreenShowsBoard
    WayOutIsFound
PROPERTIES
    SignalEndsOneSnake
