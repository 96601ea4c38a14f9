SPECIFICATION Spec
CONSTANTS
    XRes = 8
    YRes = 2
    TicksPerLine = 64
    LinesPerFrame = 4
    OamTicks = 2
    Tile = 8
    FifoCapacity = 32
    CpuPeriod = 4
    SkipBoot = TRUE
    LcdcValues <- AllControl
    StatValues <- SomeSources
    LineValues = {1, 2}
    ScrollValues = {0, 3, 7}
    WindowXValues = {15}
INVARIANTS
    RasterInStep
    LinesComplete
    WindowBehindPicture
PROPERTIES
    VBlankOnTime
    StatOnRisingEdge
