SPECIFICATION Spec
CONSTANTS
    LowBanks = 2
    HighBanks = 2
    Mbc2Banks = 4
    Mbc3Banks = 4
    Mbc5Low = 2
    Mbc3Ram = 2
    ClockSelect = 3
    Mbc3Selects = 4
    Mbc5Ram = 4
    MaxBanks <- MCMaxBanks
    MaxRam <- MCMaxRam
    saga = saga
    diary = diary
    puzzle = puzzle
    torn = torn
    Roms <- MCRoms
    Values = {0, 255}
    Blank = 255
    Zero = 0
    NoFile = NoFile
    None = None
    OpenBus = OpenBus
    Reloads = FALSE
INVARIANTS
    RamSurvives
    WindowsShowTheGame
    EveryBankVisible
PROPERTIES
    ClockSurvives
