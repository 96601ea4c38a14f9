SPECIFICATION PixelSpec
CONSTANTS
    OamEntries = 4
    MaxLineSprites = 3
    Entries <- MCEntries
    Lines = {0}
    Heights = {8, 16}
    Tile = 2
    XRes = 2
    Rows <- MCRows
    Backgrounds = {0, 1}
    FineScrolls = {0, 1}
INVARIANTS
    ShowsTheFirst
    NearestSpriteShows
CHECK_DEADLOCK FALSE
