SPECIFICATION IoSpec
CONSTANTS
    Bytes = {0, 255}
    NoDevice = 255
    Terminator = 0
    LogCapacity = 3
    SkipBoot = FALSE
    MaxSent = 3
    Buttons <- MCButtons
    Directions <- MCDirections
    Line <- MCLine
INVARIANTS
    LogHoldsWhatWasSent
    RequestedByFalls
