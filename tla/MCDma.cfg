SPECIFICATION Spec
CONSTANTS
    OamSize = 3
    StartDelay = 2
    Pages <- MCPages
    Rom <- MCRom
    OpenBus = 255
    Addresses <- MCAddresses
    Values = {0, 255}
INVARIANTS
    LockedExactlyAsLong
    CopiesThePage
    ReadsLastWrite
