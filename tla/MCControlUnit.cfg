SPECIFICATION Spec
CONSTANTS
    AddrCount = 4
    IrqCount = 2
    Vector <- MCVector
    Kinds <- AllKinds
INVARIANTS
    DispatchCoherent
PROPERTIES
    DispatchWindow
    ServesWhatItClears
    ResumesUnlessPrefixed
    CallPushesReturn
    StackBalanced
