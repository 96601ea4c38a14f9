SPECIFICATION Spec
CONSTANTS
    AddrCount = 4
    IrqCount = 1
    Vector <- MCVector
    Kinds <- PrefixKinds
PROPERTIES
    ResumesAtInstruction
