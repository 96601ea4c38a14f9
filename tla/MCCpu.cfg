SPECIFICATION Spec
CONSTANTS
    Programs <- AllPrograms
    Filler = 118
    Digits <- MCDigits
    Bytes <- MCBytes
    Pointers <- MCPointers
INVARIANTS
    NeverThrows
    DecimalArithmetic
    WideArithmetic
    BitsMove
    BranchesCompare
PROPERTIES
    ImplementsSequencer
