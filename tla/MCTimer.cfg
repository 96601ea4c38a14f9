SPECIFICATION Spec
CONSTANTS
    DivModulus = 1024
    TimaModulus = 3
    ClockBit <- RealClockBit
    ApuBit = 4
    ApuModulus = 2
    ReloadLatency = 4
    CpuPeriod = 4
    InitDiv <- RealInitDiv
INVARIANTS
    EdgeInSync
    OneAnswerPerOverflow
    ReloadTakesTMA
PROPERTIES
    RequestedByReload
    KeepsReloading
    KeepsClockingTheApu
