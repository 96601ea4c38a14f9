SPECIFICATION NoiseSpec
CONSTANTS
    Channels = {1, 2, 3, 4}
    MaxFrequency = 7
    FrequencyLow = 4
    MaxLength <- MCMaxLength
    LengthRange = 4
    MaxVolume = 3
    NoPace = 3
    Sweeps <- MCSweeps
    Lengths <- MCLengths
    Envelopes <- MCEnvelopes
    Lows <- MCLows
    Enables <- MCEnables
    Bits = 4
    ShortBits = 2
    NoiseBase = 1
    PeriodRange = 4
    TimerRange = 8
    Noises <- MCNoises
INVARIANTS
    NoEndlessNote
    VolumeFollowsEnvelope
    NoiseAlive
PROPERTIES
    SweepNeverWraps
    NotesEnd
