---------------------------- MODULE AudioChannel ----------------------------
(***************************************************************************)
(* One of the four channels of the APU (src/src/audio/pulse_channel.cpp,   *)
(* wave_channel.cpp and noise_channel.cpp) under the frame sequencer that  *)
(* clocks them (APU::increaseDiv, src/src/audio/apu.cpp line 119): the     *)
(* length counter that silences a note, the volume envelope, which the     *)
(* wave channel lacks, and channel 1's frequency sweep.  The program may   *)
(* write any register between two steps of the sequencer, and trigger a    *)
(* note at any time.  The waveforms are left out, but for the noise        *)
(* (module NoiseChannel).                                                  *)
(***************************************************************************)
EXTENDS Integers

CONSTANTS
    Channels,                   \* 1..4: 1 and 2 pulses, 3 the wave, 4 the noise
    MaxFrequency,               \* 2047
    FrequencyLow,               \* 256: values of NR13; NR14 holds the rest
    MaxLength,                  \* of each channel: 64, 64, 256, 64
    LengthRange,                \* 256: lengthTimer has eight bits
    MaxVolume,                  \* 15
    NoPace,                     \* 8: the sweep timer's start for a pace of zero
    Sweeps, Lengths, Envelopes, Lows, Enables
        \* what the program writes to each channel's NRx0, NRx1, NRx2, NRx3 and
        \* to bit 6 of its NRx4

\* The registers' fields.
Sweep    == [pace : Nat, down : BOOLEAN, step : Nat]
Envelope == [volume : 0..MaxVolume, up : BOOLEAN, period : 0..255]

ASSUME ChannelAssumption ==
    /\ Channels \subseteq 1..4
    /\ {MaxFrequency, FrequencyLow, LengthRange, MaxVolume, NoPace} \subseteq Nat \ {0}
    /\ (MaxFrequency + 1) % FrequencyLow = 0
    /\ \A c \in Channels :
           /\ Sweeps[c] \subseteq Sweep
           /\ MaxLength[c] \in Nat /\ Lengths[c] \subseteq 0..(MaxLength[c] - 1)
           /\ \A e \in Envelopes[c] : e \in Envelope /\ (c = 3 => e.period = 0)
           /\ Lows[c] \subseteq 0..(FrequencyLow - 1)
           /\ Enables[c] \subseteq BOOLEAN

VARIABLES
    channel,                                \* which one this is
    div,                                    \* APU: its bits 8 to 10
    sweep, length, envelope, frequency,     \* NRx0 to NRx4
    lengthOn,                               \* NRx4, bit 6
    enabled,
    lengthTimer,
    envelopeTimer, volume, envelopeIncrease,
    sweepTimer, currentSweepPace, sweepEnabled, shadowRegister

\* History.
VARIABLES
    touched,    \* the length was set or a note triggered
    age         \* envelope steps since the envelope was set or triggered, or -1

registers == <<channel, sweep, length, envelope, lengthOn>>
lengthVars == <<enabled, lengthTimer, touched>>
envelopeVars == <<envelopeTimer, volume, envelopeIncrease, age>>
sweepVars == <<sweepTimer, currentSweepPace, sweepEnabled, shadowRegister>>
vars == <<div, registers, frequency, lengthVars, envelopeVars, sweepVars>>

\* PulseChannel(true): channel 1, the one with a sweep.
IsFirst == channel = 1
IsWave  == channel = 3
IsNoise == channel = 4

\* Only the wave channel's constructor leaves its registers as it finds them.
Init ==
    /\ channel \in Channels
    /\ div = 0
    /\ sweep = [pace |-> 0, down |-> FALSE, step |-> 0]
    /\ IF IsWave
       THEN /\ length \in Lengths[channel] /\ envelope \in Envelopes[channel]
            /\ frequency \in 0..MaxFrequency /\ lengthOn \in Enables[channel]
            /\ volume = 0
       ELSE /\ length = 0 /\ envelope = [volume |-> 0, up |-> FALSE, period |-> 0]
            /\ frequency = 0 /\ lengthOn = FALSE
            /\ volume = MaxVolume
    /\ enabled = TRUE /\ lengthTimer = 0
    /\ envelopeTimer = 0 /\ envelopeIncrease = TRUE
    /\ sweepTimer = 0 /\ currentSweepPace = 0 /\ sweepEnabled = FALSE /\ shadowRegister = 0
    /\ touched = FALSE /\ age = -1

-----------------------------------------------------------------------------
(***************************************************************************)
(* lengthTimerTick                                                         *)
(***************************************************************************)
\* Mutant: the note outlives its length by a step.
SilencedLate(left) == lengthTimer = 0

Silenced(left) == left = 0

LengthTick ==
    /\ IF lengthOn /\ lengthTimer # 0
       THEN /\ lengthTimer' = lengthTimer - 1
            /\ enabled' = (enabled /\ ~Silenced(lengthTimer'))
       ELSE UNCHANGED <<lengthTimer, enabled>>
    /\ UNCHANGED touched

-----------------------------------------------------------------------------
(***************************************************************************)
(* envelopeTimerTick                                                       *)
(***************************************************************************)
\* Bound: once the volume can move no further, age need not grow.
OldAge == envelope.period * (MaxVolume + 1)

Louder(v)  == IF v < MaxVolume THEN v + 1 ELSE v
Quieter(v) == IF v > 0 THEN v - 1 ELSE v

EnvelopeTick ==
    /\ IF envelope.period = 0 THEN UNCHANGED <<envelopeTimer, volume>>
       ELSE IF envelopeTimer = 1
       THEN /\ envelopeTimer' = envelope.period
            /\ volume' = IF envelopeIncrease THEN Louder(volume) ELSE Quieter(volume)
       ELSE envelopeTimer' = (envelopeTimer - 1) % 256 /\ UNCHANGED volume
    /\ age' = IF age \in 0..(OldAge - 1) THEN age + 1 ELSE age
    /\ UNCHANGED envelopeIncrease

-----------------------------------------------------------------------------
(***************************************************************************)
(* sweepTimerTick                                                          *)
(***************************************************************************)
\* frequencyCalculation
Shifted(current, s) ==
    LET delta == current \div 2^s.step
    IN  IF s.down THEN current - delta ELSE current + delta

\* Mutant: one too many.
OverflowsLate(f) == f > MaxFrequency + 1

Overflows(f) == f > MaxFrequency

\* The look ahead after a step.
LookAhead(f) == ~Overflows(Shifted(f, sweep))

\* setFrequency keeps the bits NR13 and NR14 have.
SetFrequency(f) == frequency' = f % (MaxFrequency + 1)

SweepOver ==
    /\ sweepTimer' = currentSweepPace
    /\ currentSweepPace' = sweep.pace
    /\ IF currentSweepPace = 0 \/ sweep.step = 0
       THEN UNCHANGED <<frequency, shadowRegister, sweepEnabled>>
       ELSE LET newFreq == Shifted(shadowRegister, sweep)
            IN  IF Overflows(newFreq)
                THEN sweepEnabled' = FALSE /\ UNCHANGED <<frequency, shadowRegister>>
                ELSE /\ shadowRegister' = newFreq
                     /\ SetFrequency(newFreq)
                     /\ sweepEnabled' = LookAhead(newFreq)

SweepTick ==
    IF ~IsFirst \/ ~sweepEnabled THEN UNCHANGED <<frequency, sweepVars>>
    ELSE IF sweepTimer <= 1 THEN SweepOver
    ELSE sweepTimer' = sweepTimer - 1
         /\ UNCHANGED <<frequency, currentSweepPace, sweepEnabled, shadowRegister>>

-----------------------------------------------------------------------------
(***************************************************************************)
(* APU::increaseDiv, which the timer calls on every falling edge of its    *)
(* divider's bit 4.  Only bits 8 to 10 of the count matter.                *)
(***************************************************************************)
Falls(b) == (div + 1) % 2^(b + 1) = 0

IncreaseDiv ==
    /\ div' = (div + 1) % 8
    /\ IF Falls(2) /\ ~IsWave THEN EnvelopeTick ELSE UNCHANGED envelopeVars
    /\ IF Falls(0) THEN LengthTick ELSE UNCHANGED lengthVars
    /\ IF Falls(1) THEN SweepTick ELSE UNCHANGED <<frequency, sweepVars>>
    /\ UNCHANGED registers

-----------------------------------------------------------------------------
(***************************************************************************)
(* write, of each channel                                                  *)
(***************************************************************************)
WriteSweep ==
    /\ IsFirst
    /\ sweep' \in Sweeps[channel]
    /\ UNCHANGED <<channel, div, length, envelope, lengthOn, frequency, lengthVars, envelopeVars,
                   sweepTimer, currentSweepPace, sweepEnabled, shadowRegister>>

\* resetLengthTimer, into eight bits: the wave's longest length is held as none.
LengthOf(written) == (MaxLength[channel] - written) % LengthRange

WriteLength ==
    /\ length' \in Lengths[channel]
    /\ lengthTimer' = LengthOf(length')
    /\ touched' = TRUE
    /\ UNCHANGED <<channel, div, sweep, envelope, lengthOn, frequency, enabled, envelopeVars, sweepVars>>

\* Mutant: the step under way finishes first.
PeriodKept(e) == envelopeTimer

PeriodOf(e) == e.period

\* NR32 has a volume and no more: an envelope that stands still.
WriteEnvelope ==
    /\ envelope' \in Envelopes[channel]
    /\ volume' = envelope'.volume
    /\ envelopeIncrease' = envelope'.up
    /\ envelopeTimer' = PeriodOf(envelope')
    /\ age' = 0
    /\ UNCHANGED <<channel, div, sweep, length, lengthOn, frequency, lengthVars, sweepVars>>

WriteLow ==
    /\ ~IsNoise
    /\ \E low \in Lows[channel] : frequency' = (frequency \div FrequencyLow) * FrequencyLow + low
    /\ UNCHANGED <<div, registers, lengthVars, envelopeVars, sweepVars>>

\* NRx4: the frequency's high bits, the length enable, and the trigger bit.
SetHigh ==
    IF IsNoise THEN UNCHANGED frequency
    ELSE \E high \in 0..((MaxFrequency + 1) \div FrequencyLow - 1) :
             frequency' = (high * FrequencyLow) + (frequency % FrequencyLow)

WriteControl ==
    /\ SetHigh
    /\ lengthOn' \in Enables[channel]
    /\ UNCHANGED <<channel, div, sweep, length, envelope, lengthVars, envelopeVars, sweepVars>>

\* Mutant: the length counter is only reloaded by NRx1.
ReloadedNever == lengthTimer

Reloaded == IF lengthTimer = 0 THEN LengthOf(length) ELSE lengthTimer

SweepTrigger ==
    /\ shadowRegister' = frequency'
    /\ currentSweepPace' = sweep.pace
    /\ sweepTimer' = IF sweep.pace = 0 THEN NoPace ELSE sweep.pace
    /\ sweepEnabled' = /\ sweep.pace # 0 \/ sweep.step # 0
                       /\ sweep.step > 0 => ~Overflows(Shifted(frequency', sweep))

Trigger ==
    /\ SetHigh
    /\ lengthOn' \in Enables[channel]
    /\ enabled' = TRUE
    /\ lengthTimer' = Reloaded
    /\ envelopeTimer' = envelope.period
    /\ volume' = envelope.volume
    /\ IF IsFirst THEN SweepTrigger ELSE UNCHANGED sweepVars
    /\ touched' = TRUE /\ age' = 0
    /\ UNCHANGED <<channel, div, sweep, length, envelope, envelopeIncrease>>

Write == WriteSweep \/ WriteLength \/ WriteEnvelope \/ WriteLow \/ WriteControl \/ Trigger

Next == IncreaseDiv \/ Write

\* The divider runs for as long as the host ticks the machine (and the
\* program does not keep resetting it, which is left out: module Timer).
Spec == Init /\ [][Next]_vars /\ WF_vars(IncreaseDiv)

-----------------------------------------------------------------------------
(* Type invariant.  A period of zero never reaches the timer's decrement,  *)
(* which would take 256 steps to come back.                                *)
TypeOK ==
    /\ div \in 0..7
    /\ frequency \in 0..MaxFrequency /\ shadowRegister \in 0..MaxFrequency
    /\ lengthTimer \in 0..(LengthRange - 1)
    /\ volume \in 0..MaxVolume
    /\ sweepTimer \in Nat /\ currentSweepPace \in Nat
    /\ envelopeTimer <= envelope.period
    /\ envelope.period > 0 => envelopeTimer > 0

(* A note cannot sound on an exhausted length counter, where nothing would *)
(* ever end it, except the one the channel powers up with, and the wave    *)
(* whose length of 256 its eight bits hold as none.                        *)
Uncounted == LengthOf(length) = 0

NoEndlessNote == enabled /\ lengthTimer = 0 /\ touched => Uncounted

(* Once the program leaves the registers (and DIV) alone with the length   *)
(* enabled, a note ends and stays silent.                                  *)
NotesEnd ==
    <>[][~Write]_vars => <>[](lengthOn /\ touched /\ ~Uncounted => ~enabled)

(* However its steps interleave with writes and triggers, the volume is    *)
(* what NRx2 says: its start, moved by one for each period that has        *)
(* passed, up to the limit.                                                *)
Clamped(v) == IF v < 0 THEN 0 ELSE IF v > MaxVolume THEN MaxVolume ELSE v

VolumeFollowsEnvelope ==
    age >= 0 =>
        LET steps == IF envelope.period = 0 THEN 0 ELSE age \div envelope.period
        IN  volume = Clamped(envelope.volume + (IF envelope.up THEN steps ELSE -steps))

(* A sweep never wraps: whatever the program does to the registers, a step *)
(* upwards takes the note no lower than the note swept from, and a step    *)
(* downwards no higher.                                                    *)
SweepNeverWraps ==
    [][IncreaseDiv /\ frequency' # frequency =>
           IF sweep.down THEN frequency' <= shadowRegister
           ELSE frequency' >= shadowRegister]_vars
=============================================================================
