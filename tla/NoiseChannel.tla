---------------------------- MODULE NoiseChannel ----------------------------
(***************************************************************************)
(* The noise of channel 4 (NoiseChannel::tick, src/src/audio/              *)
(* noise_channel.cpp line 48): a shift register fed with the exclusive or  *)
(* of its two low bits, clocked by a timer that NR43 sets the period of.   *)
(* The program may rewrite NR43 between two clocks, and narrow the         *)
(* register while it runs.                                                 *)
(***************************************************************************)
EXTENDS AudioChannel

CONSTANTS
    Bits,           \* 15
    ShortBits,      \* 7
    NoiseBase,      \* 8: the shortest period, in T-cycles
    PeriodRange,    \* 2^16: timerPeriod returns a u16
    TimerRange,     \* 2^32
    Noises          \* what the program writes to NR43

Noise == [short : BOOLEAN, divider : 0..7, shift : 0..15]

ASSUME NoiseAssumption ==
    /\ {Bits, ShortBits, NoiseBase, PeriodRange, TimerRange} \subseteq Nat \ {0}
    /\ 2 <= ShortBits /\ ShortBits < Bits
    /\ PeriodRange <= TimerRange
    /\ Noises \subseteq Noise

VARIABLES
    noise,          \* NR43
    lfsr, timer,
    narrowed,       \* history: the register was made short since it was seeded
    overflowed      \* history: the period last loaded did not fit its type

noiseVars == <<noise, lfsr, timer, narrowed, overflowed>>
allVars == <<vars, noiseVars>>

-----------------------------------------------------------------------------
SetBit(n, b, v) == (n - ((n \div 2^b) % 2) * 2^b) + (v * 2^b)

\* 16 T-cycles for each unit of the divider, and 8 for a divider of zero.
Exact(n) == (IF n.divider = 0 THEN NoiseBase ELSE 2 * NoiseBase * n.divider) * 2^n.shift

TimerPeriod(n) == Exact(n) % PeriodRange

Load(n) == timer' = TimerPeriod(n) /\ overflowed' = (Exact(n) >= PeriodRange)

Seed == 2^Bits - 1

\* The fed bit enters above the highest, and in the middle of a short register.
Stepped ==
    LET value == (lfsr + (lfsr \div 2)) % 2
        fed   == SetBit(lfsr, Bits, value)
    IN  (IF noise.short THEN SetBit(fed, ShortBits, value) ELSE fed) \div 2

\* The first period is read from a register nothing has set.
NoiseInit ==
    /\ Init
    /\ noise = [short |-> FALSE, divider |-> 0, shift |-> 0]
    /\ lfsr = Seed
    /\ IF IsNoise
       THEN \E n \in Noises : timer = TimerPeriod(n) /\ overflowed = (Exact(n) >= PeriodRange)
       ELSE timer = NoiseBase /\ overflowed = FALSE
    /\ narrowed = FALSE

\* tick: a timer of zero counts through its whole range.
Tick ==
    /\ IsNoise
    /\ IF timer = 1
       THEN lfsr' = Stepped /\ Load(noise)
       ELSE timer' = (timer - 1) % TimerRange /\ UNCHANGED <<lfsr, overflowed>>
    /\ UNCHANGED <<vars, noise, narrowed>>

WriteNoise ==
    /\ IsNoise
    /\ noise' \in Noises
    /\ narrowed' = (narrowed \/ (noise'.short /\ ~noise.short))
    /\ UNCHANGED <<vars, lfsr, timer, overflowed>>

\* Mutant: a note goes on with the register of the last one.
NotReseeded == lfsr' = lfsr

Reseeded == lfsr' = Seed

NoiseTrigger ==
    /\ Trigger
    /\ IF IsNoise
       THEN Reseeded /\ Load(noise) /\ narrowed' = FALSE /\ UNCHANGED noise
       ELSE UNCHANGED noiseVars

NoiseNext ==
    \/ Tick
    \/ WriteNoise
    \/ NoiseTrigger
    \/ UNCHANGED noiseVars /\ \/ IncreaseDiv
                              \/ WriteSweep \/ WriteLength \/ WriteEnvelope
                              \/ WriteLow \/ WriteControl

NoiseSpec == NoiseInit /\ [][NoiseNext]_allVars /\ WF_vars(IncreaseDiv)

-----------------------------------------------------------------------------
(* The noise never dies: however the program interleaves writes, triggers  *)
(* and steps, the part of the register in use holds a bit, unless the      *)
(* register was made short while it ran, which may leave it only zeros     *)
(* until the next trigger; and its clock does not stall, unless the period *)
(* did not fit the sixteen bits it is returned in.                         *)
NoiseAlive ==
    IsNoise =>
        /\ ~narrowed => lfsr % 2^(IF noise.short THEN ShortBits ELSE Bits) # 0
        /\ ~overflowed => timer \in 1..(PeriodRange - 1)
=============================================================================
