-------------------------------- MODULE Rtc --------------------------------
(***************************************************************************)
(* The real-time clock of the MBC3 mapper (src/src/cartridge/mbc3.cpp).    *)
(* Nothing runs it: the mapper remembers the tick it last looked at        *)
(* (lastTick) and catches up, by whole seconds, when the game latches or   *)
(* sets the clock and when the cartridge is destroyed.  `elapsed' is       *)
(* globalTicks - lastTick.  The RAM-enable flag and the bank register that *)
(* decide whether a write reaches the clock belong to module Mapper; here  *)
(* a write names its register.                                             *)
(***************************************************************************)
EXTENDS Integers

CONSTANTS
    TicksPerSecond, SecondsPerMinute, MinutesPerHour, HoursPerDay, DaysLow,
    Bytes,          \* values of a byte, some beyond every radix
    MaxElapsed      \* bound: T-cycles the game leaves the clock alone

ASSUME RtcAssumption ==
    /\ {TicksPerSecond, SecondsPerMinute, MinutesPerHour, HoursPerDay, DaysLow}
           \subseteq Nat \ {0}
    /\ Bytes \subseteq Nat /\ MaxElapsed \in Nat

VARIABLES
    rtc, latched,   \* the live counters and the copy the game reads
    latchState,     \* the last byte written to 6000-7FFF
    elapsed         \* globalTicks - lastTick

vars == <<rtc, latched, latchState, elapsed>>

Zero == [seconds |-> 0, minutes |-> 0, hours |-> 0, dayLow |-> 0, dayHigh |-> 0,
         halt |-> FALSE, carry |-> FALSE]

Unlatched == -1     \* 0xFF, which no latch sequence contains

Init ==
    /\ rtc = Zero /\ latched = Zero
    /\ latchState = Unlatched
    /\ elapsed = 0

-----------------------------------------------------------------------------
(***************************************************************************)
(* MBC3::tickRtc                                                           *)
(***************************************************************************)
\* n seconds on, with the carry from each counter into the next; the day
\* counter's overflow stays flagged.  (The code stops where a carry is zero.)
Carried(n) ==
    LET s == rtc.seconds + n
        m == rtc.minutes + s \div SecondsPerMinute
        h == rtc.hours + m \div MinutesPerHour
        d == (rtc.dayHigh * DaysLow) + rtc.dayLow + (h \div HoursPerDay)
    IN  [rtc EXCEPT !.seconds = s % SecondsPerMinute, !.minutes = m % MinutesPerHour,
                    !.hours = h % HoursPerDay, !.dayLow = d % DaysLow,
                    !.dayHigh = (d \div DaysLow) % 2,
                    !.carry = @ \/ d >= 2 * DaysLow]

\* Mutant: each catch-up decides the flag anew.
CarriedFresh(n) == [Carried(n) EXCEPT !.carry = FALSE]

Later(n) == Carried(n)

Seconds == elapsed \div TicksPerSecond

CaughtUp == IF rtc.halt THEN rtc ELSE Later(Seconds)

Remainder == elapsed % TicksPerSecond

-----------------------------------------------------------------------------
\* globalTicks advances (Emu::tick); the mapper is not told.
Tick ==
    /\ elapsed < MaxElapsed
    /\ elapsed' = elapsed + 1
    /\ UNCHANGED <<rtc, latched, latchState>>

\* A write of 6000-7FFF: 0 and then 1 latches.
WriteLatch ==
    /\ \E value \in {0, 1, Unlatched} :
           /\ latchState' = value
           /\ IF latchState = 0 /\ value = 1
              THEN /\ rtc' = CaughtUp
                   /\ latched' = rtc'
                   /\ elapsed' = Remainder
              ELSE UNCHANGED <<rtc, latched, elapsed>>

Wrapped(value, radix) == value % radix

\* A write of A000-BFFF with a clock register selected.
WriteSeconds ==
    /\ \E value \in Bytes : rtc' = [CaughtUp EXCEPT !.seconds = Wrapped(value, SecondsPerMinute)]
    /\ elapsed' = 0
    /\ latched' = rtc'
    /\ UNCHANGED latchState

WriteOther ==
    /\ \/ \E value \in Bytes :
              \/ rtc' = [CaughtUp EXCEPT !.minutes = Wrapped(value, MinutesPerHour)]
              \/ rtc' = [CaughtUp EXCEPT !.hours = Wrapped(value, HoursPerDay)]
              \/ rtc' = [CaughtUp EXCEPT !.dayLow = value % DaysLow]
       \/ \E high \in 0..1, h, c \in BOOLEAN :
              rtc' = [CaughtUp EXCEPT !.dayHigh = high, !.halt = h, !.carry = c]
    /\ elapsed' = Remainder
    /\ latched' = rtc'
    /\ UNCHANGED latchState

\* ... or with a register selected that is none: the clock catches up and the
\* copy stays.
WriteNothing ==
    /\ rtc' = CaughtUp
    /\ elapsed' = Remainder
    /\ UNCHANGED <<latched, latchState>>

\* ~MBC3 saves the clock; a new MBC3 loads it and counts from the present tick.
Reload ==
    /\ rtc' = CaughtUp
    /\ elapsed' = 0
    /\ latchState' = Unlatched
    /\ UNCHANGED latched

Next == Tick \/ WriteLatch \/ WriteSeconds \/ WriteOther \/ WriteNothing \/ Reload

Spec == Init /\ [][Next]_vars

-----------------------------------------------------------------------------
(* The ideal clock: what the mapper would show if it looked now. *)
Ideal == INSTANCE Clock WITH now <- CaughtUp, frozen <- latched, phase <- Remainder

(* However long the game leaves it alone and whenever it latches, sets,    *)
(* halts or reloads it, the lazily computed clock shows what a clock       *)
(* ticking once a second would: no second is lost or counted twice, a halt *)
(* loses exactly the time it lasted, an overflow of the day counter is     *)
(* still flagged when it happened long ago.                                *)
ImplementsClock == Ideal!ClockSpec
=============================================================================
