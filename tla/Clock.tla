------------------------------- MODULE Clock -------------------------------
(***************************************************************************)
(* What the clock of an MBC3 cartridge promises a game: a clock that moves *)
(* once per second of machine time, whoever looks at it, and a frozen copy *)
(* of it.  The mapper has no such clock: module Rtc computes it lazily,    *)
(* from the time that passed since it last looked, and implements this     *)
(* one.                                                                    *)
(***************************************************************************)
EXTENDS Integers

CONSTANTS
    TicksPerSecond, SecondsPerMinute, MinutesPerHour, HoursPerDay,
    DaysLow     \* values of the day counter's low byte; its high bit doubles them

Times == [seconds : 0..(SecondsPerMinute - 1), minutes : 0..(MinutesPerHour - 1),
          hours : 0..(HoursPerDay - 1), dayLow : 0..(DaysLow - 1),
          dayHigh : 0..1, halt : BOOLEAN, carry : BOOLEAN]

VARIABLES
    now,        \* the running clock
    frozen,     \* the copy the game reads
    phase       \* T-cycles into the current second

clock == <<now, frozen, phase>>

ClockInit == now \in Times /\ frozen \in Times /\ phase = 0

\* The counters one second later, each moving when the one below wraps.
LastSecond == now.seconds = SecondsPerMinute - 1
LastMinute == LastSecond /\ now.minutes = MinutesPerHour - 1
LastHour   == LastMinute /\ now.hours = HoursPerDay - 1
LastLow    == LastHour /\ now.dayLow = DaysLow - 1
LastDay    == LastLow /\ now.dayHigh = 1

Count(n, radix, step) == IF step THEN (n + 1) % radix ELSE n

SecondLater ==
    [now EXCEPT !.seconds = Count(@, SecondsPerMinute, TRUE),
                !.minutes = Count(@, MinutesPerHour, LastSecond),
                !.hours   = Count(@, HoursPerDay, LastMinute),
                !.dayLow  = Count(@, DaysLow, LastHour),
                !.dayHigh = Count(@, 2, LastLow),
                !.carry   = @ \/ LastDay]

\* A T-cycle.  The divider runs on while the clock is halted.
Advance ==
    /\ phase' = (phase + 1) % TicksPerSecond
    /\ now' = IF phase' = 0 /\ ~now.halt THEN SecondLater ELSE now
    /\ UNCHANGED frozen

Freeze == frozen' = now /\ UNCHANGED <<now, phase>>

\* The game sets one counter and sees it at once; setting the seconds
\* restarts the divider.
Set ==
    /\ \/ \E n \in 0..(SecondsPerMinute - 1) : now' = [now EXCEPT !.seconds = n] /\ phase' = 0
       \/ /\ \/ \E n \in 0..(MinutesPerHour - 1) : now' = [now EXCEPT !.minutes = n]
             \/ \E n \in 0..(HoursPerDay - 1) : now' = [now EXCEPT !.hours = n]
             \/ \E n \in 0..(DaysLow - 1) : now' = [now EXCEPT !.dayLow = n]
             \/ \E n \in 0..1, h, c \in BOOLEAN :
                    now' = [now EXCEPT !.dayHigh = n, !.halt = h, !.carry = c]
          /\ UNCHANGED phase
    /\ frozen' = now'

\* The cartridge is put away and taken out again: the clock stands still in
\* between and starts a new second.
Reinsert == phase' = 0 /\ UNCHANGED <<now, frozen>>

ClockNext == Advance \/ Freeze \/ Set \/ Reinsert

ClockSpec == ClockInit /\ [][ClockNext]_clock
=============================================================================
