------------------------------- MODULE Timer -------------------------------
(***************************************************************************)
(* The divider and the programmable timer (src/src/system/timer.cpp),      *)
(* driven the way Emu::tick drives them (src/src/system/emu.cpp): the      *)
(* timer runs on every T-cycle, and on every CpuPeriod-th one the CPU then *)
(* makes at most one bus access, which may be a write to a timer register. *)
(*                                                                         *)
(* TIMA is clocked by the falling edge of one bit of the free-running      *)
(* divider, gated by the enable bit of TAC.  An overflow leaves TIMA at    *)
(* zero and arms a countdown; when it runs out TIMA is reloaded from TMA   *)
(* and the Timer interrupt is requested, unless the program wrote TIMA in  *)
(* the meantime.                                                           *)
(***************************************************************************)
EXTENDS Integers

CONSTANTS
    DivModulus,     \* 2^16: the divider is a u16
    TimaModulus,    \* 2^8: TIMA and TMA are u8
    ClockBit,       \* the divider bit that clocks TIMA, by TAC's low two bits
    ApuBit,         \* the divider bit that clocks the APU's frame sequencer
    ApuModulus,     \* width of the APU's own divider
    ReloadLatency,  \* T-cycles from an overflow to the reload
    CpuPeriod,      \* T-cycles per M-cycle: the CPU runs on one in CpuPeriod
    InitDiv         \* values the constructor gives the divider

Selects  == 0..3
Byte     == 0..(TimaModulus - 1)
DivValue == 0..(DivModulus - 1)

\* TAC keeps three bits: the enable (4) and the clock select.
TacValue == 0..7
Enabled(t) == t >= 4
Select(t)  == t % 4

BitHigh(d, sel) == (d \div 2^ClockBit[sel]) % 2 = 1

\* The clock bit falls as the divider steps from d to d + 1.
FallsAfter(d, sel) ==
    BitHigh(d, sel) /\ ~BitHigh((d + 1) % DivModulus, sel)

ASSUME SizeAssumption ==
    /\ DivModulus \in Nat \ {0}
    /\ TimaModulus \in Nat /\ TimaModulus > 1
    /\ ApuModulus \in Nat \ {0}
    /\ ClockBit \in [Selects -> Nat]
    /\ ApuBit \in Nat
    /\ InitDiv \subseteq DivValue

\* The reload window is no longer than an M-cycle.
ASSUME LatencyAssumption ==
    /\ ReloadLatency \in Nat \ {0}
    /\ CpuPeriod \in Nat
    /\ ReloadLatency <= CpuPeriod

(* Every clock bit is low when the divider is zero, and the bits are slow  *)
(* against the reload window: once one of them falls it stays low for a    *)
(* window and none of the others falls within it, and a bit that is low    *)
(* does not rise and fall again within a window.                           *)
Near == 0..(ReloadLatency - 1)
At(d, i) == (d + i) % DivModulus

ASSUME ClockAssumption ==
    \A sel \in Selects :
        /\ ~BitHigh(0, sel)
        /\ \A d \in DivValue : FallsAfter(d, sel) =>
               \A i \in Near : /\ ~BitHigh(At(d + 1, i), sel)
                               /\ \A s \in Selects : ~FallsAfter(At(d + 1, i), s)
        /\ \A d \in DivValue : ~BitHigh(d, sel) =>
               \A i \in Near : ~FallsAfter(At(d, i), sel)

VARIABLES
    div, tima, tma, tac,    \* the four registers
    reloadDelay,            \* T-cycles left until the reload, 0 when none is due
    reloadedThisTick,       \* the reload landed on the current T-cycle
    prevEdge,               \* the gated clock bit, as last looked at
    ifTimer,                \* the Timer bit of IF
    apuDiv,                 \* APU::increaseDiv calls
    phase,                  \* globalTicks % CpuPeriod of the next T-cycle
    pc,                     \* what runs next: "timer" or the "core"
    owed                    \* history: overflows neither served nor cancelled

registers == <<div, tima, tma, tac>>
vars == <<div, tima, tma, tac, reloadDelay, reloadedThisTick, prevEdge,
          ifTimer, apuDiv, phase, pc, owed>>

Signal(d, t) == Enabled(t) /\ BitHigh(d, Select(t))

(***************************************************************************)
(* Initial states.  globalTicks belongs to the process and not to the Emu, *)
(* so an Emu made later starts with any phase.                             *)
(***************************************************************************)
Init ==
    /\ div \in InitDiv
    /\ tima = 0 /\ tma = 0 /\ tac = 0
    /\ reloadDelay = 0
    /\ reloadedThisTick = FALSE
    /\ prevEdge = FALSE
    /\ ifTimer = FALSE
    /\ apuDiv = 0
    /\ phase \in 0..(CpuPeriod - 1)
    /\ pc = "timer"
    /\ owed = 0

\* Mutant: the latch is updated only when TIMA counts.
UpdateEdgeUnlatched(d, t, count, delay, debt) ==
    LET falls == prevEdge /\ ~Signal(d, t)
        wraps == falls /\ count = TimaModulus - 1
    IN  /\ prevEdge' = IF falls THEN Signal(d, t) ELSE prevEdge
        /\ tima' = IF falls THEN (count + 1) % TimaModulus ELSE count
        /\ reloadDelay' = IF wraps THEN ReloadLatency ELSE delay
        /\ owed' = IF wraps THEN debt + 1 ELSE debt

(***************************************************************************)
(* Timer::updateEdge, with the divider d and TAC t its caller has just     *)
(* set; count, delay and debt are TIMA, reloadDelay and owed as the caller *)
(* left them.                                                              *)
(***************************************************************************)
UpdateEdge(d, t, count, delay, debt) ==
    LET falls == prevEdge /\ ~Signal(d, t)
        wraps == falls /\ count = TimaModulus - 1
    IN  /\ prevEdge' = Signal(d, t)
        /\ tima' = IF falls THEN (count + 1) % TimaModulus ELSE count
        /\ reloadDelay' = IF wraps THEN ReloadLatency ELSE delay
        /\ owed' = IF wraps THEN debt + 1 ELSE debt

\* Mutant: both looks at the bit come after the step.
ApuEdgeUnmoved(d) ==
    LET high == (((d + 1) % DivModulus) \div 2^ApuBit) % 2 = 1
    IN  high /\ ~high

\* The divider's bit 4 falls as it steps on from d.
ApuEdge(d) ==
    /\ (d \div 2^ApuBit) % 2 = 1
    /\ (((d + 1) % DivModulus) \div 2^ApuBit) % 2 = 0

\* Mutant: the countdown is not gated by being under way.
ReloadAtZero == reloadDelay <= 1

\* The countdown runs out on this tick.
ReloadDue == reloadDelay = 1

(***************************************************************************)
(* Timer::tick, and what Emu::tick does around it.                         *)
(***************************************************************************)
Tick ==
    LET reload == ReloadDue
        next   == (div + 1) % DivModulus
    IN  /\ pc = "timer"
        /\ div' = next
        /\ reloadedThisTick' = reload
        /\ ifTimer' = (ifTimer \/ reload)
        /\ apuDiv' = IF ApuEdge(div) THEN (apuDiv + 1) % ApuModulus ELSE apuDiv
        /\ UpdateEdge(next, tac,
                      IF reload THEN tma ELSE tima,
                      IF reloadDelay > 0 THEN reloadDelay - 1 ELSE 0,
                      IF reload THEN owed - 1 ELSE owed)
        /\ pc' = IF phase = 0 THEN "core" ELSE "timer"
        /\ phase' = (phase + 1) % CpuPeriod
        /\ UNCHANGED <<tma, tac>>

(***************************************************************************)
(* The CPU's bus access of this M-cycle: one of the writes below, a change *)
(* of IF, or anything that leaves the timer alone.                         *)
(***************************************************************************)
CoreSlot ==
    /\ pc = "core"
    /\ pc' = "timer"
    /\ UNCHANGED <<phase, reloadedThisTick, apuDiv>>

\* Mutant: the edge detector is not run.
WriteDIVUnseen ==
    /\ CoreSlot
    /\ div' = 0
    /\ UNCHANGED <<tima, tma, tac, reloadDelay, prevEdge, owed, ifTimer>>

WriteDIV ==
    /\ CoreSlot
    /\ div' = 0
    /\ UpdateEdge(0, tac, tima, reloadDelay, owed)
    /\ UNCHANGED <<tma, tac, ifTimer>>

\* Mutant: the write does not cancel the reload.
WriteTIMAUncancelled(value) ==
    /\ CoreSlot
    /\ IF reloadedThisTick
       THEN UNCHANGED <<tima, owed>>
       ELSE tima' = value /\ owed' = 0
    /\ UNCHANGED <<div, tma, tac, reloadDelay, prevEdge, ifTimer>>

WriteTIMA(value) ==
    /\ CoreSlot
    /\ IF reloadedThisTick
       THEN UNCHANGED <<tima, reloadDelay, owed>>
       ELSE tima' = value /\ reloadDelay' = 0 /\ owed' = 0
    /\ UNCHANGED <<div, tma, tac, prevEdge, ifTimer>>

\* Mutant: TIMA never takes the new TMA.
WriteTMAOnly(value) ==
    /\ CoreSlot
    /\ tma' = value
    /\ UNCHANGED <<div, tac, tima, reloadDelay, prevEdge, ifTimer, owed>>

WriteTMA(value) ==
    /\ CoreSlot
    /\ tma' = value
    /\ tima' = IF reloadedThisTick THEN value ELSE tima
    /\ UNCHANGED <<div, tac, reloadDelay, prevEdge, ifTimer, owed>>

WriteTAC(value) ==
    /\ CoreSlot
    /\ tac' = value
    /\ UpdateEdge(div, value, tima, reloadDelay, owed)
    /\ UNCHANGED <<div, tma, ifTimer>>

\* A dispatch clears the Timer bit of IF; a write of IF sets or clears it.
SetIF(value) ==
    /\ CoreSlot
    /\ ifTimer' = value
    /\ UNCHANGED <<registers, reloadDelay, prevEdge, owed>>

ElseWhere ==
    /\ CoreSlot
    /\ UNCHANGED <<registers, reloadDelay, prevEdge, ifTimer, owed>>

Core ==
    \/ WriteDIV
    \/ \E value \in Byte : WriteTIMA(value)
    \/ \E value \in Byte : WriteTMA(value)
    \/ \E value \in TacValue : WriteTAC(value)
    \/ \E value \in BOOLEAN : SetIF(value)
    \/ ElseWhere

Next == Tick \/ Core

\* The host calls Emu::tick for ever, and a call always returns.
Spec == Init /\ [][Next]_vars /\ WF_vars(Next)

-----------------------------------------------------------------------------
(* Type invariant of the timer's registers and of the schedule. *)
TypeOK ==
    /\ div \in DivValue
    /\ tima \in Byte /\ tma \in Byte
    /\ tac \in TacValue
    /\ reloadDelay \in 0..ReloadLatency
    /\ reloadedThisTick \in BOOLEAN
    /\ prevEdge \in BOOLEAN
    /\ ifTimer \in BOOLEAN
    /\ apuDiv \in 0..(ApuModulus - 1)
    /\ phase \in 0..(CpuPeriod - 1)
    /\ pc \in {"timer", "core"}
    /\ owed \in Int

(* The latch the edge detector compares with is the gated clock bit of the *)
(* registers as they stand, after every tick and every register write: no  *)
(* write path may forget updateEdge, or a later tick counts a stale edge.  *)
EdgeInSync == prevEdge = Signal(div, tac)

(* While a reload is due TIMA reads zero: nothing the program can write    *)
(* and no clock edge counts TIMA up inside the reload window.              *)
ReadsZeroDuringReload == reloadDelay > 0 => tima = 0

(* Every overflow is answered once: by the reload and its interrupt, or by *)
(* the TIMA write that cancels both.  Two overflows never share a reload,  *)
(* and no reload comes without an overflow.                                *)
OneAnswerPerOverflow == owed = IF reloadDelay > 0 THEN 1 ELSE 0

(* On the cycle the reload lands TIMA is what TMA holds at the end of that *)
(* cycle, whatever the CPU wrote in it; only a clock edge of the same      *)
(* cycle (a DIV or TAC write) can have counted it up once more.            *)
ReloadTakesTMA ==
    reloadedThisTick =>
        \/ tima = tma /\ reloadDelay = 0
        \/ /\ tima = (tma + 1) % TimaModulus
           /\ ~prevEdge
           /\ reloadDelay = IF tima = 0 THEN ReloadLatency ELSE 0

(* The Timer interrupt is requested only by a reload, and only the timer   *)
(* (or the program itself) moves its bit of IF.                            *)
RequestedByReload ==
    [][pc = "timer" /\ ~ifTimer /\ ifTimer' => owed = 1 /\ reloadedThisTick']_vars

(* Left alone with the timer enabled, the timer overflows and reloads      *)
(* again and again: the edge detector never gets stuck.                    *)
KeepsReloading ==
    <>[][Tick \/ ElseWhere]_vars /\ <>[](Enabled(tac)) => []<>reloadedThisTick

(* The sound goes on: once the program stops resetting DIV, whatever else  *)
(* it does to the timer, the APU's frame sequencer is clocked for ever.    *)
(* (Resets alone can stop it, and with it every length and envelope: they  *)
(* clear the bit without clocking the APU.)                                *)
KeepsClockingTheApu == <>[][~WriteDIV]_vars => []<><<apuDiv' # apuDiv>>_vars

-----------------------------------------------------------------------------
(***************************************************************************)
(* The inductive invariant behind the four properties of the reload        *)
(* window.  A reload that is due in k cycles is safe for one of two        *)
(* reasons.  Either the divider itself made the overflow: then no clock    *)
(* bit falls before the reload and the selected one is low until then, so  *)
(* a write in the CPU slot of the window finds no edge to make.  Or the    *)
(* CPU made it, or has had its slot of the window already: then no other   *)
(* slot comes before the reload, and the selected bit alone must not fall. *)
(***************************************************************************)
Calm(k)  == \A i \in 0..(k - 1), sel \in Selects : ~FallsAfter(At(div, i), sel)
Low(k)   == Enabled(tac) => \A i \in 0..(k - 1) : ~BitHigh(At(div, i), Select(tac))
Quiet(k) == Enabled(tac) => \A i \in 0..(k - 1) : ~FallsAfter(At(div, i), Select(tac))
NoSlotWithin(k) ==
    /\ pc = "timer"
    /\ phase + k <= CpuPeriod + 1
    /\ phase = 0 => k <= 1

ReloadWindow ==
    reloadDelay > 0 =>
        \/ Calm(reloadDelay) /\ Low(reloadDelay)
        \/ NoSlotWithin(reloadDelay) /\ Quiet(reloadDelay)

SlotPhase == pc = "core" => phase = 1 % CpuPeriod

ReloadLanded == pc = "core" /\ reloadedThisTick => reloadDelay = 0 /\ tima = tma

IInv ==
    /\ TypeOK
    /\ EdgeInSync
    /\ SlotPhase
    /\ ReloadWindow
    /\ ReadsZeroDuringReload
    /\ OneAnswerPerOverflow
    /\ ReloadLanded
    /\ ReloadTakesTMA
=============================================================================
