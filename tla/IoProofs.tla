------------------------------ MODULE IoProofs ------------------------------
(* Theorems about the units behind the I/O registers: the timer, for every *)
(* width of its counters, every set of clock bits that keeps               *)
(* ClockAssumption and every reload latency no longer than an M-cycle; and *)
(* the joypad's requests and the serial log, for any keys, lines, bytes    *)
(* and capacities, and in any order of what the host and the program do.   *)
EXTENDS Timer, Io, TLAPS

(***************************************************************************)
(* Arithmetic of the divider: stepping it once and then i times is         *)
(* stepping it i + 1 times, across the wrap too.                           *)
(***************************************************************************)

(* Quotient and remainder are unique. *)
LEMMA UniqueRemainder ==
    ASSUME NEW M \in Nat, M > 0, NEW q \in Nat, NEW p \in Nat,
           NEW r \in 0..(M - 1), NEW s \in 0..(M - 1),
           (M * q) + r = (M * p) + s
    PROVE  r = s
<1>1. CASE q < p
  <2>1. M * (p - q) = r - s
    OBVIOUS
  <2>2. p - q >= 1
    BY <1>1
  <2>3. M * (p - q) >= M
    BY <2>2
  <2> QED  BY <2>1, <2>3
<1>2. CASE p < q
  <2>1. M * (q - p) = s - r
    OBVIOUS
  <2>2. q - p >= 1
    BY <1>2
  <2>3. M * (q - p) >= M
    BY <2>2
  <2> QED  BY <2>1, <2>3
<1>3. CASE p = q
  <2>1. M * q = M * p
    BY <1>3
  <2>2. M * q \in Int /\ M * p \in Int
    OBVIOUS
  <2> QED  BY <2>1, <2>2
<1> QED  BY <1>1, <1>2, <1>3

(* A full turn of a counter modulo M changes nothing. *)
LEMMA ModTurn ==
    ASSUME NEW M \in Nat, M > 0, NEW i \in Nat
    PROVE  (M + i) % M = i % M
<1> DEFINE q == i \div M
           p == (M + i) \div M
<1>1. /\ i = (M * q) + (i % M)
      /\ i % M \in 0..(M - 1)
      /\ q \in Nat
  OBVIOUS
<1>2. /\ M + i = (M * p) + ((M + i) % M)
      /\ (M + i) % M \in 0..(M - 1)
      /\ p \in Nat
  OBVIOUS
<1>3. M + i = (M * (q + 1)) + (i % M)
  BY <1>1
<1>4. q + 1 \in Nat
  BY <1>1
<1> HIDE DEF q, p
<1> QED  BY <1>1, <1>2, <1>3, <1>4, UniqueRemainder

(* The divider after a step, and where i more steps take it. *)
LEMMA DivStep ==
    ASSUME NEW d \in DivValue
    PROVE  /\ (d + 1) % DivModulus \in DivValue
           /\ \A i \in Nat : At((d + 1) % DivModulus, i) = At(d + 1, i)
           /\ \A i \in Nat : At(d + 1, i) = At(d, i + 1)
           /\ At(d, 0) = d
<1>1. DivModulus \in Nat /\ DivModulus > 0
  BY SizeAssumption
<1>2. d % DivModulus = d
  BY <1>1 DEF DivValue
<1>3. CASE d + 1 < DivModulus
  <2>1. (d + 1) % DivModulus = d + 1
    BY <1>1, <1>3 DEF DivValue
  <2> QED  BY <1>1, <1>2, <1>3, <2>1 DEF DivValue, At
<1>4. CASE d + 1 = DivModulus
  <2>1. (d + 1) % DivModulus = 0
    BY <1>1, <1>4 DEF DivValue
  <2>2. \A i \in Nat : (DivModulus + i) % DivModulus = i % DivModulus
    BY <1>1, ModTurn
  <2> QED  BY <1>1, <1>2, <1>4, <2>1, <2>2 DEF DivValue, At
<1> QED  BY <1>1, <1>3, <1>4 DEF DivValue

(***************************************************************************)
(* Type correctness.                                                       *)
(***************************************************************************)

(* updateEdge leaves TIMA, the countdown and the latch in their types.     *)
LEMMA UpdateEdgeType ==
    ASSUME NEW d, NEW t, NEW count \in Byte, NEW delay \in 0..ReloadLatency,
           NEW debt \in Int, UpdateEdge(d, t, count, delay, debt)
    PROVE  /\ tima' \in Byte
           /\ reloadDelay' \in 0..ReloadLatency
           /\ prevEdge' \in BOOLEAN
           /\ owed' \in Int
<1>1. prevEdge' \in BOOLEAN
  BY DEF UpdateEdge, Signal, Enabled
<1>2. tima' \in Byte
  BY SizeAssumption DEF UpdateEdge, Byte
<1>3. reloadDelay' \in 0..ReloadLatency
  BY LatencyAssumption DEF UpdateEdge
<1>4. owed' \in Int
  BY DEF UpdateEdge
<1> QED  BY <1>1, <1>2, <1>3, <1>4

(* The constructor's state has the types. *)
LEMMA TypeInit == Init => TypeOK
<1> SUFFICES ASSUME Init
             PROVE  TypeOK
  OBVIOUS
<1>1. div \in DivValue
  BY SizeAssumption DEF Init
<1>2. tima \in Byte /\ tma \in Byte /\ tac \in TacValue
  BY SizeAssumption DEF Init, Byte, TacValue
<1>3. reloadDelay \in 0..ReloadLatency /\ apuDiv \in 0..(ApuModulus - 1)
  BY SizeAssumption, LatencyAssumption DEF Init
<1>4. /\ reloadedThisTick \in BOOLEAN /\ prevEdge \in BOOLEAN
      /\ ifTimer \in BOOLEAN
  BY DEF Init
<1>5. /\ phase \in 0..(CpuPeriod - 1) /\ pc \in {"timer", "core"}
      /\ owed \in Int
  BY DEF Init
<1> QED  BY <1>1, <1>2, <1>3, <1>4, <1>5 DEF TypeOK

(* Timer::tick keeps the types. *)
LEMMA TypeTick == TypeOK /\ Tick => TypeOK'
<1> SUFFICES ASSUME TypeOK, Tick
             PROVE  TypeOK'
  OBVIOUS
<1> DEFINE next   == (div + 1) % DivModulus
           reload == reloadDelay = 1
           count  == IF reload THEN tma ELSE tima
           delay  == IF reloadDelay > 0 THEN reloadDelay - 1 ELSE 0
           debt   == IF reload THEN owed - 1 ELSE owed
<1>1. count \in Byte /\ delay \in 0..ReloadLatency /\ debt \in Int
  BY LatencyAssumption DEF TypeOK
<1>2. UpdateEdge(next, tac, count, delay, debt)
  BY DEF Tick, ReloadDue
<1>3. /\ tima' \in Byte /\ reloadDelay' \in 0..ReloadLatency
      /\ prevEdge' \in BOOLEAN /\ owed' \in Int
  <2> HIDE DEF next, count, delay, debt
  <2> QED  BY <1>1, <1>2, UpdateEdgeType
<1>4. div' \in DivValue /\ tma' \in Byte /\ tac' \in TacValue
  BY DivStep DEF Tick, ReloadDue, TypeOK
<1>5. reloadedThisTick' \in BOOLEAN
  BY DEF Tick, ReloadDue
<1>6. ifTimer' \in BOOLEAN
  BY DEF Tick, ReloadDue, TypeOK
<1>7. apuDiv' \in 0..(ApuModulus - 1)
  <2>1. apuDiv' = apuDiv \/ apuDiv' = (apuDiv + 1) % ApuModulus
    BY DEF Tick, ReloadDue
  <2> QED  BY <2>1, SizeAssumption DEF TypeOK
<1>8. phase' \in 0..(CpuPeriod - 1) /\ pc' \in {"timer", "core"}
  BY LatencyAssumption DEF Tick, ReloadDue, TypeOK
<1> QED  BY <1>3, <1>4, <1>5, <1>6, <1>7, <1>8 DEF TypeOK

(* A register write keeps the types. *)
LEMMA TypeCore == TypeOK /\ Core => TypeOK'
<1> SUFFICES ASSUME TypeOK, Core
             PROVE  TypeOK'
  OBVIOUS
<1>0. 0 \in DivValue /\ 0 \in 0..ReloadLatency
  BY SizeAssumption, LatencyAssumption DEF DivValue
<1>1. CASE WriteDIV
  <2>1. UpdateEdge(0, tac, tima, reloadDelay, owed)
    BY <1>1 DEF WriteDIV
  <2>2. /\ tima' \in Byte /\ reloadDelay' \in 0..ReloadLatency
        /\ prevEdge' \in BOOLEAN /\ owed' \in Int
    BY <2>1, UpdateEdgeType DEF TypeOK
  <2> QED  BY <1>0, <1>1, <2>2 DEF WriteDIV, CoreSlot, TypeOK
<1>2. ASSUME NEW value \in Byte, WriteTIMA(value)
      PROVE  TypeOK'
  BY <1>0, <1>2 DEF WriteTIMA, CoreSlot, TypeOK
<1>3. ASSUME NEW value \in Byte, WriteTMA(value)
      PROVE  TypeOK'
  BY <1>3 DEF WriteTMA, CoreSlot, TypeOK
<1>4. ASSUME NEW value \in TacValue, WriteTAC(value)
      PROVE  TypeOK'
  <2>1. UpdateEdge(div, value, tima, reloadDelay, owed)
    BY <1>4 DEF WriteTAC
  <2>2. /\ tima' \in Byte /\ reloadDelay' \in 0..ReloadLatency
        /\ prevEdge' \in BOOLEAN /\ owed' \in Int
    BY <2>1, UpdateEdgeType DEF TypeOK
  <2> QED  BY <1>4, <2>2 DEF WriteTAC, CoreSlot, TypeOK
<1>5. ASSUME NEW value \in BOOLEAN, SetIF(value)
      PROVE  TypeOK'
  BY <1>5 DEF SetIF, CoreSlot, TypeOK, registers
<1>6. CASE ElseWhere
  BY <1>6 DEF ElseWhere, CoreSlot, TypeOK, registers
<1> QED  BY <1>1, <1>2, <1>3, <1>4, <1>5, <1>6 DEF Core

(* Every register keeps the width the code gives it, however the program   *)
(* writes the timer.                                                       *)
THEOREM TypeCorrect == Spec => []TypeOK
<1>1. TypeOK /\ [Next]_vars => TypeOK'
  <2>1. TypeOK /\ UNCHANGED vars => TypeOK'
    BY DEF TypeOK, vars
  <2> QED  BY <2>1, TypeTick, TypeCore DEF Next
<1> QED  BY <1>1, TypeInit, PTL DEF Spec

(***************************************************************************)
(* The clock bits around an edge.                                          *)
(***************************************************************************)

(* After a fall the bit stays low and nothing falls for a reload window. *)
LEMMA AfterFall ==
    ASSUME NEW d \in DivValue, NEW sel \in Selects, FallsAfter(d, sel)
    PROVE  \A i \in Near :
               /\ ~BitHigh(At((d + 1) % DivModulus, i), sel)
               /\ \A s \in Selects : ~FallsAfter(At((d + 1) % DivModulus, i), s)
<1>1. \A i \in Near : i \in Nat
  BY LatencyAssumption DEF Near
<1>2. \A i \in Near : At((d + 1) % DivModulus, i) = At(d + 1, i)
  BY <1>1, DivStep
<1> QED  BY <1>2, ClockAssumption

(* A falling edge seen by Timer::tick is a fall of the selected bit. *)
LEMMA TickEdge ==
    ASSUME TypeOK, EdgeInSync, prevEdge, ~Signal((div + 1) % DivModulus, tac)
    PROVE  /\ Enabled(tac)
           /\ Select(tac) \in Selects
           /\ FallsAfter(div, Select(tac))
<1>1. Select(tac) \in Selects
  BY DEF TypeOK, TacValue, Select, Selects
<1> QED  BY <1>1 DEF EdgeInSync, Signal, FallsAfter

(* No edge comes on a tick of the reload window. *)
LEMMA NoEdgeInWindow ==
    ASSUME TypeOK, EdgeInSync, ReloadWindow, reloadDelay > 0
    PROVE  ~(prevEdge /\ ~Signal((div + 1) % DivModulus, tac))
<1> SUFFICES ASSUME prevEdge, ~Signal((div + 1) % DivModulus, tac)
             PROVE  FALSE
  OBVIOUS
<1>1. /\ Enabled(tac) /\ Select(tac) \in Selects
      /\ FallsAfter(div, Select(tac))
  BY TickEdge
<1>2. At(div, 0) = div
  BY DivStep DEF TypeOK
<1>3. 0 \in 0..(reloadDelay - 1)
  BY DEF TypeOK
<1> QED  BY <1>1, <1>2, <1>3 DEF ReloadWindow, Calm, Quiet

(***************************************************************************)
(* The three parts of the window move on with a tick.                      *)
(***************************************************************************)

(* A reload window that is open stays safe, one cycle shorter, on a tick. *)
LEMMA WindowShift ==
    ASSUME TypeOK, ReloadWindow, reloadDelay > 1, Tick,
           reloadDelay' = reloadDelay - 1
    PROVE  ReloadWindow'
<1> DEFINE k == reloadDelay
<1>1. div' = (div + 1) % DivModulus /\ tac' = tac
  BY DEF Tick, ReloadDue
<1>2. k \in Nat /\ k' = k - 1
  BY DEF TypeOK
<1>3. \A i \in 0..(k' - 1) : i + 1 \in 0..(k - 1) /\ At(div', i) = At(div, i + 1)
  BY <1>1, <1>2, DivStep DEF TypeOK
<1>4. CASE Calm(k) /\ Low(k)
  <2>1. Calm(k)'
    BY <1>3, <1>4 DEF Calm
  <2>2. Low(k)'
    BY <1>1, <1>3, <1>4 DEF Low
  <2> QED  BY <2>1, <2>2 DEF ReloadWindow
<1>5. CASE NoSlotWithin(k) /\ Quiet(k)
  <2>1. Quiet(k)'
    BY <1>1, <1>3, <1>5 DEF Quiet
  <2>2. phase # 0
    BY <1>2, <1>5 DEF NoSlotWithin
  <2>3. phase' = IF phase = CpuPeriod - 1 THEN 0 ELSE phase + 1
    BY LatencyAssumption DEF Tick, ReloadDue, TypeOK
  <2>4. NoSlotWithin(k)'
    BY <1>2, <1>5, <2>2, <2>3, LatencyAssumption DEF NoSlotWithin, Tick, ReloadDue, TypeOK
  <2> QED  BY <2>1, <2>4 DEF ReloadWindow
<1> QED  BY <1>2, <1>4, <1>5 DEF ReloadWindow

(* Timer::tick keeps the invariant. *)
LEMMA TickStep == IInv /\ Tick => IInv'
<1> SUFFICES ASSUME IInv, Tick
             PROVE  IInv'
  OBVIOUS
<1> DEFINE next  == (div + 1) % DivModulus
           falls == prevEdge /\ ~Signal(next, tac)
<1>1. TypeOK' /\ EdgeInSync'
  BY TypeTick DEF IInv, Tick, ReloadDue, UpdateEdge, EdgeInSync
<1>2. SlotPhase'
  BY LatencyAssumption DEF IInv, TypeOK, SlotPhase, Tick, ReloadDue
<1>3. CASE reloadDelay > 0
  <2>1. ~falls
    BY <1>3, NoEdgeInWindow DEF IInv
  <2>2. CASE reloadDelay > 1
    <3>0. reloadDelay # 1 /\ reloadDelay > 0
      BY <2>2 DEF IInv, TypeOK
    <3>a. ~reloadedThisTick'
      BY <3>0, Zenon DEF Tick, ReloadDue
    <3>b. /\ tima' = tima /\ reloadDelay' = reloadDelay - 1 /\ owed' = owed
      BY <2>1, <3>0 DEF Tick, ReloadDue, UpdateEdge
    <3>1. /\ tima' = tima /\ reloadDelay' = reloadDelay - 1 /\ owed' = owed
          /\ ~reloadedThisTick'
      BY <3>a, <3>b
    <3>2. ReloadWindow'
      BY <2>2, <3>1, WindowShift DEF IInv
    <3>3. ReadsZeroDuringReload' /\ OneAnswerPerOverflow'
      BY <2>2, <3>1 DEF IInv, ReadsZeroDuringReload, OneAnswerPerOverflow, TypeOK
    <3>4. ReloadLanded' /\ ReloadTakesTMA'
      BY <3>1 DEF ReloadLanded, ReloadTakesTMA
    <3> QED  BY <1>1, <1>2, <3>2, <3>3, <3>4 DEF IInv
  <2>3. CASE reloadDelay = 1
    <3>1. /\ tima' = tma /\ tma' = tma /\ reloadDelay' = 0 /\ owed' = owed - 1
      BY <2>1, <2>3 DEF Tick, ReloadDue, UpdateEdge
    <3>2. ReloadWindow' /\ ReadsZeroDuringReload' /\ OneAnswerPerOverflow'
      BY <2>3, <3>1
         DEF IInv, ReloadWindow, ReadsZeroDuringReload, OneAnswerPerOverflow, TypeOK
    <3>3. ReloadLanded' /\ ReloadTakesTMA'
      BY <3>1 DEF ReloadLanded, ReloadTakesTMA
    <3> QED  BY <1>1, <1>2, <3>2, <3>3 DEF IInv
  <2> QED  BY <1>3, <2>2, <2>3 DEF IInv, TypeOK
<1>4. CASE reloadDelay = 0
  <2>0. ~reloadedThisTick'
    <3>1. reloadDelay # 1
      BY <1>4
    <3> QED  BY <3>1, Zenon DEF Tick, ReloadDue
  <2>1. ~reloadedThisTick' /\ owed = 0
    BY <1>4, <2>0 DEF IInv, OneAnswerPerOverflow
  <2>2. ReloadLanded' /\ ReloadTakesTMA'
    BY <2>1 DEF ReloadLanded, ReloadTakesTMA
  <2>3. CASE falls /\ tima = TimaModulus - 1
    <3>1. tima' = 0 /\ reloadDelay' = ReloadLatency /\ owed' = 1
      <4>1. TimaModulus \in Nat /\ TimaModulus > 1
        BY SizeAssumption
      <4>2. (tima + 1) % TimaModulus = 0
        BY <2>3, <4>1
      <4> QED  BY <1>4, <2>1, <2>3, <4>2 DEF Tick, ReloadDue, UpdateEdge
    <3>2. /\ Select(tac) \in Selects
          /\ FallsAfter(div, Select(tac))
      BY <2>3, TickEdge DEF IInv
    <3>3. /\ div' = next /\ tac' = tac
      BY DEF Tick, ReloadDue
    <3>4. Near = 0..(reloadDelay' - 1)
      BY <3>1 DEF Near
    <3>5. Calm(reloadDelay)' /\ Low(reloadDelay)'
      BY <3>2, <3>3, <3>4, AfterFall DEF Calm, Low, IInv, TypeOK
    <3>6. ReloadWindow'
      BY <3>5 DEF ReloadWindow
    <3>7. ReadsZeroDuringReload' /\ OneAnswerPerOverflow'
      BY <3>1, LatencyAssumption DEF ReadsZeroDuringReload, OneAnswerPerOverflow
    <3> QED  BY <1>1, <1>2, <2>2, <3>6, <3>7 DEF IInv
  <2>4. CASE ~(falls /\ tima = TimaModulus - 1)
    <3>1. reloadDelay' = 0 /\ owed' = 0
      BY <1>4, <2>1, <2>4 DEF Tick, ReloadDue, UpdateEdge
    <3> QED  BY <1>1, <1>2, <2>2, <3>1
             DEF IInv, ReloadWindow, ReadsZeroDuringReload, OneAnswerPerOverflow
  <2> QED  BY <2>3, <2>4
<1> QED  BY <1>3, <1>4 DEF IInv, TypeOK

(***************************************************************************)
(* The CPU's slot.  In a window that is still open when the CPU writes,    *)
(* the selected clock bit is low: the write finds no edge to make, and     *)
(* after it no other slot comes before the reload.                         *)
(***************************************************************************)

(* In a CPU slot of a window the divider made, no edge can be made. *)
LEMMA LowInSlot ==
    ASSUME IInv, pc = "core", reloadDelay > 0
    PROVE  ~prevEdge /\ Calm(reloadDelay) /\ tima = 0 /\ ~reloadedThisTick
<1>1. Calm(reloadDelay) /\ Low(reloadDelay)
  BY DEF IInv, ReloadWindow, NoSlotWithin
<1>2. At(div, 0) = div /\ 0 \in 0..(reloadDelay - 1)
  BY DivStep DEF IInv, TypeOK
<1>3. ~Signal(div, tac)
  BY <1>1, <1>2 DEF Low, Signal
<1>4. tima = 0 /\ ~reloadedThisTick
  BY DEF IInv, ReadsZeroDuringReload, ReloadLanded
<1> QED  BY <1>1, <1>3, <1>4 DEF IInv, EdgeInSync

\* After the slot the next one comes no sooner than the reload.
LEMMA SlotPassed ==
    ASSUME IInv, CoreSlot, reloadDelay' \in 1..ReloadLatency
    PROVE  NoSlotWithin(reloadDelay)'
<1>1. phase' = 1 % CpuPeriod /\ pc' = "timer"
  BY DEF CoreSlot, IInv, SlotPhase
<1>2. CASE CpuPeriod = 1
  <2>1. phase' = 0
    BY <1>1, <1>2
  <2>2. reloadDelay' = 1
    BY <1>2, LatencyAssumption
  <2> QED  BY <1>1, <1>2, <2>1, <2>2 DEF NoSlotWithin
<1>3. CASE CpuPeriod > 1
  <2>1. 1 % CpuPeriod = 1
    BY <1>3, LatencyAssumption
  <2> QED  BY <1>1, <1>3, <2>1, LatencyAssumption DEF NoSlotWithin
<1> QED  BY <1>2, <1>3, LatencyAssumption

(* A write that moves the gated clock bit: of DIV (d = 0) or of TAC.       *)
LEMMA EdgeWrite ==
    ASSUME IInv, CoreSlot, NEW d \in DivValue, NEW t \in TacValue,
           UpdateEdge(d, t, tima, reloadDelay, owed),
           div' = d, tac' = t, tma' = tma,
           d = div \/ d = 0, TypeOK'
    PROVE  IInv'
<1> DEFINE falls == prevEdge /\ ~Signal(d, t)
<1>0. /\ EdgeInSync'
      /\ SlotPhase'
      /\ ReloadLanded'
      /\ reloadedThisTick' = reloadedThisTick
  BY DEF UpdateEdge, EdgeInSync, CoreSlot, SlotPhase, ReloadLanded
<1>1. Select(t) \in Selects
  BY DEF TacValue, Select, Selects
<1>2. CASE reloadDelay > 0
  <2>1. ~prevEdge /\ Calm(reloadDelay) /\ tima = 0 /\ ~reloadedThisTick
    BY <1>2, LowInSlot DEF CoreSlot
  <2>2. tima' = 0 /\ reloadDelay' = reloadDelay /\ owed' = owed
    BY <2>1 DEF UpdateEdge
  <2>3. Quiet(reloadDelay)'
    <3>1. CASE d = div
      BY <1>1, <2>1, <2>2, <3>1 DEF Calm, Quiet
    <3>2. CASE d = 0
      <4>1. \A i \in Near : ~FallsAfter(At(0, i), Select(t))
        BY <1>1, <3>2, ClockAssumption
      <4>2. 0..(reloadDelay' - 1) \subseteq Near
        BY <2>2, LatencyAssumption DEF Near, IInv, TypeOK
      <4> QED  BY <3>2, <4>1, <4>2 DEF Quiet
    <3> QED  BY <3>1, <3>2
  <2>4. NoSlotWithin(reloadDelay)'
    BY <1>2, <2>2, SlotPassed DEF IInv, TypeOK
  <2>5. /\ ReadsZeroDuringReload'
        /\ OneAnswerPerOverflow'
        /\ ReloadTakesTMA'
    BY <1>0, <2>1, <2>2
       DEF IInv, ReadsZeroDuringReload, OneAnswerPerOverflow, ReloadTakesTMA
  <2> QED  BY <1>0, <2>3, <2>4, <2>5 DEF IInv, ReloadWindow
<1>3. CASE reloadDelay = 0
  <2>1. owed = 0 /\ (reloadedThisTick => tima = tma)
    BY <1>3 DEF IInv, OneAnswerPerOverflow, ReloadLanded, CoreSlot
  <2>2. CASE ~falls
    <3>1. tima' = tima /\ reloadDelay' = 0 /\ owed' = 0
      BY <1>3, <2>1, <2>2 DEF UpdateEdge
    <3> QED  BY <1>0, <2>1, <3>1
             DEF IInv, ReloadWindow, ReadsZeroDuringReload, OneAnswerPerOverflow,
                 ReloadTakesTMA
  <2>3. CASE falls /\ tima # TimaModulus - 1
    <3>1. tima' = tima + 1 /\ tima + 1 = (tima + 1) % TimaModulus
      BY <2>3, SizeAssumption DEF UpdateEdge, IInv, TypeOK, Byte
    <3>2. reloadDelay' = 0 /\ owed' = 0 /\ prevEdge' = FALSE
      BY <1>3, <2>1, <2>3 DEF UpdateEdge
    <3>3. tima' # 0
      BY <3>1 DEF IInv, TypeOK, Byte
    <3>4. ReloadTakesTMA'
      BY <1>0, <2>1, <3>1, <3>2, <3>3 DEF ReloadTakesTMA
    <3> QED  BY <1>0, <3>2, <3>4
             DEF IInv, ReloadWindow, ReadsZeroDuringReload, OneAnswerPerOverflow
  <2>4. CASE falls /\ tima = TimaModulus - 1
    <3>1. (tima + 1) % TimaModulus = 0
      <4>1. TimaModulus \in Nat /\ TimaModulus > 1
        BY SizeAssumption
      <4> QED  BY <2>4, <4>1
    <3>2. /\ tima' = 0 /\ reloadDelay' = ReloadLatency /\ owed' = 1
          /\ prevEdge' = FALSE
      BY <1>3, <2>1, <2>4, <3>1 DEF UpdateEdge
    <3>3. Quiet(reloadDelay)'
      <4>1. Enabled(t) => ~BitHigh(d, Select(t))
        BY <2>4 DEF Signal
      <4>2. Enabled(t) => \A i \in Near : ~FallsAfter(At(d, i), Select(t))
        BY <1>1, <4>1, ClockAssumption
      <4> QED  BY <3>2, <4>2 DEF Quiet, Near
    <3>4. NoSlotWithin(reloadDelay)'
      BY <3>2, SlotPassed, LatencyAssumption
    <3>5. ReloadTakesTMA'
      BY <1>0, <2>1, <3>1, <3>2 DEF ReloadTakesTMA
    <3>6. ReadsZeroDuringReload' /\ OneAnswerPerOverflow'
      BY <3>2, LatencyAssumption DEF ReadsZeroDuringReload, OneAnswerPerOverflow
    <3> QED  BY <1>0, <3>3, <3>4, <3>5, <3>6 DEF IInv, ReloadWindow
  <2> QED  BY <2>2, <2>3, <2>4
<1> QED  BY <1>2, <1>3 DEF IInv, TypeOK

(* A step of the CPU that leaves the divider, TAC and the countdown alone. *)
LEMMA QuietWrite ==
    ASSUME IInv, CoreSlot, UNCHANGED <<div, tac, prevEdge, reloadDelay, owed>>,
           TypeOK', ReadsZeroDuringReload', ReloadTakesTMA'
    PROVE  IInv'
<1>1. EdgeInSync' /\ SlotPhase' /\ ReloadLanded' /\ OneAnswerPerOverflow'
  BY DEF IInv, EdgeInSync, CoreSlot, SlotPhase, ReloadLanded, OneAnswerPerOverflow
<1>2. ReloadWindow'
  <2> SUFFICES ASSUME reloadDelay > 0
               PROVE  (Calm(reloadDelay) /\ Low(reloadDelay))'
    BY DEF ReloadWindow
  <2>1. Calm(reloadDelay) /\ Low(reloadDelay)
    BY DEF IInv, ReloadWindow, NoSlotWithin, CoreSlot
  <2> QED  BY <2>1 DEF Calm, Low
<1> QED  BY <1>1, <1>2 DEF IInv

(* Every register write keeps the invariant. *)
LEMMA CoreStep == IInv /\ Core => IInv'
<1> SUFFICES ASSUME IInv, Core
             PROVE  IInv'
  OBVIOUS
<1>0. TypeOK' /\ TypeOK
  BY TypeCore DEF IInv
<1>1. CASE WriteDIV
  <2>1. 0 \in DivValue
    BY SizeAssumption DEF DivValue
  <2> QED  BY <1>0, <1>1, <2>1, EdgeWrite DEF WriteDIV, TypeOK
<1>2. ASSUME NEW value \in Byte, WriteTIMA(value)
      PROVE  IInv'
  <2>1. CASE reloadedThisTick
    <3>1. UNCHANGED <<div, tac, prevEdge, reloadDelay, owed, tima, tma,
                      reloadedThisTick>>
      BY <1>2, <2>1 DEF WriteTIMA, CoreSlot
    <3>2. ReadsZeroDuringReload' /\ ReloadTakesTMA'
      BY <3>1 DEF IInv, ReadsZeroDuringReload, ReloadTakesTMA
    <3> QED  BY <1>0, <1>2, <3>1, <3>2, QuietWrite DEF WriteTIMA
  <2>2. CASE ~reloadedThisTick
    <3>1. /\ reloadDelay' = 0 /\ owed' = 0 /\ prevEdge' = prevEdge
          /\ UNCHANGED <<div, tac, reloadedThisTick>>
      BY <1>2, <2>2 DEF WriteTIMA, CoreSlot
    <3>2. EdgeInSync' /\ SlotPhase' /\ ReloadLanded' /\ ReloadTakesTMA'
      BY <1>2, <2>2, <3>1
         DEF IInv, EdgeInSync, SlotPhase, ReloadLanded, ReloadTakesTMA,
             WriteTIMA, CoreSlot
    <3> QED  BY <1>0, <3>1, <3>2
             DEF IInv, ReloadWindow, ReadsZeroDuringReload, OneAnswerPerOverflow
  <2> QED  BY <2>1, <2>2
<1>3. ASSUME NEW value \in Byte, WriteTMA(value)
      PROVE  IInv'
  <2>1. UNCHANGED <<div, tac, prevEdge, reloadDelay, owed, reloadedThisTick>>
    BY <1>3 DEF WriteTMA, CoreSlot
  <2>2. CASE reloadedThisTick
    <3>1. tma' = value /\ tima' = value /\ reloadDelay = 0
      BY <1>3, <2>2 DEF WriteTMA, IInv, ReloadLanded, CoreSlot
    <3>2. ReadsZeroDuringReload' /\ ReloadTakesTMA'
      BY <2>1, <3>1 DEF ReadsZeroDuringReload, ReloadTakesTMA
    <3> QED  BY <1>0, <1>3, <2>1, <3>2, QuietWrite DEF WriteTMA
  <2>3. CASE ~reloadedThisTick
    <3>1. tima' = tima /\ ~reloadedThisTick'
      BY <1>3, <2>1, <2>3 DEF WriteTMA
    <3>2. ReadsZeroDuringReload' /\ ReloadTakesTMA'
      BY <2>1, <3>1 DEF IInv, ReadsZeroDuringReload, ReloadTakesTMA
    <3> QED  BY <1>0, <1>3, <2>1, <3>2, QuietWrite DEF WriteTMA
  <2> QED  BY <2>2, <2>3
<1>4. ASSUME NEW value \in TacValue, WriteTAC(value)
      PROVE  IInv'
  BY <1>0, <1>4, EdgeWrite DEF WriteTAC, TypeOK
<1>5. ASSUME CoreSlot,
             UNCHANGED <<registers, reloadDelay, prevEdge, owed>>
      PROVE  IInv'
  <2>1. UNCHANGED <<div, tac, prevEdge, reloadDelay, owed, tima, tma,
                    reloadedThisTick>>
    BY <1>5 DEF registers, CoreSlot
  <2>2. ReadsZeroDuringReload' /\ ReloadTakesTMA'
    BY <2>1 DEF IInv, ReadsZeroDuringReload, ReloadTakesTMA
  <2> QED  BY <1>0, <1>5, <2>1, <2>2, QuietWrite
<1> QED  BY <1>1, <1>2, <1>3, <1>4, <1>5 DEF Core, SetIF, ElseWhere

(***************************************************************************)
(* The invariant, and what follows from it.                                *)
(***************************************************************************)

(* The constructor's state satisfies the invariant. *)
LEMMA InvInit == Init => IInv
<1> SUFFICES ASSUME Init
             PROVE  IInv
  OBVIOUS
<1>1. ~Signal(div, tac)
  BY DEF Init, Signal, Enabled
<1>2. EdgeInSync
  BY <1>1 DEF Init, EdgeInSync, Signal, Enabled
<1> QED  BY <1>2, TypeInit
         DEF Init, IInv, SlotPhase, ReloadWindow, ReadsZeroDuringReload,
             OneAnswerPerOverflow, ReloadLanded, ReloadTakesTMA

(* Every step keeps the invariant. *)
LEMMA InvStep == IInv /\ [Next]_vars => IInv'
<1>1. IInv /\ UNCHANGED vars => IInv'
  BY DEF IInv, TypeOK, EdgeInSync, SlotPhase, ReloadWindow, Calm, Low, Quiet,
         NoSlotWithin, ReadsZeroDuringReload, OneAnswerPerOverflow,
         ReloadLanded, ReloadTakesTMA, vars
<1> QED  BY <1>1, TickStep, CoreStep DEF Next

(* The timer never leaves its inductive invariant, so that every reload due
   is safe from a second edge, for one of the two reasons in ReloadWindow. *)
THEOREM Invariance == Spec => []IInv
  BY InvInit, InvStep, PTL DEF Spec

(* No write of DIV or TAC and no clock edge counts TIMA up while a reload  *)
(* is due.                                                                 *)
THEOREM ReloadReadsZero == Spec => []ReadsZeroDuringReload
<1>1. IInv => ReadsZeroDuringReload
  BY DEF IInv
<1> QED  BY <1>1, Invariance, PTL

(* No overflow is lost and none is served twice. *)
THEOREM OverflowsAnswered == Spec => []OneAnswerPerOverflow
<1>1. IInv => OneAnswerPerOverflow
  BY DEF IInv
<1> QED  BY <1>1, Invariance, PTL

(* No write path leaves the edge detector with a stale clock bit. *)
THEOREM EdgeAlwaysInSync == Spec => []EdgeInSync
<1>1. IInv => EdgeInSync
  BY DEF IInv
<1> QED  BY <1>1, Invariance, PTL

(* On the reload cycle TIMA follows the last value of TMA. *)
THEOREM ReloadFollowsTMA == Spec => []ReloadTakesTMA
<1>1. IInv => ReloadTakesTMA
  BY DEF IInv
<1> QED  BY <1>1, Invariance, PTL

(* The timer requests its interrupt only for an overflow it owes one for,  *)
(* on the cycle the reload lands.                                          *)
THEOREM RequestsAreOwed == Spec => RequestedByReload
<1>1. IInv /\ [Next]_vars =>
          [pc = "timer" /\ ~ifTimer /\ ifTimer' => owed = 1 /\ reloadedThisTick']_vars
  <2> SUFFICES ASSUME IInv, Next, pc = "timer", ~ifTimer, ifTimer'
               PROVE  owed = 1 /\ reloadedThisTick'
    BY DEF vars
  <2>1. CASE Tick
    <3>1. reloadDelay = 1
      BY <2>1, Zenon DEF Tick, ReloadDue
    <3>2. reloadedThisTick'
      BY <2>1, <3>1, Zenon DEF Tick, ReloadDue
    <3> QED  BY <3>1, <3>2 DEF IInv, OneAnswerPerOverflow
  <2>2. CASE Core
    BY <2>2 DEF Core, WriteDIV, WriteTIMA, WriteTMA, WriteTAC, SetIF, ElseWhere,
                CoreSlot
  <2> QED  BY <2>1, <2>2 DEF Next
<1> QED  BY <1>1, Invariance, PTL DEF Spec, RequestedByReload

-----------------------------------------------------------------------------
(***************************************************************************)
(* The joypad and the serial port.                                         *)
(***************************************************************************)
USE DEF Pad!Low, Pad!LowLines, Pad!Selected

\* The history of the lines and the request, as each step of the pad moves it.
PadInv ==
    /\ ifJoypad \in BOOLEAN /\ fallen \in BOOLEAN
    /\ held \subseteq Pad!Low
    /\ RequestedByFalls

LEMMA PadRaises ==
    ASSUME PadInv, Pad!RaiseOnFallingEdge(Pad!Low), Pad!Watch
    PROVE  PadInv'
  BY DEF PadInv, RequestedByFalls, Pad!RequestedByFalls, Pad!RaiseOnFallingEdge, Pad!Watch

LEMMA ReleaseStep ==
    ASSUME PadInv, NEW button, Pad!Release(button)
    PROVE  PadInv'
<1>1. Pad!Low' \subseteq Pad!Low
  BY DEF Pad!Release
<1>2. ifJoypad' = ifJoypad /\ Pad!Watch
  BY DEF Pad!Release
<1>. QED
  BY <1>1, <1>2 DEF PadInv, RequestedByFalls, Pad!RequestedByFalls, Pad!Watch

LEMMA PadStep == PadInv /\ [IoNext]_ioVars => PadInv'
<1>. SUFFICES ASSUME PadInv, [IoNext]_ioVars PROVE PadInv'
  OBVIOUS
<1>1. CASE Keys
  <2>1. CASE \E button \in Pad!All : Pad!Press(button)
    BY <2>1, PadRaises DEF Pad!Press
  <2>2. CASE \E button \in Pad!All : Pad!Release(button)
    BY <2>2, ReleaseStep
  <2>3. CASE Pad!Select
    BY <2>3, PadRaises DEF Pad!Select
  <2>. QED BY <1>1, <2>1, <2>2, <2>3 DEF Keys, Pad!Play
<1>2. CASE Pad!ClearRequest
  BY <1>2 DEF PadInv, RequestedByFalls, Pad!RequestedByFalls, Pad!ClearRequest
<1>3. CASE UNCHANGED padVars
  BY <1>3 DEF padVars, PadInv, RequestedByFalls, Pad!RequestedByFalls
<1>. QED
  BY <1>1, <1>2, <1>3 DEF IoNext, Port, WriteIF, ioVars

LEMMA PadStart == IoInit => PadInv
  BY DEF IoInit, Pad!Init, PadInv, RequestedByFalls, Pad!RequestedByFalls

(* A joypad request stands for a fall of a line, and every fall is          *)
(* requested (RequestedByFalls): Joypad's requests survive everything but  *)
(* the program's own clearing.                                             *)
THEOREM FallsAreRequested == IoSpec => []RequestedByFalls
<1>1. PadInv => RequestedByFalls
  BY DEF PadInv
<1>. QED BY <1>1, PadStart, PadStep, PTL DEF IoSpec

-----------------------------------------------------------------------------
(* The log and its size, as far as the terminator's place depends on them. *)
Sendable == Bytes \cup {0}

LogInv ==
    /\ data \in Sendable
    /\ sent \in Seq(Sendable)
    /\ serialLog \in [Cells -> Sendable]
    /\ serialLogSize \in Nat
    /\ LogHoldsWhatWasSent

LEMMA LogStart == IoInit => LogInv
  BY MemoryIOAssumption
  DEF IoInit, SerialInit, LogInv, LogHoldsWhatWasSent, Sendable, Cells, Least

LEMMA LogStep == LogInv /\ [IoNext]_ioVars => LogInv'
<1>. SUFFICES ASSUME LogInv, [IoNext]_ioVars PROVE LogInv'
  OBVIOUS
<1>. USE MemoryIOAssumption DEF LogInv, Sendable
<1>1. CASE Transfer
  <2>1. data' \in Sendable
    BY <1>1 DEF Transfer
  <2>2. sent' \in Seq(Sendable) /\ Len(sent') = Len(sent) + 1
    BY <1>1 DEF Transfer
  <2>3. CASE LogHasRoom(serialLogSize)
    <3>1. /\ serialLogSize' = serialLogSize + 1
          /\ serialLog' = [serialLog EXCEPT ![serialLogSize] = data,
                                            ![serialLogSize + 1] = Terminator]
          /\ serialLogSize \in Cells /\ serialLogSize + 1 \in Cells
      BY <1>1, <2>3 DEF Transfer, Log, LogHasRoom, Cells
    <3>2. serialLog' \in [Cells -> Sendable]
      BY <3>1
    <3>3. serialLogSize = Len(sent)
      BY <2>3 DEF LogHasRoom, LogHoldsWhatWasSent, Least
    <3>4. ASSUME NEW i \in 1..serialLogSize' PROVE serialLog'[i - 1] = sent'[i]
      <4>1. CASE i = serialLogSize'
        BY <1>1, <3>1, <3>3, <4>1 DEF Transfer
      <4>2. CASE i \in 1..serialLogSize
        <5>1. i - 1 \in Cells /\ i - 1 # serialLogSize /\ i - 1 # serialLogSize + 1
          BY <3>1, <4>2 DEF Cells
        <5>2. sent'[i] = sent[i]
          BY <1>1, <3>3, <4>2 DEF Transfer
        <5>3. serialLog'[i - 1] = serialLog[i - 1]
          BY <3>1, <5>1
        <5>. QED BY <4>2, <5>2, <5>3 DEF LogHoldsWhatWasSent
      <4>. QED BY <3>1, <4>1, <4>2
    <3>5. serialLog'[serialLogSize'] = Terminator
      BY <3>1
    <3>6. serialLogSize' = Least(Len(sent'), LogCapacity - 1)
      BY <2>2, <2>3, <3>1, <3>3 DEF LogHasRoom, Least
    <3>7. LogHoldsWhatWasSent'
      BY <3>2, <3>4, <3>5, <3>6 DEF LogHoldsWhatWasSent
    <3>8. serialLogSize' \in Nat
      BY <3>1
    <3>. QED BY <2>1, <2>2, <3>2, <3>7, <3>8
  <2>4. CASE ~LogHasRoom(serialLogSize)
    <3>1. UNCHANGED <<serialLog, serialLogSize>>
      BY <1>1, <2>4 DEF Transfer, Log
    <3>2. serialLogSize = LogCapacity - 1 /\ Len(sent) >= LogCapacity - 1
      BY <2>4 DEF LogHasRoom, LogHoldsWhatWasSent, Least
    <3>3. serialLogSize' = Least(Len(sent'), LogCapacity - 1)
      BY <2>2, <3>1, <3>2 DEF Least
    <3>4. \A i \in 1..serialLogSize : sent'[i] = sent[i]
      BY <1>1, <3>2 DEF Transfer
    <3>. QED BY <2>1, <2>2, <3>1, <3>3, <3>4 DEF LogHoldsWhatWasSent
  <2>. QED BY <2>3, <2>4
<1>2. CASE WriteSB
  <2>1. data' \in Sendable /\ UNCHANGED <<serialLog, serialLogSize, sent>>
    BY <1>2 DEF WriteSB
  <2>. QED BY <2>1 DEF LogHoldsWhatWasSent
<1>3. CASE WriteSC \/ ClearRequest \/ WriteBoot \/ UNCHANGED serialVars
  BY <1>3 DEF WriteSC, ClearRequest, WriteBoot, serialVars, port, LogHoldsWhatWasSent
<1>. QED
  BY <1>1, <1>2, <1>3 DEF IoNext, Keys, Port, WriteIF, ioVars

(* The serial log always ends inside its buffer and holds the bytes that   *)
(* were sent, up to its capacity (LogHoldsWhatWasSent).                    *)
THEOREM LogIsFaithful == IoSpec => []LogHoldsWhatWasSent
<1>1. LogInv => LogHoldsWhatWasSent
  BY DEF LogInv
<1>. QED BY <1>1, LogStart, LogStep, PTL DEF IoSpec
=============================================================================
