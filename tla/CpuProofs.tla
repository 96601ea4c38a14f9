----------------------------- MODULE CpuProofs -----------------------------
(* The sequencer for any number of addresses and requests, any handlers,   *)
(* and programs made of any of the kinds of instruction.                   *)
EXTENDS ControlUnit, TLAPS, WellFoundedInduction, FiniteSetTheorems

-----------------------------------------------------------------------------
(* The sequencer. *)

\* The cycles that end an instruction, whatever the condition.
Last == {"fetch", "fetchSP", "fetchTarget", "enable", "disable", "halt", "prefix"}

\* One to six cycles, of which the last, and no other, is such a cycle.
WellFormed(m) ==
    /\ Len(m) \in 1..6
    /\ \A n \in 1..Len(m) : m[n] \in Last <=> n = Len(m)

LEMMA WellFormed1 == ASSUME NEW z \in Last PROVE WellFormed(<<z>>)
  BY DEF WellFormed

LEMMA WellFormed2 ==
    ASSUME NEW a, a \notin Last, NEW z \in Last
    PROVE  WellFormed(<<a, z>>)
<1>. DEFINE m == <<a, z>>
<1>1. Len(m) = 2 /\ m[1] = a /\ m[2] = z
  OBVIOUS
<1>. HIDE DEF m
<1>. QED
  <2>1. WellFormed(m)
    BY <1>1 DEF WellFormed
  <2>. QED BY <2>1 DEF m

LEMMA WellFormed3 ==
    ASSUME NEW a, a \notin Last, NEW b, b \notin Last, NEW z \in Last
    PROVE  WellFormed(<<a, b, z>>)
<1>. DEFINE m == <<a, b, z>>
<1>1. Len(m) = 3 /\ m[1] = a /\ m[2] = b /\ m[3] = z
  OBVIOUS
<1>. HIDE DEF m
<1>. QED
  <2>1. WellFormed(m)
    BY <1>1 DEF WellFormed
  <2>. QED BY <2>1 DEF m

LEMMA WellFormed4 ==
    ASSUME NEW a, a \notin Last, NEW b, b \notin Last, NEW c, c \notin Last, NEW z \in Last
    PROVE  WellFormed(<<a, b, c, z>>)
<1>. DEFINE m == <<a, b, c, z>>
<1>1. Len(m) = 4 /\ m[1] = a /\ m[2] = b /\ m[3] = c /\ m[4] = z
  OBVIOUS
<1>. HIDE DEF m
<1>. QED
  <2>1. WellFormed(m)
    BY <1>1 DEF WellFormed
  <2>. QED BY <2>1 DEF m

LEMMA WellFormed5 ==
    ASSUME NEW a, a \notin Last, NEW b, b \notin Last, NEW c, c \notin Last, NEW d, d \notin Last,
           NEW z \in Last
    PROVE  WellFormed(<<a, b, c, d, z>>)
<1>. DEFINE m == <<a, b, c, d, z>>
<1>1. Len(m) = 5 /\ m[1] = a /\ m[2] = b /\ m[3] = c /\ m[4] = d /\ m[5] = z
  OBVIOUS
<1>. HIDE DEF m
<1>. QED
  <2>1. WellFormed(m)
    BY <1>1 DEF WellFormed
  <2>. QED BY <2>1 DEF m

LEMMA WellFormed6 ==
    ASSUME NEW a, a \notin Last, NEW b, b \notin Last, NEW c, c \notin Last, NEW d, d \notin Last,
           NEW e, e \notin Last, NEW z \in Last
    PROVE  WellFormed(<<a, b, c, d, e, z>>)
<1>. DEFINE m == <<a, b, c, d, e, z>>
<1>1. Len(m) = 6 /\ m[1] = a /\ m[2] = b /\ m[3] = c /\ m[4] = d /\ m[5] = e /\ m[6] = z
  OBVIOUS
<1>. HIDE DEF m
<1>. QED
  <2>1. WellFormed(m)
    BY <1>1 DEF WellFormed
  <2>. QED BY <2>1 DEF m

LEMMA Words ==
    \A op \in {"decSP", "decSPIf", "internal", "internalIf", "jump", "jumpIME", "jumpIf",
               "operand", "operandTest", "pop", "popIf", "push", "pushPCH", "pushPCL",
               "read", "setSP", "test", "write"} : op \notin Last
  BY DEF Last

LEMMA LastWords ==
    \A op \in {"fetch", "fetchSP", "fetchTarget", "enable", "disable", "halt", "prefix"} : op \in Last
  BY DEF Last

LEMMA LoadWellFormed == \A k \in DOMAIN LoadMicrocode : WellFormed(LoadMicrocode[k])
<1>1. WellFormed(LoadMicrocode.Read)
  BY Words, LastWords, WellFormed2 DEF LoadMicrocode
<1>2. WellFormed(LoadMicrocode.Write)
  BY Words, LastWords, WellFormed2 DEF LoadMicrocode
<1>3. WellFormed(LoadMicrocode.ImmediateRead)
  BY Words, LastWords, WellFormed3 DEF LoadMicrocode
<1>4. WellFormed(LoadMicrocode.ImmediateWrite)
  BY Words, LastWords, WellFormed3 DEF LoadMicrocode
<1>5. WellFormed(LoadMicrocode.DirectRead)
  BY Words, LastWords, WellFormed4 DEF LoadMicrocode
<1>6. WellFormed(LoadMicrocode.DirectWrite)
  BY Words, LastWords, WellFormed4 DEF LoadMicrocode
<1>. QED
  BY <1>1, <1>2, <1>3, <1>4, <1>5, <1>6 DEF LoadMicrocode

LEMMA StackWellFormed == \A k \in DOMAIN StackMicrocode : WellFormed(StackMicrocode[k])
<1>1. WellFormed(StackMicrocode.Immediate16)
  BY Words, LastWords, WellFormed3 DEF StackMicrocode
<1>2. WellFormed(StackMicrocode.LoadSP)
  BY Words, LastWords, WellFormed3 DEF StackMicrocode
<1>3. WellFormed(StackMicrocode.StoreSP)
  BY Words, LastWords, WellFormed5 DEF StackMicrocode
<1>4. WellFormed(StackMicrocode.CopySP)
  BY Words, LastWords, WellFormed2 DEF StackMicrocode
<1>5. WellFormed(StackMicrocode.OffsetSP)
  BY Words, LastWords, WellFormed3 DEF StackMicrocode
<1>6. WellFormed(StackMicrocode.Push)
  BY Words, LastWords, WellFormed4 DEF StackMicrocode
<1>7. WellFormed(StackMicrocode.Pop)
  BY Words, LastWords, WellFormed3 DEF StackMicrocode
<1>. QED
  BY <1>1, <1>2, <1>3, <1>4, <1>5, <1>6, <1>7 DEF StackMicrocode

LEMMA ArithmeticWellFormed ==
    \A k \in DOMAIN ArithmeticMicrocode : WellFormed(ArithmeticMicrocode[k])
<1>1. WellFormed(ArithmeticMicrocode.OneCycle)
  BY Words, LastWords, WellFormed1 DEF ArithmeticMicrocode
<1>2. WellFormed(ArithmeticMicrocode.Immediate)
  BY Words, LastWords, WellFormed2 DEF ArithmeticMicrocode
<1>3. WellFormed(ArithmeticMicrocode.ReadModifyWrite)
  BY Words, LastWords, WellFormed3 DEF ArithmeticMicrocode
<1>. QED
  BY <1>1, <1>2, <1>3 DEF ArithmeticMicrocode

LEMMA WideWellFormed == \A k \in DOMAIN WideMicrocode : WellFormed(WideMicrocode[k])
<1>1. WellFormed(WideMicrocode.Internal)
  BY Words, LastWords, WellFormed2 DEF WideMicrocode
<1>2. WellFormed(WideMicrocode.AddSP)
  BY Words, LastWords, WellFormed4 DEF WideMicrocode
<1>. QED
  BY <1>1, <1>2 DEF WideMicrocode

LEMMA JumpWellFormed == \A k \in DOMAIN JumpMicrocode : WellFormed(JumpMicrocode[k])
<1>1. WellFormed(JumpMicrocode.Jump)
  BY Words, LastWords, WellFormed4 DEF JumpMicrocode
<1>2. WellFormed(JumpMicrocode.JumpIf)
  BY Words, LastWords, WellFormed4 DEF JumpMicrocode
<1>3. WellFormed(JumpMicrocode.JumpHL)
  BY Words, LastWords, WellFormed1 DEF JumpMicrocode
<1>4. WellFormed(JumpMicrocode.RelativeJump)
  BY Words, LastWords, WellFormed3 DEF JumpMicrocode
<1>5. WellFormed(JumpMicrocode.RelativeJumpIf)
  BY Words, LastWords, WellFormed3 DEF JumpMicrocode
<1>. QED
  BY <1>1, <1>2, <1>3, <1>4, <1>5 DEF JumpMicrocode

LEMMA CallWellFormed == \A k \in DOMAIN CallMicrocode : WellFormed(CallMicrocode[k])
<1>1. WellFormed(CallMicrocode.Call)
  BY Words, LastWords, WellFormed6 DEF CallMicrocode
<1>2. WellFormed(CallMicrocode.CallIf)
  BY Words, LastWords, WellFormed6 DEF CallMicrocode
<1>3. WellFormed(CallMicrocode.Restart)
  BY Words, LastWords, WellFormed4 DEF CallMicrocode
<1>. QED
  BY <1>1, <1>2, <1>3 DEF CallMicrocode

LEMMA ReturnWellFormed == \A k \in DOMAIN ReturnMicrocode : WellFormed(ReturnMicrocode[k])
<1>1. WellFormed(ReturnMicrocode.Return)
  BY Words, LastWords, WellFormed4 DEF ReturnMicrocode
<1>2. WellFormed(ReturnMicrocode.ReturnIf)
  BY Words, LastWords, WellFormed5 DEF ReturnMicrocode
<1>3. WellFormed(ReturnMicrocode.ReturnI)
  BY Words, LastWords, WellFormed4 DEF ReturnMicrocode
<1>. QED
  BY <1>1, <1>2, <1>3 DEF ReturnMicrocode

LEMMA ControlWellFormed == \A k \in DOMAIN ControlMicrocode : WellFormed(ControlMicrocode[k])
<1>1. WellFormed(ControlMicrocode.Halt)
  BY Words, LastWords, WellFormed1 DEF ControlMicrocode
<1>2. WellFormed(ControlMicrocode.EI)
  BY Words, LastWords, WellFormed1 DEF ControlMicrocode
<1>3. WellFormed(ControlMicrocode.DI)
  BY Words, LastWords, WellFormed1 DEF ControlMicrocode
<1>4. WellFormed(ControlMicrocode.CB)
  BY Words, LastWords, WellFormed1 DEF ControlMicrocode
<1>. QED
  BY <1>1, <1>2, <1>3, <1>4 DEF ControlMicrocode

LEMMA MergeWellFormed ==
    ASSUME NEW f, NEW g,
           \A k \in DOMAIN f : WellFormed(f[k]),
           \A k \in DOMAIN g : WellFormed(g[k])
    PROVE  /\ \A k \in DOMAIN Merge(f, g) : WellFormed(Merge(f, g)[k])
           /\ DOMAIN f \cup DOMAIN g = DOMAIN Merge(f, g)
  BY DEF Merge

LEMMA MicrocodeWellFormed ==
    /\ \A k \in Kinds \cup CbKinds : WellFormed(Microcode[k])
    /\ Kinds \cup CbKinds \subseteq DOMAIN Microcode
<1>. DEFINE m7 == Merge(ReturnMicrocode, ControlMicrocode)
           m6 == Merge(CallMicrocode, m7)
           m5 == Merge(JumpMicrocode, m6)
           m4 == Merge(WideMicrocode, m5)
           m3 == Merge(ArithmeticMicrocode, m4)
           m2 == Merge(StackMicrocode, m3)
           All(m) == \A k \in DOMAIN m : WellFormed(m[k])
<1>7. All(m7)
  BY MergeWellFormed, ReturnWellFormed, ControlWellFormed
<1>6. All(m6)
  <2>. HIDE DEF m7
  <2>. QED BY <1>7, MergeWellFormed, CallWellFormed
<1>5. All(m5)
  <2>. HIDE DEF m6
  <2>. QED BY <1>6, MergeWellFormed, JumpWellFormed
<1>4. All(m4)
  <2>. HIDE DEF m5
  <2>. QED BY <1>5, MergeWellFormed, WideWellFormed
<1>3. All(m3) /\ CbKinds \subseteq DOMAIN m3 \cup DOMAIN LoadMicrocode
  <2>1. DOMAIN ArithmeticMicrocode \cup DOMAIN m4 = DOMAIN m3
    BY DEF Merge
  <2>2. CbKinds \subseteq DOMAIN ArithmeticMicrocode \cup DOMAIN LoadMicrocode
    BY DEF CbKinds, ArithmeticMicrocode, LoadMicrocode
  <2>. HIDE DEF m4
  <2>. QED BY <1>4, <2>1, <2>2, MergeWellFormed, ArithmeticWellFormed
<1>2. All(m2) /\ CbKinds \subseteq DOMAIN m2 \cup DOMAIN LoadMicrocode
  <2>1. DOMAIN m3 \subseteq DOMAIN m2
    BY DEF Merge
  <2>. HIDE DEF m3
  <2>. QED BY <1>3, <2>1, MergeWellFormed, StackWellFormed
<1>1. All(Microcode) /\ CbKinds \subseteq DOMAIN Microcode
  <2>1. Microcode = Merge(LoadMicrocode, m2)
    BY DEF Microcode
  <2>. HIDE DEF m2
  <2>2. DOMAIN LoadMicrocode \cup DOMAIN m2 = DOMAIN Merge(LoadMicrocode, m2)
    BY DEF Merge
  <2>. QED BY <1>2, <2>1, <2>2, MergeWellFormed, LoadWellFormed
<1>. QED BY <1>1, ControlUnitAssumption

\* The request a dispatch chooses is one that is pending.
LEMMA LeastExists ==
    ASSUME NEW S \in SUBSET Nat, S # {}
    PROVE  \E i \in S : \A j \in S : i <= j
<1>. DEFINE Less == {p \in Nat \X Nat : p[1] < p[2]}
<1>1. IsWellFoundedOn(Less, Nat)
  BY NatLessThanWellFounded DEF OpToRel
<1>2. PICK i \in S : \A j \in S : ~(<<j, i>> \in Less)
  BY <1>1, WFMin
<1>3. \A a, b \in Nat : a < b => <<a, b>> \in Less
  OBVIOUS
<1>4. ASSUME NEW j \in S PROVE i <= j
  <2>1. i \in Nat /\ j \in Nat
    BY <1>2, <1>4
  <2>2. ~(j < i)
    <3>. HIDE DEF Less
    <3>. QED BY <1>2, <1>3, <1>4, <2>1
  <2>. QED BY <2>1, <2>2
<1>. QED BY <1>2, <1>4

LEMMA ServingPending ==
    Pending \subseteq Irq /\ Scrap => Serving \in Pending
<1>. SUFFICES ASSUME Pending \subseteq Irq, Scrap PROVE Serving \in Pending
  OBVIOUS
<1>1. Pending \in SUBSET Nat /\ Pending # {}
  BY ControlUnitAssumption DEF Scrap, Irq
<1>2. \E i \in Pending : \A j \in Pending : i <= j
  BY <1>1, LeastExists
<1>. QED BY <1>2 DEF Serving

-----------------------------------------------------------------------------
LEMMA AddrStep ==
    ASSUME NEW a \in Addr PROVE Plus(a, 1) \in Addr /\ Minus(a, 1) \in Addr
<1>1. \A n \in Int : n % AddrCount \in Addr
  BY ControlUnitAssumption DEF Addr
<1>2. a + 1 \in Int /\ a + AddrCount - 1 \in Int
  BY ControlUnitAssumption DEF Addr
<1>. QED BY <1>1, <1>2 DEF Plus, Minus

LEMMA InvInit == Init => IInv
<1>. SUFFICES ASSUME Init PROVE IInv
  OBVIOUS
<1>1. start \in Addr
  BY AddrStep DEF Init
<1>2. 0 \in Addr /\ IrqCount \in Nat
  BY ControlUnitAssumption DEF Addr
<1>3. 0 < Len(Microcode[IR])
  BY MicrocodeWellFormed DEF Init, WellFormed, CbKinds
<1>4. IR \in Kinds \cup CbKinds
  BY DEF Init, CbKinds
<1>5. TypeOK
  <2>1. /\ isCbInstruction \in BOOLEAN /\ cCheck \in BOOLEAN /\ repeated \in BOOLEAN
        /\ IME \in BOOLEAN /\ enablingIME \in BOOLEAN
        /\ halted \in BOOLEAN /\ isHandling \in BOOLEAN
        /\ ~isCbInstruction
    BY DEF Init
  <2>2. /\ PC \in Addr /\ SP \in Addr /\ baseSP \in Addr /\ pushedPC \in Addr
        /\ instructionCycle = 0 /\ irq \in 0..IrqCount /\ last = "other"
        /\ IEflags \subseteq Irq /\ IFflags \subseteq Irq
    BY <1>2 DEF Init
  <2>. QED BY <1>1, <1>3, <1>4, <2>1, <2>2 DEF TypeOK
<1>. QED
  BY <1>5
  DEF Init, IInv, DispatchCoherent, WindowShut, DispatchTarget, Boundary

\* What a cycle of an instruction finds, and that more follow one that is not
\* the last.
LEMMA Executes ==
    ASSUME IInv, NEW op, Execute(op)
    PROVE  /\ ~isHandling /\ isHandling' = FALSE /\ irq' = irq
           /\ halted' \in BOOLEAN /\ (op # "halt" => halted' = FALSE)
           /\ instructionCycle \in 0..5
           /\ op \notin Last =>
                  /\ instructionCycle + 1 \in 1..5
                  /\ instructionCycle + 1 < Len(Microcode[IR])
<1>1. /\ ~isHandling /\ instructionCycle \in 0..5
      /\ IR \in Kinds \cup CbKinds /\ instructionCycle < Len(Microcode[IR])
  BY DEF IInv, TypeOK, Execute, Handling
<1>2. WellFormed(Microcode[IR])
  BY <1>1, MicrocodeWellFormed
<1>3. Microcode[IR][instructionCycle + 1] = op
  BY DEF Execute
<1>4. instructionCycle + 1 \in 1..Len(Microcode[IR])
  BY <1>1, <1>2 DEF WellFormed
<1>5. op \notin Last => instructionCycle + 1 # Len(Microcode[IR])
  BY <1>2, <1>3, <1>4 DEF WellFormed
<1>6. op \notin Last => instructionCycle + 1 \in 1..5 /\ instructionCycle + 1 < Len(Microcode[IR])
  BY <1>2, <1>4, <1>5 DEF WellFormed
<1>7. /\ isHandling' = FALSE /\ irq' = irq
      /\ halted' \in BOOLEAN /\ (op # "halt" => halted' = FALSE)
  BY DEF Execute
<1>. QED
  BY <1>1, <1>6, <1>7

\* What the sequencer keeps for the data a cycle may move.
DataFits ==
    /\ PC \in Addr /\ SP \in Addr /\ pushedPC \in Addr
    /\ cCheck \in BOOLEAN /\ IME \in BOOLEAN
    /\ IEflags \subseteq Irq /\ IFflags \subseteq Irq

LEMMA ProceedStep ==
    ASSUME IInv, NEW op, Execute(op), op \notin Last, Proceed, DataFits',
           enablingIME' = EnablingNow
    PROVE  IInv'
<1>. USE Executes
<1>1. /\ instructionCycle' \in 1..5 /\ instructionCycle' < Len(Microcode[IR'])
      /\ isHandling' = FALSE /\ halted' = FALSE
  BY DEF Proceed, Last
<1>2. enablingIME' = FALSE
  BY DEF IInv, DispatchCoherent, EnablingNow
<1>3. TypeOK'
  <2>1. /\ isCbInstruction' = isCbInstruction /\ IR' = IR /\ repeated' = repeated
        /\ start' = start /\ baseSP' = baseSP /\ last' = last /\ irq' = irq
    BY DEF Proceed
  <2>2. TypeOK
    BY DEF IInv
  <2>3. /\ isCbInstruction' \in BOOLEAN /\ repeated' \in BOOLEAN
        /\ enablingIME' \in BOOLEAN /\ halted' \in BOOLEAN /\ isHandling' \in BOOLEAN
    BY <1>1, <1>2, <2>1, <2>2 DEF TypeOK
  <2>4. /\ start' \in Addr /\ baseSP' \in Addr /\ IR' \in Kinds \cup CbKinds
        /\ irq' \in 0..IrqCount /\ last' \in {"other", "EI", "DI", "dispatch"}
        /\ (isCbInstruction' => IR' \in CbKinds)
    BY <2>1, <2>2 DEF TypeOK
  <2>5. instructionCycle' \in 0..5
    BY <1>1
  <2>. QED BY <1>1, <2>3, <2>4, <2>5 DEF TypeOK, DataFits
<1>4. DispatchCoherent'
  BY <1>1, <1>2 DEF DispatchCoherent
<1>5. WindowShut' /\ DispatchTarget'
  BY <1>1 DEF WindowShut, DispatchTarget, Boundary
<1>. QED BY <1>3, <1>4, <1>5 DEF IInv

\* After the opcode fetch of any instruction or dispatch.
LEMMA FetchStep ==
    ASSUME IInv, NEW addr \in Addr, M1(addr), DataFits',
           baseSP' = SP', irq' \in 0..IrqCount, isHandling' = FALSE, halted' = FALSE,
           enablingIME' \in BOOLEAN,
           last' \in {"other", "EI", "DI", "dispatch"},
           last' # "other" => ~IME'
    PROVE  IInv'
<1>1. /\ IR' \in Kinds /\ instructionCycle' = 0 /\ isCbInstruction' = FALSE
      /\ start' = addr /\ repeated' = FALSE
  BY DEF M1
<1>0. 0 < Len(Microcode[IR'])
  <2>. DEFINE m == Microcode[IR']
  <2>1. WellFormed(m)
    BY <1>1, MicrocodeWellFormed
  <2>. HIDE DEF m
  <2>2. 0 < Len(m)
    BY <2>1 DEF WellFormed
  <2>. QED BY <2>2 DEF m
<1>2. TypeOK'
  <2>1. /\ isCbInstruction' \in BOOLEAN /\ repeated' \in BOOLEAN
        /\ halted' \in BOOLEAN /\ isHandling' \in BOOLEAN
    BY <1>1
  <2>2. start' \in Addr /\ baseSP' \in Addr
    BY <1>1 DEF DataFits
  <2>3. IR' \in Kinds \cup CbKinds
    BY <1>1
  <2>4. instructionCycle' \in 0..5
    BY <1>1
  <2>5. isCbInstruction' => IR' \in CbKinds
    BY <1>1
  <2>6. ~isHandling' => instructionCycle' < Len(Microcode[IR'])
    BY <1>0, <1>1
  <2>. QED BY <2>1, <2>2, <2>3, <2>4, <2>5, <2>6 DEF TypeOK, DataFits
<1>3. DispatchCoherent'
  BY DEF M1, DispatchCoherent, Boundary
<1>4. WindowShut' /\ DispatchTarget'
  BY DEF WindowShut, DispatchTarget
<1>. QED BY <1>2, <1>3, <1>4 DEF IInv

LEMMA RetireStep ==
    ASSUME IInv, NEW op, Execute(op), op # "halt", NEW addr \in Addr, Retire(addr),
           SP' \in Addr, IME' \in BOOLEAN, enablingIME' \in BOOLEAN,
           last' \in {"other", "EI", "DI", "dispatch"},
           last' # "other" => ~IME'
    PROVE  IInv'
<1>1. 0 \in Addr /\ PC' \in Addr
  BY ControlUnitAssumption, AddrStep DEF Retire, M1, Addr
<1>2. DataFits'
  BY <1>1 DEF Retire, DataFits, IInv, TypeOK, lines
<1>3. /\ isHandling' = FALSE /\ halted' = FALSE /\ irq' \in 0..IrqCount
  BY Executes DEF IInv, TypeOK
<1>. QED BY <1>2, <1>3, FetchStep DEF Retire

LEMMA Settles ==
    ASSUME IInv, SettleIME
    PROVE  /\ IME' \in BOOLEAN /\ enablingIME' \in BOOLEAN /\ enablingIME' = EnablingNow
           /\ ~enablingIME'
  BY DEF IInv, TypeOK, DispatchCoherent, SettleIME, IMENow, EnablingNow

LEMMA BusWriteFits ==
    ASSUME IInv, BusWrite PROVE IEflags' \subseteq Irq /\ IFflags' \subseteq Irq
  BY DEF IInv, TypeOK, BusWrite, lines

\* The cycles that settle IME as most do.
LEMMA CycleStep ==
    ASSUME IInv, NEW op, Execute(op), op \notin Last, Proceed, SettleIME,
           PC' \in Addr, SP' \in Addr, pushedPC' \in Addr, cCheck' \in BOOLEAN,
           IEflags' \subseteq Irq, IFflags' \subseteq Irq
    PROVE  IInv'
<1>1. IME' \in BOOLEAN /\ enablingIME' = EnablingNow
  BY Settles
<1>2. DataFits'
  BY <1>1 DEF DataFits
<1>. QED BY <1>1, <1>2, ProceedStep

LEMMA DataHeld ==
    ASSUME IInv
    PROVE  /\ PC \in Addr /\ SP \in Addr /\ pushedPC \in Addr /\ cCheck \in BOOLEAN
           /\ Plus(PC, 1) \in Addr /\ Plus(SP, 1) \in Addr /\ Minus(SP, 1) \in Addr
           /\ Minus(PC, 1) \in Addr /\ Minus(Plus(PC, 1), 1) \in Addr
           /\ IEflags \subseteq Irq /\ IFflags \subseteq Irq
           /\ 0 \in Addr /\ IrqCount \in Nat /\ irq \in 0..IrqCount
  BY AddrStep, ControlUnitAssumption DEF IInv, TypeOK, Addr

LEMMA CyclesStep ==
    ASSUME IInv,
           Operand \/ Test \/ Internal \/ Write \/ SetSP \/ DecSP \/ Push \/ PushPCL \/ Pop
    PROVE  IInv'
<1>. USE DataHeld, Words
<1>1. CASE Operand
  BY <1>1, CycleStep DEF Operand, lines
<1>2. CASE Test
  BY <1>2, CycleStep DEF Test, lines
<1>3. CASE Internal
  BY <1>3, CycleStep DEF Internal, Taken, lines
<1>4. CASE Write
  BY <1>4, CycleStep, BusWriteFits DEF Write
<1>5. CASE SetSP
  BY <1>5, CycleStep DEF SetSP, lines
<1>6. CASE DecSP
  BY <1>6, CycleStep DEF DecSP, Taken, lines
<1>7. CASE Push
  BY <1>7, CycleStep, BusWriteFits DEF Push
<1>8. CASE PushPCL
  BY <1>8, CycleStep, BusWriteFits DEF PushPCL
<1>9. CASE Pop
  BY <1>9, CycleStep DEF Pop, Taken, lines
<1>. QED BY <1>1, <1>2, <1>3, <1>4, <1>5, <1>6, <1>7, <1>8, <1>9

LEMMA JumpStep == IInv /\ Jump => IInv'
<1>. SUFFICES ASSUME IInv, Jump PROVE IInv'
  OBVIOUS
<1>. USE DataHeld, Words
<1>1. CASE Taken("jump", "jumpIf") /\ SettleIME
  BY <1>1, CycleStep DEF Jump, Taken, lines
<1>2. CASE Execute("jumpIME") /\ IME' = TRUE /\ enablingIME' = EnablingNow
  <2>1. DataFits'
    BY <1>2 DEF Jump, DataFits, lines
  <2>. QED BY <1>2, <2>1, ProceedStep DEF Jump
<1>. QED BY <1>1, <1>2 DEF Jump

LEMMA RetiresStep ==
    ASSUME IInv, Fetch \/ FetchTarget \/ EnableInterrupts \/ DisableInterrupts
    PROVE  IInv'
<1>. USE DataHeld
<1>1. CASE Fetch
  <2>1. PICK op \in {"fetch", "fetchSP", "internalIf", "decSPIf", "popIf", "jumpIf"} : Execute(op)
    BY <1>1 DEF Fetch
  <2>2. op # "halt" /\ SP' \in Addr /\ Retire(PC) /\ last' = "other"
    BY <1>1, <2>1 DEF Fetch
  <2>3. IME' \in BOOLEAN /\ enablingIME' \in BOOLEAN
    BY <1>1, Settles DEF Fetch
  <2>. QED BY <2>1, <2>2, <2>3, RetireStep
<1>2. CASE FetchTarget
  <2>1. IME' \in BOOLEAN /\ enablingIME' \in BOOLEAN
    BY <1>2, Settles DEF FetchTarget
  <2>2. PICK target \in Addr : Retire(target)
    BY <1>2 DEF FetchTarget
  <2>3. Execute("fetchTarget") /\ SP' \in Addr /\ last' = "other"
    BY <1>2 DEF FetchTarget
  <2>. QED BY <2>1, <2>2, <2>3, RetireStep
<1>3. CASE EnableInterrupts
  <2>1. IME' = IMENow /\ IME' \in BOOLEAN /\ enablingIME' \in BOOLEAN
    BY <1>3 DEF EnableInterrupts, IMENow, IInv, TypeOK
  <2>2. last' \in {"other", "EI"} /\ (last' # "other" => ~IME')
    BY <1>3, <2>1 DEF EnableInterrupts
  <2>3. Execute("enable") /\ SP' \in Addr /\ Retire(PC)
    BY <1>3 DEF EnableInterrupts
  <2>. QED BY <2>1, <2>2, <2>3, RetireStep
<1>4. CASE DisableInterrupts
  <2>1. Execute("disable") /\ SP' \in Addr /\ Retire(PC)
    BY <1>4 DEF DisableInterrupts
  <2>2. IME' = FALSE /\ enablingIME' = FALSE /\ last' = "DI"
    BY <1>4 DEF DisableInterrupts
  <2>. QED BY <2>1, <2>2, RetireStep
<1>. QED BY <1>1, <1>2, <1>3, <1>4

LEMMA HaltStep == IInv /\ Halt => IInv'
<1>. SUFFICES ASSUME IInv, Halt PROVE IInv'
  OBVIOUS
<1>. USE DataHeld
<1>1. /\ IR' \in Kinds /\ instructionCycle' = 0 /\ isCbInstruction' = FALSE
      /\ PC' \in Addr /\ start' \in Addr /\ baseSP' \in Addr
      /\ repeated' \in BOOLEAN /\ last' = "other"
      /\ UNCHANGED <<SP, cCheck, pushedPC, lines>>
  BY DEF Halt
<1>2. isHandling' = FALSE /\ irq' = irq /\ halted' \in BOOLEAN
  BY Executes DEF Halt
<1>3. IME' \in BOOLEAN /\ enablingIME' \in BOOLEAN
  BY Settles DEF Halt
<1>4. 0 < Len(Microcode[IR'])
  <2>1. WellFormed(Microcode[IR'])
    BY <1>1, MicrocodeWellFormed
  <2>. QED BY <2>1 DEF WellFormed
<1>5. TypeOK'
  <2>1. IR' \in Kinds \cup CbKinds /\ instructionCycle' \in 0..5
    BY <1>1
  <2>. QED BY <1>1, <1>2, <1>3, <1>4, <2>1 DEF TypeOK, lines
<1>6. DispatchCoherent' /\ WindowShut' /\ DispatchTarget'
  BY <1>1, <1>2 DEF DispatchCoherent, WindowShut, DispatchTarget, Boundary
<1>. QED BY <1>5, <1>6 DEF IInv

LEMMA PrefixStep == IInv /\ Prefix => IInv'
<1>. SUFFICES ASSUME IInv, Prefix PROVE IInv'
  OBVIOUS
<1>. USE DataHeld
<1>1. /\ IR' \in CbKinds /\ instructionCycle' = 0 /\ isCbInstruction' = TRUE
      /\ PC' \in Addr /\ last' = "other"
      /\ UNCHANGED <<SP, cCheck, pushedPC, lines, start, repeated, baseSP>>
  BY DEF Prefix
<1>2. isHandling' = FALSE /\ irq' = irq /\ halted' = FALSE
  <2>1. Execute("prefix") /\ "prefix" # "halt"
    BY DEF Prefix
  <2>. QED BY <2>1, Executes
<1>3. IME' \in BOOLEAN /\ enablingIME' \in BOOLEAN
  BY Settles DEF Prefix
<1>4. 0 < Len(Microcode[IR'])
  <2>1. WellFormed(Microcode[IR'])
    BY <1>1, MicrocodeWellFormed
  <2>. QED BY <2>1 DEF WellFormed
<1>5. TypeOK'
  <2>1. IR' \in Kinds \cup CbKinds /\ instructionCycle' \in 0..5
    BY <1>1
  <2>2. start' \in Addr /\ baseSP' \in Addr /\ repeated' \in BOOLEAN
    BY <1>1 DEF IInv, TypeOK
  <2>. QED BY <1>1, <1>2, <1>3, <1>4, <2>1, <2>2 DEF TypeOK, lines
<1>6. DispatchCoherent' /\ WindowShut' /\ DispatchTarget'
  BY <1>1, <1>2 DEF DispatchCoherent, WindowShut, DispatchTarget, Boundary
<1>. QED BY <1>5, <1>6 DEF IInv

LEMMA StayHaltedStep == IInv /\ StayHalted => IInv'
<1>. SUFFICES ASSUME IInv, StayHalted PROVE IInv'
  OBVIOUS
<1>1. IME' \in BOOLEAN /\ enablingIME' = FALSE
  BY Settles DEF StayHalted
<1>2. halted /\ Boundary /\ ~isHandling /\ last = "other"
  BY DEF StayHalted, Awake, IInv, DispatchCoherent, WindowShut
<1>3. UNCHANGED <<PC, SP, IR, instructionCycle, isCbInstruction, cCheck, halted,
                  isHandling, irq, lines, history>>
  BY DEF StayHalted
<1>4. TypeOK'
  BY <1>1, <1>3 DEF IInv, TypeOK, lines, history
<1>5. DispatchCoherent'
  BY <1>1, <1>2, <1>3 DEF IInv, DispatchCoherent, Boundary
<1>6. WindowShut' /\ DispatchTarget'
  BY <1>2, <1>3 DEF WindowShut, DispatchTarget, history
<1>. QED BY <1>4, <1>5, <1>6 DEF IInv

LEMMA RaiseStep == IInv /\ Raise => IInv'
<1>. SUFFICES ASSUME IInv, Raise PROVE IInv'
  OBVIOUS
<1>1. IFflags' \subseteq Irq
  BY DEF Raise, IInv, TypeOK
<1>2. TypeOK'
  BY <1>1 DEF Raise, IInv, TypeOK, history
<1>3. DispatchCoherent'
  BY DEF Raise, IInv, DispatchCoherent, Boundary
<1>4. WindowShut' /\ DispatchTarget'
  BY DEF Raise, IInv, WindowShut, DispatchTarget, Boundary, history
<1>. QED BY <1>2, <1>3, <1>4 DEF IInv

\* A dispatch finds the CPU awake and IME on, and its request chosen.
LEMMA Dispatches ==
    ASSUME IInv, NEW c \in 0..4, Dispatching(c)
    PROVE  /\ instructionCycle = c /\ IME = TRUE /\ Awake /\ irq' \in Irq
           /\ c # 0 => isHandling /\ irq' = irq
<1>1. instructionCycle = c /\ Handling /\ irq' = Serving
  BY DEF Dispatching
<1>2. IME \in BOOLEAN /\ Pending \subseteq Irq
  BY DEF IInv, TypeOK, Pending
<1>3. CASE Scrap
  <2>1. Serving \in Irq
    BY <1>2, <1>3, ServingPending
  <2>. QED BY <1>1, <1>2, <1>3, <2>1 DEF Scrap, Awake, Boundary
<1>4. CASE ~Scrap
  <2>1. isHandling /\ IME /\ ~halted /\ instructionCycle \in 1..4
    BY <1>1, <1>4 DEF Handling, IInv, DispatchCoherent
  <2>2. irq' = irq /\ irq \in Irq
    BY <1>1, <1>4, <2>1 DEF Serving, IInv, DispatchTarget
  <2>. QED BY <1>1, <1>2, <2>1, <2>2 DEF Awake
<1>. QED BY <1>3, <1>4

LEMMA DispatchCycleStep ==
    ASSUME IInv, NEW c \in 0..3, DispatchProceeds(c),
           PC' \in Addr, SP' \in Addr, pushedPC' \in Addr,
           IEflags' \subseteq Irq, IFflags' \subseteq Irq,
           c = 3 => PC' = Vector[irq]
    PROVE  IInv'
<1>. USE DataHeld
<1>1. Dispatching(c) /\ Proceed /\ SettleIME /\ isHandling' = TRUE
      /\ halted' = ~Awake /\ cCheck' = cCheck
  BY DEF DispatchProceeds
<1>2. instructionCycle = c /\ IME = TRUE /\ halted' = FALSE /\ irq' \in Irq
      /\ (c # 0 => irq' = irq)
  <2>1. c \in 0..4
    OBVIOUS
  <2>2. /\ instructionCycle = c /\ IME = TRUE /\ Awake /\ irq' \in Irq
        /\ (c # 0 => irq' = irq)
    BY <1>1, <2>1, Dispatches
  <2>3. halted' = FALSE
    BY <1>1, <2>2, Zenon
  <2>. QED BY <2>2, <2>3
<1>3. IME' = TRUE /\ enablingIME' = FALSE
  BY <1>1, <1>2, Settles DEF SettleIME, IMENow
<1>4. instructionCycle' \in 1..4 /\ (instructionCycle' = 4 => c = 3)
  BY <1>1, <1>2 DEF Proceed
<1>5. TypeOK'
  <2>1. /\ isCbInstruction' = isCbInstruction /\ IR' = IR /\ repeated' = repeated
        /\ start' = start /\ baseSP' = baseSP /\ last' = last
    BY <1>1 DEF Proceed
  <2>2. TypeOK
    BY DEF IInv
  <2>3. isCbInstruction' \in BOOLEAN /\ repeated' \in BOOLEAN /\ cCheck' \in BOOLEAN
    BY <1>1, <2>1, <2>2 DEF TypeOK
  <2>4. /\ start' \in Addr /\ baseSP' \in Addr /\ IR' \in Kinds \cup CbKinds
        /\ last' \in {"other", "EI", "DI", "dispatch"}
        /\ (isCbInstruction' => IR' \in CbKinds)
    BY <2>1, <2>2 DEF TypeOK
  <2>5. instructionCycle' \in 0..5 /\ irq' \in 0..IrqCount
    BY <1>2, <1>4 DEF Irq
  <2>. QED BY <1>1, <1>2, <1>3, <2>3, <2>4, <2>5 DEF TypeOK
<1>6. DispatchCoherent'
  BY <1>1, <1>2, <1>3, <1>4 DEF DispatchCoherent
<1>7. WindowShut' /\ DispatchTarget'
  BY <1>2, <1>4 DEF WindowShut, DispatchTarget, Boundary
<1>. QED BY <1>5, <1>6, <1>7 DEF IInv

LEMMA DispatchFetchStep == IInv /\ DispatchFetch => IInv'
<1>. SUFFICES ASSUME IInv, DispatchFetch PROVE IInv'
  OBVIOUS
<1>. USE DataHeld
<1>1. irq' \in Irq /\ Irq \subseteq 0..IrqCount
  BY Dispatches DEF DispatchFetch, Irq
<1>2. M1(PC) /\ isHandling' = FALSE /\ halted' = FALSE /\ IME' = FALSE
      /\ baseSP' = SP' /\ last' = "dispatch"
  BY DEF DispatchFetch, CommandDone
<1>3. DataFits'
  BY <1>2 DEF DispatchFetch, M1, DataFits
<1>4. enablingIME' \in BOOLEAN
  BY DEF DispatchFetch, EnablingNow, IInv, TypeOK
<1>. QED BY <1>1, <1>2, <1>3, <1>4, FetchStep

LEMMA DispatchStep == IInv /\ Dispatch => IInv'
<1>. SUFFICES ASSUME IInv, Dispatch PROVE IInv'
  OBVIOUS
<1>. USE DataHeld
<1>1. CASE DispatchStepBack
  BY <1>1, DispatchCycleStep DEF DispatchStepBack, lines
<1>2. CASE DispatchDecSP
  BY <1>2, DispatchCycleStep DEF DispatchDecSP, lines
<1>3. CASE DispatchPushPCH
  BY <1>3, DispatchCycleStep, BusWriteFits DEF DispatchPushPCH
<1>4. CASE DispatchPushPCL
  <2>1. Vector[irq] \in Addr
    BY <1>4, Dispatches, ControlUnitAssumption DEF DispatchPushPCL, DispatchProceeds
  <2>. QED BY <1>4, <2>1, DispatchCycleStep, BusWriteFits DEF DispatchPushPCL
<1>5. CASE DispatchFetch
  BY <1>5, DispatchFetchStep
<1>. QED BY <1>1, <1>2, <1>3, <1>4, <1>5 DEF Dispatch

LEMMA InvStep == IInv /\ [Next]_vars => IInv'
<1>. SUFFICES ASSUME IInv, [Next]_vars PROVE IInv'
  OBVIOUS
<1>1. CASE Instruction
  BY <1>1, CyclesStep, JumpStep, RetiresStep, HaltStep, PrefixStep DEF Instruction
<1>2. CASE Dispatch
  BY <1>2, DispatchStep
<1>3. CASE StayHalted
  BY <1>3, StayHaltedStep
<1>4. CASE Raise
  BY <1>4, RaiseStep
<1>5. CASE UNCHANGED vars
  BY <1>5 DEF vars, lines, history, IInv, TypeOK, DispatchCoherent, WindowShut,
     DispatchTarget, Boundary
<1>. QED BY <1>1, <1>2, <1>3, <1>4, <1>5 DEF Next, CoreTick

(* The sequencer's registers keep their types, and the cycle is one that   *)
(* the instruction in IR has (TypeOK).                                     *)
THEOREM TypeCorrect == Spec => []TypeOK
<1>1. IInv => TypeOK
  BY DEF IInv
<1>. QED BY <1>1, InvInit, InvStep, PTL DEF Spec

(* IME, HALT and EI are as a dispatch under way needs them                 *)
(* (DispatchCoherent).                                                     *)
THEOREM DispatchesAreCoherent == Spec => []DispatchCoherent
<1>1. IInv => DispatchCoherent
  BY DEF IInv
<1>. QED BY <1>1, InvInit, InvStep, PTL DEF Spec

\* A cycle that does not begin a dispatch leaves isHandling down.
LEMMA OnlyDispatchHandles ==
    ASSUME Next, isHandling = FALSE, isHandling' = TRUE
    PROVE  Scrap
<1>1. CASE Instruction
  <2>1. isHandling' = FALSE
    BY <1>1, Zenon DEF Instruction, Operand, Test, Internal, Taken, Write, SetSP, DecSP, Push,
       PushPCL, Pop, Jump, Fetch, FetchTarget, EnableInterrupts, DisableInterrupts, Halt,
       Prefix, Execute
  <2>. QED BY <2>1
<1>2. CASE Dispatch
  <2>1. Handling
    BY <1>2 DEF Dispatch, DispatchStepBack, DispatchDecSP, DispatchPushPCH, DispatchPushPCL,
       DispatchFetch, DispatchProceeds, Dispatching
  <2>. QED BY <2>1 DEF Handling
<1>3. CASE StayHalted
  BY <1>3 DEF StayHalted
<1>4. CASE Raise
  BY <1>4 DEF Raise
<1>. QED BY <1>1, <1>2, <1>3, <1>4 DEF Next, CoreTick

(* No dispatch starts within an instruction, after DI, after the EI that   *)
(* turns interrupts on, or before a handler's first instruction            *)
(* (DispatchWindow).                                                       *)
THEOREM WindowsAreKept == Spec => DispatchWindow
<1>1. IInv /\ [Next]_vars => [~isHandling /\ isHandling' => Boundary /\ last = "other"]_vars
  <2>. SUFFICES ASSUME IInv, Next, ~isHandling, isHandling'
                PROVE  Boundary /\ last = "other"
    BY DEF vars
  <2>1. isHandling = FALSE /\ isHandling' = TRUE
    <3>1. IInv'
      BY InvStep
    <3>. QED BY <3>1 DEF IInv, TypeOK
  <2>2. Boundary /\ IME
    BY <2>1, OnlyDispatchHandles DEF Scrap
  <2>. QED BY <2>2 DEF IInv, WindowShut
<1>. QED BY <1>1, InvInit, InvStep, PTL DEF Spec, DispatchWindow

(* A dispatch clears the request it entered the handler of, and no other   *)
(* (ServesWhatItClears).                                                   *)
THEOREM ClearsAreServed == Spec => ServesWhatItClears
<1>1. IInv /\ [Next]_vars =>
          [isHandling /\ ~isHandling' => /\ IFflags \ IFflags' \subseteq {irq}
                                        /\ irq \notin IFflags'
                                        /\ start' = Vector[irq]]_vars
  <2>. SUFFICES ASSUME IInv, Next, isHandling, ~isHandling'
                PROVE  /\ IFflags \ IFflags' \subseteq {irq}
                       /\ irq \notin IFflags'
                       /\ start' = Vector[irq]
    BY DEF vars
  <2>1. Handling
    BY DEF Handling
  <2>2. ~Instruction
    BY <2>1 DEF Instruction, Operand, Test, Internal, Taken, Write, SetSP, DecSP, Push, Execute,
       PushPCL, Pop, Jump, Fetch, FetchTarget, EnableInterrupts, DisableInterrupts, Halt, Prefix
  <2>3. ~StayHalted /\ ~Raise
    BY <2>1 DEF StayHalted, Raise
  <2>4. DispatchFetch
    BY <2>2, <2>3 DEF Next, CoreTick, Dispatch, DispatchStepBack, DispatchDecSP,
       DispatchPushPCH, DispatchPushPCL, DispatchProceeds
  <2>5. instructionCycle = 4 /\ PC = Vector[irq]
    BY <2>4 DEF DispatchFetch, Dispatching, IInv, DispatchTarget
  <2>. QED BY <2>4, <2>5 DEF DispatchFetch, M1
<1>. QED BY <1>1, InvInit, InvStep, PTL DEF Spec, ServesWhatItClears

-----------------------------------------------------------------------------
(* Where an instruction or a dispatch has PC and SP in each of its cycles  *)
(* (InStep), for the microcode of every kind.                              *)

\* The kinds of each table, which are those of no other.
LEMMA Tables ==
    /\ DOMAIN LoadMicrocode = {"Read", "Write", "ImmediateRead", "ImmediateWrite", "DirectRead",
                               "DirectWrite"}
    /\ DOMAIN StackMicrocode = {"Immediate16", "LoadSP", "StoreSP", "CopySP", "OffsetSP", "Push",
                                "Pop"}
    /\ DOMAIN ArithmeticMicrocode = {"OneCycle", "Immediate", "ReadModifyWrite"}
    /\ DOMAIN WideMicrocode = {"Internal", "AddSP"}
    /\ DOMAIN JumpMicrocode = {"Jump", "JumpIf", "JumpHL", "RelativeJump", "RelativeJumpIf"}
    /\ DOMAIN CallMicrocode = {"Call", "CallIf", "Restart"}
    /\ DOMAIN ReturnMicrocode = {"Return", "ReturnIf", "ReturnI"}
    /\ DOMAIN ControlMicrocode = {"Halt", "EI", "DI", "CB"}
  BY DEF LoadMicrocode, StackMicrocode, ArithmeticMicrocode, WideMicrocode, JumpMicrocode,
         CallMicrocode, ReturnMicrocode, ControlMicrocode

LEMMA Merges ==
    ASSUME NEW f, NEW g, DOMAIN f \cap DOMAIN g = {}
    PROVE  /\ DOMAIN Merge(f, g) = DOMAIN f \cup DOMAIN g
           /\ \A k \in DOMAIN f : Merge(f, g)[k] = f[k]
           /\ \A k \in DOMAIN g : Merge(f, g)[k] = g[k]
  BY DEF Merge

LEMMA LookUp ==
    /\ \A k \in DOMAIN LoadMicrocode : Microcode[k] = LoadMicrocode[k]
    /\ \A k \in DOMAIN StackMicrocode : Microcode[k] = StackMicrocode[k]
    /\ \A k \in DOMAIN ArithmeticMicrocode : Microcode[k] = ArithmeticMicrocode[k]
    /\ \A k \in DOMAIN WideMicrocode : Microcode[k] = WideMicrocode[k]
    /\ \A k \in DOMAIN JumpMicrocode : Microcode[k] = JumpMicrocode[k]
    /\ \A k \in DOMAIN CallMicrocode : Microcode[k] = CallMicrocode[k]
    /\ \A k \in DOMAIN ReturnMicrocode : Microcode[k] = ReturnMicrocode[k]
    /\ \A k \in DOMAIN ControlMicrocode : Microcode[k] = ControlMicrocode[k]
    /\ DOMAIN Microcode = DOMAIN LoadMicrocode \cup DOMAIN StackMicrocode
           \cup DOMAIN ArithmeticMicrocode \cup DOMAIN WideMicrocode \cup DOMAIN JumpMicrocode
           \cup DOMAIN CallMicrocode \cup DOMAIN ReturnMicrocode \cup DOMAIN ControlMicrocode
  <1> DEFINE m7 == Merge(ReturnMicrocode, ControlMicrocode)
             m6 == Merge(CallMicrocode, m7)
             m5 == Merge(JumpMicrocode, m6)
             m4 == Merge(WideMicrocode, m5)
             m3 == Merge(ArithmeticMicrocode, m4)
             m2 == Merge(StackMicrocode, m3)
  <1>1. Microcode = Merge(LoadMicrocode, m2)
    BY DEF Microcode
  <1>7. /\ DOMAIN m7 = DOMAIN ReturnMicrocode \cup DOMAIN ControlMicrocode
        /\ \A k \in DOMAIN ReturnMicrocode : m7[k] = ReturnMicrocode[k]
        /\ \A k \in DOMAIN ControlMicrocode : m7[k] = ControlMicrocode[k]
    <2>1. DOMAIN ReturnMicrocode \cap DOMAIN ControlMicrocode = {}
      BY Tables
    <2> QED  BY <2>1, Merges, Zenon
  <1> HIDE DEF m7
  <1>6. /\ DOMAIN m6 = DOMAIN CallMicrocode \cup DOMAIN m7
        /\ \A k \in DOMAIN CallMicrocode : m6[k] = CallMicrocode[k]
        /\ \A k \in DOMAIN m7 : m6[k] = m7[k]
    <2>1. DOMAIN CallMicrocode \cap DOMAIN m7 = {}
      BY <1>7, Tables
    <2> QED  BY <2>1, Merges, Zenon
  <1> HIDE DEF m6
  <1>5. /\ DOMAIN m5 = DOMAIN JumpMicrocode \cup DOMAIN m6
        /\ \A k \in DOMAIN JumpMicrocode : m5[k] = JumpMicrocode[k]
        /\ \A k \in DOMAIN m6 : m5[k] = m6[k]
    <2>1. DOMAIN JumpMicrocode \cap DOMAIN m6 = {}
      BY <1>7, <1>6, Tables
    <2> QED  BY <2>1, Merges, Zenon
  <1> HIDE DEF m5
  <1>4. /\ DOMAIN m4 = DOMAIN WideMicrocode \cup DOMAIN m5
        /\ \A k \in DOMAIN WideMicrocode : m4[k] = WideMicrocode[k]
        /\ \A k \in DOMAIN m5 : m4[k] = m5[k]
    <2>1. DOMAIN WideMicrocode \cap DOMAIN m5 = {}
      BY <1>7, <1>6, <1>5, Tables
    <2> QED  BY <2>1, Merges, Zenon
  <1> HIDE DEF m4
  <1>3. /\ DOMAIN m3 = DOMAIN ArithmeticMicrocode \cup DOMAIN m4
        /\ \A k \in DOMAIN ArithmeticMicrocode : m3[k] = ArithmeticMicrocode[k]
        /\ \A k \in DOMAIN m4 : m3[k] = m4[k]
    <2>1. DOMAIN ArithmeticMicrocode \cap DOMAIN m4 = {}
      BY <1>7, <1>6, <1>5, <1>4, Tables
    <2> QED  BY <2>1, Merges, Zenon
  <1> HIDE DEF m3
  <1>2. /\ DOMAIN m2 = DOMAIN StackMicrocode \cup DOMAIN m3
        /\ \A k \in DOMAIN StackMicrocode : m2[k] = StackMicrocode[k]
        /\ \A k \in DOMAIN m3 : m2[k] = m3[k]
    <2>1. DOMAIN StackMicrocode \cap DOMAIN m3 = {}
      BY <1>7, <1>6, <1>5, <1>4, <1>3, Tables
    <2> QED  BY <2>1, Merges, Zenon
  <1> HIDE DEF m2
  <1>8. /\ DOMAIN Microcode = DOMAIN LoadMicrocode \cup DOMAIN m2
        /\ \A k \in DOMAIN LoadMicrocode : Microcode[k] = LoadMicrocode[k]
        /\ \A k \in DOMAIN m2 : Microcode[k] = m2[k]
    <2>1. DOMAIN LoadMicrocode \cap DOMAIN m2 = {}
      BY <1>7, <1>6, <1>5, <1>4, <1>3, <1>2, Tables
    <2>2. /\ DOMAIN Merge(LoadMicrocode, m2) = DOMAIN LoadMicrocode \cup DOMAIN m2
          /\ \A k \in DOMAIN LoadMicrocode : Merge(LoadMicrocode, m2)[k] = LoadMicrocode[k]
          /\ \A k \in DOMAIN m2 : Merge(LoadMicrocode, m2)[k] = m2[k]
      BY <2>1, Merges, Zenon
    <2> QED  BY <1>1, <2>2, Zenon
  <1>10. \A k \in DOMAIN LoadMicrocode : Microcode[k] = LoadMicrocode[k]
    BY <1>8
  <1>11. \A k \in DOMAIN StackMicrocode : Microcode[k] = StackMicrocode[k]
    BY <1>8, <1>2
  <1>12. \A k \in DOMAIN ArithmeticMicrocode : Microcode[k] = ArithmeticMicrocode[k]
    BY <1>8, <1>2, <1>3
  <1>13. \A k \in DOMAIN WideMicrocode : Microcode[k] = WideMicrocode[k]
    BY <1>8, <1>2, <1>3, <1>4
  <1>14. \A k \in DOMAIN JumpMicrocode : Microcode[k] = JumpMicrocode[k]
    BY <1>8, <1>2, <1>3, <1>4, <1>5
  <1>15. \A k \in DOMAIN CallMicrocode : Microcode[k] = CallMicrocode[k]
    BY <1>8, <1>2, <1>3, <1>4, <1>5, <1>6
  <1>16. \A k \in DOMAIN ReturnMicrocode : Microcode[k] = ReturnMicrocode[k]
    BY <1>8, <1>2, <1>3, <1>4, <1>5, <1>6, <1>7
  <1>17. \A k \in DOMAIN ControlMicrocode : Microcode[k] = ControlMicrocode[k]
    BY <1>8, <1>2, <1>3, <1>4, <1>5, <1>6, <1>7
  <1>18. DOMAIN Microcode = DOMAIN LoadMicrocode \cup DOMAIN StackMicrocode
             \cup DOMAIN ArithmeticMicrocode \cup DOMAIN WideMicrocode \cup DOMAIN JumpMicrocode
             \cup DOMAIN CallMicrocode \cup DOMAIN ReturnMicrocode \cup DOMAIN ControlMicrocode
    BY <1>2, <1>3, <1>4, <1>5, <1>6, <1>7, <1>8
  <1> QED
    BY <1>10, <1>11, <1>12, <1>13, <1>14, <1>15, <1>16, <1>17, <1>18, Zenon

QuietOps == {"read", "write", "operand", "operandTest", "internal", "internalIf", "jump",
             "jumpIME", "jumpIf", "test", "fetch", "fetchTarget", "enable", "disable", "halt"}
\* The kinds that move SP, and the prefix.
StackKinds == PushKinds \cup PopKinds \cup {"LoadSP", "CopySP", "AddSP", "CB"}

LEMMA QuietKinds == \A k \in DOMAIN Microcode \ StackKinds : Microcode[k] \in Seq(QuietOps)
  <1>1. \A k \in DOMAIN LoadMicrocode \ StackKinds : LoadMicrocode[k] \in Seq(QuietOps)
    <2>1. LoadMicrocode.Read \in Seq(QuietOps)
      BY DEF LoadMicrocode, QuietOps
    <2>2. LoadMicrocode.Write \in Seq(QuietOps)
      BY DEF LoadMicrocode, QuietOps
    <2>3. LoadMicrocode.ImmediateRead \in Seq(QuietOps)
      BY DEF LoadMicrocode, QuietOps
    <2>4. LoadMicrocode.ImmediateWrite \in Seq(QuietOps)
      BY DEF LoadMicrocode, QuietOps
    <2>5. LoadMicrocode.DirectRead \in Seq(QuietOps)
      BY DEF LoadMicrocode, QuietOps
    <2>6. LoadMicrocode.DirectWrite \in Seq(QuietOps)
      BY DEF LoadMicrocode, QuietOps
    <2> QED  BY <2>1, <2>2, <2>3, <2>4, <2>5, <2>6, Tables DEF StackKinds, PushKinds, PopKinds
  <1>2. \A k \in DOMAIN StackMicrocode \ StackKinds : StackMicrocode[k] \in Seq(QuietOps)
    <2>1. StackMicrocode.Immediate16 \in Seq(QuietOps)
      BY DEF StackMicrocode, QuietOps
    <2>2. StackMicrocode.StoreSP \in Seq(QuietOps)
      BY DEF StackMicrocode, QuietOps
    <2>3. StackMicrocode.OffsetSP \in Seq(QuietOps)
      BY DEF StackMicrocode, QuietOps
    <2> QED  BY <2>1, <2>2, <2>3, Tables DEF StackKinds, PushKinds, PopKinds
  <1>3. \A k \in DOMAIN ArithmeticMicrocode \ StackKinds : ArithmeticMicrocode[k] \in Seq(QuietOps)
    <2>1. ArithmeticMicrocode.OneCycle \in Seq(QuietOps)
      BY DEF ArithmeticMicrocode, QuietOps
    <2>2. ArithmeticMicrocode.Immediate \in Seq(QuietOps)
      BY DEF ArithmeticMicrocode, QuietOps
    <2>3. ArithmeticMicrocode.ReadModifyWrite \in Seq(QuietOps)
      BY DEF ArithmeticMicrocode, QuietOps
    <2> QED  BY <2>1, <2>2, <2>3, Tables DEF StackKinds, PushKinds, PopKinds
  <1>4. \A k \in DOMAIN WideMicrocode \ StackKinds : WideMicrocode[k] \in Seq(QuietOps)
    <2>1. WideMicrocode.Internal \in Seq(QuietOps)
      BY DEF WideMicrocode, QuietOps
    <2> QED  BY <2>1, Tables DEF StackKinds, PushKinds, PopKinds
  <1>5. \A k \in DOMAIN JumpMicrocode \ StackKinds : JumpMicrocode[k] \in Seq(QuietOps)
    <2>1. JumpMicrocode.Jump \in Seq(QuietOps)
      BY DEF JumpMicrocode, QuietOps
    <2>2. JumpMicrocode.JumpIf \in Seq(QuietOps)
      BY DEF JumpMicrocode, QuietOps
    <2>3. JumpMicrocode.JumpHL \in Seq(QuietOps)
      BY DEF JumpMicrocode, QuietOps
    <2>4. JumpMicrocode.RelativeJump \in Seq(QuietOps)
      BY DEF JumpMicrocode, QuietOps
    <2>5. JumpMicrocode.RelativeJumpIf \in Seq(QuietOps)
      BY DEF JumpMicrocode, QuietOps
    <2> QED  BY <2>1, <2>2, <2>3, <2>4, <2>5, Tables DEF StackKinds, PushKinds, PopKinds
  <1>6. \A k \in DOMAIN ControlMicrocode \ StackKinds : ControlMicrocode[k] \in Seq(QuietOps)
    <2>1. ControlMicrocode.Halt \in Seq(QuietOps)
      BY DEF ControlMicrocode, QuietOps
    <2>2. ControlMicrocode.EI \in Seq(QuietOps)
      BY DEF ControlMicrocode, QuietOps
    <2>3. ControlMicrocode.DI \in Seq(QuietOps)
      BY DEF ControlMicrocode, QuietOps
    <2> QED  BY <2>1, <2>2, <2>3, Tables DEF StackKinds, PushKinds, PopKinds
  <1>7. \A k \in DOMAIN CallMicrocode \cup DOMAIN ReturnMicrocode : k \in StackKinds
    BY Tables DEF StackKinds, PushKinds, PopKinds
  <1> QED  BY <1>1, <1>2, <1>3, <1>4, <1>5, <1>6, <1>7, LookUp

LEMMA StackCodes ==
    /\ Microcode.Push = <<"decSP", "push", "write", "fetch">>
    /\ Microcode.Pop = <<"pop", "pop", "fetch">>
    /\ Microcode.Call = <<"operand", "operand", "decSP", "pushPCH", "pushPCL", "fetch">>
    /\ Microcode.CallIf = <<"operand", "operandTest", "decSPIf", "pushPCH", "pushPCL", "fetch">>
    /\ Microcode.Restart = <<"decSP", "pushPCH", "pushPCL", "fetch">>
    /\ Microcode.Return = <<"pop", "pop", "jump", "fetch">>
    /\ Microcode.ReturnIf = <<"test", "popIf", "pop", "jump", "fetch">>
    /\ Microcode.ReturnI = <<"pop", "pop", "jumpIME", "fetch">>
    /\ Microcode.LoadSP = <<"operand", "operand", "fetchSP">>
    /\ Microcode.CopySP = <<"setSP", "fetch">>
    /\ Microcode.AddSP = <<"operand", "internal", "internal", "fetchSP">>
    /\ Microcode.CB = <<"prefix">>
  <1>1. /\ Microcode.Push = StackMicrocode.Push /\ Microcode.Pop = StackMicrocode.Pop
        /\ Microcode.LoadSP = StackMicrocode.LoadSP /\ Microcode.CopySP = StackMicrocode.CopySP
    BY LookUp, Tables
  <1>2. Microcode.AddSP = WideMicrocode.AddSP /\ Microcode.CB = ControlMicrocode.CB
    BY LookUp, Tables
  <1>3. /\ Microcode.Call = CallMicrocode.Call /\ Microcode.CallIf = CallMicrocode.CallIf
        /\ Microcode.Restart = CallMicrocode.Restart
    BY LookUp, Tables
  <1>4. /\ Microcode.Return = ReturnMicrocode.Return /\ Microcode.ReturnI = ReturnMicrocode.ReturnI
        /\ Microcode.ReturnIf = ReturnMicrocode.ReturnIf
    BY LookUp, Tables
  <1> QED
    BY <1>1, <1>2, <1>3, <1>4 DEF StackMicrocode, WideMicrocode, CallMicrocode, ReturnMicrocode, ControlMicrocode

\* Addresses wrap, so that steps add up.
LEMMA Wrapped ==
    ASSUME NEW x \in Int, NEW q \in Int
    PROVE  (x + AddrCount * q) % AddrCount = x % AddrCount
  <1> DEFINE N == AddrCount
             y == x + N * q
             p == x \div N   k == x % N
             p1 == y \div N  k1 == y % N
  <1>0. N \in Nat \ {0} /\ y \in Int
    BY ControlUnitAssumption
  <1>1. p \in Int /\ k \in 0..(N - 1) /\ x = N * p + k
    BY <1>0, SMT
  <1>2. p1 \in Int /\ k1 \in 0..(N - 1) /\ y = N * p1 + k1
    <2> HIDE DEF y
    <2> QED  BY <1>0, SMT
  <1>3. N * p + k + N * q = N * p1 + k1
    BY <1>1, <1>2, <1>0
  <1> HIDE DEF N, y, p, k, p1, k1
  <1> DEFINE d == p1 - p - q
  <1>4. d \in Int /\ N * d = k - k1
    <2>1. N * d = N * p1 - N * p - N * q
      BY <1>0, <1>1, <1>2, SMT
    <2>2. N * p1 \in Int /\ N * p \in Int /\ N * q \in Int
      BY <1>0, <1>1, <1>2, SMT
    <2> QED  BY <2>1, <2>2, <1>0, <1>1, <1>2, <1>3
  <1> HIDE DEF d
  <1>5. d = 0
    <2>1. CASE d >= 1
      <3>1. N * d >= N
        BY <2>1, <1>0, <1>4, SMT
      <3> QED  BY <3>1, <1>0, <1>1, <1>2, <1>4
    <2>2. CASE d <= -1
      <3>1. N * d <= -N
        BY <2>2, <1>0, <1>4, SMT
      <3> QED  BY <3>1, <1>0, <1>1, <1>2, <1>4
    <2> QED  BY <2>1, <2>2, <1>4
  <1>6. k = k1
    BY <1>0, <1>1, <1>2, <1>4, <1>5
  <1> QED  BY <1>6 DEF k, k1, y, N

LEMMA Steps ==
    ASSUME NEW a \in Int, NEW x \in Int, NEW y \in Int
    PROVE  /\ Plus(Plus(a, x), y) = Plus(a, x + y)
           /\ Minus(a, x) = Plus(a, 0 - x)
           /\ Plus(a, AddrCount + x) = Plus(a, x)
  <1> DEFINE p == (a + x) \div AddrCount
             k == (a + x) % AddrCount
  <1>0. AddrCount \in Nat \ {0}
    BY ControlUnitAssumption
  <1>1. p \in Int /\ k \in Int /\ a + x = AddrCount * p + k
    <2>1. \A z \in Int : /\ z \div AddrCount \in Int /\ z % AddrCount \in Int
                         /\ z = AddrCount * (z \div AddrCount) + (z % AddrCount)
      BY <1>0, SMT
    <2> QED  BY <2>1
  <1> HIDE DEF p, k
  <1>2. (k + y) % AddrCount = (a + x + y) % AddrCount
    <2>1. ((k + y) + AddrCount * p) % AddrCount = (k + y) % AddrCount
      BY <1>1, Wrapped
    <2>2. (k + y) + AddrCount * p = a + x + y
      BY <1>0, <1>1, AddrCount * p \in Int
    <2> QED  BY <2>1, <2>2, Zenon
  <1>3. Plus(Plus(a, x), y) = Plus(a, x + y)
    <2>1. Plus(Plus(a, x), y) = (k + y) % AddrCount
      BY Zenon DEF Plus, k
    <2>2. a + x + y = a + (x + y)
      OBVIOUS
    <2> QED  BY <2>1, <2>2, <1>2, Zenon DEF Plus
  <1>4. Minus(a, x) = Plus(a, 0 - x)
    <2>1. ((a + (0 - x)) + AddrCount * 1) % AddrCount = (a + (0 - x)) % AddrCount
      BY Wrapped, a + (0 - x) \in Int, 1 \in Int
    <2>2. (a + (0 - x)) + AddrCount * 1 = a + AddrCount - x
      BY <1>0
    <2> QED  BY <2>1, <2>2, Zenon DEF Plus, Minus
  <1>5. Plus(a, AddrCount + x) = Plus(a, x)
    <2>1. ((a + x) + AddrCount * 1) % AddrCount = (a + x) % AddrCount
      BY Wrapped, a + x \in Int, 1 \in Int
    <2>2. (a + x) + AddrCount * 1 = a + (AddrCount + x)
      BY <1>0
    <2> QED  BY <2>1, <2>2, Zenon DEF Plus
  <1> QED  BY <1>3, <1>4, <1>5

LEMMA NoStep == \A a \in Addr : Plus(a, 0) = a
  BY ControlUnitAssumption DEF Plus, Addr

\* The cycle that runs is the one of the kind.
Position(k, c, op) ==
    /\ k \notin StackKinds => op \in QuietOps
    /\ k = "Push" => \/ c = 0 /\ op = "decSP"
                     \/ c = 1 /\ op = "push"
                     \/ c = 2 /\ op = "write"
                     \/ c = 3 /\ op = "fetch"
    /\ k \in {"Pop", "Return", "ReturnI"} =>
           \/ c \in {0, 1} /\ op = "pop"
           \/ c >= 2 /\ op \in {"jump", "jumpIME", "fetch"}
    /\ k = "ReturnIf" => \/ c = 0 /\ op = "test"
                         \/ c = 1 /\ op = "popIf"
                         \/ c = 2 /\ op = "pop"
                         \/ c >= 3 /\ op \in {"jump", "fetch"}
    /\ k = "Call" => \/ c \in {0, 1} /\ op = "operand"
                     \/ c = 2 /\ op = "decSP"
                     \/ c = 3 /\ op = "pushPCH"
                     \/ c = 4 /\ op = "pushPCL"
                     \/ c = 5 /\ op = "fetch"
    /\ k = "CallIf" => \/ c \in {0, 1} /\ op \in {"operand", "operandTest"}
                       \/ c = 2 /\ op = "decSPIf"
                       \/ c = 3 /\ op = "pushPCH"
                       \/ c = 4 /\ op = "pushPCL"
                       \/ c = 5 /\ op = "fetch"
    /\ k = "Restart" => \/ c = 0 /\ op = "decSP"
                        \/ c = 1 /\ op = "pushPCH"
                        \/ c = 2 /\ op = "pushPCL"
                        \/ c = 3 /\ op = "fetch"
    /\ k = "CB" => c = 0 /\ op = "prefix"
    /\ k = "CopySP" => op \in {"setSP", "fetch"}
    /\ k \in {"LoadSP", "AddSP"} => op \in {"operand", "internal", "fetchSP"}

LEMMA Positions ==
    ASSUME IInv, NEW op, Execute(op)
    PROVE  Position(IR, instructionCycle, op)
  <1> DEFINE c == instructionCycle
             m == Microcode[IR]
  <1>1. /\ IR \in DOMAIN Microcode /\ c \in 0..5 /\ c < Len(m) /\ m[c + 1] = op
    <2>1. ~isHandling /\ m[c + 1] = op
      BY DEF Execute, Handling
    <2>2. IR \in Kinds \cup CbKinds /\ c \in 0..5 /\ c < Len(m)
      BY <2>1 DEF IInv, TypeOK
    <2> QED  BY <2>1, <2>2, MicrocodeWellFormed
  <1>2. ASSUME IR \notin StackKinds PROVE op \in QuietOps
    <2>1. m \in Seq(QuietOps)
      BY <1>1, <1>2, QuietKinds
    <2> HIDE DEF m, c
    <2> QED  BY <2>1, <1>1
  <1>3. CASE IR = "Push"
    <2>1. m = <<"decSP", "push", "write", "fetch">>
      BY <1>3, StackCodes
    <2> QED  BY <1>1, <1>3, <2>1 DEF Position, StackKinds, PushKinds
  <1>4. ASSUME IR \in {"Pop", "Return", "ReturnI"}
        PROVE  \/ c \in {0, 1} /\ op = "pop"
               \/ c >= 2 /\ op \in {"jump", "jumpIME", "fetch"}
    <2>1. /\ c \in {0, 1} => op = "pop"
          /\ c >= 2 => op \in {"jump", "jumpIME", "fetch"}
      <3>1. CASE m = <<"pop", "pop", "fetch">>
        BY <1>1, <3>1
      <3>2. CASE m = <<"pop", "pop", "jump", "fetch">>
        BY <1>1, <3>2
      <3>3. CASE m = <<"pop", "pop", "jumpIME", "fetch">>
        BY <1>1, <3>3
      <3> QED  BY <1>4, <3>1, <3>2, <3>3, StackCodes
    <2>2. c \in {0, 1} \/ c >= 2
      BY <1>1
    <2> QED  BY <2>1, <2>2, Zenon
  <1>5. CASE IR = "ReturnIf"
    <2>1. m = <<"test", "popIf", "pop", "jump", "fetch">>
      BY <1>5, StackCodes
    <2> QED  BY <1>1, <1>5, <2>1 DEF Position, StackKinds, PopKinds
  <1>6. CASE IR = "Call"
    <2>1. m = <<"operand", "operand", "decSP", "pushPCH", "pushPCL", "fetch">>
      BY <1>6, StackCodes
    <2> QED  BY <1>1, <1>6, <2>1 DEF Position, StackKinds, PushKinds
  <1>7. CASE IR = "CallIf"
    <2>1. m = <<"operand", "operandTest", "decSPIf", "pushPCH", "pushPCL", "fetch">>
      BY <1>7, StackCodes
    <2> QED  BY <1>1, <1>7, <2>1 DEF Position, StackKinds, PushKinds
  <1>8. CASE IR = "Restart"
    <2>1. m = <<"decSP", "pushPCH", "pushPCL", "fetch">>
      BY <1>8, StackCodes
    <2> QED  BY <1>1, <1>8, <2>1 DEF Position, StackKinds, PushKinds
  <1>9. CASE IR = "CopySP"
    <2>1. m = <<"setSP", "fetch">>
      BY <1>9, StackCodes
    <2> QED  BY <1>1, <1>9, <2>1 DEF Position, StackKinds
  <1>10. CASE IR \in {"LoadSP", "AddSP"}
    <2>1. op \in {"operand", "internal", "fetchSP"}
      <3>1. CASE m = <<"operand", "operand", "fetchSP">>
        BY <1>1, <3>1
      <3>2. CASE m = <<"operand", "internal", "internal", "fetchSP">>
        BY <1>1, <3>2
      <3> QED  BY <1>10, <3>1, <3>2, StackCodes
    <2> HIDE DEF c, m
    <2> QED  BY <1>10, <2>1 DEF Position, StackKinds
  <1>11. CASE IR \in {"Pop", "Return", "ReturnI"}
    <2>1. \/ instructionCycle \in {0, 1} /\ op = "pop"
          \/ instructionCycle >= 2 /\ op \in {"jump", "jumpIME", "fetch"}
      BY <1>4, <1>11, Zenon
    <2> HIDE DEF c, m
    <2> QED  BY <1>11, <2>1 DEF Position, StackKinds, PopKinds
  <1>13. CASE IR = "CB"
    <2>1. m = <<"prefix">>
      BY <1>13, StackCodes
    <2> QED  BY <1>1, <1>13, <2>1 DEF Position, StackKinds
  <1>12. CASE IR \notin StackKinds
    <2> HIDE DEF c, m
    <2> QED  BY <1>2, <1>12, Zenon DEF Position, StackKinds, PushKinds, PopKinds
  <1> HIDE DEF c, m
  <1> QED
    BY <1>3, <1>5, <1>6, <1>7, <1>8, <1>9, <1>10, <1>11, <1>12, <1>13, Zenon
    DEF Position, StackKinds, PushKinds, PopKinds

(* What each cycle does to PC and SP, against what it is expected to.      *)

SPMoves(op) ==
    IF op \in {"decSP", "decSPIf", "push", "pushPCH"} THEN 0 - 1
    ELSE IF op \in {"pop", "popIf"} THEN 1 ELSE 0

LEMMA MovesAddUp ==
    ASSUME IInv, NEW op, Execute(op), op \notin Last, IR # "CopySP"
    PROVE  /\ StackMoved(IR, instructionCycle) \in Int /\ SPMoves(op) \in Int
           /\ StackMoved(IR, instructionCycle + 1)
                  = StackMoved(IR, instructionCycle) + SPMoves(op)
  <1> DEFINE c == instructionCycle
             k == IR
  <1>0. Position(k, c, op)
    BY Positions
  <1>1. c \in 0..5 /\ c + 1 \in 1..5
    BY Executes
  <1>2. CASE k \notin StackKinds
    <2>1. op \in QuietOps
      BY <1>2, <1>0 DEF Position
    <2>2. SPMoves(op) = 0
      BY <2>1 DEF SPMoves, QuietOps
    <2>3. \A n \in Int : StackMoved(k, n) = 0
      BY <1>2 DEF StackMoved, StackKinds
    <2> QED  BY <2>2, <2>3, <1>1
  <1>3. CASE k = "Push"
    <2>1. \/ c = 0 /\ op = "decSP"
          \/ c = 1 /\ op = "push"
          \/ c = 2 /\ op = "write"
      BY <1>3, <1>0 DEF Position, Last
    <2>2. \A n \in Int : StackMoved(k, n) = 0 - UpToTwo(n)
      BY <1>3 DEF StackMoved, PushKinds, BeforeStack
    <2> QED  BY <2>1, <2>2 DEF UpToTwo, SPMoves
  <1>4. CASE k \in {"Pop", "Return", "ReturnI"}
    <2>1. \/ c \in {0, 1} /\ op = "pop"
          \/ c >= 2 /\ op \in {"jump", "jumpIME"}
      BY <1>4, <1>0 DEF Position, Last
    <2>2. \A n \in Int : StackMoved(k, n) = UpToTwo(n)
      BY <1>4 DEF StackMoved, PushKinds, PopKinds, BeforeStack
    <2> QED  BY <1>1, <2>1, <2>2 DEF UpToTwo, SPMoves
  <1>5. CASE k = "ReturnIf"
    <2>1. \/ c = 0 /\ op = "test"
          \/ c = 1 /\ op = "popIf"
          \/ c = 2 /\ op = "pop"
          \/ c >= 3 /\ op = "jump"
      BY <1>5, <1>0 DEF Position, Last
    <2>2. \A n \in Int : StackMoved(k, n) = UpToTwo(n - 1)
      BY <1>5 DEF StackMoved, PushKinds, PopKinds, BeforeStack
    <2> QED  BY <1>1, <2>1, <2>2 DEF UpToTwo, SPMoves
  <1>6. CASE k \in {"Call", "CallIf"}
    <2>1. \/ c \in {0, 1} /\ op \in {"operand", "operandTest"}
          \/ c = 2 /\ op \in {"decSP", "decSPIf"}
          \/ c = 3 /\ op = "pushPCH"
          \/ c = 4 /\ op = "pushPCL"
      BY <1>6, <1>0 DEF Position, Last
    <2>2. \A n \in Int : StackMoved(k, n) = 0 - UpToTwo(n - 2)
      BY <1>6 DEF StackMoved, PushKinds, BeforeStack
    <2> QED  BY <1>1, <2>1, <2>2 DEF UpToTwo, SPMoves
  <1>7. CASE k = "Restart"
    <2>1. \/ c = 0 /\ op = "decSP"
          \/ c = 1 /\ op = "pushPCH"
          \/ c = 2 /\ op = "pushPCL"
      BY <1>7, <1>0 DEF Position, Last
    <2>2. \A n \in Int : StackMoved(k, n) = 0 - UpToTwo(n)
      BY <1>7 DEF StackMoved, PushKinds, BeforeStack
    <2> QED  BY <2>1, <2>2 DEF UpToTwo, SPMoves
  <1>8. CASE k \in {"LoadSP", "AddSP", "CB"}
    <2>1. op \in {"operand", "internal"}
      BY <1>8, <1>0 DEF Position, Last
    <2>2. \A n \in Int : StackMoved(k, n) = 0
      BY <1>8 DEF StackMoved, PushKinds, PopKinds
    <2> QED  BY <1>1, <2>1, <2>2 DEF SPMoves
  <1> QED
    BY <1>2, <1>3, <1>4, <1>5, <1>6, <1>7, <1>8 DEF StackKinds, PushKinds, PopKinds

\* What the cycles of a call do to PC.
CallMoves(op) ==
    /\ op \in {"operand", "operandTest"} => PC' = Plus(PC, 1)
    /\ op \in {"decSP", "decSPIf", "pushPCH"} => PC' = PC
    /\ op = "pushPCH" => pushedPC' = PC

LEMMA CycleInStep ==
    ASSUME IInv, InStep, NEW op, Execute(op), op \notin Last, Proceed,
           IR # "CopySP" => SP' = Plus(SP, SPMoves(op)),
           CallMoves(op),
           op \notin {"operandTest", "test"} => cCheck' = cCheck,
           op \in {"decSPIf", "popIf"} => cCheck
    PROVE  InStep'
  <1> DEFINE c == instructionCycle
  <1>0. Position(IR, c, op)
    BY Positions
  <1>1. /\ c \in 0..5 /\ instructionCycle' = c + 1 /\ c + 1 \in 1..5
        /\ isHandling = FALSE /\ isHandling' = FALSE
        /\ IR' = IR /\ start' = start /\ repeated' = repeated /\ baseSP' = baseSP
    BY Executes DEF Proceed, IInv, TypeOK
  <1>2. ~Boundary' /\ ~isHandling'
    BY <1>1 DEF Boundary
  <1>3. /\ start \in Addr /\ baseSP \in Addr /\ Addr \subseteq Int
        /\ PC \in Addr /\ SP \in Addr /\ Skipped \in Int
    BY ControlUnitAssumption DEF IInv, TypeOK, Addr, Skipped
  <1>4. StackInStep'
    <2> SUFFICES ASSUME IR # "CopySP"
                 PROVE  SP' = Plus(baseSP, StackMoved(IR, c + 1))
      BY <1>1, <1>2 DEF StackInStep
    <2>1. SP = Plus(baseSP, StackMoved(IR, c))
      BY <1>1 DEF InStep, StackInStep
    <2>2. SP' = Plus(Plus(baseSP, StackMoved(IR, c)), SPMoves(op))
      BY <2>1
    <2>3. /\ StackMoved(IR, c) \in Int /\ SPMoves(op) \in Int
          /\ StackMoved(IR, c + 1) = StackMoved(IR, c) + SPMoves(op)
      BY MovesAddUp
    <2>4. baseSP \in Int
      BY <1>3
    <2>5. Plus(Plus(baseSP, StackMoved(IR, c)), SPMoves(op))
              = Plus(baseSP, StackMoved(IR, c) + SPMoves(op))
      <3> DEFINE x == StackMoved(IR, c)
                 y == SPMoves(op)
      <3>1. x \in Int /\ y \in Int
        BY <2>3
      <3> HIDE DEF x, y
      <3>2. Plus(Plus(baseSP, x), y) = Plus(baseSP, x + y)
        BY <3>1, <2>4, Steps
      <3> QED  BY <3>2 DEF x, y
    <2> QED  BY <2>2, <2>3, <2>5, Zenon
  <1>5. ReturnInStep'
    <2> DEFINE Calls == {"Call", "CallIf", "Restart"}
    <2> SUFFICES ASSUME IR \in Calls, c + 1 <= BeforeLow(IR)
                 PROVE  /\ PC' = Plus(start, Skipped + OperandsRead(IR, c + 1))
                        /\ c + 1 = BeforeLow(IR) => pushedPC' = PC'
      BY <1>1, <1>2 DEF ReturnInStep, Skipped
    <2>1. PC = Plus(start, Skipped + OperandsRead(IR, c))
      <3>1. c <= BeforeLow(IR)
        BY <1>1 DEF BeforeLow
      <3> QED  BY <3>1, <1>1 DEF InStep, ReturnInStep
    <2>2. CASE IR = "Restart"
      <3>1. \/ c = 0 /\ op = "decSP"
            \/ c = 1 /\ op = "pushPCH"
        BY <1>1, <2>2, <1>0 DEF Position, BeforeLow
      <3>2. PC' = PC /\ (c = 1 => pushedPC' = PC)
        BY <3>1 DEF CallMoves
      <3>3. OperandsRead(IR, c) = OperandsRead(IR, c + 1) /\ BeforeLow(IR) = 2
        BY <2>2 DEF OperandsRead, BeforeLow
      <3> QED  BY <2>1, <3>2, <3>3, <1>1
    <2>3. CASE IR \in {"Call", "CallIf"}
      <3>0. BeforeLow(IR) = 4 /\ \A n \in Int : OperandsRead(IR, n) = UpToTwo(n)
        BY <2>3 DEF BeforeLow, OperandsRead
      <3>1. \/ c \in {0, 1} /\ op \in {"operand", "operandTest"}
            \/ c = 2 /\ op \in {"decSP", "decSPIf"}
            \/ c = 3 /\ op = "pushPCH"
        BY <1>1, <2>3, <3>0, <1>0 DEF Position
      <3>2. CASE c \in {0, 1}
        <4>1. PC' = Plus(PC, 1)
          BY <3>1, <3>2 DEF CallMoves
        <4>2. OperandsRead(IR, c) = c /\ OperandsRead(IR, c + 1) = c + 1
          BY <3>0, <3>2 DEF UpToTwo
        <4>3. start \in Int /\ Skipped + c \in Int /\ (Skipped + c) + 1 = Skipped + (c + 1)
          BY <1>3, <3>2
        <4>4. Plus(Plus(start, Skipped + c), 1) = Plus(start, (Skipped + c) + 1)
          BY <4>3, Steps, 1 \in Int
        <4>5. PC' = Plus(start, Skipped + (c + 1))
          BY <2>1, <4>1, <4>2, <4>3, <4>4, Zenon
        <4> QED  BY <4>2, <4>5, <3>0, <3>2
      <3>3. CASE c \in {2, 3}
        <4>1. PC' = PC /\ (c = 3 => pushedPC' = PC)
          BY <3>1, <3>3 DEF CallMoves
        <4>2. OperandsRead(IR, c) = 2 /\ OperandsRead(IR, c + 1) = 2
          BY <3>0, <3>3 DEF UpToTwo
        <4> QED  BY <2>1, <4>1, <4>2, <3>0, <3>3
      <3> QED  BY <3>1, <3>2, <3>3
    <2> QED  BY <2>2, <2>3
  <1>6. TakenInStep'
    <2> SUFFICES ASSUME IR \in {"CallIf", "ReturnIf"}, c + 1 > BeforeStack(IR) PROVE cCheck'
      BY <1>1 DEF TakenInStep
    <2>1. \/ c = BeforeStack(IR) /\ op \in {"decSPIf", "popIf"}
          \/ c > BeforeStack(IR) /\ op \notin {"operandTest", "test"}
      BY <1>1, <1>0 DEF Position, BeforeStack
    <2>2. c > BeforeStack(IR) => cCheck
      BY <1>1 DEF InStep, TakenInStep
    <2> QED  BY <2>1, <2>2
  <1>7. DispatchInStep'
    BY <1>2 DEF DispatchInStep
  <1> QED  BY <1>4, <1>5, <1>6, <1>7 DEF InStep

LEMMA StepsOfSP ==
    ASSUME IInv
    PROVE  /\ Minus(SP, 1) = Plus(SP, 0 - 1) /\ Plus(SP, 0) = SP
           /\ SP \in Int /\ PC \in Int
  <1>1. SP \in Addr /\ PC \in Addr /\ Addr \subseteq Int
    BY ControlUnitAssumption DEF IInv, TypeOK, Addr
  <1> QED  BY <1>1, Steps, NoStep

LEMMA CyclesInStep ==
    ASSUME IInv, InStep,
           Operand \/ Test \/ Internal \/ Write \/ SetSP \/ DecSP \/ Push \/ PushPCL \/ Pop \/ Jump
    PROVE  InStep'
  <1> USE StepsOfSP, Words
  <1>1. CASE Operand
    <2>1. PICK op \in {"operand", "operandTest"} :
              Execute(op) /\ (op = "operand" => cCheck' = cCheck)
      BY <1>1 DEF Operand
    <2>2. PC' = Plus(PC, 1) /\ SP' = SP /\ Proceed
      BY <1>1 DEF Operand
    <2>3. SPMoves(op) = 0 /\ CallMoves(op)
      BY <2>2 DEF SPMoves, CallMoves
    <2> QED  BY <2>1, <2>2, <2>3, CycleInStep
  <1>2. CASE Test
    <2>1. Execute("test") /\ PC' = PC /\ SP' = SP /\ Proceed
      BY <1>2 DEF Test
    <2>2. SPMoves("test") = 0 /\ CallMoves("test")
      BY DEF SPMoves, CallMoves
    <2> QED  BY <2>1, <2>2, CycleInStep
  <1>3. CASE Internal
    <2>1. PICK op \in {"read", "internal", "internalIf"} : Execute(op)
      BY <1>3 DEF Internal, Taken
    <2>2. PC' = PC /\ SP' = SP /\ cCheck' = cCheck /\ Proceed
      BY <1>3 DEF Internal
    <2>3. SPMoves(op) = 0 /\ CallMoves(op)
      BY DEF SPMoves, CallMoves
    <2> QED  BY <2>1, <2>2, <2>3, CycleInStep
  <1>4. CASE Write
    <2>1. Execute("write") /\ PC' = PC /\ SP' = SP /\ cCheck' = cCheck /\ Proceed
      BY <1>4 DEF Write
    <2>2. SPMoves("write") = 0 /\ CallMoves("write")
      BY DEF SPMoves, CallMoves
    <2> QED  BY <2>1, <2>2, CycleInStep
  <1>5. CASE SetSP
    <2>1. Execute("setSP") /\ PC' = PC /\ cCheck' = cCheck /\ Proceed
      BY <1>5 DEF SetSP
    <2>2. IR = "CopySP"
      <3>1. Position(IR, instructionCycle, "setSP")
        BY <2>1, Positions
      <3> QED  BY <3>1 DEF Position, StackKinds, PushKinds, PopKinds, QuietOps
    <2>3. CallMoves("setSP")
      BY DEF CallMoves
    <2> QED  BY <2>1, <2>2, <2>3, CycleInStep
  <1>6. CASE DecSP
    <2>1. PICK op \in {"decSP", "decSPIf"} : Execute(op) /\ (op = "decSPIf" => cCheck)
      BY <1>6 DEF DecSP, Taken
    <2>2. PC' = PC /\ SP' = Minus(SP, 1) /\ cCheck' = cCheck /\ Proceed
      BY <1>6 DEF DecSP
    <2>3. SPMoves(op) = 0 - 1 /\ CallMoves(op)
      BY <2>1, <2>2 DEF SPMoves, CallMoves
    <2> QED  BY <2>1, <2>2, <2>3, CycleInStep
  <1>7. CASE Push
    <2>1. PICK op \in {"push", "pushPCH"} : Execute(op) /\ (op = "pushPCH" => pushedPC' = PC)
      BY <1>7 DEF Push
    <2>2. PC' = PC /\ SP' = Minus(SP, 1) /\ cCheck' = cCheck /\ Proceed
      BY <1>7 DEF Push
    <2>3. SPMoves(op) = 0 - 1 /\ CallMoves(op)
      BY <2>1, <2>2 DEF SPMoves, CallMoves
    <2> QED  BY <2>1, <2>2, <2>3, CycleInStep
  <1>8. CASE PushPCL
    <2>1. Execute("pushPCL") /\ SP' = SP /\ cCheck' = cCheck /\ Proceed
      BY <1>8 DEF PushPCL
    <2>2. SPMoves("pushPCL") = 0 /\ CallMoves("pushPCL")
      BY DEF SPMoves, CallMoves
    <2> QED  BY <2>1, <2>2, CycleInStep
  <1>9. CASE Pop
    <2>1. PICK op \in {"pop", "popIf"} : Execute(op) /\ (op = "popIf" => cCheck)
      BY <1>9 DEF Pop, Taken
    <2>2. SP' = Plus(SP, 1) /\ cCheck' = cCheck /\ Proceed
      BY <1>9 DEF Pop
    <2>3. SPMoves(op) = 1 /\ CallMoves(op)
      BY <2>1 DEF SPMoves, CallMoves
    <2> QED  BY <2>1, <2>2, <2>3, CycleInStep
  <1>10. CASE Jump
    <2>1. PICK op \in {"jump", "jumpIf", "jumpIME"} : Execute(op)
      BY <1>10 DEF Jump, Taken
    <2>2. SP' = SP /\ cCheck' = cCheck /\ Proceed
      BY <1>10 DEF Jump
    <2>3. SPMoves(op) = 0 /\ CallMoves(op)
      BY DEF SPMoves, CallMoves
    <2> QED  BY <2>1, <2>2, <2>3, CycleInStep
  <1> QED  BY <1>1, <1>2, <1>3, <1>4, <1>5, <1>6, <1>7, <1>8, <1>9, <1>10

\* An instruction that begins: nothing has moved yet.
LEMMA BeginsInStep ==
    ASSUME IInv', Boundary', ~isHandling', baseSP' = SP',
           ~isCbInstruction' => PC' = Plus(start', Skipped'),
           isCbInstruction' => IR' \in CbKinds,
           repeated' => ~IME' /\ ~enablingIME'
    PROVE  InStep'
  <1>1. instructionCycle' = 0 /\ SP' \in Addr /\ Skipped' \in Int
    <2>1. SP' \in Addr
      BY DEF IInv, TypeOK
    <2>2. Skipped' = 0 \/ Skipped' = 1
      BY Zenon DEF Skipped
    <2>3. Skipped' \in Int
      <3>1. 0 \in Int /\ 1 \in Int
        OBVIOUS
      <3> QED  BY <2>2, <3>1, Zenon
    <2>4. instructionCycle' = 0
      BY DEF Boundary
    <2> QED  BY <2>1, <2>3, <2>4, Zenon
  <1>2. StackMoved(IR', 0) = 0 /\ OperandsRead(IR', 0) = 0 /\ BeforeLow(IR') # 0
    <2>1. \A k : StackMoved(k, 0) = 0 /\ OperandsRead(k, 0) = 0 /\ BeforeLow(k) # 0
      <3>1. \A k : BeforeStack(k) \in 0..2 /\ BeforeLow(k) \in {2, 4}
        BY DEF BeforeStack, BeforeLow
      <3>2. /\ \A n \in 0..2 : UpToTwo(0 - n) = 0 /\ 0 - UpToTwo(0 - n) = 0
            /\ UpToTwo(0) = 0
        <4>1. \A m \in Int : m <= 0 => UpToTwo(m) = 0
          BY DEF UpToTwo
        <4>2. \A n \in 0..2 : 0 - n \in Int /\ 0 - n <= 0
          OBVIOUS
        <4>3. \A n \in 0..2 : UpToTwo(0 - n) = 0
          BY <4>1, <4>2
        <4> HIDE DEF UpToTwo
        <4> QED  BY <4>1, <4>3
      <3>3. \A k : UpToTwo(0 - BeforeStack(k)) = 0 /\ 0 - UpToTwo(0 - BeforeStack(k)) = 0
        BY <3>1, <3>2, Zenon
      <3>4. \A k : StackMoved(k, 0) = 0
        BY <3>3, Zenon DEF StackMoved
      <3>5. \A k : OperandsRead(k, 0) = 0
        BY <3>2, Zenon DEF OperandsRead
      <3> QED  BY <3>1, <3>4, <3>5
    <2> QED  BY <2>1, Zenon
  <1>3. Plus(SP', 0) = SP'
    BY <1>1, NoStep
  <1>4. StackInStep'
    BY <1>1, <1>2, <1>3 DEF StackInStep
  <1>5. ReturnInStep'
    <2>1. IR' \in {"Call", "CallIf", "Restart"} => ~isCbInstruction'
      BY DEF CbKinds
    <2>2. Skipped' + OperandsRead(IR', 0) = Skipped'
      BY <1>1, <1>2
    <2> QED  BY <1>1, <1>2, <2>1, <2>2 DEF ReturnInStep
  <1>6. TakenInStep'
    BY <1>1 DEF TakenInStep, BeforeStack
  <1>7. DispatchInStep'
    BY DEF DispatchInStep
  <1> QED  BY <1>4, <1>5, <1>6, <1>7 DEF InStep

\* After any opcode fetch but that of HALT and of the prefix.
LEMMA FetchedInStep ==
    ASSUME IInv', NEW addr, M1(addr), ~isHandling', baseSP' = SP'
    PROVE  InStep'
  <1>1. /\ Boundary' /\ isCbInstruction' = FALSE /\ start' = addr /\ repeated' = FALSE
        /\ PC' = Plus(addr, 1)
    BY DEF M1, Boundary
  <1>2. Skipped' = 1
    BY <1>1 DEF Skipped
  <1> QED  BY <1>1, <1>2, BeginsInStep

LEMMA RetiresInStep ==
    ASSUME IInv, IInv', Fetch \/ FetchTarget \/ EnableInterrupts \/ DisableInterrupts
    PROVE  InStep'
  <1>1. PICK op : Execute(op)
    BY DEF Fetch, FetchTarget, EnableInterrupts, DisableInterrupts
  <1>2. PICK addr : Retire(addr)
    BY DEF Fetch, FetchTarget, EnableInterrupts, DisableInterrupts
  <1>3. isHandling' = FALSE
    BY <1>1, Executes
  <1> QED  BY <1>2, <1>3, FetchedInStep DEF Retire

LEMMA HaltInStep ==
    ASSUME IInv, IInv', Halt PROVE InStep'
  <1>1. /\ Boundary' /\ ~isHandling' /\ isCbInstruction' = FALSE /\ baseSP' = SP'
        /\ start' = PC /\ repeated' = (~IMENow /\ Pending # {})
        /\ PC' = IF ~IMENow /\ Pending # {} THEN Minus(Plus(PC, 1), 1) ELSE Plus(PC, 1)
    BY DEF Halt, Boundary, Execute
  <1>2. PC' = Plus(start', Skipped')
    <2>1. CASE repeated'
      <3>1. PC' = Minus(Plus(PC, 1), 1) /\ Skipped' = 0
        BY <1>1, <2>1 DEF Skipped
      <3>2. PC \in Int /\ Plus(PC, 1) \in Addr /\ Addr \subseteq Int /\ 0 - 1 \in Int
        BY DataHeld, StepsOfSP, ControlUnitAssumption DEF Addr
      <3>3. Minus(Plus(PC, 1), 1) = Plus(Plus(PC, 1), 0 - 1)
        BY <3>2, Steps, 1 \in Int
      <3>4. Plus(Plus(PC, 1), 0 - 1) = Plus(PC, 1 + (0 - 1))
        BY <3>2, Steps, 1 \in Int
      <3>5. 1 + (0 - 1) = 0
        OBVIOUS
      <3> QED  BY <1>1, <3>1, <3>3, <3>4, <3>5, Zenon
    <2>2. CASE ~repeated'
      BY <1>1, <2>2 DEF Skipped
    <2> QED  BY <2>1, <2>2
  <1>3. repeated' => ~IME' /\ ~enablingIME'
    BY <1>1, Settles DEF Halt, SettleIME
  <1> QED  BY <1>1, <1>2, <1>3, BeginsInStep

LEMMA PrefixInStep ==
    ASSUME IInv, IInv', InStep, Prefix PROVE InStep'
  <1>1. Execute("prefix")
    BY DEF Prefix
  <1>2. IR = "CB" /\ Boundary
    <2>1. Position(IR, instructionCycle, "prefix")
      BY <1>1, Positions
    <2> QED  BY <2>1 DEF Position, StackKinds, PushKinds, PopKinds, QuietOps, Boundary
  <1>3. ~isHandling /\ isHandling' = FALSE
    BY <1>1, Executes
  <1>4. /\ Boundary' /\ isCbInstruction' = TRUE /\ IR' \in CbKinds
        /\ SP' = SP /\ baseSP' = baseSP /\ repeated' = repeated /\ SettleIME
    BY DEF Prefix, Boundary
  <1>5. SP = baseSP
    BY <1>2, <1>3 DEF InStep, StackInStep
  <1>6. repeated' => ~IME' /\ ~enablingIME'
    BY <1>2, <1>4, Settles DEF InStep, DispatchInStep, SettleIME, IMENow
  <1> QED  BY <1>3, <1>4, <1>5, <1>6, BeginsInStep

LEMMA StayHaltedInStep ==
    ASSUME IInv, InStep, StayHalted PROVE InStep'
  <1>1. UNCHANGED <<PC, SP, IR, instructionCycle, isCbInstruction, cCheck, isHandling, history>>
    BY DEF StayHalted
  <1>2. repeated /\ Boundary => ~IME' /\ ~enablingIME'
    BY Settles DEF StayHalted, InStep, DispatchInStep, SettleIME, IMENow
  <1>3. StackInStep' /\ ReturnInStep' /\ TakenInStep'
    BY <1>1 DEF InStep, StackInStep, ReturnInStep, TakenInStep, Boundary, Skipped, history
  <1>4. DispatchInStep'
    BY <1>1, <1>2 DEF InStep, DispatchInStep, Boundary, history
  <1> QED  BY <1>3, <1>4 DEF InStep

LEMMA UnmovedInStep ==
    ASSUME InStep,
           UNCHANGED <<PC, SP, IR, instructionCycle, isCbInstruction, cCheck, IME, enablingIME,
                       isHandling, history>>
    PROVE  InStep'
  <1>1. StackInStep' /\ ReturnInStep' /\ TakenInStep'
    BY DEF InStep, StackInStep, ReturnInStep, TakenInStep, Boundary, Skipped, history
  <1>2. DispatchInStep'
    BY DEF InStep, DispatchInStep, Boundary, history
  <1> QED  BY <1>1, <1>2 DEF InStep

LEMMA DispatchesInStep ==
    ASSUME IInv, IInv', InStep, Dispatch PROVE InStep'
  <1> USE StepsOfSP
  <1>0. /\ baseSP \in Int /\ start \in Int /\ Addr \subseteq Int /\ start \in Addr
        /\ 0 - 1 \in Int /\ baseSP \in Addr
    BY ControlUnitAssumption DEF IInv, TypeOK, Addr
  <1>1. ASSUME NEW c \in 0..3, DispatchProceeds(c),
               SP' = Plus(baseSP, 0 - UpToTwo(c)),
               ~isCbInstruction /\ c <= 2 => PC' = start,
               c = 2 => pushedPC' = PC'
        PROVE  InStep'
    <2>1. /\ isHandling' = TRUE /\ instructionCycle' = c + 1
          /\ UNCHANGED <<IR, isCbInstruction, start, repeated, baseSP, last>>
      BY <1>1 DEF DispatchProceeds, Dispatching, Proceed
    <2>2. ~Boundary'
      BY <2>1 DEF Boundary
    <2>3. StackInStep' /\ ReturnInStep' /\ TakenInStep'
      BY <2>1 DEF StackInStep, ReturnInStep, TakenInStep
    <2>4. DispatchInStep'
      BY <1>1, <2>1, <2>2 DEF DispatchInStep
    <2> QED  BY <2>3, <2>4 DEF InStep
  <1>2. CASE DispatchStepBack
    <2>1. DispatchProceeds(0) /\ PC' = Minus(PC, 1) /\ SP' = SP
      BY <1>2 DEF DispatchStepBack
    <2>2. Dispatching(0) /\ IME = TRUE /\ instructionCycle = 0
      BY <2>1, Dispatches DEF DispatchProceeds
    <2>3. ~isHandling /\ Boundary
      BY <2>2 DEF IInv, DispatchCoherent, Boundary
    <2>4. ~repeated /\ SP = baseSP /\ (~isCbInstruction => PC = Plus(start, Skipped))
      BY <2>2, <2>3 DEF InStep, StackInStep, ReturnInStep, DispatchInStep
    <2>5. ~isCbInstruction => PC' = start
      <3>1. Minus(Plus(start, 1), 1) = Plus(Plus(start, 1), 0 - 1)
        BY Steps, AddrStep, <1>0, 1 \in Int
      <3>2. Plus(Plus(start, 1), 0 - 1) = Plus(start, 1 + (0 - 1))
        BY Steps, <1>0, 1 \in Int
      <3>3. 1 + (0 - 1) = 0 /\ Plus(start, 0) = start
        BY <1>0, NoStep
      <3>4. Skipped = 1
        BY <2>4 DEF Skipped
      <3> QED  BY <2>1, <2>4, <3>1, <3>2, <3>3, <3>4, Zenon
    <2>6. SP' = Plus(baseSP, 0 - UpToTwo(0))
      BY <1>0, <2>1, <2>4, NoStep DEF UpToTwo
    <2> QED  BY <1>1, <2>1, <2>5, <2>6
  <1>3. ASSUME NEW c \in 1..3, DispatchProceeds(c)
        PROVE  /\ SP = Plus(baseSP, 0 - UpToTwo(c - 1))
               /\ ~isCbInstruction => PC = start
    <2>1. isHandling /\ instructionCycle = c
      <3>1. c \in 0..4 /\ c # 0
        OBVIOUS
      <3>2. Dispatching(c)
        BY <1>3 DEF DispatchProceeds
      <3> QED  BY <3>1, <3>2, Dispatches
    <2> QED  BY <2>1, <1>3 DEF InStep, DispatchInStep
  <1>4. ASSUME NEW c \in 1..2, SP = Plus(baseSP, 0 - UpToTwo(c - 1))
        PROVE  Minus(SP, 1) = Plus(baseSP, 0 - UpToTwo(c))
    <2>1. UpToTwo(c - 1) = c - 1 /\ UpToTwo(c) = c
      BY <1>4 DEF UpToTwo
    <2>2. Minus(SP, 1) = Plus(SP, 0 - 1)
      OBVIOUS
    <2>3. Plus(Plus(baseSP, 0 - (c - 1)), 0 - 1) = Plus(baseSP, (0 - (c - 1)) + (0 - 1))
      BY Steps, <1>0, 0 - (c - 1) \in Int
    <2>4. (0 - (c - 1)) + (0 - 1) = 0 - c
      BY <1>4
    <2> QED  BY <1>4, <2>1, <2>2, <2>3, <2>4, Zenon
  <1>5. CASE DispatchDecSP
    <2>1. DispatchProceeds(1) /\ SP' = Minus(SP, 1) /\ PC' = PC
      BY <1>5 DEF DispatchDecSP
    <2>2. SP' = Plus(baseSP, 0 - UpToTwo(1)) /\ (~isCbInstruction => PC' = start)
      BY <2>1, <1>3, <1>4, 1 \in 1..2, 1 \in 1..3
    <2> QED  BY <1>1, <2>1, <2>2
  <1>6. CASE DispatchPushPCH
    <2>1. DispatchProceeds(2) /\ SP' = Minus(SP, 1) /\ PC' = PC /\ pushedPC' = PC
      BY <1>6 DEF DispatchPushPCH
    <2>2. SP' = Plus(baseSP, 0 - UpToTwo(2)) /\ (~isCbInstruction => PC' = start)
      BY <2>1, <1>3, <1>4, 2 \in 1..2, 2 \in 1..3
    <2> QED  BY <1>1, <2>1, <2>2
  <1>7. CASE DispatchPushPCL
    <2>1. DispatchProceeds(3) /\ SP' = SP
      BY <1>7 DEF DispatchPushPCL
    <2>2. SP' = Plus(baseSP, 0 - UpToTwo(3))
      <3>1. SP = Plus(baseSP, 0 - UpToTwo(2))
        BY <2>1, <1>3, 3 \in 1..3, 3 - 1 = 2
      <3>2. UpToTwo(2) = UpToTwo(3)
        BY DEF UpToTwo
      <3> QED  BY <2>1, <3>1, <3>2, Zenon
    <2> QED  BY <1>1, <2>1, <2>2
  <1>8. CASE DispatchFetch
    <2>1. M1(PC) /\ ~isHandling' /\ baseSP' = SP'
      BY <1>8 DEF DispatchFetch, CommandDone
    <2> QED  BY <2>1, FetchedInStep
  <1> QED  BY <1>2, <1>5, <1>6, <1>7, <1>8 DEF Dispatch

\* The CPU starts as after the opcode fetch of a one-cycle instruction.
LEMMA InitInStep == Init => InStep
  <1> SUFFICES ASSUME Init PROVE InStep
    OBVIOUS
  <1>1. /\ Boundary /\ instructionCycle = 0 /\ IR = "OneCycle" /\ ~isHandling /\ ~repeated
        /\ SP = baseSP /\ ~IME /\ ~enablingIME
    BY DEF Init, Boundary
  <1>2. PC = Plus(start, Skipped)
    <2>1. PC \in Addr /\ PC \in Int /\ Minus(PC, 1) = Plus(PC, 0 - 1)
      BY Steps, ControlUnitAssumption, 1 \in Int DEF Init, Addr
    <2>2. Plus(Plus(PC, 0 - 1), 1) = Plus(PC, (0 - 1) + 1)
      BY <2>1, Steps, 1 \in Int, 0 - 1 \in Int
    <2>3. (0 - 1) + 1 = 0 /\ Plus(PC, 0) = PC
      BY <2>1, NoStep
    <2>4. start = Minus(PC, 1) /\ Skipped = 1
      BY <1>1 DEF Init, Skipped
    <2> QED  BY <2>1, <2>2, <2>3, <2>4, Zenon
  <1>3. StackInStep
    <2>1. StackMoved("OneCycle", 0) = 0
      BY DEF StackMoved, PushKinds, PopKinds
    <2>2. Plus(SP, 0) = SP
      BY NoStep DEF Init
    <2> QED  BY <1>1, <2>1, <2>2 DEF StackInStep
  <1>4. ReturnInStep
    BY <1>1, <1>2 DEF ReturnInStep
  <1>5. TakenInStep
    BY <1>1 DEF TakenInStep
  <1>6. DispatchInStep
    BY <1>1 DEF DispatchInStep
  <1> QED  BY <1>3, <1>4, <1>5, <1>6 DEF InStep

LEMMA InStepKept == IInv /\ InStep /\ [Next]_vars => InStep'
  <1> SUFFICES ASSUME IInv, InStep, [Next]_vars PROVE InStep'
    OBVIOUS
  <1>0. IInv'
    BY InvStep
  <1>1. CASE Instruction
    BY <1>0, <1>1, CyclesInStep, RetiresInStep, HaltInStep, PrefixInStep DEF Instruction
  <1>2. CASE Dispatch
    BY <1>0, <1>2, DispatchesInStep
  <1>3. CASE StayHalted
    BY <1>3, StayHaltedInStep
  <1>4. CASE Raise \/ UNCHANGED vars
    BY <1>4, UnmovedInStep DEF Raise, vars, history
  <1> QED  BY <1>1, <1>2, <1>3, <1>4 DEF Next, CoreTick

(* Both halves of the address a dispatch pushes are of the first byte of   *)
(* the instruction put off, unless that one has a prefix                   *)
(* (ResumesUnlessPrefixed).                                                *)
THEOREM ResumesAtPutOff == Spec => ResumesUnlessPrefixed
  <1>1. IInv /\ InStep /\ [Next]_vars => [~isCbInstruction => PushesResumption]_vars
    BY DEF PushesResumption, InStep, DispatchInStep
  <1> QED
    BY <1>1, InvInit, InvStep, InitInStep, InStepKept, PTL DEF Spec, ResumesUnlessPrefixed

\* The cycles that read an operand, which CALL has two of and RST none.
Reads(k) == {n \in DOMAIN Microcode[k] : Microcode[k][n] \in {"operand", "operandTest"}}

LEMMA OperandsOfCalls ==
    Operands("Call") = 2 /\ Operands("CallIf") = 2 /\ Operands("Restart") = 0
  <1>1. /\ Reads("Call") = {1, 2} /\ Reads("CallIf") = {1, 2}
        /\ Reads("Restart") = {}
    <2>1. Reads("Call") = {1, 2}
      BY StackCodes DEF Reads
    <2>2. Reads("CallIf") = {1, 2}
      BY StackCodes DEF Reads
    <2>3. Reads("Restart") = {}
      BY StackCodes DEF Reads
    <2> QED  BY <2>1, <2>2, <2>3
  <1>2. Cardinality({}) = 0
    BY FS_EmptySet
  <1>3. Cardinality({1, 2}) = 2
    <2>1. IsFiniteSet({1}) /\ Cardinality({1}) = 1
      BY FS_Singleton
    <2>2. {1} \cup {2} = {1, 2} /\ 2 \notin {1}
      OBVIOUS
    <2> QED  BY <2>1, <2>2, FS_AddElement
  <1>4. ASSUME NEW k PROVE Operands(k) = Cardinality(Reads(k))
    BY DEF Operands, Reads
  <1> QED  BY <1>1, <1>2, <1>3, <1>4, Zenon

(* Both halves of the address CALL and RST push are of the byte after      *)
(* their operands, the HALT bug included (CallPushesReturn).               *)
THEOREM CallsPushReturn == Spec => CallPushesReturn
  <1>1. IInv /\ InStep /\ [Next]_vars =>
            [PushPCL /\ IR \in {"Call", "CallIf", "Restart"} =>
                 pushedPC = PC /\ PC = Plus(start, InstructionLength)]_vars
    <2> SUFFICES ASSUME IInv, InStep, PushPCL, IR \in {"Call", "CallIf", "Restart"}
                 PROVE  pushedPC = PC /\ PC = Plus(start, InstructionLength)
      OBVIOUS
    <2>1. Execute("pushPCL")
      BY DEF PushPCL
    <2>2. instructionCycle = BeforeLow(IR)
      <3>1. Position(IR, instructionCycle, "pushPCL")
        BY <2>1, Positions
      <3> QED  BY <3>1 DEF Position, BeforeLow
    <2>3. ~isHandling
      BY <2>1, Executes
    <2>4. /\ PC = Plus(start, Skipped + OperandsRead(IR, instructionCycle))
          /\ pushedPC = PC
      <3>1. instructionCycle <= BeforeLow(IR)
        BY <2>2 DEF BeforeLow
      <3> QED  BY <2>2, <2>3, <3>1 DEF InStep, ReturnInStep
    <2>5. OperandsRead(IR, instructionCycle) = Operands(IR) /\ Operands(IR) \in {0, 2}
      BY <2>2, OperandsOfCalls DEF OperandsRead, BeforeLow, UpToTwo
    <2>6. InstructionLength = Skipped + Operands(IR)
      BY <2>5 DEF InstructionLength, Skipped
    <2> QED  BY <2>4, <2>5, <2>6, Zenon
  <1> QED
    BY <1>1, InvInit, InvStep, InitInStep, InStepKept, PTL DEF Spec, CallPushesReturn

\* What an instruction has moved SP by when it ends, on either path.
LEMMA MovedAtEnd ==
    ASSUME IInv, InStep, Fetch, IR \notin {"LoadSP", "CopySP", "AddSP"}
    PROVE  /\ SP' = SP
           /\ StackMoved(IR, instructionCycle) \in Int
           /\ \/ StackEffect(IR) = StackMoved(IR, instructionCycle)
              \/ StackEffect(IR) = AddrCount + StackMoved(IR, instructionCycle)
  <1> DEFINE c == instructionCycle
             k == IR
  <1>1. PICK op \in {"fetch", "fetchSP", "internalIf", "decSPIf", "popIf", "jumpIf"} :
            /\ Execute(op)
            /\ op \in {"decSPIf", "popIf"} => ~cCheck
            /\ op # "fetchSP" => SP' = SP
    BY DEF Fetch
  <1>2. Position(k, c, op) /\ ~isHandling /\ c \in 0..5
    BY <1>1, Positions, Executes
  <1>3. op # "fetchSP"
    BY <1>2 DEF Position, StackKinds, PushKinds, PopKinds, QuietOps
  <1>4. k \in {"CallIf", "ReturnIf"} /\ c > BeforeStack(k) => cCheck
    BY <1>2 DEF InStep, TakenInStep
  <1>5. AddrCount \in Nat
    BY ControlUnitAssumption
  <1>6. CASE k \notin PushKinds \cup PopKinds
    <2>1. StackEffect(k) = 0
      BY <1>6 DEF StackEffect, PushKinds, PopKinds
    <2>2. StackMoved(k, c) = 0
      BY <1>6 DEF StackMoved
    <2> QED  BY <1>1, <1>3, <2>1, <2>2
  <1>7. CASE k = "Push"
    <2>1. c = 3
      BY <1>1, <1>2, <1>3, <1>7 DEF Position
    <2> QED  BY <1>1, <1>3, <1>5, <1>7, <2>1 DEF StackEffect, StackMoved, PushKinds, BeforeStack, UpToTwo
  <1>8. CASE k = "Call"
    <2>1. c = 5
      BY <1>1, <1>2, <1>3, <1>8 DEF Position
    <2> QED  BY <1>1, <1>3, <1>5, <1>8, <2>1 DEF StackEffect, StackMoved, PushKinds, BeforeStack, UpToTwo
  <1>9. CASE k = "Restart"
    <2>1. c = 3
      BY <1>1, <1>2, <1>3, <1>9 DEF Position
    <2> QED  BY <1>1, <1>3, <1>5, <1>9, <2>1 DEF StackEffect, StackMoved, PushKinds, BeforeStack, UpToTwo
  <1>10. CASE k = "CallIf"
    <2>1. \/ c = 2 /\ ~cCheck
          \/ c = 5 /\ cCheck
      BY <1>1, <1>2, <1>3, <1>4, <1>10 DEF Position, BeforeStack
    <2>2. StackMoved(k, 2) = 0 /\ StackMoved(k, 5) = 0 - 2
      <3>1. \A n \in Int : StackMoved(k, n) = 0 - UpToTwo(n - 2)
        BY <1>10 DEF StackMoved, PushKinds, BeforeStack
      <3> QED  BY <3>1 DEF UpToTwo
    <2>3. StackEffect(k) = IF cCheck THEN AddrCount - 2 ELSE 0
      BY <1>10 DEF StackEffect
    <2> QED  BY <1>1, <1>3, <1>5, <2>1, <2>2, <2>3
  <1>11. CASE k \in {"Pop", "Return", "ReturnI"}
    <2>1. c >= 2
      BY <1>1, <1>2, <1>3, <1>11 DEF Position
    <2>2. StackMoved(k, c) = 2
      BY <1>2, <1>11, <2>1 DEF StackMoved, PushKinds, PopKinds, BeforeStack, UpToTwo
    <2> QED  BY <1>1, <1>3, <1>11, <2>2 DEF StackEffect
  <1>12. CASE k = "ReturnIf"
    <2>1. \/ c = 1 /\ ~cCheck
          \/ c >= 3 /\ cCheck
      BY <1>1, <1>2, <1>3, <1>4, <1>12 DEF Position, BeforeStack
    <2>2. StackMoved(k, 1) = 0 /\ \A n \in 3..5 : StackMoved(k, n) = 2
      BY <1>12 DEF StackMoved, PushKinds, PopKinds, BeforeStack, UpToTwo
    <2>3. StackEffect(k) = IF cCheck THEN 2 ELSE 0
      BY <1>12 DEF StackEffect
    <2> QED  BY <1>1, <1>2, <1>3, <2>1, <2>2, <2>3
  <1> QED
    BY <1>6, <1>7, <1>8, <1>9, <1>10, <1>11, <1>12 DEF PushKinds, PopKinds

(* An instruction moves SP by what it pushes or pops, whatever its         *)
(* condition, and a dispatch by the two bytes it pushes (StackBalanced).   *)
THEOREM StackIsBalanced == Spec => StackBalanced
  <1>1. ASSUME IInv, InStep, Fetch, IR \notin {"LoadSP", "CopySP", "AddSP"}
        PROVE  SP' = Plus(baseSP, StackEffect(IR))
    <2> DEFINE x == StackMoved(IR, instructionCycle)
    <2>1. ~isHandling
      BY <1>1, Executes DEF Fetch
    <2>2. SP = Plus(baseSP, x)
      BY <1>1, <2>1 DEF InStep, StackInStep
    <2>3. SP' = SP /\ x \in Int /\ (StackEffect(IR) = x \/ StackEffect(IR) = AddrCount + x)
      BY <1>1, MovedAtEnd
    <2>4. baseSP \in Int
      BY <1>1, ControlUnitAssumption DEF IInv, TypeOK, Addr
    <2> HIDE DEF x
    <2>5. Plus(baseSP, AddrCount + x) = Plus(baseSP, x)
      BY <2>3, <2>4, Steps
    <2> QED  BY <2>2, <2>3, <2>5, Zenon
  <1>2. ASSUME IInv, InStep, DispatchFetch PROVE SP' = Minus(baseSP, 2)
    <2>1. instructionCycle = 4 /\ isHandling /\ SP' = SP
      <3>1. Dispatching(4) /\ SP' = SP
        BY <1>2 DEF DispatchFetch
      <3>2. 4 \in 0..4 /\ 4 # 0
        OBVIOUS
      <3> QED  BY <1>2, <3>1, <3>2, Dispatches
    <2>2. SP = Plus(baseSP, 0 - UpToTwo(instructionCycle - 1))
      BY <1>2, <2>1 DEF InStep, DispatchInStep
    <2>3. UpToTwo(instructionCycle - 1) = 2
      BY <2>1 DEF UpToTwo
    <2>4. Minus(baseSP, 2) = Plus(baseSP, 0 - 2)
      <3>1. baseSP \in Int /\ 2 \in Int
        BY <1>2, ControlUnitAssumption DEF IInv, TypeOK, Addr
      <3> QED  BY <3>1, Steps
    <2> QED  BY <2>1, <2>2, <2>3, <2>4, Zenon
  <1>3. IInv /\ InStep /\ [Next]_vars =>
            [/\ Fetch /\ IR \notin {"LoadSP", "CopySP", "AddSP"} =>
                    SP' = Plus(baseSP, StackEffect(IR))
             /\ DispatchFetch => SP' = Minus(baseSP, 2)]_vars
    BY <1>1, <1>2
  <1> QED
    BY <1>3, InvInit, InvStep, InitInStep, InStepKept, PTL DEF Spec, StackBalanced
=============================================================================
