---------------------------- MODULE ControlUnit ----------------------------
(***************************************************************************)
(* The CPU's sequencer (src/src/cpu/control_unit.cpp) and the interrupt    *)
(* lines it serves (src/src/system/interrupts.cpp), one M-cycle a step.    *)
(*                                                                         *)
(* The CPU fetches the next opcode in the last cycle of an instruction     *)
(* (M1), so between instructions IR already holds one and PC points past   *)
(* it.  What the model keeps is control: PC, SP, the cycle, IME, HALT, the *)
(* CB prefix and the dispatch of interrupts.  Register contents, flags and *)
(* memory are data: an opcode fetched may be of any kind, a jump may go    *)
(* anywhere and a condition may be met or not.                             *)
(***************************************************************************)
EXTENDS Integers, Sequences, FiniteSets

CONSTANTS
    AddrCount,      \* 2^16: size of the address space
    IrqCount,       \* 5: interrupt sources, the one with priority first
    Vector,         \* handler address of each source
    Kinds           \* the kinds of instruction programs are made of

Addr == 0..(AddrCount - 1)
Irq  == 0..(IrqCount - 1)

\* IDU::increment and IDU::decrement, and getPC() + n.
Plus(a, n)  == (a + n) % AddrCount
Minus(a, n) == (a + AddrCount - n) % AddrCount

(***************************************************************************)
(* What each kind of instruction does in each of its M-cycles, as far as   *)
(* the sequencer can tell.  A kind stands for all the opcodes whose cycles *)
(* have that shape: CopySP is LD SP,HL and also INC SP and DEC SP.         *)
(*   operand   read the byte at PC and step PC                             *)
(*   read, internal, write   a cycle that leaves PC and SP alone           *)
(*   decSP, push, pop        a stack access                                *)
(*   pushPCH, pushPCL        the two halves of PC; the second also jumps   *)
(*   jump, jumpIME           PC takes the target; RETI also sets IME       *)
(*   fetch     M1, the last cycle                                          *)
(* "If" marks the cycle that ends the instruction when the condition, read *)
(* in the "test" cycle before it, is not met.                              *)
(***************************************************************************)
LoadMicrocode ==
    [Read           |-> <<"read", "fetch">>,
     Write          |-> <<"write", "fetch">>,
     ImmediateRead  |-> <<"operand", "read", "fetch">>,
     ImmediateWrite |-> <<"operand", "write", "fetch">>,
     DirectRead     |-> <<"operand", "operand", "read", "fetch">>,
     DirectWrite    |-> <<"operand", "operand", "write", "fetch">>]

StackMicrocode ==
    [Immediate16 |-> <<"operand", "operand", "fetch">>,
     LoadSP      |-> <<"operand", "operand", "fetchSP">>,
     StoreSP     |-> <<"operand", "operand", "write", "write", "fetch">>,
     CopySP      |-> <<"setSP", "fetch">>,
     OffsetSP    |-> <<"operand", "internal", "fetch">>,
     Push        |-> <<"decSP", "push", "write", "fetch">>,
     Pop         |-> <<"pop", "pop", "fetch">>]

ArithmeticMicrocode ==
    [OneCycle        |-> <<"fetch">>,
     Immediate       |-> <<"operand", "fetch">>,
     ReadModifyWrite |-> <<"read", "write", "fetch">>]

WideMicrocode ==
    [Internal |-> <<"internal", "fetch">>,
     AddSP    |-> <<"operand", "internal", "internal", "fetchSP">>]

JumpMicrocode ==
    [Jump           |-> <<"operand", "operand", "jump", "fetch">>,
     JumpIf         |-> <<"operand", "operandTest", "jumpIf", "fetch">>,
     JumpHL         |-> <<"fetchTarget">>,
     RelativeJump   |-> <<"operand", "internal", "fetchTarget">>,
     RelativeJumpIf |-> <<"operandTest", "internalIf", "fetchTarget">>]

CallMicrocode ==
    [Call    |-> <<"operand", "operand", "decSP", "pushPCH", "pushPCL", "fetch">>,
     CallIf  |-> <<"operand", "operandTest", "decSPIf", "pushPCH", "pushPCL", "fetch">>,
     Restart |-> <<"decSP", "pushPCH", "pushPCL", "fetch">>]

ReturnMicrocode ==
    [Return   |-> <<"pop", "pop", "jump", "fetch">>,
     ReturnIf |-> <<"test", "popIf", "pop", "jump", "fetch">>,
     ReturnI  |-> <<"pop", "pop", "jumpIME", "fetch">>]

ControlMicrocode ==
    [Halt |-> <<"halt">>, EI |-> <<"enable">>, DI |-> <<"disable">>, CB |-> <<"prefix">>]

Merge(f, g) == [k \in DOMAIN f \cup DOMAIN g |-> IF k \in DOMAIN f THEN f[k] ELSE g[k]]

Microcode ==
    Merge(LoadMicrocode, Merge(StackMicrocode, Merge(ArithmeticMicrocode,
    Merge(WideMicrocode, Merge(JumpMicrocode, Merge(CallMicrocode,
    Merge(ReturnMicrocode, ControlMicrocode)))))))

\* The kinds a byte after the CB prefix decodes to.
CbKinds == {"OneCycle", "Read", "ReadModifyWrite"}

ASSUME ControlUnitAssumption ==
    /\ AddrCount \in Nat \ {0}
    /\ IrqCount \in Nat
    /\ Vector \in [Irq -> Addr]
    /\ Kinds \subseteq DOMAIN Microcode

VARIABLES
    PC, SP,
    IR,                 \* kind of the opcode in the instruction register
    instructionCycle,
    isCbInstruction,
    cCheck,             \* the condition, as tested
    IME, enablingIME, halted,
    isHandling, irq,    \* interruptCommand: dispatching, and which one
    IEflags, IFflags    \* sets of sources

\* History.
VARIABLES
    start,      \* address of the first byte of the instruction in IR
    repeated,   \* PC did not step past that byte (the HALT bug)
    baseSP,     \* SP when that instruction began
    pushedPC,   \* the PC whose high byte was pushed last (0 between instructions)
    last        \* what ran before: "EI" (that turned IME on), "DI", "dispatch" or "other"

lines   == <<IEflags, IFflags>>
history == <<start, repeated, baseSP, pushedPC, last>>
vars == <<PC, SP, IR, instructionCycle, isCbInstruction, cCheck, IME, enablingIME,
          halted, isHandling, irq, lines, history>>

\* IR is zero, a NOP, before anything is fetched.
Init ==
    /\ PC \in Addr /\ SP \in Addr
    /\ IR = "OneCycle"
    /\ instructionCycle = 0
    /\ isCbInstruction = FALSE
    /\ cCheck = FALSE
    /\ IME = FALSE /\ enablingIME = FALSE /\ halted = FALSE
    /\ isHandling = FALSE /\ irq = 0
    /\ IEflags = {} /\ IFflags = {}
    /\ start = Minus(PC, 1) /\ repeated = FALSE /\ baseSP = SP
    /\ pushedPC = 0 /\ last = "other"

-----------------------------------------------------------------------------
Pending == IEflags \cap IFflags

(***************************************************************************)
(* What executeInstruction settles before it runs a cycle.  At an          *)
(* instruction boundary an enabled request starts a dispatch if IME is on, *)
(* and only then a pending EI turns IME on.  In any cycle an enabled       *)
(* request wakes the CPU from HALT.                                        *)
(***************************************************************************)
Boundary == instructionCycle = 0

\* Mutants: the request served is chosen anew in every cycle, EI is not taken
\* back.
ServingLatest   == IF Pending # {} THEN CHOOSE i \in Pending : \A j \in Pending : i <= j ELSE irq
EnablingKept    == enablingIME

Scrap    == Boundary /\ IME /\ Pending # {}
Handling == isHandling \/ Scrap
Serving  == IF Scrap THEN CHOOSE i \in Pending : \A j \in Pending : i <= j ELSE irq

IMENow      == IME \/ (Boundary /\ enablingIME)
EnablingNow == enablingIME /\ ~Boundary
Awake       == ~halted \/ Pending # {}

(***************************************************************************)
(* Bus writes.  Any of them may land on IE or IF.                          *)
(***************************************************************************)
BusWrite ==
    \/ UNCHANGED lines
    \/ \E value \in SUBSET Irq : IEflags' = value /\ IFflags' = IFflags
    \/ \E value \in SUBSET Irq : IFflags' = value /\ IEflags' = IEflags

(***************************************************************************)
(* M1: fetch the opcode at addr into IR and point PC past it.              *)
(***************************************************************************)
M1(addr) ==
    /\ IR' \in Kinds
    /\ PC' = Plus(addr, 1)
    /\ instructionCycle' = 0
    /\ isCbInstruction' = FALSE
    /\ start' = addr /\ repeated' = FALSE

\* The instruction in IR runs the cycle op of its microcode.
Execute(op) ==
    /\ ~Handling /\ Awake
    /\ Microcode[IR][instructionCycle + 1] = op
    /\ halted' = (op = "halt" /\ (IMENow \/ Pending = {}))
    /\ isHandling' = FALSE /\ irq' = irq

SettleIME == IME' = IMENow /\ enablingIME' = EnablingNow

\* A cycle that is not the last one.
Proceed ==
    /\ instructionCycle' = instructionCycle + 1
    /\ UNCHANGED <<IR, isCbInstruction, start, repeated, baseSP, last>>

\* The last cycle: fetch the next opcode from addr.
Retire(addr) ==
    /\ M1(addr)
    /\ baseSP' = SP' /\ pushedPC' = 0
    /\ UNCHANGED <<cCheck, lines>>

\* Mutant: the operand a condition is tested with is not stepped past.
OperandTestStays ==
    /\ \/ Execute("operand") /\ PC' = Plus(PC, 1) /\ UNCHANGED cCheck
       \/ Execute("operandTest") /\ PC' = PC /\ cCheck' \in BOOLEAN
    /\ Proceed /\ SettleIME
    /\ UNCHANGED <<SP, pushedPC, lines>>

Operand ==
    /\ \/ Execute("operand") /\ UNCHANGED cCheck
       \/ Execute("operandTest") /\ cCheck' \in BOOLEAN
    /\ PC' = Plus(PC, 1)
    /\ Proceed /\ SettleIME
    /\ UNCHANGED <<SP, pushedPC, lines>>

Test ==
    /\ Execute("test")
    /\ cCheck' \in BOOLEAN
    /\ Proceed /\ SettleIME
    /\ UNCHANGED <<PC, SP, pushedPC, lines>>

\* The condition, if this cycle depends on one, is met.
Taken(op, opIf) == Execute(op) \/ (Execute(opIf) /\ cCheck)

Internal ==
    /\ Execute("read") \/ Taken("internal", "internalIf")
    /\ Proceed /\ SettleIME
    /\ UNCHANGED <<PC, SP, cCheck, pushedPC, lines>>

Write ==
    /\ Execute("write")
    /\ BusWrite
    /\ Proceed /\ SettleIME
    /\ UNCHANGED <<PC, SP, cCheck, pushedPC>>

SetSP ==
    /\ Execute("setSP")
    /\ SP' \in Addr
    /\ Proceed /\ SettleIME
    /\ UNCHANGED <<PC, cCheck, pushedPC, lines>>

DecSP ==
    /\ Taken("decSP", "decSPIf")
    /\ SP' = Minus(SP, 1)
    /\ Proceed /\ SettleIME
    /\ UNCHANGED <<PC, cCheck, pushedPC, lines>>

\* Mutant: SP is stepped once for two bytes.
PushInPlace ==
    /\ \/ Execute("push") /\ UNCHANGED pushedPC
       \/ Execute("pushPCH") /\ pushedPC' = PC
    /\ BusWrite
    /\ Proceed /\ SettleIME
    /\ UNCHANGED <<PC, SP, cCheck>>

Push ==
    /\ \/ Execute("push") /\ UNCHANGED pushedPC
       \/ Execute("pushPCH") /\ pushedPC' = PC
    /\ BusWrite
    /\ SP' = Minus(SP, 1)
    /\ Proceed /\ SettleIME
    /\ UNCHANGED <<PC, cCheck>>

\* The low half of PC is pushed, and PC takes the target.
PushPCL ==
    /\ Execute("pushPCL")
    /\ BusWrite
    /\ PC' \in Addr
    /\ Proceed /\ SettleIME
    /\ UNCHANGED <<SP, cCheck, pushedPC>>

Pop ==
    /\ Taken("pop", "popIf")
    /\ SP' = Plus(SP, 1)
    /\ Proceed /\ SettleIME
    /\ UNCHANGED <<PC, cCheck, pushedPC, lines>>

Jump ==
    /\ \/ Taken("jump", "jumpIf") /\ SettleIME
       \/ Execute("jumpIME") /\ IME' = TRUE /\ enablingIME' = EnablingNow
    /\ PC' \in Addr
    /\ Proceed
    /\ UNCHANGED <<SP, cCheck, pushedPC, lines>>

\* The end of an instruction, by its last cycle or by a condition not met.
Fetch ==
    /\ \/ Execute("fetch") /\ UNCHANGED SP
       \/ Execute("fetchSP") /\ SP' \in Addr
       \/ /\ \E op \in {"internalIf", "decSPIf", "popIf", "jumpIf"} : Execute(op)
          /\ ~cCheck
          /\ UNCHANGED SP
    /\ Retire(PC)
    /\ SettleIME
    /\ last' = "other"

FetchTarget ==
    /\ Execute("fetchTarget")
    /\ UNCHANGED SP
    /\ \E target \in Addr : Retire(target)
    /\ SettleIME
    /\ last' = "other"

\* Mutant: EI takes effect at once.
EnableAtOnce ==
    /\ Execute("enable")
    /\ UNCHANGED SP
    /\ Retire(PC)
    /\ IME' = TRUE /\ enablingIME' = FALSE
    /\ last' = IF IMENow THEN "other" ELSE "EI"

EnableInterrupts ==
    /\ Execute("enable")
    /\ UNCHANGED SP
    /\ Retire(PC)
    /\ IME' = IMENow /\ enablingIME' = TRUE
    /\ last' = IF IMENow THEN "other" ELSE "EI"

DisableInterrupts ==
    /\ Execute("disable")
    /\ UNCHANGED SP
    /\ Retire(PC)
    /\ IME' = FALSE /\ enablingIME' = FALSE
    /\ last' = "DI"

\* HALT, or, with IME off and a request pending, the HALT bug: PC stays on
\* the byte just fetched.
Halt ==
    /\ Execute("halt")
    /\ IR' \in Kinds
    /\ PC' = IF ~IMENow /\ Pending # {} THEN Minus(Plus(PC, 1), 1) ELSE Plus(PC, 1)
    /\ instructionCycle' = 0
    /\ isCbInstruction' = FALSE
    /\ start' = PC
    /\ repeated' = (~IMENow /\ Pending # {})
    /\ SettleIME
    /\ last' = "other"
    /\ baseSP' = SP
    /\ UNCHANGED <<SP, cCheck, pushedPC, lines>>

\* The CB prefix: the byte fetched is decoded by the other table.
Prefix ==
    /\ Execute("prefix")
    /\ IR' \in CbKinds
    /\ PC' = Plus(PC, 1)
    /\ instructionCycle' = 0
    /\ isCbInstruction' = TRUE
    /\ SettleIME
    /\ last' = "other"
    /\ UNCHANGED <<SP, cCheck, pushedPC, lines, start, repeated, baseSP>>

\* Halted, and no enabled request: nothing but a pending EI moves.
StayHalted ==
    /\ ~Handling /\ ~Awake
    /\ SettleIME
    /\ UNCHANGED <<PC, SP, IR, instructionCycle, isCbInstruction, cCheck, halted,
                   isHandling, irq, lines, history>>

(***************************************************************************)
(* handleInterrupt: step PC back onto the opcode in IR, push it and fetch  *)
(* from the vector.                                                        *)
(***************************************************************************)
Dispatching(cycle) ==
    /\ Handling
    /\ instructionCycle = cycle
    /\ irq' = Serving

DispatchProceeds(cycle) ==
    /\ Dispatching(cycle)
    /\ isHandling' = TRUE
    /\ halted' = ~Awake
    /\ SettleIME
    /\ Proceed
    /\ UNCHANGED cCheck

\* Mutant: PC stays past the opcode that is put off.
DispatchStays ==
    /\ DispatchProceeds(0)
    /\ UNCHANGED <<PC, SP, pushedPC, lines>>

DispatchStepBack ==
    /\ DispatchProceeds(0)
    /\ PC' = Minus(PC, 1)
    /\ UNCHANGED <<SP, pushedPC, lines>>

DispatchDecSP ==
    /\ DispatchProceeds(1)
    /\ SP' = Minus(SP, 1)
    /\ UNCHANGED <<PC, pushedPC, lines>>

DispatchPushPCH ==
    /\ DispatchProceeds(2)
    /\ BusWrite
    /\ pushedPC' = PC
    /\ SP' = Minus(SP, 1)
    /\ UNCHANGED PC

DispatchPushPCL ==
    /\ DispatchProceeds(3)
    /\ BusWrite
    /\ PC' = Vector[irq]
    /\ UNCHANGED <<SP, pushedPC>>

CommandDone == isHandling' = FALSE /\ halted' = FALSE

DispatchFetch ==
    /\ Dispatching(4)
    /\ M1(PC)
    /\ CommandDone
    /\ IFflags' = IFflags \ {irq} /\ IEflags' = IEflags
    /\ IME' = FALSE /\ enablingIME' = EnablingNow
    /\ baseSP' = SP /\ pushedPC' = 0 /\ last' = "dispatch"
    /\ UNCHANGED <<SP, cCheck>>

(***************************************************************************)
(* A peripheral raises its line between two M-cycles of the CPU.           *)
(***************************************************************************)
Raise ==
    /\ \E i \in Irq : IFflags' = IFflags \cup {i}
    /\ UNCHANGED <<PC, SP, IR, instructionCycle, isCbInstruction, cCheck, IME,
                   enablingIME, halted, isHandling, irq, IEflags, history>>

Dispatch ==
    \/ DispatchStepBack \/ DispatchDecSP \/ DispatchPushPCH
    \/ DispatchPushPCL \/ DispatchFetch

Instruction ==
    \/ Operand \/ Test \/ Internal \/ Write \/ SetSP \/ DecSP \/ Push \/ PushPCL
    \/ Pop \/ Jump \/ Fetch \/ FetchTarget \/ EnableInterrupts
    \/ DisableInterrupts \/ Halt \/ Prefix

\* Core::tick
CoreTick == Dispatch \/ Instruction \/ StayHalted

Next == CoreTick \/ Raise

Spec == Init /\ [][Next]_vars

-----------------------------------------------------------------------------
(* Type invariant of the sequencer: the cycle is one the instruction in IR *)
(* (or a dispatch) has, and after the CB prefix IR is one of the CB table. *)
TypeOK ==
    /\ PC \in Addr /\ SP \in Addr /\ start \in Addr
    /\ baseSP \in Addr /\ pushedPC \in Addr
    /\ IR \in Kinds \cup CbKinds
    /\ instructionCycle \in 0..5
    /\ isCbInstruction \in BOOLEAN /\ cCheck \in BOOLEAN /\ repeated \in BOOLEAN
    /\ IME \in BOOLEAN /\ enablingIME \in BOOLEAN
    /\ halted \in BOOLEAN /\ isHandling \in BOOLEAN
    /\ irq \in 0..IrqCount
    /\ IEflags \subseteq Irq /\ IFflags \subseteq Irq
    /\ last \in {"other", "EI", "DI", "dispatch"}
    /\ ~isHandling => instructionCycle < Len(Microcode[IR])
    /\ isCbInstruction => IR \in CbKinds

(* A dispatch under way is one the program allowed: IME is still on, the   *)
(* CPU is out of HALT, and none of the five cycles is skipped.  HALT and a *)
(* pending EI are only ever seen between instructions.                     *)
DispatchCoherent ==
    /\ isHandling => IME /\ ~halted /\ instructionCycle \in 1..4
    /\ halted => Boundary /\ ~isHandling /\ ~isCbInstruction
    /\ enablingIME => Boundary

(* No dispatch starts within an instruction, straight after DI, straight   *)
(* after the EI that turns interrupts on (so that EI; DI and EI; RET let   *)
(* none in), or before the first instruction of a handler has run.         *)
DispatchWindow ==
    [][~isHandling /\ isHandling' => Boundary /\ last = "other"]_vars

(* The request a dispatch clears is the one whose handler it enters, and   *)
(* no other, whatever was raised or written while it ran.                  *)
ServesWhatItClears ==
    [][isHandling /\ ~isHandling' =>
           /\ IFflags \ IFflags' \subseteq {irq}
           /\ irq \notin IFflags'
           /\ start' = Vector[irq]]_vars

(* Both halves of the address a dispatch pushes are of the first byte of   *)
(* the instruction it put off, so that the handler's RETI runs it.         *)
PushesResumption ==
    isHandling /\ instructionCycle = 3 /\ instructionCycle' = 4 =>
        pushedPC = PC /\ PC = start

ResumesAtInstruction == [][PushesResumption]_vars

(* That fails once the CB prefix was executed (run prefix); it holds for   *)
(* every instruction that has none.                                        *)
ResumesUnlessPrefixed == [][~isCbInstruction => PushesResumption]_vars

\* Operand bytes of a kind.
Operands(k) == Cardinality({n \in DOMAIN Microcode[k] :
                               Microcode[k][n] \in {"operand", "operandTest"}})

\* Bytes the instruction in IR takes; the HALT bug reads one of them twice.
InstructionLength == IF repeated THEN Operands(IR) ELSE Operands(IR) + 1

(* Both halves of the address CALL and RST push are of the byte after      *)
(* their operands; after the HALT bug, which reads the opcode twice, that  *)
(* is one byte earlier.                                                    *)
CallPushesReturn ==
    [][PushPCL /\ IR \in {"Call", "CallIf", "Restart"} =>
           pushedPC = PC /\ PC = Plus(start, InstructionLength)]_vars

StackEffect(k) ==
    CASE k \in {"Push", "Call", "Restart"} -> AddrCount - 2
      [] k = "CallIf"   -> IF cCheck THEN AddrCount - 2 ELSE 0
      [] k \in {"Pop", "Return", "ReturnI"} -> 2
      [] k = "ReturnIf" -> IF cCheck THEN 2 ELSE 0
      [] OTHER -> 0

(* From its first cycle to its last an instruction moves SP by what it     *)
(* pushes or pops, on the taken and the untaken path, and a dispatch moves *)
(* it by the two bytes it pushes.                                          *)
StackBalanced ==
    [][/\ Fetch /\ IR \notin {"LoadSP", "CopySP", "AddSP"} =>
              SP' = Plus(baseSP, StackEffect(IR))
       /\ DispatchFetch => SP' = Minus(baseSP, 2)]_vars

-----------------------------------------------------------------------------
(* Why no dispatch starts where it may not: at the boundary after an       *)
(* instruction that shuts the window IME is off, and a pending EI turns it *)
(* on only once that boundary has passed.  And where a dispatch goes.      *)
WindowShut == last # "other" => ~halted /\ (Boundary => ~IME)

DispatchTarget ==
    isHandling => irq \in Irq /\ (instructionCycle = 4 => PC = Vector[irq])

IInv == TypeOK /\ DispatchCoherent /\ WindowShut /\ DispatchTarget

(***************************************************************************)
(* Where PC and SP are in each cycle, and why a return address is right:   *)
(* an instruction has moved them by the operands and stack accesses of the *)
(* cycles it has run.                                                      *)
(***************************************************************************)
\* The bytes already moved at a cycle of an access of two bytes.
UpToTwo(n) == IF n <= 0 THEN 0 ELSE IF n >= 2 THEN 2 ELSE n

PushKinds == {"Push", "Call", "CallIf", "Restart"}
PopKinds  == {"Pop", "Return", "ReturnIf", "ReturnI"}

\* Cycles before the first stack access, and before the low half of PC is pushed.
BeforeStack(k) == IF k \in {"Call", "CallIf"} THEN 2 ELSE IF k = "ReturnIf" THEN 1 ELSE 0
BeforeLow(k)   == IF k = "Restart" THEN 2 ELSE 4

StackMoved(k, c) ==
    IF k \in PushKinds THEN 0 - UpToTwo(c - BeforeStack(k))
    ELSE IF k \in PopKinds THEN UpToTwo(c - BeforeStack(k)) ELSE 0

\* Bytes PC is past the first one of the instruction, after c cycles of it.
OperandsRead(k, c) == IF k = "Restart" THEN 0 ELSE UpToTwo(c)
Skipped == IF repeated THEN 0 ELSE 1

StackInStep ==
    ~isHandling =>
        /\ Boundary => SP = baseSP
        /\ IR # "CopySP" => SP = Plus(baseSP, StackMoved(IR, instructionCycle))

ReturnInStep ==
    ~isHandling =>
        /\ Boundary /\ ~isCbInstruction => PC = Plus(start, Skipped)
        /\ IR \in {"Call", "CallIf", "Restart"} /\ instructionCycle <= BeforeLow(IR) =>
               /\ PC = Plus(start, Skipped + OperandsRead(IR, instructionCycle))
               /\ instructionCycle = BeforeLow(IR) => pushedPC = PC

\* A conditional call or return that has touched the stack had its condition met.
TakenInStep ==
    ~isHandling /\ IR \in {"CallIf", "ReturnIf"} /\ instructionCycle > BeforeStack(IR) => cCheck

\* What a dispatch has done so far.  No dispatch follows the HALT bug: IME is off.
DispatchInStep ==
    /\ isHandling =>
           /\ SP = Plus(baseSP, 0 - UpToTwo(instructionCycle - 1))
           /\ ~isCbInstruction /\ instructionCycle <= 3 => PC = start
           /\ instructionCycle = 3 => pushedPC = PC
    /\ repeated /\ Boundary => ~IME /\ ~enablingIME

InStep == StackInStep /\ ReturnInStep /\ TakenInStep /\ DispatchInStep
=============================================================================
