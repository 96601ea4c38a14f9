-------------------------------- MODULE Cpu --------------------------------
(***************************************************************************)
(* The CPU as it executes machine code (src/src/cpu/control_unit.cpp):     *)
(* every opcode, decoded and run M-cycle by M-cycle on the registers and a *)
(* flat memory.  No interrupt is requested here: their dispatch is the     *)
(* subject of ControlUnit, the abstract sequencer that this module is      *)
(* shown to implement.                                                     *)
(*                                                                         *)
(* An instruction is a sequence of cycles.  A cycle makes at most one bus  *)
(* access and has an effect on the registers:                              *)
(*   Rd(at, into, e)    Z or W takes the byte at an address                *)
(*   Wr(at, from, e)    a byte is written                                  *)
(*   Do(e)              no access                                          *)
(*   M1(at, e)          the last cycle: IR takes the byte at an address    *)
(*                      and PC points past it, before the effect           *)
(***************************************************************************)
EXTENDS Decoder

CONSTANTS
    Programs,   \* the memory programs start with, and the sets of registers
    Filler      \* the byte at every other address

\* RegisterFile::RegisterFile zeroes the registers, IR among them: the first
\* thing to run is a NOP, whatever a program is given in the others.
ASSUME CpuAssumption ==
    /\ \A p \in Programs :
           /\ DOMAIN p.memory \subseteq Word
           /\ \A a \in DOMAIN p.memory : p.memory[a] \in Byte
           /\ \A r \in p.inputs : r \in Registers /\ r.IR = 0
    /\ Filler \in Byte

Rd(at, into, e) == [io |-> "read", at |-> at, data |-> into, effect |-> e, test |-> FALSE, if |-> FALSE]
Wr(at, from, e) == [io |-> "write", at |-> at, data |-> from, effect |-> e, test |-> FALSE, if |-> FALSE]
Do(e)     == [io |-> "none", at |-> "", data |-> "", effect |-> e, test |-> FALSE, if |-> FALSE]
M1(at, e) == [io |-> "fetch", at |-> at, data |-> "IR", effect |-> e, test |-> FALSE, if |-> FALSE]
Fetch == M1("PC", "")

\* The cycle also tests the condition; the cycle is replaced by the fetch if
\* the condition was not met.
Test(cycle) == [cycle EXCEPT !.test = TRUE]
If(cycle)   == [cycle EXCEPT !.if = TRUE]

-----------------------------------------------------------------------------
(***************************************************************************)
(* The cycles of each instruction.                                         *)
(***************************************************************************)
LowOperand  == Rd("PC", "Z", "PC+")
HighOperand == Rd("PC", "W", "PC+")

LoadRegisterCycles(op, form) ==
    CASE op = "LoadFromRegister" -> <<Wr("HL", "r8", ""), Fetch>>
      [] op = "LoadFromImmediateData" -> <<LowOperand, Wr("HL", "Z", ""), Fetch>>
      [] op = "LoadRegister" /\ form = "Register"   -> <<M1("PC", "r8=r8")>>
      [] op = "LoadRegister" /\ form = "Immediate"  -> <<LowOperand, M1("PC", "r8=Z")>>
      [] op = "LoadRegister" /\ form = "IndirectHL" -> <<Rd("HL", "Z", ""), M1("PC", "r8=Z")>>

LoadAccumulatorCycles(form) ==
    CASE form = "IndirectBC" -> <<Rd("BC", "Z", ""), M1("PC", "A=Z")>>
      [] form = "IndirectDE" -> <<Rd("DE", "Z", ""), M1("PC", "A=Z")>>
      [] form = "Direct" -> <<LowOperand, HighOperand, Rd("WZ", "Z", ""), M1("PC", "A=Z")>>
      [] form = "Indirect0xFF00_C" -> <<Rd("FF00+C", "Z", ""), M1("PC", "A=Z")>>
      [] form = "Indirect0xFF00_n" -> <<LowOperand, Rd("FF00+Z", "Z", ""), M1("PC", "A=Z")>>
      [] form = "IndirectHL_dec" -> <<Rd("HL", "Z", "HL-"), M1("PC", "A=Z")>>
      [] form = "IndirectHL_inc" -> <<Rd("HL", "Z", "HL+"), M1("PC", "A=Z")>>

LoadFromAccumulatorCycles(form) ==
    CASE form = "IndirectBC" -> <<Wr("BC", "A", ""), Fetch>>
      [] form = "IndirectDE" -> <<Wr("DE", "A", ""), Fetch>>
      [] form = "Direct" -> <<LowOperand, HighOperand, Wr("WZ", "A", ""), Fetch>>
      [] form = "Indirect0xFF00_C" -> <<Wr("FF00+C", "A", ""), Fetch>>
      [] form = "Indirect0xFF00_n" -> <<LowOperand, Wr("FF00+Z", "A", ""), Fetch>>
      [] form = "IndirectHL_dec" -> <<Wr("HL", "A", "HL-"), Fetch>>
      [] form = "IndirectHL_inc" -> <<Wr("HL", "A", "HL+"), Fetch>>

\* Mutant: the high byte is overwritten by the low one.
PushFlat == <<Do("SP-"), Wr("SP", "R16Mstk", ""), Wr("SP", "R16Lstk", ""), Fetch>>

Push == <<Do("SP-"), Wr("SP", "R16Mstk", "SP-"), Wr("SP", "R16Lstk", ""), Fetch>>

StackCycles(op) ==
    CASE op = "Load16bitRegisterOrRegisterPair" -> <<LowOperand, HighOperand, M1("PC", "r16=WZ")>>
      [] op = "LoadFromStackPointer" ->
             <<LowOperand, HighOperand, Wr("WZ", "SPL", "WZ+"), Wr("WZ", "SPH", ""), Fetch>>
      [] op = "LoadStackPointerFromHL" -> <<Do("SP=HL"), Fetch>>
      [] op = "PushToStack" -> Push
      [] op = "PopFromStack" -> <<Rd("SP", "Z", "SP+"), Rd("SP", "W", "SP+"), M1("PC", "r16stk=WZ")>>
      [] op = "LoadHLFromAdjustedStackPointer" -> <<LowOperand, Do("L=SP+Z"), M1("PC", "H=SP+Z")>>

\* The accumulator and an operand.
AccumulateCycles(form) ==
    CASE form = "Register"   -> <<M1("PC", "accumulate")>>
      [] form = "IndirectHL" -> <<Rd("HL", "Z", ""), M1("PC", "accumulate")>>
      [] form = "Immediate"  -> <<LowOperand, M1("PC", "accumulate")>>

\* A register, or memory at HL, and the flags.
ModifyCycles(op, form) ==
    CASE form \in {"Register", "Accumulator"} -> <<M1("PC", "modify")>>
      [] form = "IndirectHL" /\ op = "TestBit" -> <<Rd("HL", "Z", ""), M1("PC", "flags")>>
      [] OTHER -> <<Rd("HL", "Z", ""), Wr("HL", "modified", "flags"), Fetch>>

WideCycles(op) ==
    CASE op = "Increment16bitRegister" -> <<Do("r16+"), Fetch>>
      [] op = "Decrement16bitRegister" -> <<Do("r16-"), Fetch>>
      [] op = "Add" -> <<Do("L+r16"), M1("PC", "H+r16")>>
      [] op = "AddToStackPointer" -> <<LowOperand, Do(""), Do(""), M1("PC", "SP+Z")>>

JumpCycles(op, form) ==
    CASE op = "JumpToHL" -> <<M1("HL", "")>>
      [] op = "Jump" /\ form = "" -> <<LowOperand, HighOperand, Do("PC=WZ"), Fetch>>
      [] op = "Jump" /\ form = "Conditional" -> <<LowOperand, Test(HighOperand), If(Do("PC=WZ")), Fetch>>
      [] op = "RelativeJump" /\ form = "" -> <<LowOperand, Do("WZ=PC+Z"), M1("WZ", "")>>
      [] op = "RelativeJump" /\ form = "Conditional" ->
             <<Test(LowOperand), If(Do("WZ=PC+Z")), M1("WZ", "")>>

\* The bytes of PC, to the stack and from it.
PushHigh == Wr("SP", "PCH", "SP-")
PushLow(target) == Wr("SP", "PCL", target)
PopLow  == Rd("SP", "Z", "SP+")
PopHigh == Rd("SP", "W", "SP+")

CallCycles(op, form) ==
    CASE op = "Restart" -> <<Do("SP-"), PushHigh, PushLow("PC=vector"), Fetch>>
      [] op = "CallFunction" /\ form = "" ->
             <<LowOperand, HighOperand, Do("SP-"), PushHigh, PushLow("PC=WZ"), Fetch>>
      [] op = "CallFunction" /\ form = "Conditional" ->
             <<LowOperand, Test(HighOperand), If(Do("SP-")), PushHigh, PushLow("PC=WZ"), Fetch>>

ReturnCycles(form) ==
    IF form = "Conditional" THEN <<Test(Do("")), If(PopLow), PopHigh, Do("PC=WZ"), Fetch>>
                            ELSE <<PopLow, PopHigh, Do("PC=WZ"), Fetch>>

Modifying == {"Increment", "Decrement", "TestBit", "ResetBit", "SetBit"}
    \cup {Rotating[i] : i \in DOMAIN Rotating}

Cycles(op, form) ==
    CASE op \in {"LoadRegister", "LoadFromRegister", "LoadFromImmediateData"} ->
             LoadRegisterCycles(op, form)
      [] op = "LoadAccumulator" -> LoadAccumulatorCycles(form)
      [] op = "LoadFromAccumulator" -> LoadFromAccumulatorCycles(form)
      [] op \in {"Load16bitRegisterOrRegisterPair", "LoadFromStackPointer", "LoadStackPointerFromHL",
                 "PushToStack", "PopFromStack", "LoadHLFromAdjustedStackPointer"} -> StackCycles(op)
      [] op \in {Accumulating[i] : i \in DOMAIN Accumulating} /\ form # "16bitRegister" ->
             AccumulateCycles(form)
      [] op \in Modifying -> ModifyCycles(op, form)
      [] \/ op \in {"Increment16bitRegister", "Decrement16bitRegister", "AddToStackPointer"}
         \/ op = "Add" /\ form = "16bitRegister" -> WideCycles(op)
      [] op \in {"Jump", "JumpToHL", "RelativeJump"} -> JumpCycles(op, form)
      [] op \in {"CallFunction", "Restart"} -> CallCycles(op, form)
      [] op \in {"ReturnFromFunction", "ReturnFromInterruptHandler"} -> ReturnCycles(form)
      [] op = "ComplementCarryFlag" -> <<M1("PC", "CCF")>>
      [] op = "SetCarryFlag" -> <<M1("PC", "SCF")>>
      [] op = "DecimalAdjustAccumulator" -> <<M1("PC", "DAA")>>
      [] op = "ComplementAccumulator" -> <<M1("PC", "CPL")>>
      [] OTHER -> <<Fetch>>

StdCycles == [opcode \in Byte |-> Cycles(StdTable[opcode][1], StdTable[opcode][2])]
CbCycles  == [opcode \in Byte |-> Cycles(CbTable[opcode][1], CbTable[opcode][2])]

-----------------------------------------------------------------------------
(***************************************************************************)
(* What the cycles do to the registers r (Z and W among them).             *)
(***************************************************************************)
\* Fields of an opcode: a register, another or a bit, a pair, a condition.
X(opcode) == opcode % 8
Y(opcode) == (opcode \div 8) % 8
Pair(opcode) == (opcode \div 16) % 4
ConditionCode(opcode) == (opcode \div 8) % 4

WZ(r) == Join(r.W, r.Z)
SetWZ(r, w) == [r EXCEPT !.W = High(w), !.Z = Low(w)]

AddTo(r, v, carryIn) ==
    LET sum == Add(r.A, v, carryIn) IN
    [r EXCEPT !.A = sum.value, !.F = SetFlags(@, sum.value = 0, FALSE, sum.half, sum.full)]

SubFrom(r, v, carryIn) ==
    LET diff == Sub(r.A, v, carryIn) IN
    [r EXCEPT !.A = diff.value, !.F = SetFlags(@, diff.value = 0, TRUE, diff.half, diff.full)]

CompareWith(r, v) == [r EXCEPT !.F = SubFrom(r, v, 0).F]

Logical(op, r, v) ==
    LET value == CASE op = "And" -> And(r.A, v) [] op = "Or" -> Or(r.A, v) [] op = "Xor" -> Xor(r.A, v)
    IN [r EXCEPT !.A = value, !.F = SetFlags(@, value = 0, FALSE, op = "And", FALSE)]

Accumulate(op, r, v) ==
    CASE op = "Add" -> AddTo(r, v, 0)
      [] op = "AddWithCarry" -> AddTo(r, v, Carry(r.F))
      [] op = "Sub" -> SubFrom(r, v, 0)
      [] op = "SubWithCarry" -> SubFrom(r, v, Carry(r.F))
      [] op = "Compare" -> CompareWith(r, v)
      [] OTHER -> Logical(op, r, v)

\* Mutant: the carry takes part.
CountedWithCarry(op, v, F) ==
    LET counted == IF op = "Increment" THEN Add(v, 1, 0) ELSE Sub(v, 1, 0) IN
    [value |-> counted.value,
     F |-> SetFlags(F, counted.value = 0, op = "Decrement", counted.half, counted.full)]

\* INC and DEC leave the carry as it is.
Counted(op, v, F) ==
    LET counted == IF op = "Increment" THEN Add(v, 1, 0) ELSE Sub(v, 1, 0) IN
    [value |-> counted.value,
     F |-> SetFlags(F, counted.value = 0, op = "Decrement", counted.half, CF \in F)]

Rotated(op, v, F) ==
    LET turned == CASE op = "RotateLeftCircular"  -> RotateLeftCircular(v)
                    [] op = "RotateRightCircular" -> RotateRightCircular(v)
                    [] op = "RotateLeft"  -> RotateLeft(v, Carry(F))
                    [] op = "RotateRight" -> RotateRight(v, Carry(F))
                    [] op = "ShiftLeftArithmetic"  -> ShiftLeftA(v)
                    [] op = "ShiftRightArithmetic" -> ShiftRightA(v)
                    [] op = "ShiftRightLogical"    -> ShiftRightL(v)
                    [] op = "SwapNibbles" -> SwapNibbles(v)
    IN [value |-> turned.value, F |-> SetFlags(F, turned.value = 0, FALSE, FALSE, turned.carry)]

TestedBit(v, b, F) ==
    [value |-> v, F |-> SetFlags(F, b \notin Bits(v), FALSE, TRUE, CF \in F)]

\* What an instruction of Modifying makes of a byte and the flags.
Modified(op, form, opcode, v, F) ==
    CASE op \in {"Increment", "Decrement"} -> Counted(op, v, F)
      [] op = "TestBit"  -> TestedBit(v, Y(opcode), F)
      [] op = "ResetBit" -> [value |-> ResetBit(v, Y(opcode)), F |-> F]
      [] op = "SetBit"   -> [value |-> SetBit(v, Y(opcode)), F |-> F]
      [] form = "Accumulator" -> [Rotated(op, v, F) EXCEPT !.F = @ \ {ZF}]
      [] OTHER -> Rotated(op, v, F)

\* The code of the register it is applied to.
ModifiedCode(op, opcode) == IF op \in {"Increment", "Decrement"} THEN Y(opcode) ELSE X(opcode)

ModifyRegister(op, form, opcode, r) ==
    LET code == ModifiedCode(op, opcode)
        modified == Modified(op, form, opcode, R8(r, code), r.F)
    IN SetR8([r EXCEPT !.F = modified.F], code, modified.value)

PointerEffect(e, r, opcode) ==
    CASE e = "PC+" -> [r EXCEPT !.PC = Increment(@)]
      [] e = "HL+" -> SetHL(r, Increment(HL(r)))
      [] e = "HL-" -> SetHL(r, Decrement(HL(r)))
      [] e = "SP+" -> [r EXCEPT !.SP = Increment(@)]
      [] e = "SP-" -> [r EXCEPT !.SP = Decrement(@)]
      [] e = "WZ+" -> SetWZ(r, Increment(WZ(r)))
      [] e = "PC=WZ" -> [r EXCEPT !.PC = WZ(r)]
      [] e = "PC=vector" -> [r EXCEPT !.PC = 8 * Y(opcode)]
      [] e = "WZ=PC+Z" -> SetWZ(r, (r.PC + Signed(r.Z)) % 65536)
      [] e = "r16+" -> SetR16(r, Pair(opcode), Increment(R16(r, Pair(opcode))))
      [] e = "r16-" -> SetR16(r, Pair(opcode), Decrement(R16(r, Pair(opcode))))

LoadEffect(e, r, opcode) ==
    CASE e = "r8=r8" -> SetR8(r, Y(opcode), R8(r, X(opcode)))
      [] e = "r8=Z"  -> SetR8(r, Y(opcode), r.Z)
      [] e = "A=Z"   -> [r EXCEPT !.A = r.Z]
      [] e = "SP=HL" -> [r EXCEPT !.SP = HL(r)]
      [] e = "r16=WZ"    -> SetR16(r, Pair(opcode), WZ(r))
      [] e = "r16stk=WZ" -> SetR16stk(r, Pair(opcode), WZ(r))

ArithmeticEffect(e, r, opcode, op, form) ==
    CASE e = "accumulate" ->
             Accumulate(op, r, IF form = "Register" THEN R8(r, X(opcode)) ELSE r.Z)
      [] e = "modify" -> ModifyRegister(op, form, opcode, r)
      [] e = "flags"  -> [r EXCEPT !.F = Modified(op, form, opcode, r.Z, @).F]
      [] e = "CCF" -> [r EXCEPT !.F = SetFlags(@, ZF \in @, FALSE, FALSE, CF \notin @)]
      [] e = "SCF" -> [r EXCEPT !.F = SetFlags(@, ZF \in @, FALSE, FALSE, TRUE)]
      [] e = "CPL" -> [r EXCEPT !.A = Not(@), !.F = @ \cup {NF, HF}]
      [] e = "DAA" -> [r EXCEPT !.A = DecimalAdjust(r.A, r.F).value, !.F = DecimalAdjust(r.A, r.F).F]
      [] e = "L=SP+Z" -> AdjustLow(r)
      [] e = "H=SP+Z" -> AdjustHigh(r)
      [] e = "SP+Z"   -> AddToSP(r)
      [] e = "L+r16"  -> AddLow(r, R16(r, Pair(opcode)))
      [] e = "H+r16"  -> AddHigh(r, R16(r, Pair(opcode)))

Loads == {"r8=r8", "r8=Z", "A=Z", "SP=HL", "r16=WZ", "r16stk=WZ"}
Arithmetic == {"accumulate", "modify", "flags", "CCF", "SCF", "CPL", "DAA",
               "L=SP+Z", "H=SP+Z", "SP+Z", "L+r16", "H+r16"}

Effect(e, r, opcode, op, form) ==
    IF e = "" THEN r ELSE
    IF e \in Loads THEN LoadEffect(e, r, opcode) ELSE
    IF e \in Arithmetic THEN ArithmeticEffect(e, r, opcode, op, form) ELSE
    PointerEffect(e, r, opcode)

-----------------------------------------------------------------------------
VARIABLES
    regs,               \* the register file, with W and Z
    memory,             \* the bytes that differ from Filler
    instructionCycle,
    isCbInstruction,
    cCheck,
    IME, enablingIME, halted

\* History.
VARIABLES
    origin,     \* the program, and the registers and the memory it began with
    before,     \* the registers when the instruction in IR began
    pushedPC,   \* the PC whose high byte was pushed last
    last        \* what ran before: "EI" (that turned IME on), "DI" or "other"

interrupts == <<IME, enablingIME>>
vars == <<regs, memory, instructionCycle, isCbInstruction, cCheck, interrupts, halted,
          origin, before, pushedPC, last>>

Init ==
    /\ \E p \in Programs : \E r \in p.inputs :
           origin = [program |-> p.program, regs |-> r, memory |-> p.memory]
    /\ regs = origin.regs
    /\ memory = origin.memory
    /\ instructionCycle = 0 /\ isCbInstruction = FALSE /\ cCheck = FALSE
    /\ IME = FALSE /\ enablingIME = FALSE /\ halted = FALSE
    /\ before = regs /\ pushedPC = 0 /\ last = "other"

Contents(a) == IF a \in DOMAIN memory THEN memory[a] ELSE Filler

At(place) ==
    CASE place = "PC" -> regs.PC
      [] place = "HL" -> HL(regs)
      [] place = "BC" -> BC(regs)
      [] place = "DE" -> DE(regs)
      [] place = "SP" -> regs.SP
      [] place = "WZ" -> WZ(regs)
      [] place = "FF00+C" -> 65280 + regs.C
      [] place = "FF00+Z" -> 65280 + regs.Z

Instruction == IF isCbInstruction THEN CbTable[regs.IR] ELSE StdTable[regs.IR]
Op   == Instruction[1]
Form == Instruction[2]
Cycle == (IF isCbInstruction THEN CbCycles ELSE StdCycles)[regs.IR][instructionCycle + 1]

Written(data) ==
    CASE data = "A"  -> regs.A
      [] data = "Z"  -> regs.Z
      [] data = "r8" -> R8(regs, X(regs.IR))
      [] data = "SPL" -> Low(regs.SP)
      [] data = "SPH" -> High(regs.SP)
      [] data = "PCL" -> Low(regs.PC)
      [] data = "PCH" -> High(regs.PC)
      [] data = "R16Lstk" -> Low(R16stk(regs, Pair(regs.IR)))
      [] data = "R16Mstk" -> High(R16stk(regs, Pair(regs.IR)))
      [] data = "modified" -> Modified(Op, Form, regs.IR, regs.Z, regs.F).value

After(r) == Effect(Cycle.effect, r, regs.IR, Op, Form)

\* The codes the instruction in IR hands to getR8 and setR8, which throw at 6.
Codes ==
    IF Form = "IndirectHL" /\ Op = "LoadFromRegister" THEN {X(regs.IR)} ELSE
    IF Op = "LoadRegister" THEN {Y(regs.IR)} \cup IF Form = "Register" THEN {X(regs.IR)} ELSE {}
    ELSE IF Form # "Register" THEN {}
    ELSE IF Op \in Modifying THEN {ModifiedCode(Op, regs.IR)} ELSE {X(regs.IR)}

Throws == 6 \in Codes

-----------------------------------------------------------------------------
(***************************************************************************)
(* executeInstruction, when no interrupt is requested.                     *)
(***************************************************************************)
IMENow      == IME \/ (instructionCycle = 0 /\ enablingIME)
EnablingNow == enablingIME /\ instructionCycle # 0

Runs(io) ==
    /\ ~halted /\ ~Throws
    /\ Cycle.io = io
    /\ Cycle.if => cCheck

Proceed ==
    /\ instructionCycle' = instructionCycle + 1
    /\ cCheck' = IF Cycle.test THEN Condition(regs.F, ConditionCode(regs.IR)) ELSE cCheck
    /\ IME' = (IMENow \/ (Op = "ReturnFromInterruptHandler" /\ Cycle.effect = "PC=WZ"))
    /\ enablingIME' = EnablingNow
    /\ UNCHANGED <<isCbInstruction, halted, origin, before, last>>

ReadCycle ==
    /\ Runs("read")
    /\ regs' = After([regs EXCEPT ![Cycle.data] = Contents(At(Cycle.at))])
    /\ Proceed
    /\ UNCHANGED <<memory, pushedPC>>

WriteCycle ==
    /\ Runs("write")
    /\ memory' = [a \in DOMAIN memory \cup {At(Cycle.at)} |->
                     IF a = At(Cycle.at) THEN Written(Cycle.data) ELSE memory[a]]
    /\ regs' = After(regs)
    /\ pushedPC' = IF Cycle.data = "PCH" THEN regs.PC ELSE pushedPC
    /\ Proceed

InternalCycle ==
    /\ Runs("none")
    /\ regs' = After(regs)
    /\ Proceed
    /\ UNCHANGED <<memory, pushedPC>>

\* IR takes the byte at an address, PC points past it, and the instruction
\* that was in IR has its last effect.
FetchFrom(a, e) ==
    /\ regs' = Effect(e, [regs EXCEPT !.IR = Contents(a), !.PC = Increment(a)], regs.IR, Op, Form)
    /\ instructionCycle' = 0
    /\ isCbInstruction' = (Op = "CB")
    /\ before' = IF Op = "CB" THEN before ELSE regs'
    /\ pushedPC' = 0
    /\ UNCHANGED <<memory, cCheck, origin>>

FetchCycle ==
    /\ Runs("fetch")
    /\ FetchFrom(At(Cycle.at), Cycle.effect)
    /\ halted' = (Op = "HaltSystemClock")
    /\ IME' = (IMENow /\ Op # "DisableInterrupts")
    /\ enablingIME' = (Op = "EnableInterrupts" \/ (EnablingNow /\ Op # "DisableInterrupts"))
    /\ last' = IF Op = "EnableInterrupts" /\ ~IMENow THEN "EI"
               ELSE IF Op = "DisableInterrupts" THEN "DI" ELSE "other"

\* The condition was not met: the fetch comes early.
NotTaken ==
    /\ ~halted /\ ~Throws
    /\ Cycle.if /\ ~cCheck
    /\ FetchFrom(regs.PC, "")
    /\ IME' = IMENow /\ enablingIME' = EnablingNow
    /\ last' = "other"
    /\ UNCHANGED halted

\* Nothing will wake it.
StayHalted ==
    /\ halted
    /\ IME' = IMENow /\ enablingIME' = EnablingNow
    /\ UNCHANGED <<regs, memory, instructionCycle, isCbInstruction, cCheck, halted,
                   origin, before, pushedPC, last>>

Next == ReadCycle \/ WriteCycle \/ InternalCycle \/ FetchCycle \/ NotTaken \/ StayHalted

Spec == Init /\ [][Next]_vars

-----------------------------------------------------------------------------
(***************************************************************************)
(* The kind of instruction ControlUnit takes each one for.                 *)
(***************************************************************************)
OperandKind == [Register |-> "OneCycle", Accumulator |-> "OneCycle",
                IndirectHL |-> "Read", Immediate |-> "Immediate"]

AccumulatorKind(form, direct, immediate, indirect) ==
    CASE form = "Direct" -> direct [] form = "Indirect0xFF00_n" -> immediate [] OTHER -> indirect

ConditionalKind(form, always, if) == IF form = "Conditional" THEN if ELSE always

\* A pair, unless it is SP.
PairKind(opcode, pair, sp) == IF Pair(opcode) = 3 THEN sp ELSE pair

KindOf(op, form, opcode) ==
    CASE op \in {"LoadRegister"} \cup {Accumulating[i] : i \in DOMAIN Accumulating}
             /\ form # "16bitRegister" -> OperandKind[form]
      [] op \in Modifying -> IF form = "IndirectHL" /\ op # "TestBit"
                             THEN "ReadModifyWrite" ELSE OperandKind[form]
      [] op = "LoadFromRegister" -> "Write"
      [] op = "LoadFromImmediateData" -> "ImmediateWrite"
      [] op = "LoadAccumulator" -> AccumulatorKind(form, "DirectRead", "ImmediateRead", "Read")
      [] op = "LoadFromAccumulator" ->
             AccumulatorKind(form, "DirectWrite", "ImmediateWrite", "Write")
      [] op = "Load16bitRegisterOrRegisterPair" -> PairKind(opcode, "Immediate16", "LoadSP")
      [] op \in {"Increment16bitRegister", "Decrement16bitRegister"} ->
             PairKind(opcode, "Internal", "CopySP")
      [] op = "Add" /\ form = "16bitRegister" -> "Internal"
      [] op = "AddToStackPointer" -> "AddSP"
      [] op = "LoadFromStackPointer" -> "StoreSP"
      [] op = "LoadStackPointerFromHL" -> "CopySP"
      [] op = "LoadHLFromAdjustedStackPointer" -> "OffsetSP"
      [] op = "PushToStack" -> "Push"
      [] op = "PopFromStack" -> "Pop"
      [] op = "Jump" -> ConditionalKind(form, "Jump", "JumpIf")
      [] op = "JumpToHL" -> "JumpHL"
      [] op = "RelativeJump" -> ConditionalKind(form, "RelativeJump", "RelativeJumpIf")
      [] op = "CallFunction" -> ConditionalKind(form, "Call", "CallIf")
      [] op = "Restart" -> "Restart"
      [] op = "ReturnFromFunction" -> ConditionalKind(form, "Return", "ReturnIf")
      [] op = "ReturnFromInterruptHandler" -> "ReturnI"
      [] op = "HaltSystemClock" -> "Halt"
      [] op = "EnableInterrupts" -> "EI"
      [] op = "DisableInterrupts" -> "DI"
      [] op = "CB" -> "CB"
      [] OTHER -> "OneCycle"

StdKind == [opcode \in Byte |-> KindOf(StdTable[opcode][1], StdTable[opcode][2], opcode)]
CbKind  == [opcode \in Byte |-> KindOf(CbTable[opcode][1], CbTable[opcode][2], opcode)]

\* The sequencer of module ControlUnit: the same cycles, with the registers,
\* the flags and memory abstracted away, and no requests.
Sequencer == INSTANCE ControlUnit WITH
    AddrCount <- 65536, IrqCount <- 5, Vector <- [i \in 0..4 |-> 64 + 8 * i],
    Kinds <- {StdKind[opcode] : opcode \in Byte},
    PC <- regs.PC, SP <- regs.SP,
    IR <- IF isCbInstruction THEN CbKind[regs.IR] ELSE StdKind[regs.IR],
    isHandling <- FALSE, irq <- 0, IEflags <- {}, IFflags <- {},
    start <- Decrement(before.PC), repeated <- FALSE, baseSP <- before.SP

(* Every instruction, as decoded and executed here, takes the cycles the   *)
(* abstract sequencer gives its kind: the accesses to the stack and to its *)
(* operands in the same cycles, PC and SP stepped in the same cycles, IME  *)
(* settled alike.  So what is proved of the sequencer and of dispatches    *)
(* between its instructions is about these instructions.                   *)
ImplementsSequencer == Sequencer!Spec

(* Type invariant.  No operation leaves the range of its register or of a *)
(* byte of memory, F has only its upper bits, and no instruction runs past *)
(* its last cycle.                                                         *)
TypeOK ==
    /\ regs \in Registers /\ before \in Registers
    /\ DOMAIN memory \subseteq Word
    /\ \A a \in DOMAIN memory : memory[a] \in Byte
    /\ instructionCycle \in Nat
    /\ instructionCycle < Len((IF isCbInstruction THEN CbCycles ELSE StdCycles)[regs.IR])
    /\ {isCbInstruction, cCheck, IME, enablingIME, halted} \subseteq BOOLEAN
    /\ pushedPC \in Word
    /\ last \in {"other", "EI", "DI"}

(* No opcode, of the 512, makes its handler ask the register file for the  *)
(* code that stands for memory at HL, at which it throws.                  *)
NeverThrows == ~Throws
=============================================================================
