---------------------------- MODULE CpuPrograms ----------------------------
(***************************************************************************)
(* Machine code for module Cpu to run: a few of the routines Game Boy      *)
(* programs are made of, and what they compute when the CPU is right.  A   *)
(* routine is right only if every instruction of it leaves alone what the  *)
(* next ones rely on, the flags above all.  Every program ends in HALT.    *)
(***************************************************************************)
EXTENDS Cpu, TLC

CONSTANTS
    Digits,     \* packed decimal bytes: two digits each
    Bytes,      \* bytes
    Pointers    \* words, for SP

Entry == 256
Stack == 57344
Data  == 49152      \* where HL points
Source == 49160     \* where DE points

\* The values each register may have when a program starts.
Zeroes == [A |-> {0}, F |-> {{}}, B |-> {0}, C |-> {0}, D |-> {0}, E |-> {0}, H |-> {0}, L |-> {0},
           SP |-> {Stack}]

Inputs(v) == [A : v.A, F : v.F, B : v.B, C : v.C, D : v.D, E : v.E, H : v.H, L : v.L,
              SP : v.SP, PC : {Entry}, IR : {0}, Z : {0}, W : {0}]

Place(code, a) == [i \in a..(a + Len(code) - 1) |-> code[i - a + 1]]

Program(name, code, values) ==
    [program |-> name, memory |-> Place(code, Entry), inputs |-> Inputs(values)]

Flags == {{}, {CF}}

-----------------------------------------------------------------------------
(***************************************************************************)
(* Packed decimal: an addition or a subtraction and DAA; the sum of two    *)
(* numbers of three bytes.                                                 *)
(***************************************************************************)
Daa == \b00100111
HALT == \b01110110

DecimalCode == [ADD |-> <<\b10000000, Daa, HALT>>, ADC |-> <<\b10001000, Daa, HALT>>,
                SUB |-> <<\b10010000, Daa, HALT>>, SBC |-> <<\b10011000, Daa, HALT>>]

DecimalPrograms ==
    {Program(op, DecimalCode[op], [Zeroes EXCEPT !.A = Digits, !.B = Digits, !.F = Flags]) :
        op \in DOMAIN DecimalCode}

\* AND A; then LD A,(DE); ADC A,(HL); DAA; LD (HL+),A; INC DE; DEC B; JR NZ.
LongSumCode == <<167, 26, 142, Daa, 34, 19, 5, 32, 248, HALT>>

LongSumPrograms ==
    {[Program("sum", LongSumCode, [Zeroes EXCEPT !.B = {3}, !.H = {192}, !.D = {192}, !.E = {8}])
        EXCEPT !.memory = @ @@ Place(x, Data) @@ Place(y, Source)] :
        x \in [1..3 -> Digits \cap {0, 25, 80, 153}], y \in [1..3 -> Digits \cap {1, 89, 153}]}

Decimal(b) == 10 * (b \div 16) + (b % 16)

\* The number at an address, its low digits first.
Number(m, a) == Decimal(m[a]) + 100 * Decimal(m[a + 1]) + 10000 * Decimal(m[a + 2])

DecimalResult(op, a, b, c) ==
    CASE op = "ADD" -> Decimal(a) + Decimal(b)
      [] op = "ADC" -> Decimal(a) + Decimal(b) + c
      [] op = "SUB" -> Decimal(a) - Decimal(b)
      [] op = "SBC" -> Decimal(a) - Decimal(b) - c

(* DAA after an addition or subtraction of packed decimal numbers gives    *)
(* the decimal result, its carry and its zero flag, and a loop over three  *)
(* bytes adds them: nothing between one ADC and the next, not DAA and not  *)
(* the counting, disturbs the carry.                                       *)
DecimalArithmetic ==
    /\ halted /\ origin.program \in DOMAIN DecimalCode =>
        LET r == origin.regs
            exact == DecimalResult(origin.program, r.A, r.B, Carry(r.F))
        IN /\ Decimal(regs.A) = exact % 100 /\ (regs.A % 16) < 10
           /\ Carry(regs.F) = (IF exact \in 0..99 THEN 0 ELSE 1)
           /\ ZF \in regs.F <=> regs.A = 0
    /\ halted /\ origin.program = "sum" =>
        LET exact == Number(origin.memory, Data) + Number(origin.memory, Source)
        IN /\ Number(memory, Data) = exact % 1000000
           /\ Carry(regs.F) = exact \div 1000000

-----------------------------------------------------------------------------
(***************************************************************************)
(* Words: ADD HL in two halves, the same sum by bytes, a signed offset to  *)
(* SP by either instruction, and a product.                                *)
(***************************************************************************)
WideCode == [HLBC  |-> <<\b00001001, HALT>>,
             HLHL  |-> <<\b00101001, HALT>>,
             \* LD A,L; ADD A,C; LD L,A; LD A,H; ADC A,B; LD H,A
             bytes |-> <<125, 129, 111, 124, 136, 103, HALT>>,
             \* INC BC; DEC HL
             steps |-> <<3, 43, HALT>>]

Wide(v) == [v EXCEPT !.H = Bytes, !.L = Bytes, !.B = Bytes, !.C = Bytes]

WidePrograms ==
    {Program(name, WideCode[name], Wide(Zeroes)) : name \in DOMAIN WideCode}

\* LD HL,SP+e and ADD SP,e.
OffsetCode(offset) == [LDHL |-> <<\b11111000, offset, HALT>>, ADDSP |-> <<\b11101000, offset, HALT>>]

OffsetPrograms ==
    {Program(name, OffsetCode(offset)[name], [Zeroes EXCEPT !.SP = Pointers, !.F = {{ZF, NF}}]) :
        name \in {"LDHL", "ADDSP"}, offset \in Byte}

\* HL := A * E: LD B,8; then ADD HL,HL; ADD A,A; JR NC,+1; ADD HL,DE; DEC B; JR NZ.
ProductCode == <<6, 8, 41, 135, 48, 1, 25, 5, 32, 248, HALT>>

ProductPrograms ==
    {Program("product", ProductCode, [Zeroes EXCEPT !.A = Bytes, !.E = Bytes])}

(* ADD HL,rr, done in two halves a cycle apart, is the sum of the words,   *)
(* with their carry and the same as byte by byte; LD HL,SP+e and ADD SP,e, *)
(* computed in different ways, agree on the address and on the flags; and  *)
(* a routine of shifts and conditional additions multiplies.               *)
WideArithmetic ==
    LET r == origin.regs
        Sum(x, y) == HL(regs) = (x + y) % 65536 /\ Carry(regs.F) = (x + y) \div 65536
        offset == Signed(origin.memory[Entry + 1])
        OffsetFlags == {i \in {HF, CF} :
            LET n == IF i = HF THEN 16 ELSE 256 IN (r.SP % n) + (offset % n) >= n}
    IN halted =>
        CASE origin.program = "HLBC" -> Sum(HL(r), BC(r))
                 /\ (HF \in regs.F <=> (HL(r) % 4096) + (BC(r) % 4096) > 4095)
          [] origin.program = "HLHL" -> Sum(HL(r), HL(r))
          [] origin.program = "bytes" -> Sum(HL(r), BC(r))
          [] origin.program = "steps" -> BC(regs) = (BC(r) + 1) % 65536
                 /\ HL(regs) = (HL(r) - 1) % 65536 /\ regs.F = r.F
          [] origin.program = "LDHL" -> HL(regs) = (r.SP + offset) % 65536 /\ regs.F = OffsetFlags
          [] origin.program = "ADDSP" -> regs.SP = (r.SP + offset) % 65536 /\ regs.F = OffsetFlags
          [] origin.program = "product" -> HL(regs) = r.A * r.E
          [] OTHER -> TRUE

-----------------------------------------------------------------------------
(***************************************************************************)
(* Bits: shifts of words made of two instructions, and rotations all the   *)
(* way around.                                                             *)
(***************************************************************************)
Prefix == \b11001011
Repeated(n, code) == [i \in 1..(n * Len(code)) |-> code[((i - 1) % Len(code)) + 1]]

WordShiftCode == [logical    |-> <<Prefix, 60, Prefix, 29, HALT>>,      \* SRL H; RR L
                  arithmetic |-> <<Prefix, 44, Prefix, 29, HALT>>,      \* SRA H; RR L
                  double     |-> <<Prefix, 37, Prefix, 20, HALT>>]      \* SLA L; RL H

RingCode == [RL   |-> Repeated(9, <<Prefix, 23>>) \o <<HALT>>,
             RRA  |-> Repeated(9, <<31>>) \o <<HALT>>,
             RLC  |-> Repeated(8, <<Prefix, 7>>) \o <<HALT>>,
             RRCA |-> Repeated(8, <<15>>) \o <<HALT>>,
             SWAP |-> Repeated(2, <<Prefix, 55>>) \o <<HALT>>,
             CPL  |-> <<47, 47, HALT>>]

BitPrograms ==
    {Program(name, WordShiftCode[name], [Zeroes EXCEPT !.H = Byte, !.L = Bytes]) : name \in DOMAIN WordShiftCode}
    \cup {Program(name, RingCode[name], [Zeroes EXCEPT !.A = Byte, !.F = Flags]) :
              name \in DOMAIN RingCode}

(* A shift and a rotation through carry halve or double a word, signed or  *)
(* not; nine rotations through carry, eight without, two swaps or two      *)
(* complements restore a byte, and the first also the carry.               *)
BitsMove ==
    LET w == HL(origin.regs)
    IN halted =>
        CASE origin.program = "logical" -> HL(regs) = w \div 2 /\ Carry(regs.F) = w % 2
          [] origin.program = "arithmetic" ->
                 HL(regs) = (IF w > 32767 THEN (w - 65536) \div 2 ELSE w \div 2) % 65536
          [] origin.program = "double" -> HL(regs) = (2 * w) % 65536 /\ Carry(regs.F) = w \div 32768
          [] origin.program \in {"RL", "RRA"} ->
                 regs.A = origin.regs.A /\ Carry(regs.F) = Carry(origin.regs.F)
          [] origin.program \in DOMAIN RingCode -> regs.A = origin.regs.A
          [] OTHER -> TRUE

-----------------------------------------------------------------------------
(***************************************************************************)
(* Control: a comparison and conditional calls of routines that each leave *)
(* a mark and return conditionally; flags through the stack.               *)
(***************************************************************************)
\* CP B; CALL C,r0; CALL NC,r1; CALL Z,r2; CALL NZ,r3; HALT; and the routines
\* rn: SET n,D; RET on the same condition.
CompareCode ==
    <<184, 220, 16, 1, 212, 20, 1, 204, 24, 1, 196, 28, 1, HALT, HALT, HALT,
      Prefix, 194, 216, HALT, Prefix, 202, 208, HALT,
      Prefix, 210, 200, HALT, Prefix, 218, 192, HALT>>

\* PUSH BC; POP AF; PUSH AF; POP DE.
FlagsCode == <<197, 241, 245, 209, HALT>>

ControlPrograms ==
    {Program("compare", CompareCode, [Zeroes EXCEPT !.A = Bytes, !.B = Bytes]),
     Program("flags", FlagsCode, [Zeroes EXCEPT !.B = Bytes, !.C = Byte])}

(* Exactly the calls are made whose condition a comparison of two unsigned *)
(* bytes meets, and each returns; a word that went through AF comes back   *)
(* without the four bits F does not have.  Both leave the stack as it was. *)
BranchesCompare ==
    LET r == origin.regs
    IN halted /\ origin.program \in {"compare", "flags"} =>
        /\ regs.SP = r.SP
        /\ origin.program = "compare" =>
               Bits(regs.D) = {n \in 0..3 :
                   CASE n = 0 -> r.A < r.B [] n = 1 -> r.A >= r.B
                     [] n = 2 -> r.A = r.B [] n = 3 -> r.A # r.B}
        /\ origin.program = "flags" => DE(regs) = BC(r) - (BC(r) % 16)

-----------------------------------------------------------------------------
(***************************************************************************)
(* Every opcode of both tables, on a few registers.                        *)
(***************************************************************************)
Anything == [Zeroes EXCEPT !.A = {0, 165, 255}, !.F = {{}, {ZF, CF}}, !.B = {193}, !.D = {194},
                           !.H = {195}]

OpcodePrograms ==
    {Program("opcode", <<opcode, 0, 193, HALT>>, Anything) : opcode \in Byte \ {Prefix}}
    \cup {Program("opcode", <<Prefix, opcode, HALT>>, Anything) : opcode \in Byte}

AllPrograms ==
    DecimalPrograms \cup LongSumPrograms \cup WidePrograms \cup OffsetPrograms
    \cup ProductPrograms \cup BitPrograms \cup ControlPrograms \cup OpcodePrograms
=============================================================================
