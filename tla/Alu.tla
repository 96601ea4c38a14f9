-------------------------------- MODULE Alu --------------------------------
(***************************************************************************)
(* The arithmetic of the CPU: ALU (src/src/cpu/alu.cpp), IDU and the       *)
(* register file (src/src/cpu/register_file.cpp), as operators on bytes.   *)
(* The flag register F is the set of its bits that are one.                *)
(***************************************************************************)
EXTENDS Integers

Byte == 0..255
Word == 0..65535

\* Bits of F.
ZF == 7
NF == 6
HF == 5
CF == 4

Carry(F) == IF CF \in F THEN 1 ELSE 0

\* RegisterFile::setZflag and its like.
SetFlag(F, flag, on) == IF on THEN F \cup {flag} ELSE F \ {flag}

Bits(v) == {i \in 0..7 : (v \div 2^i) % 2 = 1}

Value(bits) ==
    LET Bit(i) == IF i \in bits THEN 2^i ELSE 0
    IN  Bit(0) + Bit(1) + Bit(2) + Bit(3) + Bit(4) + Bit(5) + Bit(6) + Bit(7)

SetFlags(F, z, n, h, c) ==
    SetFlag(SetFlag(SetFlag(SetFlag(F, ZF, z), NF, n), HF, h), CF, c)

-----------------------------------------------------------------------------
(***************************************************************************)
(* ALU: a sum or difference with the carries out of bits 3 and 7.          *)
(***************************************************************************)
Add(v1, v2, carryIn) ==
    [value |-> (v1 + v2 + carryIn) % 256,
     half  |-> (v1 % 16) + (v2 % 16) + carryIn > 15,
     full  |-> v1 + v2 + carryIn > 255]

Sub(v1, v2, carryIn) ==
    [value |-> (v1 - v2 - carryIn) % 256,
     half  |-> (v1 % 16) < (v2 % 16) + carryIn,
     full  |-> v1 < v2 + carryIn]

And(v1, v2) == Value(Bits(v1) \cap Bits(v2))
Or(v1, v2)  == Value(Bits(v1) \cup Bits(v2))
Xor(v1, v2) == Value((Bits(v1) \cup Bits(v2)) \ (Bits(v1) \cap Bits(v2)))
Not(v) == 255 - v

DecimalAdjust(a, F) ==
    LET low == IF NF \in F
               THEN IF HF \notin F THEN a ELSE IF CF \in F THEN a - 6 ELSE (a - 6) % 256
               ELSE IF HF \in F \/ (a % 16) > 9 THEN a + 6 ELSE a
        tmp == IF NF \in F
               THEN IF CF \in F THEN low - 96 ELSE low
               ELSE IF CF \in F \/ low > 159 THEN low + 96 ELSE low
        value == tmp % 256
        carry == CF \in F \/ (tmp \div 256) % 2 = 1
    IN [value |-> value, F |-> SetFlag(SetFlag(F \ {HF}, CF, carry), ZF, value = 0)]

\* Rotations and shifts, and the bit that leaves.
RotateLeftCircular(v)  == [value |-> ((2 * v) % 256) + (v \div 128), carry |-> v > 127]
RotateRightCircular(v) == [value |-> (v \div 2) + 128 * (v % 2), carry |-> v % 2 = 1]

\* Mutant: the bit that enters is the one that leaves.
RotateLeftCarried(v, carryIn) == RotateLeftCircular(v)

RotateLeft(v, carryIn)  == [value |-> ((2 * v) % 256) + carryIn, carry |-> v > 127]
RotateRight(v, carryIn) == [value |-> (v \div 2) + 128 * carryIn, carry |-> v % 2 = 1]
ShiftLeftA(v)  == [value |-> (2 * v) % 256, carry |-> v > 127]
ShiftRightA(v) == [value |-> (v \div 2) + 128 * (v \div 128), carry |-> v % 2 = 1]
ShiftRightL(v) == [value |-> v \div 2, carry |-> v % 2 = 1]
SwapNibbles(v) == [value |-> 16 * (v % 16) + (v \div 16), carry |-> FALSE]

ResetBit(v, b) == Value(Bits(v) \ {b})
SetBit(v, b)   == Value(Bits(v) \cup {b})

\* IDU.
Increment(w) == (w + 1) % 65536
Decrement(w) == (w - 1) % 65536

\* A byte as int8_t.
Signed(v) == IF v > 127 THEN v - 256 ELSE v

-----------------------------------------------------------------------------
(***************************************************************************)
(* The register file r: its registers by name, and by the codes opcodes    *)
(* use.  Code 6 of an 8-bit register stands for memory at HL and throws.   *)
(* W, Z and IR are the control unit's own.                                 *)
(***************************************************************************)
Registers ==
    [A : Byte, F : SUBSET {ZF, NF, HF, CF}, B : Byte, C : Byte, D : Byte, E : Byte, H : Byte,
     L : Byte, SP : Word, PC : Word, IR : Byte, Z : Byte, W : Byte]

High(w) == w \div 256
Low(w)  == w % 256
Join(high, low) == 256 * high + low

R8Name == <<"B", "C", "D", "E", "H", "L", "(HL)", "A">>
R8(r, code) == r[R8Name[code + 1]]
SetR8(r, code, value) == [r EXCEPT ![R8Name[code + 1]] = value]

BC(r) == Join(r.B, r.C)
DE(r) == Join(r.D, r.E)
HL(r) == Join(r.H, r.L)
AF(r) == Join(r.A, Value(r.F))

SetBC(r, w) == [r EXCEPT !.B = High(w), !.C = Low(w)]
SetDE(r, w) == [r EXCEPT !.D = High(w), !.E = Low(w)]
SetHL(r, w) == [r EXCEPT !.H = High(w), !.L = Low(w)]

SetAF(r, w) == [r EXCEPT !.A = High(w), !.F = Bits(Low(w)) \ 0..3]

R16(r, code) == <<BC(r), DE(r), HL(r), r.SP>>[code + 1]

SetR16(r, code, w) ==
    IF code = 0 THEN SetBC(r, w) ELSE
    IF code = 1 THEN SetDE(r, w) ELSE
    IF code = 2 THEN SetHL(r, w) ELSE [r EXCEPT !.SP = w]

\* The stack's register pairs have AF where the others have SP.
R16stk(r, code) == IF code = 3 THEN AF(r) ELSE R16(r, code)
SetR16stk(r, code, w) == IF code = 3 THEN SetAF(r, w) ELSE SetR16(r, code, w)

\* Mutant: NC and C are swapped.
ConditionSwapped(F, code) ==
    IF code \in {0, 1} THEN (ZF \in F) = (code = 1) ELSE (CF \in F) = (code = 2)

\* checkConditional: NZ, Z, NC, C.
Condition(F, code) ==
    IF code \in {0, 1} THEN (ZF \in F) = (code = 1) ELSE (CF \in F) = (code = 3)

-----------------------------------------------------------------------------
(***************************************************************************)
(* Sums of words, by bytes and at once.                                    *)
(***************************************************************************)
\* LD HL,SP+e and ADD HL,rr: the low bytes in one cycle, the high bytes and
\* the carry in the next.
AdjustLow(r) ==
    LET sum == Add(Low(r.SP), r.Z, 0) IN
    [r EXCEPT !.L = sum.value, !.F = SetFlags({}, FALSE, FALSE, sum.half, sum.full)]

AdjustHigh(r) ==
    [r EXCEPT !.H = Add(High(r.SP), IF r.Z > 127 THEN 255 ELSE 0, Carry(r.F)).value]

AddLow(r, w) ==
    LET sum == Add(r.L, Low(w), 0) IN
    [r EXCEPT !.L = sum.value, !.F = SetFlags(@, ZF \in @, FALSE, sum.half, sum.full)]

\* Mutant: the carry of the low bytes is not taken.
AddHighAlone(r, w) ==
    LET sum == Add(r.H, High(w), 0) IN
    [r EXCEPT !.H = sum.value, !.F = SetFlags(@, ZF \in @, FALSE, sum.half, sum.full)]

AddHigh(r, w) ==
    LET sum == Add(r.H, High(w), Carry(r.F)) IN
    [r EXCEPT !.H = sum.value, !.F = SetFlags(@, ZF \in @, FALSE, sum.half, sum.full)]

\* ADD SP,e in one cycle, from the signed offset.
AddToSP(r) ==
    [r EXCEPT !.SP = (@ + Signed(r.Z)) % 65536,
              !.F = SetFlags(@, FALSE, FALSE, (r.SP % 16) + (r.Z % 16) > 15, Low(r.SP) + r.Z > 255)]
=============================================================================
