------------------------------ MODULE Decoder ------------------------------
(***************************************************************************)
(* decodeStdOpcode and decodeCbOpcode (src/src/cpu/control_unit.cpp): which *)
(* instruction an opcode is.  An instruction <<op, form>> is the enumerator *)
(* op_form of src/src/cpu/opcodes.h.  The decoder first looks the opcode up *)
(* among the exact ones and then takes the first pattern it matches, so the *)
(* order of the patterns matters, and an exact opcode forgotten would fall  *)
(* to a pattern that is not meant for it.                                   *)
(***************************************************************************)
EXTENDS Alu, Sequences

\* Families of the accumulator, in the order of bits 3 to 5 of their opcodes.
Accumulating == <<"Add", "AddWithCarry", "Sub", "SubWithCarry", "And", "Xor", "Or", "Compare">>

\* Families of the CB table with an operand, in that order.
Rotating == <<"RotateLeftCircular", "RotateRightCircular", "RotateLeft", "RotateRight",
              "ShiftLeftArithmetic", "ShiftRightArithmetic", "SwapNibbles", "ShiftRightLogical">>

\* The opcodes looked up, and what they are.
Exactly(opcode, op, form) == [opcode |-> opcode, is |-> <<op, form>>]

ExactLoads ==
    {Exactly(\b00110110, "LoadFromImmediateData", "IndirectHL"),
     Exactly(\b00001010, "LoadAccumulator", "IndirectBC"),
     Exactly(\b00011010, "LoadAccumulator", "IndirectDE"),
     Exactly(\b00000010, "LoadFromAccumulator", "IndirectBC"),
     Exactly(\b00010010, "LoadFromAccumulator", "IndirectDE"),
     Exactly(\b11111010, "LoadAccumulator", "Direct"),
     Exactly(\b11101010, "LoadFromAccumulator", "Direct"),
     Exactly(\b11110010, "LoadAccumulator", "Indirect0xFF00_C"),
     Exactly(\b11100010, "LoadFromAccumulator", "Indirect0xFF00_C"),
     Exactly(\b11110000, "LoadAccumulator", "Indirect0xFF00_n"),
     Exactly(\b11100000, "LoadFromAccumulator", "Indirect0xFF00_n"),
     Exactly(\b00111010, "LoadAccumulator", "IndirectHL_dec"),
     Exactly(\b00110010, "LoadFromAccumulator", "IndirectHL_dec"),
     Exactly(\b00101010, "LoadAccumulator", "IndirectHL_inc"),
     Exactly(\b00100010, "LoadFromAccumulator", "IndirectHL_inc"),
     Exactly(\b00001000, "LoadFromStackPointer", "Direct"),
     Exactly(\b11111001, "LoadStackPointerFromHL", ""),
     Exactly(\b11111000, "LoadHLFromAdjustedStackPointer", "")}

\* 10fff110 and 11fff110 for the families of the accumulator.
ExactArithmetic ==
    {Exactly(\b10000110 + 8 * f, Accumulating[f + 1], "IndirectHL") : f \in 0..7}
    \cup {Exactly(\b11000110 + 8 * f, Accumulating[f + 1], "Immediate") : f \in 0..7}
    \cup
    {Exactly(\b00110100, "Increment", "IndirectHL"),
     Exactly(\b00110101, "Decrement", "IndirectHL"),
     Exactly(\b00111111, "ComplementCarryFlag", ""),
     Exactly(\b00110111, "SetCarryFlag", ""),
     Exactly(\b00100111, "DecimalAdjustAccumulator", ""),
     Exactly(\b00101111, "ComplementAccumulator", ""),
     Exactly(\b11101000, "AddToStackPointer", "relative"),
     Exactly(\b00000111, "RotateLeftCircular", "Accumulator"),
     Exactly(\b00001111, "RotateRightCircular", "Accumulator"),
     Exactly(\b00010111, "RotateLeft", "Accumulator"),
     Exactly(\b00011111, "RotateRight", "Accumulator")}

ExactControl ==
    {Exactly(\b11000011, "Jump", ""),
     Exactly(\b11101001, "JumpToHL", ""),
     Exactly(\b00011000, "RelativeJump", ""),
     Exactly(\b11001101, "CallFunction", ""),
     Exactly(\b11001011, "CB", ""),
     Exactly(\b11001001, "ReturnFromFunction", ""),
     Exactly(\b11011001, "ReturnFromInterruptHandler", ""),
     Exactly(\b01110110, "HaltSystemClock", ""),
     Exactly(\b00010000, "StopSystemAndMainClocks", ""),
     Exactly(\b11110011, "DisableInterrupts", ""),
     Exactly(\b11111011, "EnableInterrupts", ""),
     Exactly(\b00000000, "Nop", "")}

Exact == ExactLoads \cup ExactArithmetic \cup ExactControl

\* The patterns: the opcodes that match are those whose bits in mask are those
\* of value.
Pattern(mask, value, op, form) == [mask |-> mask, value |-> value, is |-> <<op, form>>]

StdPatterns == <<
    Pattern(\b11000111, \b00000110, "LoadRegister", "Immediate"),
    Pattern(\b11000111, \b01000110, "LoadRegister", "IndirectHL"),
    Pattern(\b11111000, \b01110000, "LoadFromRegister", "IndirectHL"),
    Pattern(\b11000000, \b01000000, "LoadRegister", "Register"),
    Pattern(\b11001111, \b00000001, "Load16bitRegisterOrRegisterPair", ""),
    Pattern(\b11001111, \b11000101, "PushToStack", ""),
    Pattern(\b11001111, \b11000001, "PopFromStack", ""),
    Pattern(\b11111000, \b10000000, "Add", "Register"),
    Pattern(\b11111000, \b10001000, "AddWithCarry", "Register"),
    Pattern(\b11111000, \b10010000, "Sub", "Register"),
    Pattern(\b11111000, \b10011000, "SubWithCarry", "Register"),
    Pattern(\b11111000, \b10111000, "Compare", "Register"),
    Pattern(\b11000111, \b00000100, "Increment", "Register"),
    Pattern(\b11000111, \b00000101, "Decrement", "Register"),
    Pattern(\b11111000, \b10100000, "And", "Register"),
    Pattern(\b11111000, \b10110000, "Or", "Register"),
    Pattern(\b11111000, \b10101000, "Xor", "Register"),
    Pattern(\b11001111, \b00000011, "Increment16bitRegister", ""),
    Pattern(\b11001111, \b00001011, "Decrement16bitRegister", ""),
    Pattern(\b11001111, \b00001001, "Add", "16bitRegister"),
    Pattern(\b11100111, \b11000010, "Jump", "Conditional"),
    Pattern(\b11100111, \b00100000, "RelativeJump", "Conditional"),
    Pattern(\b11100111, \b11000100, "CallFunction", "Conditional"),
    Pattern(\b11100111, \b11000000, "ReturnFromFunction", "Conditional"),
    Pattern(\b11000111, \b11000111, "Restart", "")>>

\* Mutant: the opcodes of memory at HL are not told from those of registers.
CbPatternsOrdered == <<
    Pattern(\b11000000, \b01000000, "TestBit", "Register"),
    Pattern(\b11000111, \b01000110, "TestBit", "IndirectHL"),
    Pattern(\b11000111, \b10000110, "ResetBit", "IndirectHL"),
    Pattern(\b11000000, \b10000000, "ResetBit", "Register"),
    Pattern(\b11000111, \b11000110, "SetBit", "IndirectHL"),
    Pattern(\b11000000, \b11000000, "SetBit", "Register")>>

CbPatterns == <<
    Pattern(\b11000111, \b01000110, "TestBit", "IndirectHL"),
    Pattern(\b11000000, \b01000000, "TestBit", "Register"),
    Pattern(\b11000111, \b10000110, "ResetBit", "IndirectHL"),
    Pattern(\b11000000, \b10000000, "ResetBit", "Register"),
    Pattern(\b11000111, \b11000110, "SetBit", "IndirectHL"),
    Pattern(\b11000000, \b11000000, "SetBit", "Register")>>

FirstMatch(patterns, opcode) ==
    LET matches == {i \in DOMAIN patterns : And(opcode, patterns[i].mask) = patterns[i].value}
    IN IF matches = {} THEN <<"Nop", "">>
       ELSE patterns[CHOOSE i \in matches : \A j \in matches : i <= j].is

\* Whatever matches nothing is a Nop.
StdTable == [opcode \in Byte |->
    LET rows == {row \in Exact : row.opcode = opcode}
    IN IF rows = {} THEN FirstMatch(StdPatterns, opcode) ELSE (CHOOSE row \in rows : TRUE).is]

\* 00fffrrr in the CB table, whose low bits say which operand.
CbTable == [opcode \in Byte |->
    IF opcode < 64
    THEN <<Rotating[opcode \div 8 + 1], IF opcode % 8 = 6 THEN "IndirectHL" ELSE "Register">>
    ELSE FirstMatch(CbPatterns, opcode)]
=============================================================================
