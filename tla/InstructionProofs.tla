-------------------------- MODULE InstructionProofs --------------------------
(* The instructions, for every program, every memory and all values of the *)
(* registers: what their arithmetic computes, that every opcode is decoded *)
(* to an instruction it is meant for, that no instruction leaves the range *)
(* of a register, and that each takes the cycles of the sequencer.         *)
EXTENDS Cpu, TLAPS, WellFoundedInduction

-----------------------------------------------------------------------------
(* Sums of words. *)

(* A carry as a number. *)
AsNumber(carry) == IF carry THEN 1 ELSE 0

(* The two additions of a sum of words: of the low bytes, and of the high  *)
(* bytes with the carry between.                                           *)
LowSum(xl, yl) == Add(xl, yl, 0)
HighSum(xh, xl, yh, yl) == Add(xh, yh, AsNumber(LowSum(xl, yl).full))

InHalves(xh, xl, yh, yl) ==
    Join(HighSum(xh, xl, yh, yl).value, LowSum(xl, yl).value)

(* The remainder of a sum of two bytes and a carry, or of two words.       *)
LEMMA ByteDigit ==
    ASSUME NEW s \in Int, 0 <= s, s <= 511
    PROVE  /\ s % 256 \in Int /\ 0 <= s % 256 /\ s % 256 <= 255
           /\ s > 255 => s % 256 = s - 256
           /\ ~(s > 255) => s % 256 = s
  OBVIOUS

LEMMA WordDigit ==
    ASSUME NEW s \in Int, 0 <= s, s <= 131071
    PROVE  /\ s > 65535 => s % 65536 = s - 65536
           /\ ~(s > 65535) => s % 65536 = s
  OBVIOUS

(* Sums of bytes: the low halves xl + yl with a carry c, and the high      *)
(* halves with it.  Together they are the sum of the words, less a carry.  *)
LEMMA HalvesInt ==
    ASSUME NEW xh \in Int, NEW xl \in Int, NEW yh \in Int, NEW yl \in Int,
           0 <= xh, xh <= 255, 0 <= xl, xl <= 255, 0 <= yh, yh <= 255, 0 <= yl, yl <= 255,
           NEW c \in Int, IF xl + yl > 255 THEN c = 1 ELSE c = 0,
           NEW s \in Int, s = 256 * xh + xl + 256 * yh + yl
    PROVE  /\ 256 * ((xh + yh + c) % 256) + ((xl + yl) % 256) = s % 65536
           /\ xh + yh + c > 255 <=> s > 65535
<1> DEFINE sl == xl + yl
           sh == xh + yh + c
<1>1. sl \in Int /\ 0 <= sl /\ sl <= 511 /\ sh \in Int /\ 0 <= sh /\ sh <= 511
  OBVIOUS
<1>2. s = 256 * (sh - c) + sl /\ 0 <= s /\ s <= 131071
  OBVIOUS
<1>3. IF sl > 255 THEN c = 1 ELSE c = 0
  OBVIOUS
<1> HIDE DEF sl, sh
<1> DEFINE l == sl % 256
           h == sh % 256
<1>4. /\ l \in Int /\ 0 <= l /\ l <= 255
      /\ sl > 255 => l = sl - 256
      /\ ~(sl > 255) => l = sl
  BY <1>1, ByteDigit
<1>5. /\ h \in Int /\ 0 <= h /\ h <= 255
      /\ sh > 255 => h = sh - 256
      /\ ~(sh > 255) => h = sh
  BY <1>1, ByteDigit
<1> HIDE DEF l, h
<1>6. l = sl - 256 * c
  BY <1>1, <1>3, <1>4
<1>7. CASE sh > 255
  <2>1. s = 256 * h + l + 65536
    BY <1>1, <1>2, <1>5, <1>6, <1>7, <1>4
  <2>2. s > 65535
    BY <2>1, <1>4, <1>5
  <2>3. s % 65536 = s - 65536
    BY <1>2, <2>2, WordDigit
  <2> QED  BY <1>4, <1>5, <1>7, <2>1, <2>2, <2>3 DEF l, h, sl, sh
<1>8. CASE ~(sh > 255)
  <2>1. s = 256 * h + l
    BY <1>1, <1>2, <1>5, <1>6, <1>8, <1>4
  <2>2. ~(s > 65535)
    BY <2>1, <1>4, <1>5
  <2>3. s % 65536 = s
    BY <1>2, <2>2, WordDigit
  <2> QED  BY <1>4, <1>5, <1>8, <2>1, <2>2, <2>3 DEF l, h, sl, sh
<1> QED  BY <1>7, <1>8

(* What a byte and a word are, as inequalities. *)
LEMMA ByteBounds == \A x : x \in Byte <=> x \in Int /\ 0 <= x /\ x <= 255
<1> DEFINE greatest == 255
<1>1. greatest \in Nat /\ Byte = 0..greatest
  BY DEF Byte
<1> HIDE DEF greatest
<1>2. \A x : x \in 0..greatest <=> x \in Int /\ 0 <= x /\ x <= greatest
  BY <1>1
<1>3. \A x : x \in Byte <=> x \in Int /\ 0 <= x /\ x <= greatest
  BY <1>1, <1>2, Zenon
<1> QED  BY <1>3 DEF greatest

LEMMA WordBounds == \A x : x \in Word <=> x \in Int /\ 0 <= x /\ x <= 65535
<1> DEFINE greatest == 65535
<1>1. greatest \in Nat /\ Word = 0..greatest
  BY DEF Word
<1> HIDE DEF greatest
<1>2. \A x : x \in 0..greatest <=> x \in Int /\ 0 <= x /\ x <= greatest
  BY <1>1
<1>3. \A x : x \in Word <=> x \in Int /\ 0 <= x /\ x <= greatest
  BY <1>1, <1>2, Zenon
<1> QED  BY <1>3 DEF greatest

(* Two bytes joined are a word, whose halves they are. *)
LEMMA JoinSplits ==
    ASSUME NEW h \in Byte, NEW l \in Byte
    PROVE  256 * h + l \in Word /\ High(256 * h + l) = h /\ Low(256 * h + l) = l
<1>1. h \in Int /\ 0 <= h /\ h <= 255 /\ l \in Int /\ 0 <= l /\ l <= 255
  BY ByteBounds
<1>2. 256 * h + l \in Int /\ 0 <= 256 * h + l /\ 256 * h + l <= 65535
  BY <1>1
<1>3. (256 * h + l) \div 256 = h /\ (256 * h + l) % 256 = l
  BY <1>1
<1> QED  BY <1>2, <1>3, WordBounds DEF High, Low

(* The same as one fact, for a carry between that is a condition. *)
Halves(xh, xl, yh, yl, c, s) ==
    /\ 256 * ((xh + yh + c) % 256) + ((xl + yl) % 256) = s % 65536
    /\ xh + yh + c > 255 <=> s > 65535

LEMMA HalvesFact ==
    \A xh, xl, yh, yl \in Byte, c \in {0, 1}, s \in Int :
        /\ xl + yl > 255 => c = 1
        /\ ~(xl + yl > 255) => c = 0
        /\ s = 256 * xh + xl + 256 * yh + yl
        => Halves(xh, xl, yh, yl, c, s)
<1> SUFFICES ASSUME NEW xh \in Byte, NEW xl \in Byte, NEW yh \in Byte, NEW yl \in Byte,
                    NEW c \in {0, 1}, NEW s \in Int,
                    xl + yl > 255 => c = 1,
                    ~(xl + yl > 255) => c = 0,
                    s = 256 * xh + xl + 256 * yh + yl
             PROVE  Halves(xh, xl, yh, yl, c, s)
  OBVIOUS
<1>1. /\ xh \in Int /\ xl \in Int /\ yh \in Int /\ yl \in Int /\ c \in Int
      /\ 0 <= xh /\ xh <= 255 /\ 0 <= xl /\ xl <= 255
      /\ 0 <= yh /\ yh <= 255 /\ 0 <= yl /\ yl <= 255
  BY ByteBounds
<1>2. IF xl + yl > 255 THEN c = 1 ELSE c = 0
  OBVIOUS
<1> QED  BY <1>1, <1>2, HalvesInt DEF Halves

(* A word is its two bytes. *)
LEMMA Bytes2 ==
    ASSUME NEW x \in Word
    PROVE  Low(x) \in Byte /\ High(x) \in Byte /\ x = 256 * High(x) + Low(x)
<1>1. x \in Int /\ 0 <= x /\ x <= 65535
  BY WordBounds
<1>2. /\ x % 256 \in Int /\ 0 <= x % 256 /\ x % 256 <= 255
      /\ x \div 256 \in Int /\ 0 <= x \div 256 /\ x \div 256 <= 255
      /\ x = 256 * (x \div 256) + (x % 256)
  BY <1>1
<1> QED  BY <1>2, ByteBounds DEF Low, High

(* Adding words by halves gives their sum and its carry.                   *)
LEMMA HalvesAddUp ==
    ASSUME NEW x \in Word, NEW y \in Word
    PROVE  /\ InHalves(High(x), Low(x), High(y), Low(y)) = (x + y) % 65536
           /\ HighSum(High(x), Low(x), High(y), Low(y)).full <=> x + y > 65535
<1>1. PICK xh \in Byte, xl \in Byte :
          xh = High(x) /\ xl = Low(x) /\ x = 256 * xh + xl
  BY Bytes2
<1>2. PICK yh \in Byte, yl \in Byte :
          yh = High(y) /\ yl = Low(y) /\ y = 256 * yh + yl
  BY Bytes2
<1>3. PICK c \in {0, 1} :
          /\ c = AsNumber(LowSum(xl, yl).full)
          /\ xl + yl > 255 => c = 1
          /\ ~(xl + yl > 255) => c = 0
  <2> DEFINE full == LowSum(xl, yl).full
  <2>1. full <=> xl + yl > 255
    <3>1. xl + yl + 0 = xl + yl
      BY ByteBounds
    <3> QED  BY <3>1 DEF LowSum, Add
  <2> HIDE DEF full
  <2>2. /\ full => AsNumber(full) = 1
        /\ ~full => AsNumber(full) = 0
    BY Zenon DEF AsNumber
  <2>3. CASE full
    BY <2>1, <2>2, <2>3 DEF full
  <2>4. CASE ~full
    BY <2>1, <2>2, <2>4 DEF full
  <2> QED  BY <2>3, <2>4
<1>4. x + y \in Int /\ x + y = 256 * xh + xl + 256 * yh + yl
  <2>1. \A a, b, h, l, k, m \in Int :
            a = 256 * h + l /\ b = 256 * k + m => a + b = 256 * h + l + 256 * k + m
    OBVIOUS
  <2>2. /\ x \in Int /\ y \in Int
        /\ xh \in Int /\ xl \in Int /\ yh \in Int /\ yl \in Int
    BY ByteBounds, WordBounds
  <2>3. x + y \in Int
    BY <2>2
  <2> QED  BY <1>1, <1>2, <2>1, <2>2, <2>3
<1>5. Halves(xh, xl, yh, yl, c, x + y)
  BY <1>3, <1>4, HalvesFact
<1>6. HighSum(xh, xl, yh, yl) = Add(xh, yh, c) /\ LowSum(xl, yl) = Add(xl, yl, 0)
  BY <1>3, Zenon DEF HighSum, LowSum
<1>7. InHalves(xh, xl, yh, yl) = (x + y) % 65536
  <2>1. xl + yl + 0 = xl + yl
    BY ByteBounds
  <2>2. InHalves(xh, xl, yh, yl) = 256 * ((xh + yh + c) % 256) + ((xl + yl) % 256)
    BY <1>6, <2>1 DEF Add, Join, InHalves
  <2> QED  BY <1>5, <2>2 DEF Halves
<1>8. HighSum(xh, xl, yh, yl).full <=> x + y > 65535
  <2>1. Add(xh, yh, c).full <=> xh + yh + c > 255
    BY DEF Add
  <2> QED  BY <1>5, <1>6, <2>1 DEF Halves
<1> QED  BY <1>1, <1>2, <1>7, <1>8

(* The high byte of a signed offset. *)
SignByte(e) == IF e > 127 THEN 255 ELSE 0

(* Adding an offset's byte, and then its sign, adds the signed offset.      *)
LEMMA OffsetAddsUp ==
    ASSUME NEW sp \in Word, NEW e \in Byte
    PROVE  InHalves(High(sp), Low(sp), SignByte(e), e) = (sp + Signed(e)) % 65536
<1>0. sp \in Int /\ e \in Int /\ 0 <= e /\ e <= 255
  BY ByteBounds, WordBounds
<1>1. CASE e > 127
  <2> DEFINE w == 256 * 255 + e
  <2>1. w \in Word /\ Low(w) = e /\ High(w) = SignByte(e)
    <3>1. 255 \in Byte
      BY ByteBounds
    <3>2. SignByte(e) = 255
      BY <1>1 DEF SignByte
    <3> QED  BY <3>1, <3>2, JoinSplits
  <2>2. (sp + w) % 65536 = (sp + Signed(e)) % 65536
    <3>1. Signed(e) = e - 256
      BY <1>1 DEF Signed
    <3>2. sp + w = (sp + (e - 256)) + 65536 /\ sp + (e - 256) \in Int
      BY <1>0
    <3>3. \A t \in Int : (t + 65536) % 65536 = t % 65536
      OBVIOUS
    <3> QED  BY <3>1, <3>2, <3>3
  <2> HIDE DEF w
  <2>3. InHalves(High(sp), Low(sp), High(w), Low(w)) = (sp + w) % 65536
    BY <2>1, HalvesAddUp
  <2> QED  BY <2>1, <2>2, <2>3
<1>2. CASE ~(e > 127)
  <2>1. e \in Word /\ Low(e) = e /\ High(e) = SignByte(e) /\ Signed(e) = e
    <3>1. e \in Word
      BY <1>0, WordBounds
    <3>2. e % 256 = e /\ e \div 256 = 0
      BY <1>0
    <3>3. SignByte(e) = 0 /\ Signed(e) = e
      BY <1>2 DEF SignByte, Signed
    <3> QED  BY <3>1, <3>2, <3>3 DEF Low, High
  <2>2. InHalves(High(sp), Low(sp), High(e), Low(e)) = (sp + e) % 65536
    BY <2>1, HalvesAddUp
  <2> QED  BY <2>1, <2>2
<1> QED  BY <1>1, <1>2

(* ADD HL,rr, which adds the low bytes in one M-cycle and the high bytes   *)
(* in the next with the carry it left in F, adds the pair to HL, and its   *)
(* carry is that of the sum.                                               *)
THEOREM PairsAddUp ==
    ASSUME NEW r \in Registers, NEW w \in Word
    PROVE  LET after == AddHigh(AddLow(r, w), w)
           IN /\ HL(after) = (HL(r) + w) % 65536
              /\ CF \in after.F <=> HL(r) + w > 65535
<1> DEFINE mid == AddLow(r, w)
           after == AddHigh(mid, w)
           low == LowSum(r.L, Low(w))
           high == HighSum(r.H, r.L, High(w), Low(w))
<1>1. HL(r) \in Word /\ High(HL(r)) = r.H /\ Low(HL(r)) = r.L
  <2>1. r.H \in Byte /\ r.L \in Byte
    BY DEF Registers
  <2>2. HL(r) = 256 * r.H + r.L
    BY DEF HL, Join
  <2> QED  BY <2>1, <2>2, JoinSplits
<1>2. /\ InHalves(r.H, r.L, High(w), Low(w)) = (HL(r) + w) % 65536
      /\ high.full <=> HL(r) + w > 65535
  BY <1>1, HalvesAddUp
<1>3. mid = [r EXCEPT !.L = low.value,
                      !.F = SetFlags(@, ZF \in @, FALSE, low.half, low.full)]
  BY DEF AddLow, LowSum
<1>4. after = [mid EXCEPT !.H = Add(mid.H, High(w), Carry(mid.F)).value,
                          !.F = SetFlags(@, ZF \in @, FALSE,
                                         Add(mid.H, High(w), Carry(mid.F)).half,
                                         Add(mid.H, High(w), Carry(mid.F)).full)]
  BY DEF AddHigh
<1>5. high = Add(r.H, High(w), AsNumber(low.full))
  BY DEF HighSum
<1> HIDE DEF mid, after, low, high
<1>6. /\ mid.L = low.value /\ mid.H = r.H
      /\ mid.F = SetFlags(r.F, ZF \in r.F, FALSE, low.half, low.full)
  BY <1>3 DEF Registers
<1>7. Carry(mid.F) = AsNumber(low.full)
  <2>1. CF \in SetFlags(r.F, ZF \in r.F, FALSE, low.half, low.full) <=> low.full
    BY DEF SetFlags, SetFlag
  <2>2. CF \in mid.F <=> low.full
    BY <1>6, <2>1
  <2> QED  BY <2>2, Zenon DEF Carry, AsNumber
<1>8. Add(mid.H, High(w), Carry(mid.F)) = high
  BY <1>5, <1>6, <1>7
<1>9. after = [mid EXCEPT !.H = high.value,
                           !.F = SetFlags(@, ZF \in @, FALSE, high.half, high.full)]
  BY <1>4, <1>8
<1>10. /\ after.H = high.value /\ after.L = mid.L
       /\ after.F = SetFlags(mid.F, ZF \in mid.F, FALSE, high.half, high.full)
  BY <1>3, <1>9 DEF Registers
<1>11. CF \in after.F <=> high.full
  <2>1. CF \in SetFlags(mid.F, ZF \in mid.F, FALSE, high.half, high.full) <=> high.full
    BY DEF SetFlags, SetFlag
  <2> QED  BY <1>10, <2>1
<1>12. HL(after) = InHalves(r.H, r.L, High(w), Low(w))
  BY <1>6, <1>10 DEF HL, InHalves, low, high
<1> QED  BY <1>2, <1>11, <1>12 DEF after, mid, high

(* LD HL,SP+e, which adds the offset's byte to SPL and then its sign and   *)
(* the carry to SPH, and ADD SP,e, which adds the signed offset at once,   *)
(* arrive at the same address.                                             *)
THEOREM OffsetsAgree ==
    ASSUME NEW r \in Registers
    PROVE  HL(AdjustHigh(AdjustLow(r))) = AddToSP(r).SP
<1> DEFINE mid == AdjustLow(r)
           after == AdjustHigh(mid)
           low == LowSum(Low(r.SP), r.Z)
           high == HighSum(High(r.SP), Low(r.SP), SignByte(r.Z), r.Z)
<1>1. r.SP \in Word /\ r.Z \in Byte
  BY DEF Registers
<1>2. InHalves(High(r.SP), Low(r.SP), SignByte(r.Z), r.Z) = (r.SP + Signed(r.Z)) % 65536
  BY <1>1, OffsetAddsUp
<1>3. /\ mid.L = low.value /\ mid.SP = r.SP /\ mid.Z = r.Z
      /\ mid.F = SetFlags({}, FALSE, FALSE, low.half, low.full)
  BY DEF Registers, AdjustLow, LowSum
<1>4. Carry(mid.F) = AsNumber(low.full)
  <2> HIDE DEF mid, low
  <2>1. CF \in SetFlags({}, FALSE, FALSE, low.half, low.full) <=> low.full
    BY DEF SetFlags, SetFlag
  <2>2. CF \in mid.F <=> low.full
    BY <1>3, <2>1
  <2> QED  BY <2>2, Zenon DEF Carry, AsNumber
<1>5. Add(High(mid.SP), SignByte(mid.Z), Carry(mid.F)) = high
  BY <1>3, <1>4 DEF HighSum
<1>6. after.H = high.value /\ after.L = mid.L
  BY <1>5 DEF Registers, AdjustHigh, AdjustLow, SignByte
<1>7. HL(after) = InHalves(High(r.SP), Low(r.SP), SignByte(r.Z), r.Z)
  BY <1>3, <1>6 DEF HL, InHalves
<1>8. AddToSP(r).SP = (r.SP + Signed(r.Z)) % 65536
  BY DEF Registers, AddToSP
<1> QED  BY <1>2, <1>7, <1>8

-----------------------------------------------------------------------------
(* Bytes as bits. *)

\* The bits of a byte, from the lowest.
Digit(v, weight) == (v \div weight) % 2

LEMMA BitsAreDigits ==
    ASSUME NEW v \in Int, 0 <= v, v <= 255
    PROVE  /\ 0 \in Bits(v) <=> Digit(v, 1) = 1
           /\ 1 \in Bits(v) <=> Digit(v, 2) = 1
           /\ 2 \in Bits(v) <=> Digit(v, 4) = 1
           /\ 3 \in Bits(v) <=> Digit(v, 8) = 1
           /\ 4 \in Bits(v) <=> Digit(v, 16) = 1
           /\ 5 \in Bits(v) <=> Digit(v, 32) = 1
           /\ 6 \in Bits(v) <=> Digit(v, 64) = 1
           /\ 7 \in Bits(v) <=> Digit(v, 128) = 1
  <1>1. \A k \in 0..7 : k \in Bits(v) <=> (v \div 2^k) % 2 = 1
    BY DEF Bits
  <1>2. /\ 2^0 = 1 /\ 2^1 = 2 /\ 2^2 = 4 /\ 2^3 = 8
        /\ 2^4 = 16 /\ 2^5 = 32 /\ 2^6 = 64 /\ 2^7 = 128
    OBVIOUS
  <1> QED  BY <1>1, <1>2 DEF Digit

LEMMA Digits2 ==
    ASSUME NEW v \in Int, 0 <= v, v <= 255
    PROVE  /\ \A w \in {1, 2, 4, 8, 16, 32, 64, 128} : Digit(v, w) \in {0, 1}
           /\ v = Digit(v, 1) + 2 * Digit(v, 2) + 4 * Digit(v, 4) + 8 * Digit(v, 8)
                  + 16 * Digit(v, 16) + 32 * Digit(v, 32) + 64 * Digit(v, 64)
                  + 128 * Digit(v, 128)
  BY DEF Digit

LEMMA ValueSum ==
    ASSUME NEW S
    PROVE  Value(S) = (IF 0 \in S THEN 1 ELSE 0) + (IF 1 \in S THEN 2 ELSE 0)
                      + (IF 2 \in S THEN 4 ELSE 0) + (IF 3 \in S THEN 8 ELSE 0)
                      + (IF 4 \in S THEN 16 ELSE 0) + (IF 5 \in S THEN 32 ELSE 0)
                      + (IF 6 \in S THEN 64 ELSE 0) + (IF 7 \in S THEN 128 ELSE 0)
  <1>1. /\ 2^0 = 1 /\ 2^1 = 2 /\ 2^2 = 4 /\ 2^3 = 8
        /\ 2^4 = 16 /\ 2^5 = 32 /\ 2^6 = 64 /\ 2^7 = 128
    OBVIOUS
  <1> QED  BY <1>1 DEF Value

LEMMA ValueByte == \A S : Value(S) \in Byte
  <1> SUFFICES ASSUME NEW S PROVE Value(S) \in Byte
    OBVIOUS
  <1>1. Value(S) \in Int /\ 0 <= Value(S) /\ Value(S) <= 255
    BY ValueSum
  <1> QED  BY <1>1, ByteBounds

\* Writing the bits of a byte again gives the byte.
LEMMA ValueOfBits == \A v \in Byte : Value(Bits(v)) = v
  <1> SUFFICES ASSUME NEW v \in Int, 0 <= v, v <= 255 PROVE Value(Bits(v)) = v
    BY ByteBounds
  <1> QED  BY BitsAreDigits, Digits2, ValueSum

\* The masks of the decoder keep some of the fields of an opcode.
LEMMA MaskDigits ==
    ASSUME NEW v \in Byte, NEW m \in Byte
    PROVE  And(v, m) = Digit(v, 1) * Digit(m, 1) + 2 * (Digit(v, 2) * Digit(m, 2))
                       + 4 * (Digit(v, 4) * Digit(m, 4)) + 8 * (Digit(v, 8) * Digit(m, 8))
                       + 16 * (Digit(v, 16) * Digit(m, 16)) + 32 * (Digit(v, 32) * Digit(m, 32))
                       + 64 * (Digit(v, 64) * Digit(m, 64)) + 128 * (Digit(v, 128) * Digit(m, 128))
  <1> DEFINE S == Bits(v) \cap Bits(m)
             Term(i, w) == IF i \in S THEN w ELSE 0
  <1>1. v \in Int /\ 0 <= v /\ v <= 255 /\ m \in Int /\ 0 <= m /\ m <= 255
    BY ByteBounds
  <1>2. \A w \in {1, 2, 4, 8, 16, 32, 64, 128} : Digit(v, w) \in {0, 1} /\ Digit(m, w) \in {0, 1}
    BY <1>1, Digits2
  <1>3. And(v, m) = Term(0, 1) + Term(1, 2) + Term(2, 4) + Term(3, 8)
                    + Term(4, 16) + Term(5, 32) + Term(6, 64) + Term(7, 128)
    BY ValueSum DEF And
  <1>4. /\ 0 \in S <=> Digit(v, 1) = 1 /\ Digit(m, 1) = 1
        /\ 1 \in S <=> Digit(v, 2) = 1 /\ Digit(m, 2) = 1
        /\ 2 \in S <=> Digit(v, 4) = 1 /\ Digit(m, 4) = 1
        /\ 3 \in S <=> Digit(v, 8) = 1 /\ Digit(m, 8) = 1
        /\ 4 \in S <=> Digit(v, 16) = 1 /\ Digit(m, 16) = 1
        /\ 5 \in S <=> Digit(v, 32) = 1 /\ Digit(m, 32) = 1
        /\ 6 \in S <=> Digit(v, 64) = 1 /\ Digit(m, 64) = 1
        /\ 7 \in S <=> Digit(v, 128) = 1 /\ Digit(m, 128) = 1
    BY <1>1, BitsAreDigits
  <1> HIDE DEF S
  <1>5. \A a, b \in {0, 1}, w \in Int : (IF a = 1 /\ b = 1 THEN w ELSE 0) = w * (a * b)
    OBVIOUS
  <1>6. /\ Term(0, 1) = Digit(v, 1) * Digit(m, 1)
        /\ Term(1, 2) = 2 * (Digit(v, 2) * Digit(m, 2))
        /\ Term(2, 4) = 4 * (Digit(v, 4) * Digit(m, 4))
        /\ Term(3, 8) = 8 * (Digit(v, 8) * Digit(m, 8))
        /\ Term(4, 16) = 16 * (Digit(v, 16) * Digit(m, 16))
        /\ Term(5, 32) = 32 * (Digit(v, 32) * Digit(m, 32))
        /\ Term(6, 64) = 64 * (Digit(v, 64) * Digit(m, 64))
        /\ Term(7, 128) = 128 * (Digit(v, 128) * Digit(m, 128))
    BY <1>2, <1>4, <1>5
  <1> HIDE DEF Term
  <1> QED  BY <1>3, <1>6

LEMMA Masks ==
    ASSUME NEW v \in Byte
    PROVE  /\ And(v, 192) = 64 * (v \div 64)
           /\ And(v, 199) = 64 * (v \div 64) + (v % 8)
           /\ And(v, 207) = 64 * (v \div 64) + (v % 16)
           /\ And(v, 231) = 32 * (v \div 32) + (v % 8)
           /\ And(v, 248) = 8 * (v \div 8)
  <1>1. v \in Int /\ 0 <= v /\ v <= 255
    BY ByteBounds
  <1>2. {192, 199, 207, 231, 248} \subseteq Byte
    BY ByteBounds
  <1>3. \A w \in {1, 2, 4, 8, 16, 32, 64, 128} : Digit(v, w) \in Int
    BY <1>1, Digits2
  <1>4. And(v, 192) = 64 * Digit(v, 64) + 128 * Digit(v, 128)
    <2>1. /\ Digit(192, 1) = 0 /\ Digit(192, 2) = 0 /\ Digit(192, 4) = 0 /\ Digit(192, 8) = 0
          /\ Digit(192, 16) = 0 /\ Digit(192, 32) = 0 /\ Digit(192, 64) = 1 /\ Digit(192, 128) = 1
      BY DEF Digit
    <2> QED  BY <1>2, <1>3, <2>1, MaskDigits
  <1>5. And(v, 199) = Digit(v, 1) + 2 * Digit(v, 2) + 4 * Digit(v, 4) + 64 * Digit(v, 64)
                      + 128 * Digit(v, 128)
    <2>1. /\ Digit(199, 1) = 1 /\ Digit(199, 2) = 1 /\ Digit(199, 4) = 1 /\ Digit(199, 8) = 0
          /\ Digit(199, 16) = 0 /\ Digit(199, 32) = 0 /\ Digit(199, 64) = 1 /\ Digit(199, 128) = 1
      BY DEF Digit
    <2> QED  BY <1>2, <1>3, <2>1, MaskDigits
  <1>6. And(v, 207) = Digit(v, 1) + 2 * Digit(v, 2) + 4 * Digit(v, 4) + 8 * Digit(v, 8)
                      + 64 * Digit(v, 64) + 128 * Digit(v, 128)
    <2>1. /\ Digit(207, 1) = 1 /\ Digit(207, 2) = 1 /\ Digit(207, 4) = 1 /\ Digit(207, 8) = 1
          /\ Digit(207, 16) = 0 /\ Digit(207, 32) = 0 /\ Digit(207, 64) = 1 /\ Digit(207, 128) = 1
      BY DEF Digit
    <2> QED  BY <1>2, <1>3, <2>1, MaskDigits
  <1>7. And(v, 231) = Digit(v, 1) + 2 * Digit(v, 2) + 4 * Digit(v, 4) + 32 * Digit(v, 32)
                      + 64 * Digit(v, 64) + 128 * Digit(v, 128)
    <2>1. /\ Digit(231, 1) = 1 /\ Digit(231, 2) = 1 /\ Digit(231, 4) = 1 /\ Digit(231, 8) = 0
          /\ Digit(231, 16) = 0 /\ Digit(231, 32) = 1 /\ Digit(231, 64) = 1 /\ Digit(231, 128) = 1
      BY DEF Digit
    <2> QED  BY <1>2, <1>3, <2>1, MaskDigits
  <1>8. And(v, 248) = 8 * Digit(v, 8) + 16 * Digit(v, 16) + 32 * Digit(v, 32) + 64 * Digit(v, 64)
                      + 128 * Digit(v, 128)
    <2>1. /\ Digit(248, 1) = 0 /\ Digit(248, 2) = 0 /\ Digit(248, 4) = 0 /\ Digit(248, 8) = 1
          /\ Digit(248, 16) = 1 /\ Digit(248, 32) = 1 /\ Digit(248, 64) = 1 /\ Digit(248, 128) = 1
      BY DEF Digit
    <2> QED  BY <1>2, <1>3, <2>1, MaskDigits
  <1> QED  BY <1>1, <1>4, <1>5, <1>6, <1>7, <1>8 DEF Digit

-----------------------------------------------------------------------------
(* The decoders. *)

LEMMA LeastOf ==
    ASSUME NEW S \in SUBSET Nat, S # {}
    PROVE  \E n \in S : \A m \in S : n <= m
  <1> DEFINE Less == {p \in Nat \X Nat : p[1] < p[2]}
  <1>1. IsWellFoundedOn(Less, Nat)
    BY NatLessThanWellFounded DEF OpToRel
  <1>2. PICK n \in S : \A m \in S : ~(<<m, n>> \in Less)
    BY <1>1, WFMin
  <1>3. \A a, b \in Nat : a < b => <<a, b>> \in Less
    OBVIOUS
  <1> HIDE DEF Less
  <1>4. ASSUME NEW m \in S PROVE n <= m
    <2>1. n \in Nat /\ m \in Nat
      BY <1>2, <1>4
    <2>2. ~(m < n)
      BY <1>2, <1>3, <1>4, <2>1
    <2> QED  BY <2>1, <2>2
  <1> QED  BY <1>2, <1>4

Hits(pattern, v) == And(v, pattern.mask) = pattern.value

\* An opcode is a Nop or what the first pattern it matches says.
LEMMA FirstMatchFirst ==
    ASSUME NEW patterns, NEW n \in Nat, DOMAIN patterns = 1..n, NEW v
    PROVE  \/ FirstMatch(patterns, v) = <<"Nop", "">> /\ \A k \in 1..n : ~Hits(patterns[k], v)
           \/ \E k \in 1..n :
                  /\ Hits(patterns[k], v)
                  /\ \A j \in 1..n : j < k => ~Hits(patterns[j], v)
                  /\ FirstMatch(patterns, v) = patterns[k].is
  <1> DEFINE matches == {k \in DOMAIN patterns : And(v, patterns[k].mask) = patterns[k].value}
             least == CHOOSE k \in matches : \A j \in matches : k <= j
  <1>1. FirstMatch(patterns, v) = IF matches = {} THEN <<"Nop", "">> ELSE patterns[least].is
    BY DEF FirstMatch
  <1>2. CASE matches = {}
    BY <1>1, <1>2 DEF Hits
  <1>3. CASE matches # {}
    <2>1. matches \in SUBSET Nat
      OBVIOUS
    <2>2. least \in matches /\ \A j \in matches : least <= j
      <3>1. \E k \in matches : \A j \in matches : k <= j
        BY <1>3, <2>1, LeastOf
      <3> QED  BY <3>1
    <2>3. FirstMatch(patterns, v) = patterns[least].is
      BY <1>1, <1>3
    <2> HIDE DEF least
    <2>4. least \in 1..n /\ Hits(patterns[least], v)
      BY <2>2 DEF Hits
    <2>5. \A j \in 1..n : j < least => ~Hits(patterns[j], v)
      BY <2>2, <2>4 DEF Hits
    <2> QED  BY <2>3, <2>4, <2>5
  <1> QED  BY <1>2, <1>3

\* The families of instructions, by where their operands are.
Accumulator == {"Add", "AddWithCarry", "Sub", "SubWithCarry", "And", "Xor", "Or", "Compare"}
Rotations == {"RotateLeftCircular", "RotateRightCircular", "RotateLeft", "RotateRight",
              "ShiftLeftArithmetic", "ShiftRightArithmetic", "SwapNibbles", "ShiftRightLogical"}
BitOps == {"TestBit", "ResetBit", "SetBit"}
Pointers == {"IndirectBC", "IndirectDE", "Direct", "Indirect0xFF00_C", "Indirect0xFF00_n",
             "IndirectHL_dec", "IndirectHL_inc"}
Formless == {"Load16bitRegisterOrRegisterPair", "PushToStack", "PopFromStack",
             "LoadStackPointerFromHL", "LoadHLFromAdjustedStackPointer",
             "Increment16bitRegister", "Decrement16bitRegister", "ComplementCarryFlag",
             "SetCarryFlag", "DecimalAdjustAccumulator", "ComplementAccumulator", "Jump",
             "JumpToHL", "RelativeJump", "CallFunction", "Restart", "CB", "ReturnFromFunction",
             "ReturnFromInterruptHandler", "HaltSystemClock", "StopSystemAndMainClocks",
             "DisableInterrupts", "EnableInterrupts", "Nop"}

\* Those that name no register by its code.
Plain(op, form) ==
    \/ op = "LoadFromImmediateData" /\ form = "IndirectHL"
    \/ op \in {"LoadAccumulator", "LoadFromAccumulator"} /\ form \in Pointers
    \/ op \in Accumulator /\ form \in {"IndirectHL", "Immediate"}
    \/ op \in {"Increment", "Decrement"} /\ form = "IndirectHL"
    \/ /\ op \in {"RotateLeftCircular", "RotateRightCircular", "RotateLeft", "RotateRight"}
       /\ form = "Accumulator"
    \/ op \in Formless /\ form = ""
    \/ op \in {"Jump", "RelativeJump", "CallFunction", "ReturnFromFunction"} /\ form = "Conditional"
    \/ op = "LoadFromStackPointer" /\ form = "Direct"
    \/ op = "AddToStackPointer" /\ form = "relative"
    \/ op = "Add" /\ form = "16bitRegister"

\* What an opcode of the first table may be: where an instruction names a
\* register by a code, that of memory at HL is not among the opcodes it has.
StdMeans(v, op, form) ==
    \/ Plain(op, form) /\ (form = "Accumulator" => X(v) # 6)
    \/ op = "LoadRegister" /\ form \in {"Immediate", "IndirectHL"} /\ Y(v) # 6
    \/ op \in {"Increment", "Decrement"} /\ form = "Register" /\ Y(v) # 6
    \/ op = "LoadFromRegister" /\ form = "IndirectHL" /\ X(v) # 6
    \/ op \in Accumulator /\ form = "Register" /\ X(v) # 6
    \/ op = "LoadRegister" /\ form = "Register" /\ X(v) # 6 /\ Y(v) # 6

CbMeans(v, op, form) ==
    \/ op \in Rotations \cup BitOps /\ form = "IndirectHL"
    \/ op \in Rotations \cup BitOps /\ form = "Register" /\ X(v) # 6

\* The rows of the lookup, one by one.
RowPlain(row) ==
    Plain(row.is[1], row.is[2]) /\ (row.is[2] = "Accumulator" => X(row.opcode) # 6)

LEMMA ExactlyIs ==
    \A opcode, op, form :
        Plain(op, form) /\ (form = "Accumulator" => X(opcode) # 6) =>
            RowPlain(Exactly(opcode, op, form))
  BY DEF Exactly, RowPlain

LEMMA ExactPlain == \A row \in Exact : RowPlain(row)
  <1>1. \A row \in ExactLoads : RowPlain(row)
    <2>1. /\ Plain("LoadFromImmediateData", "IndirectHL")
          /\ \A op \in {"LoadAccumulator", "LoadFromAccumulator"}, form \in Pointers : Plain(op, form)
          /\ Plain("LoadFromStackPointer", "Direct")
          /\ Plain("LoadStackPointerFromHL", "")
          /\ Plain("LoadHLFromAdjustedStackPointer", "")
      BY DEF Plain, Formless
    <2> QED  BY <2>1, ExactlyIs DEF ExactLoads, Pointers
  <1>2. \A row \in ExactControl : RowPlain(row)
    <2>1. \A op \in Formless : Plain(op, "")
      BY DEF Plain
    <2> QED  BY <2>1, ExactlyIs DEF ExactControl, Formless
  <1>3. \A f \in 0..7 : Accumulating[f + 1] \in Accumulator
    BY DEF Accumulating, Accumulator
  <1>4. ASSUME NEW f \in 0..7 
        PROVE  /\ Plain(Accumulating[f + 1], "IndirectHL")
               /\ Plain(Accumulating[f + 1], "Immediate")
    BY <1>3 DEF Plain
  <1>5. ASSUME NEW row \in ExactArithmetic
        PROVE  RowPlain(row)
    <2>1. CASE \E f \in 0..7 : row = Exactly(\b10000110 + 8 * f, Accumulating[f + 1], "IndirectHL")
      BY <2>1, <1>4, ExactlyIs
    <2>2. CASE \E f \in 0..7 : row = Exactly(\b11000110 + 8 * f, Accumulating[f + 1], "Immediate")
      BY <2>2, <1>4, ExactlyIs
    <2>3. CASE row \in {Exactly(\b00110100, "Increment", "IndirectHL"),
                        Exactly(\b00110101, "Decrement", "IndirectHL"),
                        Exactly(\b00111111, "ComplementCarryFlag", ""),
                        Exactly(\b00110111, "SetCarryFlag", ""),
                        Exactly(\b00100111, "DecimalAdjustAccumulator", ""),
                        Exactly(\b00101111, "ComplementAccumulator", ""),
                        Exactly(\b11101000, "AddToStackPointer", "relative"),
                        Exactly(\b00000111, "RotateLeftCircular", "Accumulator"),
                        Exactly(\b00001111, "RotateRightCircular", "Accumulator"),
                        Exactly(\b00010111, "RotateLeft", "Accumulator"),
                        Exactly(\b00011111, "RotateRight", "Accumulator")}
      <3>1. \A op \in Formless : Plain(op, "")
        BY DEF Plain
      <3>2. /\ Plain("Increment", "IndirectHL") /\ Plain("Decrement", "IndirectHL")
            /\ Plain("AddToStackPointer", "relative")
            /\ \A op \in {"RotateLeftCircular", "RotateRightCircular", "RotateLeft",
                          "RotateRight"} : Plain(op, "Accumulator")
        BY DEF Plain
      <3>3. /\ X(\b00000111) # 6 /\ X(\b00001111) # 6 /\ X(\b00010111) # 6 /\ X(\b00011111) # 6
        BY DEF X
      <3> QED  BY <2>3, <3>1, <3>2, <3>3, ExactlyIs DEF Formless
    <2> QED  BY <2>1, <2>2, <2>3 DEF ExactArithmetic
  <1> QED  BY <1>1, <1>2, <1>5 DEF Exact

\* Opcodes the lookup finds: those of memory at HL, where a pattern would take
\* the code of a register.
LEMMA Special ==
    \A v \in {54, 118, 52, 53, 134, 142, 150, 158, 166, 174, 182, 190} :
        \E row \in Exact : row.opcode = v
  <1>1. \A opcode, op, form : Exactly(opcode, op, form).opcode = opcode
    BY DEF Exactly
  <1>2. ASSUME NEW f \in 0..7 PROVE \E row \in Exact : row.opcode = \b10000110 + 8 * f
    <2>1. Exactly(\b10000110 + 8 * f, Accumulating[f + 1], "IndirectHL") \in Exact
      BY DEF Exact, ExactArithmetic
    <2> QED  BY <1>1, <2>1, Zenon
  <1>3. \A v \in {134, 142, 150, 158, 166, 174, 182, 190} : \E f \in 0..7 : v = \b10000110 + 8 * f
    <2>1. /\ 134 = \b10000110 + 8 * 0 /\ 142 = \b10000110 + 8 * 1
          /\ 150 = \b10000110 + 8 * 2 /\ 158 = \b10000110 + 8 * 3
          /\ 166 = \b10000110 + 8 * 4 /\ 174 = \b10000110 + 8 * 5
          /\ 182 = \b10000110 + 8 * 6 /\ 190 = \b10000110 + 8 * 7
      OBVIOUS
    <2> QED  BY <2>1
  <1>4. /\ Exactly(\b00110110, "LoadFromImmediateData", "IndirectHL") \in Exact
        /\ Exactly(\b01110110, "HaltSystemClock", "") \in Exact
        /\ Exactly(\b00110100, "Increment", "IndirectHL") \in Exact
        /\ Exactly(\b00110101, "Decrement", "IndirectHL") \in Exact
    BY DEF Exact, ExactLoads, ExactControl, ExactArithmetic
  <1>5. 54 = \b00110110 /\ 118 = \b01110110 /\ 52 = \b00110100 /\ 53 = \b00110101
    OBVIOUS
  <1>6. /\ \E row \in Exact : row.opcode = 54
        /\ \E row \in Exact : row.opcode = 118
        /\ \E row \in Exact : row.opcode = 52
        /\ \E row \in Exact : row.opcode = 53
    <2>1. ASSUME NEW opcode, NEW op, NEW form, Exactly(opcode, op, form) \in Exact
          PROVE  \E row \in Exact : row.opcode = opcode
      BY <1>1, <2>1, Zenon
    <2> QED  BY <1>4, <1>5, <2>1
  <1> QED  BY <1>2, <1>3, <1>6

\* A byte and its fields.
LEMMA Fields ==
    ASSUME NEW v \in Byte
    PROVE  /\ v \in Int /\ 0 <= v /\ v <= 255
           /\ X(v) = v % 8 /\ Y(v) = (v \div 8) % 8 /\ Pair(v) = (v \div 16) % 4
           /\ X(v) \in 0..7 /\ Y(v) \in 0..7 /\ Pair(v) \in 0..3
           /\ ConditionCode(v) = (v \div 8) % 4 /\ ConditionCode(v) \in 0..3
  <1>1. v \in Int /\ 0 <= v /\ v <= 255
    BY ByteBounds
  <1> QED  BY <1>1 DEF X, Y, Pair, ConditionCode

LEMMA StdPatternsMean ==
    ASSUME NEW v \in Byte, NEW k \in 1..25, Hits(StdPatterns[k], v),
           \A j \in 1..25 : j < k => ~Hits(StdPatterns[j], v),
           \A row \in Exact : row.opcode # v
    PROVE  StdMeans(v, StdPatterns[k].is[1], StdPatterns[k].is[2])
  <1>1. v \notin {54, 118, 52, 53, 134, 142, 150, 158, 166, 174, 182, 190}
    BY Special
  <1>2. /\ v \in Int /\ 0 <= v /\ v <= 255
        /\ X(v) = v % 8 /\ Y(v) = (v \div 8) % 8
    BY Fields
  <1>3. CASE k = 1
    <2>1. /\ StdPatterns[1].mask = 199 /\ StdPatterns[1].value = 6
          /\ StdPatterns[1].is[1] = "LoadRegister" /\ StdPatterns[1].is[2] = "Immediate"
      BY DEF StdPatterns, Pattern
    <2>2. 64 * (v \div 64) + (v % 8) = 6
      BY <1>3, <2>1, Masks DEF Hits
    <2>3. Y(v) # 6
      BY <1>1, <1>2, <2>2
    <2> QED  BY <1>3, <2>1, <2>3 DEF StdMeans, Accumulator
  <1>4. CASE k = 2
    <2>1. /\ StdPatterns[2].mask = 199 /\ StdPatterns[2].value = 70
          /\ StdPatterns[2].is[1] = "LoadRegister" /\ StdPatterns[2].is[2] = "IndirectHL"
      BY DEF StdPatterns, Pattern
    <2>2. 64 * (v \div 64) + (v % 8) = 70
      BY <1>4, <2>1, Masks DEF Hits
    <2>3. Y(v) # 6
      BY <1>1, <1>2, <2>2
    <2> QED  BY <1>4, <2>1, <2>3 DEF StdMeans, Accumulator
  <1>5. CASE k = 3
    <2>1. /\ StdPatterns[3].mask = 248 /\ StdPatterns[3].value = 112
          /\ StdPatterns[3].is[1] = "LoadFromRegister" /\ StdPatterns[3].is[2] = "IndirectHL"
      BY DEF StdPatterns, Pattern
    <2>2. 8 * (v \div 8) = 112
      BY <1>5, <2>1, Masks DEF Hits
    <2>3. X(v) # 6
      BY <1>1, <1>2, <2>2
    <2> QED  BY <1>5, <2>1, <2>3 DEF StdMeans, Accumulator
  <1>6. CASE k = 4
    <2>1. /\ StdPatterns[4].mask = 192 /\ StdPatterns[4].value = 64
          /\ StdPatterns[4].is[1] = "LoadRegister" /\ StdPatterns[4].is[2] = "Register"
      BY DEF StdPatterns, Pattern
    <2>2. 64 * (v \div 64) = 64
      BY <1>6, <2>1, Masks DEF Hits
    <2>3. X(v) # 6
      <3>1. /\ StdPatterns[2].mask = 199 /\ StdPatterns[2].value = 70
        BY DEF StdPatterns, Pattern
      <3>2. 64 * (v \div 64) + (v % 8) # 70
        BY <1>6, <3>1, Masks DEF Hits
      <3> QED  BY <1>2, <2>2, <3>2
    <2>4. Y(v) # 6
      <3>1. /\ StdPatterns[3].mask = 248 /\ StdPatterns[3].value = 112
        BY DEF StdPatterns, Pattern
      <3>2. 8 * (v \div 8) # 112
        BY <1>6, <3>1, Masks DEF Hits
      <3> QED  BY <1>2, <2>2, <3>2
    <2> QED  BY <1>6, <2>1, <2>3, <2>4 DEF StdMeans, Accumulator
  <1>7. CASE k = 5
    <2>1. /\ StdPatterns[5].mask = 207 /\ StdPatterns[5].value = 1
          /\ StdPatterns[5].is[1] = "Load16bitRegisterOrRegisterPair" /\ StdPatterns[5].is[2] = ""
      BY DEF StdPatterns, Pattern
    <2> QED  BY <1>7, <2>1 DEF StdMeans, Plain, Formless
  <1>8. CASE k = 6
    <2>1. /\ StdPatterns[6].mask = 207 /\ StdPatterns[6].value = 197
          /\ StdPatterns[6].is[1] = "PushToStack" /\ StdPatterns[6].is[2] = ""
      BY DEF StdPatterns, Pattern
    <2> QED  BY <1>8, <2>1 DEF StdMeans, Plain, Formless
  <1>9. CASE k = 7
    <2>1. /\ StdPatterns[7].mask = 207 /\ StdPatterns[7].value = 193
          /\ StdPatterns[7].is[1] = "PopFromStack" /\ StdPatterns[7].is[2] = ""
      BY DEF StdPatterns, Pattern
    <2> QED  BY <1>9, <2>1 DEF StdMeans, Plain, Formless
  <1>10. CASE k = 8
    <2>1. /\ StdPatterns[8].mask = 248 /\ StdPatterns[8].value = 128
          /\ StdPatterns[8].is[1] = "Add" /\ StdPatterns[8].is[2] = "Register"
      BY DEF StdPatterns, Pattern
    <2>2. 8 * (v \div 8) = 128
      BY <1>10, <2>1, Masks DEF Hits
    <2>3. X(v) # 6
      BY <1>1, <1>2, <2>2
    <2> QED  BY <1>10, <2>1, <2>3 DEF StdMeans, Accumulator
  <1>11. CASE k = 9
    <2>1. /\ StdPatterns[9].mask = 248 /\ StdPatterns[9].value = 136
          /\ StdPatterns[9].is[1] = "AddWithCarry" /\ StdPatterns[9].is[2] = "Register"
      BY DEF StdPatterns, Pattern
    <2>2. 8 * (v \div 8) = 136
      BY <1>11, <2>1, Masks DEF Hits
    <2>3. X(v) # 6
      BY <1>1, <1>2, <2>2
    <2> QED  BY <1>11, <2>1, <2>3 DEF StdMeans, Accumulator
  <1>12. CASE k = 10
    <2>1. /\ StdPatterns[10].mask = 248 /\ StdPatterns[10].value = 144
          /\ StdPatterns[10].is[1] = "Sub" /\ StdPatterns[10].is[2] = "Register"
      BY DEF StdPatterns, Pattern
    <2>2. 8 * (v \div 8) = 144
      BY <1>12, <2>1, Masks DEF Hits
    <2>3. X(v) # 6
      BY <1>1, <1>2, <2>2
    <2> QED  BY <1>12, <2>1, <2>3 DEF StdMeans, Accumulator
  <1>13. CASE k = 11
    <2>1. /\ StdPatterns[11].mask = 248 /\ StdPatterns[11].value = 152
          /\ StdPatterns[11].is[1] = "SubWithCarry" /\ StdPatterns[11].is[2] = "Register"
      BY DEF StdPatterns, Pattern
    <2>2. 8 * (v \div 8) = 152
      BY <1>13, <2>1, Masks DEF Hits
    <2>3. X(v) # 6
      BY <1>1, <1>2, <2>2
    <2> QED  BY <1>13, <2>1, <2>3 DEF StdMeans, Accumulator
  <1>14. CASE k = 12
    <2>1. /\ StdPatterns[12].mask = 248 /\ StdPatterns[12].value = 184
          /\ StdPatterns[12].is[1] = "Compare" /\ StdPatterns[12].is[2] = "Register"
      BY DEF StdPatterns, Pattern
    <2>2. 8 * (v \div 8) = 184
      BY <1>14, <2>1, Masks DEF Hits
    <2>3. X(v) # 6
      BY <1>1, <1>2, <2>2
    <2> QED  BY <1>14, <2>1, <2>3 DEF StdMeans, Accumulator
  <1>15. CASE k = 13
    <2>1. /\ StdPatterns[13].mask = 199 /\ StdPatterns[13].value = 4
          /\ StdPatterns[13].is[1] = "Increment" /\ StdPatterns[13].is[2] = "Register"
      BY DEF StdPatterns, Pattern
    <2>2. 64 * (v \div 64) + (v % 8) = 4
      BY <1>15, <2>1, Masks DEF Hits
    <2>3. Y(v) # 6
      BY <1>1, <1>2, <2>2
    <2> QED  BY <1>15, <2>1, <2>3 DEF StdMeans, Accumulator
  <1>16. CASE k = 14
    <2>1. /\ StdPatterns[14].mask = 199 /\ StdPatterns[14].value = 5
          /\ StdPatterns[14].is[1] = "Decrement" /\ StdPatterns[14].is[2] = "Register"
      BY DEF StdPatterns, Pattern
    <2>2. 64 * (v \div 64) + (v % 8) = 5
      BY <1>16, <2>1, Masks DEF Hits
    <2>3. Y(v) # 6
      BY <1>1, <1>2, <2>2
    <2> QED  BY <1>16, <2>1, <2>3 DEF StdMeans, Accumulator
  <1>17. CASE k = 15
    <2>1. /\ StdPatterns[15].mask = 248 /\ StdPatterns[15].value = 160
          /\ StdPatterns[15].is[1] = "And" /\ StdPatterns[15].is[2] = "Register"
      BY DEF StdPatterns, Pattern
    <2>2. 8 * (v \div 8) = 160
      BY <1>17, <2>1, Masks DEF Hits
    <2>3. X(v) # 6
      BY <1>1, <1>2, <2>2
    <2> QED  BY <1>17, <2>1, <2>3 DEF StdMeans, Accumulator
  <1>18. CASE k = 16
    <2>1. /\ StdPatterns[16].mask = 248 /\ StdPatterns[16].value = 176
          /\ StdPatterns[16].is[1] = "Or" /\ StdPatterns[16].is[2] = "Register"
      BY DEF StdPatterns, Pattern
    <2>2. 8 * (v \div 8) = 176
      BY <1>18, <2>1, Masks DEF Hits
    <2>3. X(v) # 6
      BY <1>1, <1>2, <2>2
    <2> QED  BY <1>18, <2>1, <2>3 DEF StdMeans, Accumulator
  <1>19. CASE k = 17
    <2>1. /\ StdPatterns[17].mask = 248 /\ StdPatterns[17].value = 168
          /\ StdPatterns[17].is[1] = "Xor" /\ StdPatterns[17].is[2] = "Register"
      BY DEF StdPatterns, Pattern
    <2>2. 8 * (v \div 8) = 168
      BY <1>19, <2>1, Masks DEF Hits
    <2>3. X(v) # 6
      BY <1>1, <1>2, <2>2
    <2> QED  BY <1>19, <2>1, <2>3 DEF StdMeans, Accumulator
  <1>20. CASE k = 18
    <2>1. /\ StdPatterns[18].mask = 207 /\ StdPatterns[18].value = 3
          /\ StdPatterns[18].is[1] = "Increment16bitRegister" /\ StdPatterns[18].is[2] = ""
      BY DEF StdPatterns, Pattern
    <2> QED  BY <1>20, <2>1 DEF StdMeans, Plain, Formless
  <1>21. CASE k = 19
    <2>1. /\ StdPatterns[19].mask = 207 /\ StdPatterns[19].value = 11
          /\ StdPatterns[19].is[1] = "Decrement16bitRegister" /\ StdPatterns[19].is[2] = ""
      BY DEF StdPatterns, Pattern
    <2> QED  BY <1>21, <2>1 DEF StdMeans, Plain, Formless
  <1>22. CASE k = 20
    <2>1. /\ StdPatterns[20].mask = 207 /\ StdPatterns[20].value = 9
          /\ StdPatterns[20].is[1] = "Add" /\ StdPatterns[20].is[2] = "16bitRegister"
      BY DEF StdPatterns, Pattern
    <2> QED  BY <1>22, <2>1 DEF StdMeans, Plain, Formless
  <1>23. CASE k = 21
    <2>1. /\ StdPatterns[21].mask = 231 /\ StdPatterns[21].value = 194
          /\ StdPatterns[21].is[1] = "Jump" /\ StdPatterns[21].is[2] = "Conditional"
      BY DEF StdPatterns, Pattern
    <2> QED  BY <1>23, <2>1 DEF StdMeans, Plain, Formless
  <1>24. CASE k = 22
    <2>1. /\ StdPatterns[22].mask = 231 /\ StdPatterns[22].value = 32
          /\ StdPatterns[22].is[1] = "RelativeJump" /\ StdPatterns[22].is[2] = "Conditional"
      BY DEF StdPatterns, Pattern
    <2> QED  BY <1>24, <2>1 DEF StdMeans, Plain, Formless
  <1>25. CASE k = 23
    <2>1. /\ StdPatterns[23].mask = 231 /\ StdPatterns[23].value = 196
          /\ StdPatterns[23].is[1] = "CallFunction" /\ StdPatterns[23].is[2] = "Conditional"
      BY DEF StdPatterns, Pattern
    <2> QED  BY <1>25, <2>1 DEF StdMeans, Plain, Formless
  <1>26. CASE k = 24
    <2>1. /\ StdPatterns[24].mask = 231 /\ StdPatterns[24].value = 192
          /\ StdPatterns[24].is[1] = "ReturnFromFunction" /\ StdPatterns[24].is[2] = "Conditional"
      BY DEF StdPatterns, Pattern
    <2> QED  BY <1>26, <2>1 DEF StdMeans, Plain, Formless
  <1>27. CASE k = 25
    <2>1. /\ StdPatterns[25].mask = 199 /\ StdPatterns[25].value = 199
          /\ StdPatterns[25].is[1] = "Restart" /\ StdPatterns[25].is[2] = ""
      BY DEF StdPatterns, Pattern
    <2> QED  BY <1>27, <2>1 DEF StdMeans, Plain, Formless
  <1> QED  BY <1>3, <1>4, <1>5, <1>6, <1>7, <1>8, <1>9, <1>10, <1>11, <1>12, <1>13, <1>14, <1>15,
           <1>16, <1>17, <1>18, <1>19, <1>20, <1>21, <1>22, <1>23, <1>24, <1>25, <1>26, <1>27

\* Every opcode of the first table.
LEMMA StdDecoded == \A v \in Byte : StdMeans(v, StdTable[v][1], StdTable[v][2])
  <1> SUFFICES ASSUME NEW v \in Byte PROVE StdMeans(v, StdTable[v][1], StdTable[v][2])
    OBVIOUS
  <1> DEFINE rows == {row \in Exact : row.opcode = v}
  <1>1. StdTable[v] = IF rows = {} THEN FirstMatch(StdPatterns, v) ELSE (CHOOSE row \in rows : TRUE).is
    BY DEF StdTable
  <1>2. CASE rows # {}
    <2>1. (CHOOSE row \in rows : TRUE) \in rows
      BY <1>2
    <2>2. PICK row \in Exact : row.opcode = v /\ StdTable[v] = row.is
      BY <1>1, <1>2, <2>1
    <2> QED  BY <2>2, ExactPlain DEF StdMeans, RowPlain
  <1>3. CASE rows = {}
    <2>1. \A row \in Exact : row.opcode # v
      BY <1>3
    <2>2. StdTable[v] = FirstMatch(StdPatterns, v)
      BY <1>1, <1>3
    <2>3. DOMAIN StdPatterns = 1..25
      BY DEF StdPatterns
    <2>4. CASE StdTable[v] = <<"Nop", "">>
      <3>1. <<"Nop", "">>[1] = "Nop" /\ <<"Nop", "">>[2] = ""
        OBVIOUS
      <3>2. StdMeans(v, <<"Nop", "">>[1], <<"Nop", "">>[2])
        BY <3>1 DEF StdMeans, Plain, Formless
      <3> QED  BY <2>4, <3>2
    <2>5. CASE \E k \in 1..25 :
                   /\ Hits(StdPatterns[k], v)
                   /\ \A j \in 1..25 : j < k => ~Hits(StdPatterns[j], v)
                   /\ StdTable[v] = StdPatterns[k].is
      BY <2>1, <2>5, StdPatternsMean
    <2> HIDE DEF rows
    <2> QED
      <3>1. 25 \in Nat
        OBVIOUS
      <3>2. \/ FirstMatch(StdPatterns, v) = <<"Nop", "">>
            \/ \E k \in 1..25 :
                   /\ Hits(StdPatterns[k], v)
                   /\ \A j \in 1..25 : j < k => ~Hits(StdPatterns[j], v)
                   /\ FirstMatch(StdPatterns, v) = StdPatterns[k].is
        BY <2>3, <3>1, FirstMatchFirst, Zenon
      <3> QED  BY <2>2, <2>4, <2>5, <3>2
  <1> QED  BY <1>2, <1>3

\* Every opcode of the second.
LEMMA CbDecoded == \A v \in Byte : CbMeans(v, CbTable[v][1], CbTable[v][2])
  <1> SUFFICES ASSUME NEW v \in Byte PROVE CbMeans(v, CbTable[v][1], CbTable[v][2])
    OBVIOUS
  <1>1. /\ v \in Int /\ 0 <= v /\ v <= 255 /\ X(v) = v % 8
    BY Fields
  <1>2. CASE v < 64
    <2>1. CbTable[v] = <<Rotating[v \div 8 + 1], IF v % 8 = 6 THEN "IndirectHL" ELSE "Register">>
      BY <1>2 DEF CbTable
    <2>2. Rotating[v \div 8 + 1] \in Rotations
      <3>1. v \div 8 \in 0..7
        BY <1>1, <1>2
      <3>2. \A f \in 0..7 : Rotating[f + 1] \in Rotations
        BY DEF Rotating, Rotations
      <3> QED  BY <3>1, <3>2
    <2> QED  BY <1>1, <2>1, <2>2 DEF CbMeans
  <1>3. CASE ~(v < 64)
    <2>1. CbTable[v] = FirstMatch(CbPatterns, v)
      BY <1>3 DEF CbTable
    <2>2. DOMAIN CbPatterns = 1..6 /\ 6 \in Nat
      BY DEF CbPatterns
    <2>3. /\ CbPatterns[1].mask = 199 /\ CbPatterns[1].value = 70
          /\ CbPatterns[2].mask = 192 /\ CbPatterns[2].value = 64
          /\ CbPatterns[3].mask = 199 /\ CbPatterns[3].value = 134
          /\ CbPatterns[4].mask = 192 /\ CbPatterns[4].value = 128
          /\ CbPatterns[5].mask = 199 /\ CbPatterns[5].value = 198
          /\ CbPatterns[6].mask = 192 /\ CbPatterns[6].value = 192
      BY DEF CbPatterns, Pattern
    <2>4. /\ CbPatterns[1].is = <<"TestBit", "IndirectHL">>
          /\ CbPatterns[2].is = <<"TestBit", "Register">>
          /\ CbPatterns[3].is = <<"ResetBit", "IndirectHL">>
          /\ CbPatterns[4].is = <<"ResetBit", "Register">>
          /\ CbPatterns[5].is = <<"SetBit", "IndirectHL">>
          /\ CbPatterns[6].is = <<"SetBit", "Register">>
      BY DEF CbPatterns, Pattern
    <2>5. /\ Hits(CbPatterns[1], v) <=> 64 * (v \div 64) + (v % 8) = 70
          /\ Hits(CbPatterns[2], v) <=> 64 * (v \div 64) = 64
          /\ Hits(CbPatterns[3], v) <=> 64 * (v \div 64) + (v % 8) = 134
          /\ Hits(CbPatterns[4], v) <=> 64 * (v \div 64) = 128
          /\ Hits(CbPatterns[5], v) <=> 64 * (v \div 64) + (v % 8) = 198
          /\ Hits(CbPatterns[6], v) <=> 64 * (v \div 64) = 192
      BY <2>3, Masks DEF Hits
    <2>6. ~(\A k \in 1..6 : ~Hits(CbPatterns[k], v))
      <3>1. \/ 64 * (v \div 64) = 64 \/ 64 * (v \div 64) = 128 \/ 64 * (v \div 64) = 192
        BY <1>1, <1>3
      <3> QED  BY <2>5, <3>1
    <2>7. PICK k \in 1..6 : /\ Hits(CbPatterns[k], v)
                            /\ \A j \in 1..6 : j < k => ~Hits(CbPatterns[j], v)
                            /\ CbTable[v] = CbPatterns[k].is
      <3>1. \/ \A k \in 1..6 : ~Hits(CbPatterns[k], v)
            \/ \E k \in 1..6 :
                   /\ Hits(CbPatterns[k], v)
                   /\ \A j \in 1..6 : j < k => ~Hits(CbPatterns[j], v)
                   /\ FirstMatch(CbPatterns, v) = CbPatterns[k].is
        BY <2>2, FirstMatchFirst, Zenon
      <3> QED  BY <2>1, <2>6, <3>1
    <2>8. CbTable[v][2] = "IndirectHL" \/ X(v) # 6
      BY <1>1, <2>4, <2>5, <2>7
    <2>9. CbTable[v][1] \in BitOps /\ CbTable[v][2] \in {"IndirectHL", "Register"}
      BY <2>4, <2>7 DEF BitOps
    <2> QED  BY <2>8, <2>9 DEF CbMeans
  <1> QED  BY <1>2, <1>3

-----------------------------------------------------------------------------
(* What the effects leave alone, and that they stay in range. *)

LEMMA HalfBytes ==
    /\ \A w \in Word : High(w) \in Byte /\ Low(w) \in Byte
    /\ \A h, l \in Byte : Join(h, l) \in Word
  <1>1. ASSUME NEW w \in Word PROVE High(w) \in Byte /\ Low(w) \in Byte
    <2>1. w \in Int /\ 0 <= w /\ w <= 65535
      BY WordBounds
    <2> QED  BY <2>1, ByteBounds DEF High, Low
  <1>2. ASSUME NEW h \in Byte, NEW l \in Byte PROVE Join(h, l) \in Word
    <2>1. h \in Int /\ 0 <= h /\ h <= 255 /\ l \in Int /\ 0 <= l /\ l <= 255
      BY ByteBounds
    <2> QED  BY <2>1, WordBounds DEF Join
  <1> QED  BY <1>1, <1>2

LEMMA WordSteps == \A w \in Word : Increment(w) \in Word /\ Decrement(w) \in Word
  <1> SUFFICES ASSUME NEW w \in Word PROVE Increment(w) \in Word /\ Decrement(w) \in Word
    OBVIOUS
  <1>1. w \in Int /\ 0 <= w /\ w <= 65535
    BY WordBounds
  <1> QED  BY <1>1, WordBounds DEF Increment, Decrement

Flags == SUBSET {ZF, NF, HF, CF}

LEMMA FlagsSet ==
    ASSUME NEW F \in Flags, NEW z, NEW n, NEW h, NEW c
    PROVE  SetFlags(F, z, n, h, c) \in Flags
  BY DEF Flags, SetFlags, SetFlag

\* A byte of registers r, the flags, the words.
LEMMA Fits ==
    ASSUME NEW r \in Registers
    PROVE  /\ r.A \in Byte /\ r.B \in Byte /\ r.C \in Byte /\ r.D \in Byte /\ r.E \in Byte
           /\ r.H \in Byte /\ r.L \in Byte /\ r.IR \in Byte /\ r.Z \in Byte /\ r.W \in Byte
           /\ r.F \in Flags /\ r.SP \in Word /\ r.PC \in Word
  BY DEF Registers, Flags

\* Writing one of them.
LEMMA Stored ==
    ASSUME NEW r \in Registers
    PROVE  /\ \A b \in Byte : /\ [r EXCEPT !.A = b] \in Registers /\ [r EXCEPT !.B = b] \in Registers
                              /\ [r EXCEPT !.C = b] \in Registers /\ [r EXCEPT !.D = b] \in Registers
                              /\ [r EXCEPT !.E = b] \in Registers /\ [r EXCEPT !.H = b] \in Registers
                              /\ [r EXCEPT !.L = b] \in Registers /\ [r EXCEPT !.Z = b] \in Registers
                              /\ [r EXCEPT !.W = b] \in Registers /\ [r EXCEPT !.IR = b] \in Registers
           /\ \A w \in Word : [r EXCEPT !.SP = w] \in Registers /\ [r EXCEPT !.PC = w] \in Registers
           /\ \A F \in Flags : [r EXCEPT !.F = F] \in Registers
  BY DEF Registers, Flags

\* The registers that only jumps and the stack move.
Keeps(s, r) == s \in Registers /\ s.PC = r.PC /\ s.SP = r.SP /\ s.IR = r.IR

LEMMA Kept ==
    ASSUME NEW r \in Registers
    PROVE  /\ \A b \in Byte : /\ Keeps([r EXCEPT !.A = b], r) /\ Keeps([r EXCEPT !.B = b], r)
                              /\ Keeps([r EXCEPT !.C = b], r) /\ Keeps([r EXCEPT !.D = b], r)
                              /\ Keeps([r EXCEPT !.E = b], r) /\ Keeps([r EXCEPT !.H = b], r)
                              /\ Keeps([r EXCEPT !.L = b], r) /\ Keeps([r EXCEPT !.Z = b], r)
                              /\ Keeps([r EXCEPT !.W = b], r)
           /\ \A F \in Flags : Keeps([r EXCEPT !.F = F], r)
           /\ \A b \in Byte, F \in Flags : /\ Keeps([r EXCEPT !.A = b, !.F = F], r)
                                           /\ Keeps([r EXCEPT !.H = b, !.F = F], r)
                                           /\ Keeps([r EXCEPT !.L = b, !.F = F], r)
           /\ \A b, c \in Byte : /\ Keeps([r EXCEPT !.B = b, !.C = c], r)
                                 /\ Keeps([r EXCEPT !.D = b, !.E = c], r)
                                 /\ Keeps([r EXCEPT !.H = b, !.L = c], r)
                                 /\ Keeps([r EXCEPT !.W = b, !.Z = c], r)
           /\ Keeps(r, r)
  <1>1. \A b \in Byte : /\ Keeps([r EXCEPT !.A = b], r) /\ Keeps([r EXCEPT !.B = b], r)
                        /\ Keeps([r EXCEPT !.C = b], r) /\ Keeps([r EXCEPT !.D = b], r)
                        /\ Keeps([r EXCEPT !.E = b], r) /\ Keeps([r EXCEPT !.H = b], r)
                        /\ Keeps([r EXCEPT !.L = b], r) /\ Keeps([r EXCEPT !.Z = b], r)
                        /\ Keeps([r EXCEPT !.W = b], r)
    BY DEF Registers, Keeps
  <1>2. \A F \in Flags : Keeps([r EXCEPT !.F = F], r)
    BY DEF Registers, Keeps, Flags
  <1>3. \A b \in Byte, F \in Flags : /\ Keeps([r EXCEPT !.A = b, !.F = F], r)
                                     /\ Keeps([r EXCEPT !.H = b, !.F = F], r)
                                     /\ Keeps([r EXCEPT !.L = b, !.F = F], r)
    BY DEF Registers, Keeps, Flags
  <1>4. \A b, c \in Byte : /\ Keeps([r EXCEPT !.B = b, !.C = c], r)
                           /\ Keeps([r EXCEPT !.D = b, !.E = c], r)
                           /\ Keeps([r EXCEPT !.H = b, !.L = c], r)
                           /\ Keeps([r EXCEPT !.W = b, !.Z = c], r)
    BY DEF Registers, Keeps
  <1> QED  BY <1>1, <1>2, <1>3, <1>4 DEF Keeps

LEMMA PairWords ==
    ASSUME NEW r \in Registers
    PROVE  /\ BC(r) \in Word /\ DE(r) \in Word /\ HL(r) \in Word /\ WZ(r) \in Word
           /\ AF(r) \in Word
  <1>1. BC(r) \in Word /\ DE(r) \in Word /\ HL(r) \in Word /\ WZ(r) \in Word
    BY Fits, HalfBytes DEF BC, DE, HL, WZ
  <1>2. AF(r) \in Word
    BY Fits, HalfBytes, ValueByte DEF AF
  <1> QED  BY <1>1, <1>2

LEMMA Pairs ==
    ASSUME NEW r \in Registers, NEW w \in Word
    PROVE  /\ Keeps(SetBC(r, w), r) /\ Keeps(SetDE(r, w), r) /\ Keeps(SetHL(r, w), r)
           /\ Keeps(SetWZ(r, w), r) /\ Keeps(SetAF(r, w), r)
  <1>1. /\ Keeps(SetBC(r, w), r) /\ Keeps(SetDE(r, w), r) /\ Keeps(SetHL(r, w), r)
        /\ Keeps(SetWZ(r, w), r)
    BY Kept, HalfBytes DEF SetBC, SetDE, SetHL, SetWZ
  <1>2. Keeps(SetAF(r, w), r)
    <2>1. Bits(Low(w)) \ 0..3 \in Flags
      BY DEF Flags, Bits, ZF, NF, HF, CF
    <2> QED  BY <2>1, Kept, HalfBytes DEF SetAF
  <1> QED  BY <1>1, <1>2

\* By code.
LEMMA PairsByCode ==
    ASSUME NEW r \in Registers, NEW w \in Word, NEW code \in 0..3
    PROVE  /\ R16(r, code) \in Word /\ R16stk(r, code) \in Word
           /\ code # 3 => Keeps(SetR16(r, code, w), r)
           /\ code = 3 => SetR16(r, code, w) = [r EXCEPT !.SP = w] /\ R16(r, code) = r.SP
           /\ Keeps(SetR16stk(r, code, w), r)
  <1>1. R16(r, code) \in Word
    <2>1. BC(r) \in Word /\ DE(r) \in Word /\ HL(r) \in Word /\ r.SP \in Word
      BY Fits, PairWords
    <2>2. code = 0 \/ code = 1 \/ code = 2 \/ code = 3
      OBVIOUS
    <2> HIDE DEF Word
    <2> QED  BY <2>1, <2>2 DEF R16
  <1>2. R16stk(r, code) \in Word
    BY <1>1, PairWords DEF R16stk
  <1>3. code # 3 => Keeps(SetR16(r, code, w), r)
    BY Pairs DEF SetR16
  <1>4. code = 3 => SetR16(r, code, w) = [r EXCEPT !.SP = w] /\ R16(r, code) = r.SP
    BY DEF SetR16, R16
  <1>5. Keeps(SetR16stk(r, code, w), r)
    BY <1>3, Pairs DEF SetR16stk
  <1> QED  BY <1>1, <1>2, <1>3, <1>4, <1>5

LEMMA BytesByCode ==
    ASSUME NEW r \in Registers, NEW b \in Byte, NEW code \in 0..7, code # 6
    PROVE  /\ R8(r, code) \in Byte
           /\ Keeps(SetR8(r, code, b), r)
  <1>1. \/ R8Name[code + 1] = "B" \/ R8Name[code + 1] = "C" \/ R8Name[code + 1] = "D"
        \/ R8Name[code + 1] = "E" \/ R8Name[code + 1] = "H" \/ R8Name[code + 1] = "L"
        \/ R8Name[code + 1] = "A"
    BY DEF R8Name
  <1>2. R8(r, code) \in Byte
    BY <1>1, Fits DEF R8
  <1>3. Keeps(SetR8(r, code, b), r)
    BY <1>1, Kept DEF SetR8
  <1> QED  BY <1>2, <1>3

\* Sums, and a carry as a number.
LEMMA SumsFit ==
    ASSUME NEW a \in Int, NEW b \in Int, NEW c \in Int
    PROVE  Add(a, b, c).value \in Byte /\ Sub(a, b, c).value \in Byte
  <1>1. /\ Add(a, b, c).value = (a + b + c) % 256
        /\ Sub(a, b, c).value = (a - b - c) % 256
    BY DEF Add, Sub
  <1>2. \A s \in Int : s % 256 \in Byte
    BY ByteBounds
  <1> QED  BY <1>1, <1>2

LEMMA Numbers ==
    /\ \A F : Carry(F) \in {0, 1} /\ Carry(F) \in Int
    /\ \A b \in Byte : b \in Int
    /\ \A w \in Word : w \in Int
  BY ByteBounds, WordBounds DEF Carry

\* Sets of instructions that the cycles and the kinds go by.
LEMMA FamilySets ==
    /\ \A op : op \in {Accumulating[n] : n \in DOMAIN Accumulating} <=> op \in Accumulator
    /\ \A op : op \in Modifying <=> op \in Rotations \cup BitOps \cup {"Increment", "Decrement"}
  <1>1. \A op : op \in {Accumulating[n] : n \in DOMAIN Accumulating} <=> op \in Accumulator
    BY DEF Accumulating, Accumulator
  <1>2. \A op : op \in {Rotating[n] : n \in DOMAIN Rotating} <=> op \in Rotations
    BY DEF Rotating, Rotations
  <1>3. \A op : op \in Modifying <=> \/ op \in {"Increment", "Decrement", "TestBit", "ResetBit", "SetBit"}
                                     \/ op \in {Rotating[n] : n \in DOMAIN Rotating}
    BY DEF Modifying
  <1>4. \A op : op \in Modifying <=> \/ op \in {"Increment", "Decrement", "TestBit", "ResetBit", "SetBit"}
                                     \/ op \in Rotations
    BY <1>2, <1>3, Zenon
  <1> QED  BY <1>1, <1>4 DEF BitOps

LEMMA AccumulateKeeps ==
    ASSUME NEW r \in Registers, NEW b \in Byte, NEW op \in Accumulator
    PROVE  Keeps(Accumulate(op, r, b), r)
  <1>1. /\ r.A \in Byte /\ r.F \in Flags
    BY Fits
  <1>2. ASSUME NEW c \in {0, 1} PROVE Keeps(AddTo(r, b, c), r)
    <2>1. Add(r.A, b, c).value \in Byte
      BY <1>1, SumsFit, Numbers
    <2> QED  BY <1>1, <2>1, Kept, FlagsSet DEF AddTo
  <1>3. ASSUME NEW c \in {0, 1} PROVE Keeps(SubFrom(r, b, c), r) /\ SubFrom(r, b, c).F \in Flags
    <2>1. Sub(r.A, b, c).value \in Byte
      BY <1>1, SumsFit, Numbers
    <2>2. Keeps(SubFrom(r, b, c), r)
      BY <1>1, <2>1, Kept, FlagsSet DEF SubFrom
    <2> QED  BY <2>2, Fits DEF Keeps
  <1>4. Keeps(CompareWith(r, b), r)
    BY <1>3, Kept DEF CompareWith
  <1>5. ASSUME op \in {"And", "Or", "Xor"} PROVE Keeps(Logical(op, r, b), r)
    <2> DEFINE value == CASE op = "And" -> And(r.A, b) [] op = "Or" -> Or(r.A, b) [] op = "Xor" -> Xor(r.A, b)
    <2>1. value \in Byte
      BY <1>5, ValueByte DEF And, Or, Xor
    <2>2. Logical(op, r, b) =
              [r EXCEPT !.A = value, !.F = SetFlags(@, value = 0, FALSE, op = "And", FALSE)]
      BY DEF Logical
    <2> DEFINE F == SetFlags(r.F, value = 0, FALSE, op = "And", FALSE)
    <2>3. F \in Flags
      BY <1>1, FlagsSet
    <2>4. Logical(op, r, b) = [r EXCEPT !.A = value, !.F = F]
      BY <2>2
    <2> HIDE DEF value, F
    <2> QED  BY <2>1, <2>3, <2>4, Kept
  <1>6. CASE op \in {"And", "Or", "Xor"}
    BY <1>5, <1>6 DEF Accumulate
  <1>7. CASE op \in {"Add", "AddWithCarry", "Sub", "SubWithCarry", "Compare"}
    BY <1>2, <1>3, <1>4, <1>7, Numbers DEF Accumulate
  <1> QED  BY <1>6, <1>7 DEF Accumulator

\* Rotations and shifts of a byte.
LEMMA RotatedFits ==
    ASSUME NEW b \in Byte, NEW F \in Flags, NEW op \in Rotations
    PROVE  Rotated(op, b, F).value \in Byte /\ Rotated(op, b, F).F \in Flags
  <1>1. b \in Int /\ 0 <= b /\ b <= 255 /\ Carry(F) \in {0, 1}
    BY ByteBounds, Numbers
  <1> DEFINE turned == CASE op = "RotateLeftCircular"  -> RotateLeftCircular(b)
                         [] op = "RotateRightCircular" -> RotateRightCircular(b)
                         [] op = "RotateLeft"  -> RotateLeft(b, Carry(F))
                         [] op = "RotateRight" -> RotateRight(b, Carry(F))
                         [] op = "ShiftLeftArithmetic"  -> ShiftLeftA(b)
                         [] op = "ShiftRightArithmetic" -> ShiftRightA(b)
                         [] op = "ShiftRightLogical"    -> ShiftRightL(b)
                         [] op = "SwapNibbles" -> SwapNibbles(b)
  <1>2. /\ RotateLeftCircular(b).value \in Byte /\ RotateRightCircular(b).value \in Byte
        /\ RotateLeft(b, Carry(F)).value \in Byte /\ RotateRight(b, Carry(F)).value \in Byte
        /\ ShiftLeftA(b).value \in Byte /\ ShiftRightA(b).value \in Byte
        /\ ShiftRightL(b).value \in Byte /\ SwapNibbles(b).value \in Byte
    BY <1>1, ByteBounds DEF RotateLeftCircular, RotateRightCircular, RotateLeft, RotateRight,
       ShiftLeftA, ShiftRightA, ShiftRightL, SwapNibbles
  <1>3. turned.value \in Byte
    BY <1>2 DEF Rotations
  <1>4. Rotated(op, b, F) = [value |-> turned.value,
                             F |-> SetFlags(F, turned.value = 0, FALSE, FALSE, turned.carry)]
    BY DEF Rotated
  <1> HIDE DEF turned
  <1>5. SetFlags(F, turned.value = 0, FALSE, FALSE, turned.carry) \in Flags
    BY FlagsSet
  <1>6. /\ Rotated(op, b, F).value = turned.value
        /\ Rotated(op, b, F).F = SetFlags(F, turned.value = 0, FALSE, FALSE, turned.carry)
    BY <1>4
  <1> QED  BY <1>3, <1>5, <1>6

LEMMA ModifiedFits ==
    ASSUME NEW b \in Byte, NEW F \in Flags, NEW op \in Modifying, NEW v,
           NEW form, form = "Accumulator" => op \in Rotations
    PROVE  Modified(op, form, v, b, F).value \in Byte /\ Modified(op, form, v, b, F).F \in Flags
  <1>1. CASE op \in {"Increment", "Decrement"}
    <2>1. Add(b, 1, 0).value \in Byte /\ Sub(b, 1, 0).value \in Byte
      BY SumsFit, Numbers
    <2>2. Counted(op, b, F).value \in Byte /\ Counted(op, b, F).F \in Flags
      BY <1>1, <2>1, FlagsSet DEF Counted
    <2> QED  BY <1>1, <2>2 DEF Modified, Rotations
  <1>2. CASE op = "TestBit"
    <2>1. TestedBit(b, Y(v), F).value \in Byte /\ TestedBit(b, Y(v), F).F \in Flags
      BY FlagsSet DEF TestedBit
    <2> QED  BY <1>2, <2>1 DEF Modified, Rotations
  <1>3. CASE op \in {"ResetBit", "SetBit"}
    <2>1. ResetBit(b, Y(v)) \in Byte /\ SetBit(b, Y(v)) \in Byte
      BY ValueByte DEF ResetBit, SetBit
    <2> QED  BY <1>3, <2>1 DEF Modified, Rotations
  <1>4. CASE op \in Rotations
    <2>1. Rotated(op, b, F).value \in Byte /\ Rotated(op, b, F).F \in Flags
      BY <1>4, RotatedFits
    <2>2. Modified(op, form, v, b, F) =
              IF form = "Accumulator" THEN [Rotated(op, b, F) EXCEPT !.F = @ \ {ZF}]
                                      ELSE Rotated(op, b, F)
      BY <1>4 DEF Modified, Rotations
    <2>3. CASE form = "Accumulator"
      <3>1. Rotated(op, b, F).F \ {ZF} \in Flags
        BY <2>1 DEF Flags
      <3>2. \A turned, set : turned.value \in Byte /\ turned.F \in Flags /\ set \in Flags =>
                [turned EXCEPT !.F = set].value \in Byte
        OBVIOUS
      <3>3. Modified(op, form, v, b, F).value \in Byte
        BY <2>1, <2>2, <2>3 DEF Rotated
      <3>4. Modified(op, form, v, b, F).F = Rotated(op, b, F).F \ {ZF}
        BY <2>1, <2>2, <2>3 DEF Rotated
      <3> QED  BY <3>1, <3>3, <3>4
    <2> QED  BY <2>1, <2>2, <2>3
  <1> QED  BY <1>1, <1>2, <1>3, <1>4, FamilySets DEF BitOps

LEMMA DecimalFits ==
    ASSUME NEW a \in Byte, NEW F \in Flags
    PROVE  DecimalAdjust(a, F).value \in Byte /\ DecimalAdjust(a, F).F \in Flags
  <1>1. a \in Int /\ 0 <= a /\ a <= 255
    BY ByteBounds
  <1> DEFINE low == IF NF \in F
                    THEN IF HF \notin F THEN a ELSE IF CF \in F THEN a - 6 ELSE (a - 6) % 256
                    ELSE IF HF \in F \/ (a % 16) > 9 THEN a + 6 ELSE a
             tmp == IF NF \in F
                    THEN IF CF \in F THEN low - 96 ELSE low
                    ELSE IF CF \in F \/ low > 159 THEN low + 96 ELSE low
             carry == CF \in F \/ (tmp \div 256) % 2 = 1
  <1>2. tmp \in Int
    <2>1. low \in Int
      BY <1>1
    <2> HIDE DEF low
    <2> QED  BY <2>1
  <1>3. /\ DecimalAdjust(a, F).value = tmp % 256
        /\ DecimalAdjust(a, F).F = SetFlag(SetFlag(F \ {HF}, CF, carry), ZF, tmp % 256 = 0)
    BY DEF DecimalAdjust
  <1> HIDE DEF tmp, carry
  <1>4. tmp % 256 \in Byte
    BY <1>2, ByteBounds
  <1>5. SetFlag(SetFlag(F \ {HF}, CF, carry), ZF, tmp % 256 = 0) \in Flags
    BY DEF SetFlag, Flags
  <1> QED  BY <1>3, <1>4, <1>5

LEMMA AdjustKeeps ==
    ASSUME NEW r \in Registers, NEW w \in Word
    PROVE  /\ Keeps(AdjustLow(r), r) /\ Keeps(AdjustHigh(r), r)
           /\ Keeps(AddLow(r, w), r) /\ Keeps(AddHigh(r, w), r)
  <1>1. /\ r.H \in Byte /\ r.L \in Byte /\ r.Z \in Byte /\ r.F \in Flags /\ {} \in Flags
        /\ r.SP \in Word /\ Low(r.SP) \in Byte /\ High(r.SP) \in Byte
        /\ Low(w) \in Byte /\ High(w) \in Byte
    BY Fits, HalfBytes DEF Flags
  <1>2. \A b, c \in Byte : /\ Add(b, c, 0).value \in Byte
                           /\ Add(b, c, Carry(r.F)).value \in Byte
    BY SumsFit, Numbers
  <1>3. Keeps(AdjustLow(r), r)
    BY <1>1, <1>2, Kept, FlagsSet DEF AdjustLow
  <1>4. Keeps(AdjustHigh(r), r)
    <2>1. 0 \in Byte /\ 255 \in Byte
      BY ByteBounds
    <2>2. Add(High(r.SP), IF r.Z > 127 THEN 255 ELSE 0, Carry(r.F)).value \in Byte
      BY <1>1, <1>2, <2>1
    <2> QED  BY <2>2, Kept DEF AdjustHigh
  <1>5. Keeps(AddLow(r, w), r)
    BY <1>1, <1>2, Kept, FlagsSet DEF AddLow
  <1>6. Keeps(AddHigh(r, w), r)
    BY <1>1, <1>2, Kept, FlagsSet DEF AddHigh
  <1> QED  BY <1>3, <1>4, <1>5, <1>6

LEMMA ModifyKeeps ==
    ASSUME NEW r \in Registers, NEW v \in Byte, NEW op \in Modifying,
           NEW form, form = "Accumulator" => op \in Rotations, ModifiedCode(op, v) # 6
    PROVE  Keeps(ModifyRegister(op, form, v, r), r)
  <1> DEFINE code == ModifiedCode(op, v)
             modified == Modified(op, form, v, R8(r, code), r.F)
             flagged == [r EXCEPT !.F = modified.F]
  <1>1. code \in 0..7 /\ code # 6
    BY Fields DEF ModifiedCode
  <1>2. ModifyRegister(op, form, v, r) = SetR8(flagged, code, modified.value)
    BY DEF ModifyRegister
  <1> HIDE DEF code
  <1>3. R8(r, code) \in Byte
    <2>1. 0 \in Byte
      BY ByteBounds
    <2> QED  BY <1>1, <2>1, BytesByCode
  <1>4. modified.value \in Byte /\ modified.F \in Flags
    BY <1>3, Fits, ModifiedFits
  <1> HIDE DEF modified
  <1>5. Keeps(flagged, r)
    BY <1>4, Kept
  <1> HIDE DEF flagged
  <1>6. flagged \in Registers
    BY <1>5 DEF Keeps
  <1>7. Keeps(SetR8(flagged, code, modified.value), flagged)
    BY <1>1, <1>4, <1>6, BytesByCode
  <1> QED  BY <1>2, <1>5, <1>7 DEF Keeps

LEMMA SignedSums ==
    ASSUME NEW w \in Word, NEW b \in Byte
    PROVE  (w + Signed(b)) % 65536 \in Word
  <1>1. w \in Int /\ b \in Int
    BY Numbers
  <1>2. Signed(b) \in Int
    BY <1>1 DEF Signed
  <1> QED  BY <1>1, <1>2, WordBounds

-----------------------------------------------------------------------------
(* The effects by what they do to PC and SP. *)

\* Those that leave both alone, in an instruction that may have them.
Quiet(e, op, form, v) ==
    \/ e \in {"", "A=Z", "r16stk=WZ", "HL+", "HL-", "WZ+", "WZ=PC+Z", "CCF", "SCF", "CPL", "DAA",
              "L=SP+Z", "H=SP+Z", "L+r16", "H+r16"}
    \/ e = "r8=Z" /\ Y(v) # 6
    \/ e = "r8=r8" /\ X(v) # 6 /\ Y(v) # 6
    \/ e \in {"r16=WZ", "r16+", "r16-"} /\ Pair(v) # 3
    \/ e = "accumulate" /\ op \in Accumulator /\ (form = "Register" => X(v) # 6)
    \/ /\ e = "modify" /\ op \in Modifying /\ ModifiedCode(op, v) # 6
       /\ form = "Accumulator" => op \in Rotations
    \/ e = "flags" /\ op \in Modifying /\ form # "Accumulator"

LEMMA LoadsKeep ==
    ASSUME NEW r \in Registers, NEW v \in Byte, NEW op, NEW form, NEW e \in Loads, Quiet(e, op, form, v)
    PROVE  Keeps(Effect(e, r, v, op, form), r)
  <1>1. Effect(e, r, v, op, form) = LoadEffect(e, r, v)
    BY DEF Effect, Loads
  <1>2. /\ X(v) \in 0..7 /\ Y(v) \in 0..7 /\ Pair(v) \in 0..3 /\ r.Z \in Byte
    BY Fields, Fits
  <1>3. CASE e = "r8=r8"
    <2>1. X(v) # 6 /\ Y(v) # 6
      BY <1>3 DEF Quiet
    <2>2. R8(r, X(v)) \in Byte
      BY <1>2, <2>1, BytesByCode
    <2>3. Keeps(SetR8(r, Y(v), R8(r, X(v))), r)
      BY <1>2, <2>1, <2>2, BytesByCode
    <2> QED  BY <1>1, <1>3, <2>3 DEF LoadEffect
  <1>4. CASE e = "r8=Z"
    <2>1. Y(v) # 6
      BY <1>4 DEF Quiet
    <2>2. Keeps(SetR8(r, Y(v), r.Z), r)
      BY <1>2, <2>1, BytesByCode
    <2> QED  BY <1>1, <1>4, <2>2 DEF LoadEffect
  <1>5. CASE e = "A=Z"
    BY <1>1, <1>2, <1>5, Kept DEF LoadEffect
  <1>6. CASE e = "r16=WZ"
    <2>1. Pair(v) # 3 /\ WZ(r) \in Word
      BY <1>6, PairWords DEF Quiet
    <2>2. Keeps(SetR16(r, Pair(v), WZ(r)), r)
      BY <1>2, <2>1, PairsByCode
    <2> QED  BY <1>1, <1>6, <2>2 DEF LoadEffect
  <1>7. CASE e = "r16stk=WZ"
    <2>1. WZ(r) \in Word
      BY PairWords
    <2>2. Keeps(SetR16stk(r, Pair(v), WZ(r)), r)
      BY <1>2, <2>1, PairsByCode
    <2> QED  BY <1>1, <1>7, <2>2 DEF LoadEffect
  <1>8. CASE e = "SP=HL"
    BY <1>8 DEF Quiet
  <1> QED  BY <1>3, <1>4, <1>5, <1>6, <1>7, <1>8 DEF Loads

LEMMA ArithmeticKeeps ==
    ASSUME NEW r \in Registers, NEW v \in Byte, NEW op, NEW form,
           NEW e \in Arithmetic, Quiet(e, op, form, v)
    PROVE  Keeps(Effect(e, r, v, op, form), r)
  <1>1. Effect(e, r, v, op, form) = ArithmeticEffect(e, r, v, op, form)
    BY DEF Effect, Arithmetic, Loads
  <1>2. /\ X(v) \in 0..7 /\ Pair(v) \in 0..3 /\ r.Z \in Byte /\ r.A \in Byte /\ r.F \in Flags
    BY Fields, Fits
  <1>3. CASE e = "accumulate"
    <2> DEFINE b == IF form = "Register" THEN R8(r, X(v)) ELSE r.Z
    <2>1. op \in Accumulator /\ (form = "Register" => X(v) # 6)
      BY <1>3 DEF Quiet
    <2>2. b \in Byte
      BY <1>2, <2>1, BytesByCode
    <2>3. Effect(e, r, v, op, form) = Accumulate(op, r, b)
      BY <1>1, <1>3 DEF ArithmeticEffect
    <2> HIDE DEF b
    <2> QED  BY <2>1, <2>2, <2>3, AccumulateKeeps
  <1>4. CASE e = "modify"
    <2>1. /\ op \in Modifying /\ ModifiedCode(op, v) # 6
          /\ form = "Accumulator" => op \in Rotations
      BY <1>4 DEF Quiet
    <2>2. Keeps(ModifyRegister(op, form, v, r), r)
      BY <2>1, ModifyKeeps
    <2> QED  BY <1>1, <1>4, <2>2 DEF ArithmeticEffect
  <1>5. CASE e = "flags"
    <2>1. Modified(op, form, v, r.Z, r.F).F \in Flags
      BY <1>2, <1>5, ModifiedFits DEF Quiet
    <2>2. Effect(e, r, v, op, form) = [r EXCEPT !.F = Modified(op, form, v, r.Z, r.F).F]
      BY <1>1, <1>5 DEF ArithmeticEffect
    <2> QED  BY <2>1, <2>2, Kept
  <1>6. CASE e \in {"CCF", "SCF"}
    BY <1>1, <1>2, <1>6, Kept, FlagsSet DEF ArithmeticEffect
  <1>7. CASE e = "CPL"
    <2>1. Not(r.A) \in Byte /\ r.F \cup {NF, HF} \in Flags
      BY <1>2, ByteBounds DEF Not, Flags
    <2>2. Effect(e, r, v, op, form) = [r EXCEPT !.A = Not(r.A), !.F = r.F \cup {NF, HF}]
      BY <1>1, <1>7 DEF ArithmeticEffect
    <2> QED  BY <2>1, <2>2, Kept
  <1>8. CASE e = "DAA"
    <2>1. DecimalAdjust(r.A, r.F).value \in Byte /\ DecimalAdjust(r.A, r.F).F \in Flags
      BY <1>2, DecimalFits
    <2>2. Effect(e, r, v, op, form) =
              [r EXCEPT !.A = DecimalAdjust(r.A, r.F).value, !.F = DecimalAdjust(r.A, r.F).F]
      BY <1>1, <1>8 DEF ArithmeticEffect
    <2> QED  BY <2>1, <2>2, Kept
  <1>9. CASE e \in {"L=SP+Z", "H=SP+Z"}
    <2>1. 0 \in Word
      BY WordBounds
    <2>2. Keeps(AdjustLow(r), r) /\ Keeps(AdjustHigh(r), r)
      BY <2>1, AdjustKeeps
    <2> QED  BY <1>1, <1>9, <2>2 DEF ArithmeticEffect
  <1>10. CASE e \in {"L+r16", "H+r16"}
    <2>1. R16(r, Pair(v)) \in Word
      <3>1. 0 \in Word
        BY WordBounds
      <3> QED  BY <1>2, <3>1, PairsByCode
    <2>2. Keeps(AddLow(r, R16(r, Pair(v))), r) /\ Keeps(AddHigh(r, R16(r, Pair(v))), r)
      BY <2>1, AdjustKeeps
    <2> QED  BY <1>1, <1>10, <2>2 DEF ArithmeticEffect
  <1>11. CASE e = "SP+Z"
    BY <1>11 DEF Quiet
  <1> QED  BY <1>3, <1>4, <1>5, <1>6, <1>7, <1>8, <1>9, <1>10, <1>11 DEF Arithmetic

LEMMA QuietKeeps ==
    ASSUME NEW r \in Registers, NEW v \in Byte, NEW op, NEW form, NEW e, Quiet(e, op, form, v)
    PROVE  Keeps(Effect(e, r, v, op, form), r)
  <1>1. CASE e = ""
    BY <1>1, Kept DEF Effect
  <1>2. CASE e \in Loads
    BY <1>2, LoadsKeep
  <1>3. CASE e \in Arithmetic
    BY <1>3, ArithmeticKeeps
  <1>4. CASE e \in {"HL+", "HL-", "WZ+", "WZ=PC+Z", "r16+", "r16-"}
    <2>1. Effect(e, r, v, op, form) = PointerEffect(e, r, v)
      BY <1>4 DEF Effect, Loads, Arithmetic
    <2>2. /\ HL(r) \in Word /\ WZ(r) \in Word /\ r.PC \in Word /\ r.Z \in Byte /\ Pair(v) \in 0..3
      BY Fits, Fields, PairWords
    <2>3. /\ Increment(HL(r)) \in Word /\ Decrement(HL(r)) \in Word /\ Increment(WZ(r)) \in Word
          /\ (r.PC + Signed(r.Z)) % 65536 \in Word
      BY <2>2, WordSteps, SignedSums
    <2>4. CASE e \in {"HL+", "HL-", "WZ+", "WZ=PC+Z"}
      BY <2>1, <2>3, <2>4, Pairs DEF PointerEffect
    <2>5. CASE e \in {"r16+", "r16-"}
      <3>1. Pair(v) # 3
        BY <2>5 DEF Quiet
      <3>2. R16(r, Pair(v)) \in Word
        BY <2>2, PairsByCode
      <3>3. Increment(R16(r, Pair(v))) \in Word /\ Decrement(R16(r, Pair(v))) \in Word
        BY <3>2, WordSteps
      <3>4. /\ Keeps(SetR16(r, Pair(v), Increment(R16(r, Pair(v)))), r)
            /\ Keeps(SetR16(r, Pair(v), Decrement(R16(r, Pair(v)))), r)
        BY <2>2, <3>1, <3>3, PairsByCode
      <3> QED  BY <2>1, <2>5, <3>4 DEF PointerEffect
    <2> QED  BY <1>4, <2>4, <2>5
  <1> QED  BY <1>1, <1>2, <1>3, <1>4 DEF Quiet, Loads, Arithmetic

\* Those that move SP, and what the others make of PC and SP.
SetsSP(e, v) ==
    \/ e \in {"SP=HL", "SP+Z"}
    \/ e \in {"r16=WZ", "r16+", "r16-"} /\ Pair(v) = 3

MovesSP(s, r) == s \in Registers /\ s.PC = r.PC /\ s.IR = r.IR
MovesPC(s, r) == s \in Registers /\ s.SP = r.SP /\ s.IR = r.IR

LEMMA WordsStored ==
    ASSUME NEW r \in Registers, NEW w \in Word
    PROVE  /\ MovesSP([r EXCEPT !.SP = w], r) /\ [r EXCEPT !.SP = w].SP = w
           /\ MovesPC([r EXCEPT !.PC = w], r) /\ [r EXCEPT !.PC = w].PC = w
  BY Stored DEF Registers, MovesSP, MovesPC

LEMMA SetsSPMoves ==
    ASSUME NEW r \in Registers, NEW v \in Byte, NEW op, NEW form, NEW e, SetsSP(e, v)
    PROVE  MovesSP(Effect(e, r, v, op, form), r)
  <1>1. /\ r.SP \in Word /\ WZ(r) \in Word /\ HL(r) \in Word /\ r.Z \in Byte
        /\ Increment(r.SP) \in Word /\ Decrement(r.SP) \in Word
    BY Fits, PairWords, WordSteps
  <1>2. CASE e = "SP=HL"
    <2>1. Effect(e, r, v, op, form) = [r EXCEPT !.SP = HL(r)]
      BY <1>2 DEF Effect, Loads, LoadEffect
    <2> QED  BY <2>1, <1>1, WordsStored
  <1>3. CASE e = "SP+Z"
    <2> DEFINE sum == (r.SP + Signed(r.Z)) % 65536
               F == SetFlags(r.F, FALSE, FALSE, (r.SP % 16) + (r.Z % 16) > 15, Low(r.SP) + r.Z > 255)
    <2>1. Effect(e, r, v, op, form) = [r EXCEPT !.SP = sum, !.F = F]
      BY <1>3 DEF Effect, Loads, Arithmetic, ArithmeticEffect, AddToSP
    <2>2. sum \in Word
      BY <1>1, SignedSums
    <2>3. F \in Flags
      BY Fits, FlagsSet
    <2> HIDE DEF sum, F
    <2>4. [r EXCEPT !.SP = sum, !.F = F] \in Registers
      BY <2>2, <2>3 DEF Registers, Flags
    <2> QED  BY <2>1, <2>4 DEF Registers, MovesSP
  <1>4. CASE e \in {"r16=WZ", "r16+", "r16-"} /\ Pair(v) = 3
    <2>1. \A w \in Word : SetR16(r, 3, w) = [r EXCEPT !.SP = w] /\ R16(r, 3) = r.SP
      BY PairsByCode
    <2>2. /\ Effect("r16=WZ", r, v, op, form) = SetR16(r, 3, WZ(r))
          /\ Effect("r16+", r, v, op, form) = SetR16(r, 3, Increment(R16(r, 3)))
          /\ Effect("r16-", r, v, op, form) = SetR16(r, 3, Decrement(R16(r, 3)))
      BY <1>4 DEF Effect, Loads, Arithmetic, LoadEffect, PointerEffect
    <2>3. PICK w \in Word : Effect(e, r, v, op, form) = [r EXCEPT !.SP = w]
      <3>1. R16(r, 3) = r.SP
        BY <1>1, <2>1
      <3>2. /\ Effect("r16=WZ", r, v, op, form) = [r EXCEPT !.SP = WZ(r)]
            /\ Effect("r16+", r, v, op, form) = [r EXCEPT !.SP = Increment(r.SP)]
            /\ Effect("r16-", r, v, op, form) = [r EXCEPT !.SP = Decrement(r.SP)]
        BY <1>1, <2>1, <2>2, <3>1
      <3> QED  BY <1>1, <1>4, <3>2
    <2> QED  BY <2>3, WordsStored
  <1> QED  BY <1>2, <1>3, <1>4 DEF SetsSP

LEMMA Moves ==
    ASSUME NEW r \in Registers, NEW v \in Byte, NEW op, NEW form
    PROVE  /\ MovesPC(Effect("PC+", r, v, op, form), r)
           /\ Effect("PC+", r, v, op, form).PC = Increment(r.PC)
           /\ MovesSP(Effect("SP+", r, v, op, form), r)
           /\ Effect("SP+", r, v, op, form).SP = Increment(r.SP)
           /\ MovesSP(Effect("SP-", r, v, op, form), r)
           /\ Effect("SP-", r, v, op, form).SP = Decrement(r.SP)
           /\ MovesPC(Effect("PC=WZ", r, v, op, form), r)
           /\ MovesPC(Effect("PC=vector", r, v, op, form), r)
  <1>1. /\ r.PC \in Word /\ r.SP \in Word /\ WZ(r) \in Word /\ 8 * Y(v) \in Word
    <2>1. 8 * Y(v) \in Word
      BY Fields, WordBounds
    <2> QED  BY <2>1, Fits, PairWords
  <1>2. /\ Increment(r.PC) \in Word /\ Increment(r.SP) \in Word /\ Decrement(r.SP) \in Word
    BY <1>1, WordSteps
  <1>3. /\ Effect("PC+", r, v, op, form) = [r EXCEPT !.PC = Increment(r.PC)]
        /\ Effect("SP+", r, v, op, form) = [r EXCEPT !.SP = Increment(r.SP)]
        /\ Effect("SP-", r, v, op, form) = [r EXCEPT !.SP = Decrement(r.SP)]
        /\ Effect("PC=WZ", r, v, op, form) = [r EXCEPT !.PC = WZ(r)]
        /\ Effect("PC=vector", r, v, op, form) = [r EXCEPT !.PC = 8 * Y(v)]
    BY DEF Effect, Loads, Arithmetic, PointerEffect
  <1>4. /\ MovesPC([r EXCEPT !.PC = Increment(r.PC)], r)
        /\ [r EXCEPT !.PC = Increment(r.PC)].PC = Increment(r.PC)
        /\ MovesSP([r EXCEPT !.SP = Increment(r.SP)], r)
        /\ [r EXCEPT !.SP = Increment(r.SP)].SP = Increment(r.SP)
        /\ MovesSP([r EXCEPT !.SP = Decrement(r.SP)], r)
        /\ [r EXCEPT !.SP = Decrement(r.SP)].SP = Decrement(r.SP)
        /\ MovesPC([r EXCEPT !.PC = WZ(r)], r)
        /\ MovesPC([r EXCEPT !.PC = 8 * Y(v)], r)
    BY <1>1, <1>2, WordsStored
  <1> QED  BY <1>3, <1>4

-----------------------------------------------------------------------------
(* Cycle by cycle: what the sequencer takes each cycle for. *)

Microcode(k) == Sequencer!Microcode[k]

Places == {"PC", "HL", "BC", "DE", "SP", "WZ", "FF00+C", "FF00+Z"}

\* What an instruction writes, other than the bytes of PC.
Source(from, op, form, v) ==
    \/ from \in {"A", "Z", "SPL", "SPH", "R16Lstk", "R16Mstk"}
    \/ from = "r8" /\ X(v) # 6
    \/ from = "modified" /\ op \in Modifying /\ form # "Accumulator"

Controlling == {"HaltSystemClock", "EnableInterrupts", "DisableInterrupts", "CB"}
Returns == "ReturnFromInterruptHandler"

\* The cycle c of the instruction <<op, form>> in the opcode v is an m.
Does(c, m, op, form, v) ==
    \/ m = "operand" /\ c \in {LowOperand, HighOperand}
    \/ m = "operandTest" /\ c \in {Test(LowOperand), Test(HighOperand)}
    \/ m = "test" /\ c = Test(Do(""))
    \/ m = "read" /\ \E at \in Places, e \in {"", "HL+", "HL-"} : c = Rd(at, "Z", e)
    \/ m = "internal" /\ \E e : c = Do(e) /\ Quiet(e, op, form, v)
    \/ m = "internalIf" /\ c = If(Do("WZ=PC+Z"))
    \/ m = "write" /\ \E at \in Places : \E from, e :
           c = Wr(at, from, e) /\ Source(from, op, form, v) /\ Quiet(e, op, form, v)
    \/ m = "setSP" /\ \E e : c = Do(e) /\ SetsSP(e, v)
    \/ m = "decSP" /\ c = Do("SP-")
    \/ m = "decSPIf" /\ c = If(Do("SP-"))
    \/ m = "push" /\ c = Wr("SP", "R16Mstk", "SP-")
    \/ m = "pushPCH" /\ c = Wr("SP", "PCH", "SP-")
    \/ m = "pushPCL" /\ op # Returns /\ \E e \in {"PC=WZ", "PC=vector"} : c = Wr("SP", "PCL", e)
    \/ m = "pop" /\ \E into \in {"Z", "W"} : c = Rd("SP", into, "SP+")
    \/ m = "popIf" /\ c = If(Rd("SP", "Z", "SP+"))
    \/ m = "jump" /\ op # Returns /\ c = Do("PC=WZ")
    \/ m = "jumpIf" /\ op # Returns /\ c = If(Do("PC=WZ"))
    \/ m = "jumpIME" /\ op = Returns /\ c = Do("PC=WZ")
    \/ m = "fetch" /\ op \notin Controlling /\ \E e : c = M1("PC", e) /\ Quiet(e, op, form, v)
    \/ m = "fetchSP" /\ op \notin Controlling /\ \E e : c = M1("PC", e) /\ SetsSP(e, v)
    \/ m = "fetchTarget" /\ op \notin Controlling /\ \E at \in {"HL", "WZ"} : c = M1(at, "")
    \/ m = "halt" /\ op = "HaltSystemClock" /\ c = Fetch
    \/ m = "enable" /\ op = "EnableInterrupts" /\ c = Fetch
    \/ m = "disable" /\ op = "DisableInterrupts" /\ c = Fetch
    \/ m = "prefix" /\ op = "CB" /\ c = Fetch

\* The last cycles of instructions.
Ends == {"fetch", "fetchSP", "fetchTarget", "halt", "enable", "disable", "prefix"}

Follows(cs, ms, op, form, v) ==
    /\ Len(cs) \in 1..6 /\ Len(cs) = Len(ms)
    /\ \A n \in 1..Len(cs) : /\ Does(cs[n], ms[n], op, form, v)
                             /\ ms[n] \in Ends <=> n = Len(cs)

LEMMA FollowsAt ==
    ASSUME NEW cs, NEW ms, NEW op, NEW form, NEW v, Follows(cs, ms, op, form, v)
    PROVE  \A n \in 1..Len(cs) : Does(cs[n], ms[n], op, form, v) /\ (ms[n] \in Ends <=> n = Len(cs))
  BY DEF Follows

LEMMA Follows1 ==
    ASSUME NEW op, NEW form, NEW v,
           NEW c1, NEW m1, Does(c1, m1, op, form, v), m1 \in Ends
    PROVE  Follows(<<c1>>, <<m1>>, op, form, v)
  BY DEF Follows

LEMMA Follows2 ==
    ASSUME NEW op, NEW form, NEW v,
           NEW c1, NEW m1, Does(c1, m1, op, form, v), m1 \notin Ends,
           NEW c2, NEW m2, Does(c2, m2, op, form, v), m2 \in Ends
    PROVE  Follows(<<c1, c2>>, <<m1, m2>>, op, form, v)
  BY DEF Follows

LEMMA Follows3 ==
    ASSUME NEW op, NEW form, NEW v,
           NEW c1, NEW m1, Does(c1, m1, op, form, v), m1 \notin Ends,
           NEW c2, NEW m2, Does(c2, m2, op, form, v), m2 \notin Ends,
           NEW c3, NEW m3, Does(c3, m3, op, form, v), m3 \in Ends
    PROVE  Follows(<<c1, c2, c3>>, <<m1, m2, m3>>, op, form, v)
  BY DEF Follows

LEMMA Follows4 ==
    ASSUME NEW op, NEW form, NEW v,
           NEW c1, NEW m1, Does(c1, m1, op, form, v), m1 \notin Ends,
           NEW c2, NEW m2, Does(c2, m2, op, form, v), m2 \notin Ends,
           NEW c3, NEW m3, Does(c3, m3, op, form, v), m3 \notin Ends,
           NEW c4, NEW m4, Does(c4, m4, op, form, v), m4 \in Ends
    PROVE  Follows(<<c1, c2, c3, c4>>, <<m1, m2, m3, m4>>, op, form, v)
  BY DEF Follows

LEMMA Follows5 ==
    ASSUME NEW op, NEW form, NEW v,
           NEW c1, NEW m1, Does(c1, m1, op, form, v), m1 \notin Ends,
           NEW c2, NEW m2, Does(c2, m2, op, form, v), m2 \notin Ends,
           NEW c3, NEW m3, Does(c3, m3, op, form, v), m3 \notin Ends,
           NEW c4, NEW m4, Does(c4, m4, op, form, v), m4 \notin Ends,
           NEW c5, NEW m5, Does(c5, m5, op, form, v), m5 \in Ends
    PROVE  Follows(<<c1, c2, c3, c4, c5>>, <<m1, m2, m3, m4, m5>>, op, form, v)
  BY DEF Follows

LEMMA Follows6 ==
    ASSUME NEW op, NEW form, NEW v,
           NEW c1, NEW m1, Does(c1, m1, op, form, v), m1 \notin Ends,
           NEW c2, NEW m2, Does(c2, m2, op, form, v), m2 \notin Ends,
           NEW c3, NEW m3, Does(c3, m3, op, form, v), m3 \notin Ends,
           NEW c4, NEW m4, Does(c4, m4, op, form, v), m4 \notin Ends,
           NEW c5, NEW m5, Does(c5, m5, op, form, v), m5 \notin Ends,
           NEW c6, NEW m6, Does(c6, m6, op, form, v), m6 \in Ends
    PROVE  Follows(<<c1, c2, c3, c4, c5, c6>>, <<m1, m2, m3, m4, m5, m6>>, op, form, v)
  BY DEF Follows

LEMMA CyclesOf ==
    ASSUME NEW op, NEW form
    PROVE  /\ op \in {"LoadRegister", "LoadFromRegister", "LoadFromImmediateData"} =>
                  Cycles(op, form) = LoadRegisterCycles(op, form)
           /\ op = "LoadAccumulator" => Cycles(op, form) = LoadAccumulatorCycles(form)
           /\ op = "LoadFromAccumulator" => Cycles(op, form) = LoadFromAccumulatorCycles(form)
           /\ op \in {"Load16bitRegisterOrRegisterPair", "LoadFromStackPointer",
                      "LoadStackPointerFromHL", "PushToStack", "PopFromStack",
                      "LoadHLFromAdjustedStackPointer"} => Cycles(op, form) = StackCycles(op)
           /\ op \in Accumulator /\ form # "16bitRegister" => Cycles(op, form) = AccumulateCycles(form)
           /\ op \in Modifying => Cycles(op, form) = ModifyCycles(op, form)
           /\ op \in {"Increment16bitRegister", "Decrement16bitRegister", "AddToStackPointer"} =>
                  Cycles(op, form) = WideCycles(op)
           /\ op = "Add" /\ form = "16bitRegister" => Cycles(op, form) = WideCycles(op)
           /\ op \in {"Jump", "JumpToHL", "RelativeJump"} => Cycles(op, form) = JumpCycles(op, form)
           /\ op \in {"CallFunction", "Restart"} => Cycles(op, form) = CallCycles(op, form)
           /\ op \in {"ReturnFromFunction", "ReturnFromInterruptHandler"} =>
                  Cycles(op, form) = ReturnCycles(form)
           /\ op = "ComplementCarryFlag" => Cycles(op, form) = <<M1("PC", "CCF")>>
           /\ op = "SetCarryFlag" => Cycles(op, form) = <<M1("PC", "SCF")>>
           /\ op = "DecimalAdjustAccumulator" => Cycles(op, form) = <<M1("PC", "DAA")>>
           /\ op = "ComplementAccumulator" => Cycles(op, form) = <<M1("PC", "CPL")>>
           /\ op \in Controlling \cup {"Nop", "StopSystemAndMainClocks"} => Cycles(op, form) = <<Fetch>>
  <1>1. op \in {"LoadRegister", "LoadFromRegister", "LoadFromImmediateData"} =>
         Cycles(op, form) = LoadRegisterCycles(op, form)
    BY FamilySets DEF Cycles, Accumulator, Rotations, BitOps, Controlling
  <1>2. op = "LoadAccumulator" => Cycles(op, form) = LoadAccumulatorCycles(form)
    BY FamilySets DEF Cycles, Accumulator, Rotations, BitOps, Controlling
  <1>3. op = "LoadFromAccumulator" => Cycles(op, form) = LoadFromAccumulatorCycles(form)
    BY FamilySets DEF Cycles, Accumulator, Rotations, BitOps, Controlling
  <1>4. op \in {"Load16bitRegisterOrRegisterPair", "LoadFromStackPointer",
         "LoadStackPointerFromHL", "PushToStack", "PopFromStack",
         "LoadHLFromAdjustedStackPointer"} => Cycles(op, form) = StackCycles(op)
    BY FamilySets DEF Cycles, Accumulator, Rotations, BitOps, Controlling
  <1>5. op \in Accumulator /\ form # "16bitRegister" => Cycles(op, form) = AccumulateCycles(form)
    BY FamilySets DEF Cycles, Accumulator, Rotations, BitOps, Controlling
  <1>6. op \in Modifying => Cycles(op, form) = ModifyCycles(op, form)
    BY FamilySets DEF Cycles, Accumulator, Rotations, BitOps, Controlling
  <1>7. op \in {"Increment16bitRegister", "Decrement16bitRegister", "AddToStackPointer"} =>
         Cycles(op, form) = WideCycles(op)
    BY FamilySets DEF Cycles, Accumulator, Rotations, BitOps, Controlling
  <1>8. op = "Add" /\ form = "16bitRegister" => Cycles(op, form) = WideCycles(op)
    BY FamilySets DEF Cycles, Accumulator, Rotations, BitOps, Controlling
  <1>9. op \in {"Jump", "JumpToHL", "RelativeJump"} => Cycles(op, form) = JumpCycles(op, form)
    BY FamilySets DEF Cycles, Accumulator, Rotations, BitOps, Controlling
  <1>10. op \in {"CallFunction", "Restart"} => Cycles(op, form) = CallCycles(op, form)
    BY FamilySets DEF Cycles, Accumulator, Rotations, BitOps, Controlling
  <1>11. op \in {"ReturnFromFunction", "ReturnFromInterruptHandler"} =>
         Cycles(op, form) = ReturnCycles(form)
    BY FamilySets DEF Cycles, Accumulator, Rotations, BitOps, Controlling
  <1>12. op = "ComplementCarryFlag" => Cycles(op, form) = <<M1("PC", "CCF")>>
    BY FamilySets DEF Cycles, Accumulator, Rotations, BitOps, Controlling
  <1>13. op = "SetCarryFlag" => Cycles(op, form) = <<M1("PC", "SCF")>>
    BY FamilySets DEF Cycles, Accumulator, Rotations, BitOps, Controlling
  <1>14. op = "DecimalAdjustAccumulator" => Cycles(op, form) = <<M1("PC", "DAA")>>
    BY FamilySets DEF Cycles, Accumulator, Rotations, BitOps, Controlling
  <1>15. op = "ComplementAccumulator" => Cycles(op, form) = <<M1("PC", "CPL")>>
    BY FamilySets DEF Cycles, Accumulator, Rotations, BitOps, Controlling
  <1>16. op \in Controlling \cup {"Nop", "StopSystemAndMainClocks"} => Cycles(op, form) = <<Fetch>>
    BY FamilySets DEF Cycles, Accumulator, Rotations, BitOps, Controlling
  <1> QED
    BY <1>1, <1>2, <1>3, <1>4, <1>5, <1>6, <1>7, <1>8, <1>9,
       <1>10, <1>11, <1>12, <1>13, <1>14, <1>15, <1>16, Zenon

\* The tables of the sequencer, by kind.
LEMMA MergeLooksUp ==
    ASSUME NEW f, NEW g
    PROVE  DOMAIN Sequencer!Merge(f, g) = DOMAIN f \cup DOMAIN g
  BY DEF Sequencer!Merge

LEMMA TableKinds ==
    /\ DOMAIN Sequencer!LoadMicrocode = {"Read", "Write", "ImmediateRead", "ImmediateWrite",
                                         "DirectRead", "DirectWrite"}
    /\ DOMAIN Sequencer!StackMicrocode = {"Immediate16", "LoadSP", "StoreSP", "CopySP", "OffsetSP",
                                          "Push", "Pop"}
    /\ DOMAIN Sequencer!ArithmeticMicrocode = {"OneCycle", "Immediate", "ReadModifyWrite"}
    /\ DOMAIN Sequencer!WideMicrocode = {"Internal", "AddSP"}
    /\ DOMAIN Sequencer!JumpMicrocode = {"Jump", "JumpIf", "JumpHL", "RelativeJump",
                                         "RelativeJumpIf"}
    /\ DOMAIN Sequencer!CallMicrocode = {"Call", "CallIf", "Restart"}
    /\ DOMAIN Sequencer!ReturnMicrocode = {"Return", "ReturnIf", "ReturnI"}
    /\ DOMAIN Sequencer!ControlMicrocode = {"Halt", "EI", "DI", "CB"}
  BY DEF Sequencer!LoadMicrocode, Sequencer!StackMicrocode, Sequencer!ArithmeticMicrocode,
         Sequencer!WideMicrocode, Sequencer!JumpMicrocode, Sequencer!CallMicrocode,
         Sequencer!ReturnMicrocode, Sequencer!ControlMicrocode

\* The tables from the one given on, merged.
From7 == Sequencer!Merge(Sequencer!ReturnMicrocode, Sequencer!ControlMicrocode)
From6 == Sequencer!Merge(Sequencer!CallMicrocode, From7)
From5 == Sequencer!Merge(Sequencer!JumpMicrocode, From6)
From4 == Sequencer!Merge(Sequencer!WideMicrocode, From5)
From3 == Sequencer!Merge(Sequencer!ArithmeticMicrocode, From4)
From2 == Sequencer!Merge(Sequencer!StackMicrocode, From3)

Apart(f, g) == DOMAIN f \cap DOMAIN g = {}
Holds(h, f, g) == /\ \A k \in DOMAIN f : h[k] = f[k]
                  /\ \A k \in DOMAIN g : h[k] = g[k]

LEMMA MergesLook ==
    ASSUME NEW f, NEW g, Apart(f, g)
    PROVE  Holds(Sequencer!Merge(f, g), f, g)
  BY DEF Sequencer!Merge, Apart, Holds

LEMMA LaterTables ==
    /\ DOMAIN From7 = DOMAIN Sequencer!ReturnMicrocode \cup DOMAIN Sequencer!ControlMicrocode
    /\ DOMAIN From6 = DOMAIN Sequencer!CallMicrocode \cup DOMAIN From7
    /\ DOMAIN From5 = DOMAIN Sequencer!JumpMicrocode \cup DOMAIN From6
    /\ DOMAIN From4 = DOMAIN Sequencer!WideMicrocode \cup DOMAIN From5
    /\ DOMAIN From3 = DOMAIN Sequencer!ArithmeticMicrocode \cup DOMAIN From4
    /\ DOMAIN From2 = DOMAIN Sequencer!StackMicrocode \cup DOMAIN From3
    /\ DOMAIN Sequencer!Microcode = DOMAIN Sequencer!LoadMicrocode \cup DOMAIN From2
  <1>1. DOMAIN From7 = DOMAIN Sequencer!ReturnMicrocode \cup DOMAIN Sequencer!ControlMicrocode
    BY MergeLooksUp, Zenon DEF From7
  <1>2. DOMAIN From6 = DOMAIN Sequencer!CallMicrocode \cup DOMAIN From7
    BY MergeLooksUp, Zenon DEF From6
  <1>3. DOMAIN From5 = DOMAIN Sequencer!JumpMicrocode \cup DOMAIN From6
    BY MergeLooksUp, Zenon DEF From5
  <1>4. DOMAIN From4 = DOMAIN Sequencer!WideMicrocode \cup DOMAIN From5
    BY MergeLooksUp, Zenon DEF From4
  <1>5. DOMAIN From3 = DOMAIN Sequencer!ArithmeticMicrocode \cup DOMAIN From4
    BY MergeLooksUp, Zenon DEF From3
  <1>6. DOMAIN From2 = DOMAIN Sequencer!StackMicrocode \cup DOMAIN From3
    BY MergeLooksUp, Zenon DEF From2
  <1>7. Sequencer!Microcode = Sequencer!Merge(Sequencer!LoadMicrocode, From2)
    BY DEF Sequencer!Microcode, From2, From3, From4, From5, From6, From7
  <1>8. DOMAIN Sequencer!Microcode = DOMAIN Sequencer!LoadMicrocode \cup DOMAIN From2
    BY <1>7, MergeLooksUp, Zenon
  <1> QED  BY <1>1, <1>2, <1>3, <1>4, <1>5, <1>6, <1>8

LEMMA LaterRows ==
    /\ \A k \in DOMAIN Sequencer!ReturnMicrocode : From7[k] = Sequencer!ReturnMicrocode[k]
    /\ \A k \in DOMAIN Sequencer!ControlMicrocode : From7[k] = Sequencer!ControlMicrocode[k]
    /\ \A k \in DOMAIN Sequencer!CallMicrocode : From6[k] = Sequencer!CallMicrocode[k]
    /\ \A k \in DOMAIN From7 : From6[k] = From7[k]
    /\ \A k \in DOMAIN Sequencer!JumpMicrocode : From5[k] = Sequencer!JumpMicrocode[k]
    /\ \A k \in DOMAIN From6 : From5[k] = From6[k]
    /\ \A k \in DOMAIN Sequencer!WideMicrocode : From4[k] = Sequencer!WideMicrocode[k]
    /\ \A k \in DOMAIN From5 : From4[k] = From5[k]
    /\ \A k \in DOMAIN Sequencer!ArithmeticMicrocode : From3[k] = Sequencer!ArithmeticMicrocode[k]
    /\ \A k \in DOMAIN From4 : From3[k] = From4[k]
    /\ \A k \in DOMAIN Sequencer!StackMicrocode : From2[k] = Sequencer!StackMicrocode[k]
    /\ \A k \in DOMAIN From3 : From2[k] = From3[k]
    /\ \A k \in DOMAIN Sequencer!LoadMicrocode : Microcode(k) = Sequencer!LoadMicrocode[k]
    /\ \A k \in DOMAIN From2 : Microcode(k) = From2[k]
  <1>1. Sequencer!Microcode = Sequencer!Merge(Sequencer!LoadMicrocode, From2)
    BY DEF Sequencer!Microcode, From2, From3, From4, From5, From6, From7
  <1>2. /\ \A k \in DOMAIN Sequencer!ReturnMicrocode : From7[k] = Sequencer!ReturnMicrocode[k]
        /\ \A k \in DOMAIN Sequencer!ControlMicrocode : From7[k] = Sequencer!ControlMicrocode[k]
    <2>1. Apart(Sequencer!ReturnMicrocode, Sequencer!ControlMicrocode)
      BY TableKinds, LaterTables DEF Apart
    <2>2. Holds(From7, Sequencer!ReturnMicrocode, Sequencer!ControlMicrocode)
      BY <2>1, MergesLook DEF From7
    <2> QED  BY <2>2 DEF Holds
  <1>3. /\ \A k \in DOMAIN Sequencer!CallMicrocode : From6[k] = Sequencer!CallMicrocode[k]
        /\ \A k \in DOMAIN From7 : From6[k] = From7[k]
    <2>1. Apart(Sequencer!CallMicrocode, From7)
      BY TableKinds, LaterTables DEF Apart
    <2>2. Holds(From6, Sequencer!CallMicrocode, From7)
      BY <2>1, MergesLook DEF From6
    <2> QED  BY <2>2 DEF Holds
  <1>4. /\ \A k \in DOMAIN Sequencer!JumpMicrocode : From5[k] = Sequencer!JumpMicrocode[k]
        /\ \A k \in DOMAIN From6 : From5[k] = From6[k]
    <2>1. Apart(Sequencer!JumpMicrocode, From6)
      BY TableKinds, LaterTables DEF Apart
    <2>2. Holds(From5, Sequencer!JumpMicrocode, From6)
      BY <2>1, MergesLook DEF From5
    <2> QED  BY <2>2 DEF Holds
  <1>5. /\ \A k \in DOMAIN Sequencer!WideMicrocode : From4[k] = Sequencer!WideMicrocode[k]
        /\ \A k \in DOMAIN From5 : From4[k] = From5[k]
    <2>1. Apart(Sequencer!WideMicrocode, From5)
      BY TableKinds, LaterTables DEF Apart
    <2>2. Holds(From4, Sequencer!WideMicrocode, From5)
      BY <2>1, MergesLook DEF From4
    <2> QED  BY <2>2 DEF Holds
  <1>6. /\ \A k \in DOMAIN Sequencer!ArithmeticMicrocode : From3[k] = Sequencer!ArithmeticMicrocode[k]
        /\ \A k \in DOMAIN From4 : From3[k] = From4[k]
    <2>1. Apart(Sequencer!ArithmeticMicrocode, From4)
      BY TableKinds, LaterTables DEF Apart
    <2>2. Holds(From3, Sequencer!ArithmeticMicrocode, From4)
      BY <2>1, MergesLook DEF From3
    <2> QED  BY <2>2 DEF Holds
  <1>7. /\ \A k \in DOMAIN Sequencer!StackMicrocode : From2[k] = Sequencer!StackMicrocode[k]
        /\ \A k \in DOMAIN From3 : From2[k] = From3[k]
    <2>1. Apart(Sequencer!StackMicrocode, From3)
      BY TableKinds, LaterTables DEF Apart
    <2>2. Holds(From2, Sequencer!StackMicrocode, From3)
      BY <2>1, MergesLook DEF From2
    <2> QED  BY <2>2 DEF Holds
  <1>8. /\ \A k \in DOMAIN Sequencer!LoadMicrocode : Microcode(k) = Sequencer!LoadMicrocode[k]
        /\ \A k \in DOMAIN From2 : Microcode(k) = From2[k]
    <2>1. Apart(Sequencer!LoadMicrocode, From2)
      BY TableKinds, LaterTables DEF Apart
    <2>2. Holds(Sequencer!Microcode, Sequencer!LoadMicrocode, From2)
      BY <1>1, <2>1, MergesLook
    <2> QED  BY <2>2 DEF Holds, Microcode
  <1> QED  BY <1>2, <1>3, <1>4, <1>5, <1>6, <1>7, <1>8

LEMMA Rows ==
    /\ Microcode("Read") = <<"read", "fetch">>
    /\ Microcode("Write") = <<"write", "fetch">>
    /\ Microcode("ImmediateRead") = <<"operand", "read", "fetch">>
    /\ Microcode("ImmediateWrite") = <<"operand", "write", "fetch">>
    /\ Microcode("DirectRead") = <<"operand", "operand", "read", "fetch">>
    /\ Microcode("DirectWrite") = <<"operand", "operand", "write", "fetch">>
    /\ Microcode("Immediate16") = <<"operand", "operand", "fetch">>
    /\ Microcode("LoadSP") = <<"operand", "operand", "fetchSP">>
    /\ Microcode("StoreSP") = <<"operand", "operand", "write", "write", "fetch">>
    /\ Microcode("CopySP") = <<"setSP", "fetch">>
    /\ Microcode("OffsetSP") = <<"operand", "internal", "fetch">>
    /\ Microcode("Push") = <<"decSP", "push", "write", "fetch">>
    /\ Microcode("Pop") = <<"pop", "pop", "fetch">>
    /\ Microcode("OneCycle") = <<"fetch">>
    /\ Microcode("Immediate") = <<"operand", "fetch">>
    /\ Microcode("ReadModifyWrite") = <<"read", "write", "fetch">>
    /\ Microcode("Internal") = <<"internal", "fetch">>
    /\ Microcode("AddSP") = <<"operand", "internal", "internal", "fetchSP">>
    /\ Microcode("Jump") = <<"operand", "operand", "jump", "fetch">>
    /\ Microcode("JumpIf") = <<"operand", "operandTest", "jumpIf", "fetch">>
    /\ Microcode("JumpHL") = <<"fetchTarget">>
    /\ Microcode("RelativeJump") = <<"operand", "internal", "fetchTarget">>
    /\ Microcode("RelativeJumpIf") = <<"operandTest", "internalIf", "fetchTarget">>
    /\ Microcode("Call") = <<"operand", "operand", "decSP", "pushPCH", "pushPCL", "fetch">>
    /\ Microcode("CallIf") = <<"operand", "operandTest", "decSPIf", "pushPCH", "pushPCL", "fetch">>
    /\ Microcode("Restart") = <<"decSP", "pushPCH", "pushPCL", "fetch">>
    /\ Microcode("Return") = <<"pop", "pop", "jump", "fetch">>
    /\ Microcode("ReturnIf") = <<"test", "popIf", "pop", "jump", "fetch">>
    /\ Microcode("ReturnI") = <<"pop", "pop", "jumpIME", "fetch">>
    /\ Microcode("Halt") = <<"halt">>
    /\ Microcode("EI") = <<"enable">>
    /\ Microcode("DI") = <<"disable">>
    /\ Microcode("CB") = <<"prefix">>
    /\ DOMAIN Sequencer!Microcode = {"Read", "Write", "ImmediateRead", "ImmediateWrite", "DirectRead",
                                      "DirectWrite", "Immediate16", "LoadSP", "StoreSP", "CopySP",
                                      "OffsetSP", "Push", "Pop", "OneCycle", "Immediate", "ReadModifyWrite",
                                      "Internal", "AddSP", "Jump", "JumpIf", "JumpHL", "RelativeJump",
                                      "RelativeJumpIf", "Call", "CallIf", "Restart", "Return", "ReturnIf",
                                      "ReturnI", "Halt", "EI", "DI", "CB"}
  <1>1. /\ Microcode("Read") = <<"read", "fetch">>
        /\ Microcode("Write") = <<"write", "fetch">>
        /\ Microcode("ImmediateRead") = <<"operand", "read", "fetch">>
        /\ Microcode("ImmediateWrite") = <<"operand", "write", "fetch">>
        /\ Microcode("DirectRead") = <<"operand", "operand", "read", "fetch">>
        /\ Microcode("DirectWrite") = <<"operand", "operand", "write", "fetch">>
    <2>1. \A k \in DOMAIN Sequencer!LoadMicrocode : Microcode(k) = Sequencer!LoadMicrocode[k]
      BY LaterRows, LaterTables, TableKinds
    <2> QED  BY <2>1, TableKinds DEF Sequencer!LoadMicrocode
  <1>2. /\ Microcode("Immediate16") = <<"operand", "operand", "fetch">>
        /\ Microcode("LoadSP") = <<"operand", "operand", "fetchSP">>
        /\ Microcode("StoreSP") = <<"operand", "operand", "write", "write", "fetch">>
        /\ Microcode("CopySP") = <<"setSP", "fetch">>
        /\ Microcode("OffsetSP") = <<"operand", "internal", "fetch">>
        /\ Microcode("Push") = <<"decSP", "push", "write", "fetch">>
        /\ Microcode("Pop") = <<"pop", "pop", "fetch">>
    <2>1. \A k \in DOMAIN Sequencer!StackMicrocode : Microcode(k) = Sequencer!StackMicrocode[k]
      BY LaterRows, LaterTables, TableKinds
    <2> QED  BY <2>1, TableKinds DEF Sequencer!StackMicrocode
  <1>3. /\ Microcode("OneCycle") = <<"fetch">>
        /\ Microcode("Immediate") = <<"operand", "fetch">>
        /\ Microcode("ReadModifyWrite") = <<"read", "write", "fetch">>
    <2>1. \A k \in DOMAIN Sequencer!ArithmeticMicrocode : Microcode(k) = Sequencer!ArithmeticMicrocode[k]
      BY LaterRows, LaterTables, TableKinds
    <2> QED  BY <2>1, TableKinds DEF Sequencer!ArithmeticMicrocode
  <1>4. /\ Microcode("Internal") = <<"internal", "fetch">>
        /\ Microcode("AddSP") = <<"operand", "internal", "internal", "fetchSP">>
    <2>1. \A k \in DOMAIN Sequencer!WideMicrocode : Microcode(k) = Sequencer!WideMicrocode[k]
      BY LaterRows, LaterTables, TableKinds
    <2> QED  BY <2>1, TableKinds DEF Sequencer!WideMicrocode
  <1>5. /\ Microcode("Jump") = <<"operand", "operand", "jump", "fetch">>
        /\ Microcode("JumpIf") = <<"operand", "operandTest", "jumpIf", "fetch">>
        /\ Microcode("JumpHL") = <<"fetchTarget">>
        /\ Microcode("RelativeJump") = <<"operand", "internal", "fetchTarget">>
        /\ Microcode("RelativeJumpIf") = <<"operandTest", "internalIf", "fetchTarget">>
    <2>1. \A k \in DOMAIN Sequencer!JumpMicrocode : Microcode(k) = Sequencer!JumpMicrocode[k]
      BY LaterRows, LaterTables, TableKinds
    <2> QED  BY <2>1, TableKinds DEF Sequencer!JumpMicrocode
  <1>6. /\ Microcode("Call") = <<"operand", "operand", "decSP", "pushPCH", "pushPCL", "fetch">>
        /\ Microcode("CallIf") = <<"operand", "operandTest", "decSPIf", "pushPCH", "pushPCL", "fetch">>
        /\ Microcode("Restart") = <<"decSP", "pushPCH", "pushPCL", "fetch">>
    <2>1. \A k \in DOMAIN Sequencer!CallMicrocode : Microcode(k) = Sequencer!CallMicrocode[k]
      BY LaterRows, LaterTables, TableKinds
    <2> QED  BY <2>1, TableKinds DEF Sequencer!CallMicrocode
  <1>7. /\ Microcode("Return") = <<"pop", "pop", "jump", "fetch">>
        /\ Microcode("ReturnIf") = <<"test", "popIf", "pop", "jump", "fetch">>
        /\ Microcode("ReturnI") = <<"pop", "pop", "jumpIME", "fetch">>
    <2>1. \A k \in DOMAIN Sequencer!ReturnMicrocode : Microcode(k) = Sequencer!ReturnMicrocode[k]
      BY LaterRows, LaterTables, TableKinds
    <2> QED  BY <2>1, TableKinds DEF Sequencer!ReturnMicrocode
  <1>8. /\ Microcode("Halt") = <<"halt">>
        /\ Microcode("EI") = <<"enable">>
        /\ Microcode("DI") = <<"disable">>
        /\ Microcode("CB") = <<"prefix">>
    <2>1. \A k \in DOMAIN Sequencer!ControlMicrocode : Microcode(k) = Sequencer!ControlMicrocode[k]
      BY LaterRows, LaterTables, TableKinds
    <2> QED  BY <2>1, TableKinds DEF Sequencer!ControlMicrocode
  <1>9. DOMAIN Sequencer!Microcode = {"Read", "Write", "ImmediateRead", "ImmediateWrite", "DirectRead",
                                      "DirectWrite", "Immediate16", "LoadSP", "StoreSP", "CopySP",
                                      "OffsetSP", "Push", "Pop", "OneCycle", "Immediate", "ReadModifyWrite",
                                      "Internal", "AddSP", "Jump", "JumpIf", "JumpHL", "RelativeJump",
                                      "RelativeJumpIf", "Call", "CallIf", "Restart", "Return", "ReturnIf",
                                      "ReturnI", "Halt", "EI", "DI", "CB"}
    BY LaterTables, TableKinds
  <1> QED  BY <1>1, <1>2, <1>3, <1>4, <1>5, <1>6, <1>7, <1>8, <1>9

-----------------------------------------------------------------------------
(* Every instruction takes the cycles of its kind. *)

LEMMA CycleForms ==
    ASSUME NEW op, NEW form, NEW v
    PROVE  /\ Does(LowOperand, "operand", op, form, v)
           /\ Does(HighOperand, "operand", op, form, v)
           /\ Does(Test(LowOperand), "operandTest", op, form, v)
           /\ Does(Test(HighOperand), "operandTest", op, form, v)
           /\ Does(Test(Do("")), "test", op, form, v)
           /\ \A at \in Places, e \in {"", "HL+", "HL-"} : Does(Rd(at, "Z", e), "read", op, form, v)
           /\ \A e : Quiet(e, op, form, v) => Does(Do(e), "internal", op, form, v)
           /\ Does(If(Do("WZ=PC+Z")), "internalIf", op, form, v)
           /\ \A at \in Places : \A from, e : Source(from, op, form, v) /\ Quiet(e, op, form, v) =>
                  Does(Wr(at, from, e), "write", op, form, v)
           /\ \A e : SetsSP(e, v) => Does(Do(e), "setSP", op, form, v)
           /\ Does(Do("SP-"), "decSP", op, form, v)
           /\ Does(If(Do("SP-")), "decSPIf", op, form, v)
           /\ Does(Wr("SP", "R16Mstk", "SP-"), "push", op, form, v)
           /\ Does(Wr("SP", "PCH", "SP-"), "pushPCH", op, form, v)
           /\ op # Returns => \A e \in {"PC=WZ", "PC=vector"} :
                  Does(Wr("SP", "PCL", e), "pushPCL", op, form, v)
           /\ \A into \in {"Z", "W"} : Does(Rd("SP", into, "SP+"), "pop", op, form, v)
           /\ Does(If(Rd("SP", "Z", "SP+")), "popIf", op, form, v)
           /\ op # Returns => Does(Do("PC=WZ"), "jump", op, form, v)
           /\ op # Returns => Does(If(Do("PC=WZ")), "jumpIf", op, form, v)
           /\ op = Returns => Does(Do("PC=WZ"), "jumpIME", op, form, v)
           /\ op \notin Controlling => \A e : Quiet(e, op, form, v) =>
                  Does(M1("PC", e), "fetch", op, form, v)
           /\ op \notin Controlling => \A e : SetsSP(e, v) =>
                  Does(M1("PC", e), "fetchSP", op, form, v)
           /\ op \notin Controlling => \A at \in {"HL", "WZ"} :
                  Does(M1(at, ""), "fetchTarget", op, form, v)
  <1>1. Does(LowOperand, "operand", op, form, v)
    BY DEF Does
  <1>2. Does(HighOperand, "operand", op, form, v)
    BY DEF Does
  <1>3. Does(Test(LowOperand), "operandTest", op, form, v)
    BY DEF Does
  <1>4. Does(Test(HighOperand), "operandTest", op, form, v)
    BY DEF Does
  <1>5. Does(Test(Do("")), "test", op, form, v)
    BY DEF Does
  <1>6. \A at \in Places, e \in {"", "HL+", "HL-"} : Does(Rd(at, "Z", e), "read", op, form, v)
    BY DEF Does
  <1>7. \A e : Quiet(e, op, form, v) => Does(Do(e), "internal", op, form, v)
    BY DEF Does
  <1>8. Does(If(Do("WZ=PC+Z")), "internalIf", op, form, v)
    BY DEF Does
  <1>9. \A at \in Places : \A from, e : Source(from, op, form, v) /\ Quiet(e, op, form, v) =>
         Does(Wr(at, from, e), "write", op, form, v)
    BY DEF Does
  <1>10. \A e : SetsSP(e, v) => Does(Do(e), "setSP", op, form, v)
    BY DEF Does
  <1>11. Does(Do("SP-"), "decSP", op, form, v)
    BY DEF Does
  <1>12. Does(If(Do("SP-")), "decSPIf", op, form, v)
    BY DEF Does
  <1>13. Does(Wr("SP", "R16Mstk", "SP-"), "push", op, form, v)
    BY DEF Does
  <1>14. Does(Wr("SP", "PCH", "SP-"), "pushPCH", op, form, v)
    BY DEF Does
  <1>15. op # Returns => \A e \in {"PC=WZ", "PC=vector"} :
         Does(Wr("SP", "PCL", e), "pushPCL", op, form, v)
    BY DEF Does
  <1>16. \A into \in {"Z", "W"} : Does(Rd("SP", into, "SP+"), "pop", op, form, v)
    BY DEF Does
  <1>17. Does(If(Rd("SP", "Z", "SP+")), "popIf", op, form, v)
    BY DEF Does
  <1>18. op # Returns => Does(Do("PC=WZ"), "jump", op, form, v)
    BY DEF Does
  <1>19. op # Returns => Does(If(Do("PC=WZ")), "jumpIf", op, form, v)
    BY DEF Does
  <1>20. op = Returns => Does(Do("PC=WZ"), "jumpIME", op, form, v)
    BY DEF Does
  <1>21. op \notin Controlling => \A e : Quiet(e, op, form, v) =>
         Does(M1("PC", e), "fetch", op, form, v)
    BY DEF Does
  <1>22. op \notin Controlling => \A e : SetsSP(e, v) =>
         Does(M1("PC", e), "fetchSP", op, form, v)
    BY DEF Does
  <1>23. op \notin Controlling => \A at \in {"HL", "WZ"} :
         Does(M1(at, ""), "fetchTarget", op, form, v)
    BY DEF Does
  <1> QED
    BY <1>1, <1>2, <1>3, <1>4, <1>5, <1>6, <1>7, <1>8, <1>9, <1>10, <1>11,
       <1>12, <1>13, <1>14, <1>15, <1>16, <1>17, <1>18, <1>19, <1>20, <1>21, <1>22, <1>23, Zenon

LEMMA EmptyIsQuiet == \A op, form, v : Quiet("", op, form, v)
  BY DEF Quiet

FollowsIts(op, form, v) ==
    /\ KindOf(op, form, v) \in DOMAIN Sequencer!Microcode
    /\ Follows(Cycles(op, form), Microcode(KindOf(op, form, v)), op, form, v)

LEMMA LoadsFollow ==
    ASSUME NEW op, NEW form, NEW v, 
           \/ op = "LoadRegister" /\ form = "Register" /\ X(v) # 6 /\ Y(v) # 6
           \/ op = "LoadRegister" /\ form \in {"Immediate", "IndirectHL"} /\ Y(v) # 6
           \/ op = "LoadFromRegister" /\ form = "IndirectHL" /\ X(v) # 6
           \/ op = "LoadFromImmediateData" /\ form = "IndirectHL"
    PROVE  FollowsIts(op, form, v)
  <1>1. CASE op = "LoadRegister" /\ form = "Register" /\ X(v) # 6 /\ Y(v) # 6
    <2>1. Cycles(op, form) = <<M1("PC", "r8=r8")>>
      BY <1>1, CyclesOf DEF LoadRegisterCycles
    <2>2. KindOf(op, form, v) = "OneCycle"
      BY <1>1, FamilySets DEF KindOf, Accumulator, Rotations, BitOps, OperandKind
    <2>3. Microcode("OneCycle") = <<"fetch">> /\ "OneCycle" \in DOMAIN Sequencer!Microcode
      BY Rows
    <2>4. Follows(<<M1("PC", "r8=r8")>>, <<"fetch">>, op, form, v)
      BY <1>1, CycleForms, Follows1, EmptyIsQuiet DEF Ends, Controlling, Places, Fetch, Source, Returns, Quiet
    <2> QED  BY <2>1, <2>2, <2>3, <2>4 DEF FollowsIts
  <1>2. CASE op = "LoadRegister" /\ form = "Immediate" /\ Y(v) # 6
    <2>1. Cycles(op, form) = <<LowOperand, M1("PC", "r8=Z")>>
      BY <1>2, CyclesOf DEF LoadRegisterCycles
    <2>2. KindOf(op, form, v) = "Immediate"
      BY <1>2, FamilySets DEF KindOf, Accumulator, Rotations, BitOps, OperandKind
    <2>3. Microcode("Immediate") = <<"operand", "fetch">> /\ "Immediate" \in DOMAIN Sequencer!Microcode
      BY Rows
    <2>4. Follows(<<LowOperand, M1("PC", "r8=Z")>>, <<"operand", "fetch">>, op, form, v)
      BY <1>2, CycleForms, Follows2, EmptyIsQuiet DEF Ends, Controlling, Places, Fetch, Source, Returns, Quiet
    <2> QED  BY <2>1, <2>2, <2>3, <2>4 DEF FollowsIts
  <1>3. CASE op = "LoadRegister" /\ form = "IndirectHL" /\ Y(v) # 6
    <2>1. Cycles(op, form) = <<Rd("HL", "Z", ""), M1("PC", "r8=Z")>>
      BY <1>3, CyclesOf DEF LoadRegisterCycles
    <2>2. KindOf(op, form, v) = "Read"
      BY <1>3, FamilySets DEF KindOf, Accumulator, Rotations, BitOps, OperandKind
    <2>3. Microcode("Read") = <<"read", "fetch">> /\ "Read" \in DOMAIN Sequencer!Microcode
      BY Rows
    <2>4. Follows(<<Rd("HL", "Z", ""), M1("PC", "r8=Z")>>, <<"read", "fetch">>, op, form, v)
      BY <1>3, CycleForms, Follows2, EmptyIsQuiet DEF Ends, Controlling, Places, Fetch, Source, Returns, Quiet
    <2> QED  BY <2>1, <2>2, <2>3, <2>4 DEF FollowsIts
  <1>4. CASE op = "LoadFromRegister" /\ form = "IndirectHL" /\ X(v) # 6
    <2>1. Cycles(op, form) = <<Wr("HL", "r8", ""), Fetch>>
      BY <1>4, CyclesOf DEF LoadRegisterCycles
    <2>2. KindOf(op, form, v) = "Write"
      BY <1>4, FamilySets DEF KindOf, Accumulator, Rotations, BitOps, OperandKind
    <2>3. Microcode("Write") = <<"write", "fetch">> /\ "Write" \in DOMAIN Sequencer!Microcode
      BY Rows
    <2>4. Follows(<<Wr("HL", "r8", ""), Fetch>>, <<"write", "fetch">>, op, form, v)
      BY <1>4, CycleForms, Follows2, EmptyIsQuiet DEF Ends, Controlling, Places, Fetch, Source, Returns, Quiet
    <2> QED  BY <2>1, <2>2, <2>3, <2>4 DEF FollowsIts
  <1>5. CASE op = "LoadFromImmediateData" /\ form = "IndirectHL"
    <2>1. Cycles(op, form) = <<LowOperand, Wr("HL", "Z", ""), Fetch>>
      BY <1>5, CyclesOf DEF LoadRegisterCycles
    <2>2. KindOf(op, form, v) = "ImmediateWrite"
      BY <1>5, FamilySets DEF KindOf, Accumulator, Rotations, BitOps, OperandKind
    <2>3. Microcode("ImmediateWrite") = <<"operand", "write", "fetch">> /\ "ImmediateWrite" \in DOMAIN Sequencer!Microcode
      BY Rows
    <2>4. Follows(<<LowOperand, Wr("HL", "Z", ""), Fetch>>, <<"operand", "write", "fetch">>, op, form, v)
      BY <1>5, CycleForms, Follows3, EmptyIsQuiet DEF Ends, Controlling, Places, Fetch, Source, Returns, Quiet
    <2> QED  BY <2>1, <2>2, <2>3, <2>4 DEF FollowsIts
  <1> QED  BY <1>1, <1>2, <1>3, <1>4, <1>5

LEMMA AccumulatorLoadsFollow ==
    ASSUME NEW op, NEW form, NEW v, op = "LoadAccumulator", form \in Pointers
    PROVE  FollowsIts(op, form, v)
  <1>1. CASE form = "IndirectBC"
    <2>1. Cycles(op, form) = <<Rd("BC", "Z", ""), M1("PC", "A=Z")>>
      BY <1>1, CyclesOf DEF LoadAccumulatorCycles
    <2>2. KindOf(op, form, v) = "Read"
      BY <1>1, FamilySets DEF KindOf, Accumulator, Rotations, BitOps, AccumulatorKind
    <2>3. Microcode("Read") = <<"read", "fetch">> /\ "Read" \in DOMAIN Sequencer!Microcode
      BY Rows
    <2>4. Follows(<<Rd("BC", "Z", ""), M1("PC", "A=Z")>>, <<"read", "fetch">>, op, form, v)
      BY <1>1, CycleForms, Follows2, EmptyIsQuiet DEF Ends, Controlling, Places, Fetch, Source, Returns, Quiet
    <2> QED  BY <2>1, <2>2, <2>3, <2>4 DEF FollowsIts
  <1>2. CASE form = "IndirectDE"
    <2>1. Cycles(op, form) = <<Rd("DE", "Z", ""), M1("PC", "A=Z")>>
      BY <1>2, CyclesOf DEF LoadAccumulatorCycles
    <2>2. KindOf(op, form, v) = "Read"
      BY <1>2, FamilySets DEF KindOf, Accumulator, Rotations, BitOps, AccumulatorKind
    <2>3. Microcode("Read") = <<"read", "fetch">> /\ "Read" \in DOMAIN Sequencer!Microcode
      BY Rows
    <2>4. Follows(<<Rd("DE", "Z", ""), M1("PC", "A=Z")>>, <<"read", "fetch">>, op, form, v)
      BY <1>2, CycleForms, Follows2, EmptyIsQuiet DEF Ends, Controlling, Places, Fetch, Source, Returns, Quiet
    <2> QED  BY <2>1, <2>2, <2>3, <2>4 DEF FollowsIts
  <1>3. CASE form = "Indirect0xFF00_C"
    <2>1. Cycles(op, form) = <<Rd("FF00+C", "Z", ""), M1("PC", "A=Z")>>
      BY <1>3, CyclesOf DEF LoadAccumulatorCycles
    <2>2. KindOf(op, form, v) = "Read"
      BY <1>3, FamilySets DEF KindOf, Accumulator, Rotations, BitOps, AccumulatorKind
    <2>3. Microcode("Read") = <<"read", "fetch">> /\ "Read" \in DOMAIN Sequencer!Microcode
      BY Rows
    <2>4. Follows(<<Rd("FF00+C", "Z", ""), M1("PC", "A=Z")>>, <<"read", "fetch">>, op, form, v)
      BY <1>3, CycleForms, Follows2, EmptyIsQuiet DEF Ends, Controlling, Places, Fetch, Source, Returns, Quiet
    <2> QED  BY <2>1, <2>2, <2>3, <2>4 DEF FollowsIts
  <1>4. CASE form = "IndirectHL_dec"
    <2>1. Cycles(op, form) = <<Rd("HL", "Z", "HL-"), M1("PC", "A=Z")>>
      BY <1>4, CyclesOf DEF LoadAccumulatorCycles
    <2>2. KindOf(op, form, v) = "Read"
      BY <1>4, FamilySets DEF KindOf, Accumulator, Rotations, BitOps, AccumulatorKind
    <2>3. Microcode("Read") = <<"read", "fetch">> /\ "Read" \in DOMAIN Sequencer!Microcode
      BY Rows
    <2>4. Follows(<<Rd("HL", "Z", "HL-"), M1("PC", "A=Z")>>, <<"read", "fetch">>, op, form, v)
      BY <1>4, CycleForms, Follows2, EmptyIsQuiet DEF Ends, Controlling, Places, Fetch, Source, Returns, Quiet
    <2> QED  BY <2>1, <2>2, <2>3, <2>4 DEF FollowsIts
  <1>5. CASE form = "IndirectHL_inc"
    <2>1. Cycles(op, form) = <<Rd("HL", "Z", "HL+"), M1("PC", "A=Z")>>
      BY <1>5, CyclesOf DEF LoadAccumulatorCycles
    <2>2. KindOf(op, form, v) = "Read"
      BY <1>5, FamilySets DEF KindOf, Accumulator, Rotations, BitOps, AccumulatorKind
    <2>3. Microcode("Read") = <<"read", "fetch">> /\ "Read" \in DOMAIN Sequencer!Microcode
      BY Rows
    <2>4. Follows(<<Rd("HL", "Z", "HL+"), M1("PC", "A=Z")>>, <<"read", "fetch">>, op, form, v)
      BY <1>5, CycleForms, Follows2, EmptyIsQuiet DEF Ends, Controlling, Places, Fetch, Source, Returns, Quiet
    <2> QED  BY <2>1, <2>2, <2>3, <2>4 DEF FollowsIts
  <1>6. CASE form = "Direct"
    <2>1. Cycles(op, form) = <<LowOperand, HighOperand, Rd("WZ", "Z", ""), M1("PC", "A=Z")>>
      BY <1>6, CyclesOf DEF LoadAccumulatorCycles
    <2>2. KindOf(op, form, v) = "DirectRead"
      BY <1>6, FamilySets DEF KindOf, Accumulator, Rotations, BitOps, AccumulatorKind
    <2>3. Microcode("DirectRead") = <<"operand", "operand", "read", "fetch">> /\ "DirectRead" \in DOMAIN Sequencer!Microcode
      BY Rows
    <2>4. Follows(<<LowOperand, HighOperand, Rd("WZ", "Z", ""), M1("PC", "A=Z")>>, <<"operand", "operand", "read", "fetch">>, op, form, v)
      BY <1>6, CycleForms, Follows4, EmptyIsQuiet DEF Ends, Controlling, Places, Fetch, Source, Returns, Quiet
    <2> QED  BY <2>1, <2>2, <2>3, <2>4 DEF FollowsIts
  <1>7. CASE form = "Indirect0xFF00_n"
    <2>1. Cycles(op, form) = <<LowOperand, Rd("FF00+Z", "Z", ""), M1("PC", "A=Z")>>
      BY <1>7, CyclesOf DEF LoadAccumulatorCycles
    <2>2. KindOf(op, form, v) = "ImmediateRead"
      BY <1>7, FamilySets DEF KindOf, Accumulator, Rotations, BitOps, AccumulatorKind
    <2>3. Microcode("ImmediateRead") = <<"operand", "read", "fetch">> /\ "ImmediateRead" \in DOMAIN Sequencer!Microcode
      BY Rows
    <2>4. Follows(<<LowOperand, Rd("FF00+Z", "Z", ""), M1("PC", "A=Z")>>, <<"operand", "read", "fetch">>, op, form, v)
      BY <1>7, CycleForms, Follows3, EmptyIsQuiet DEF Ends, Controlling, Places, Fetch, Source, Returns, Quiet
    <2> QED  BY <2>1, <2>2, <2>3, <2>4 DEF FollowsIts
  <1> QED  BY <1>1, <1>2, <1>3, <1>4, <1>5, <1>6, <1>7 DEF Pointers

LEMMA AccumulatorStoresFollow ==
    ASSUME NEW op, NEW form, NEW v, op = "LoadFromAccumulator", form \in Pointers
    PROVE  FollowsIts(op, form, v)
  <1>1. CASE form = "IndirectBC"
    <2>1. Cycles(op, form) = <<Wr("BC", "A", ""), Fetch>>
      BY <1>1, CyclesOf DEF LoadFromAccumulatorCycles
    <2>2. KindOf(op, form, v) = "Write"
      BY <1>1, FamilySets DEF KindOf, Accumulator, Rotations, BitOps, AccumulatorKind
    <2>3. Microcode("Write") = <<"write", "fetch">> /\ "Write" \in DOMAIN Sequencer!Microcode
      BY Rows
    <2>4. Follows(<<Wr("BC", "A", ""), Fetch>>, <<"write", "fetch">>, op, form, v)
      BY <1>1, CycleForms, Follows2, EmptyIsQuiet DEF Ends, Controlling, Places, Fetch, Source, Returns, Quiet
    <2> QED  BY <2>1, <2>2, <2>3, <2>4 DEF FollowsIts
  <1>2. CASE form = "IndirectDE"
    <2>1. Cycles(op, form) = <<Wr("DE", "A", ""), Fetch>>
      BY <1>2, CyclesOf DEF LoadFromAccumulatorCycles
    <2>2. KindOf(op, form, v) = "Write"
      BY <1>2, FamilySets DEF KindOf, Accumulator, Rotations, BitOps, AccumulatorKind
    <2>3. Microcode("Write") = <<"write", "fetch">> /\ "Write" \in DOMAIN Sequencer!Microcode
      BY Rows
    <2>4. Follows(<<Wr("DE", "A", ""), Fetch>>, <<"write", "fetch">>, op, form, v)
      BY <1>2, CycleForms, Follows2, EmptyIsQuiet DEF Ends, Controlling, Places, Fetch, Source, Returns, Quiet
    <2> QED  BY <2>1, <2>2, <2>3, <2>4 DEF FollowsIts
  <1>3. CASE form = "Indirect0xFF00_C"
    <2>1. Cycles(op, form) = <<Wr("FF00+C", "A", ""), Fetch>>
      BY <1>3, CyclesOf DEF LoadFromAccumulatorCycles
    <2>2. KindOf(op, form, v) = "Write"
      BY <1>3, FamilySets DEF KindOf, Accumulator, Rotations, BitOps, AccumulatorKind
    <2>3. Microcode("Write") = <<"write", "fetch">> /\ "Write" \in DOMAIN Sequencer!Microcode
      BY Rows
    <2>4. Follows(<<Wr("FF00+C", "A", ""), Fetch>>, <<"write", "fetch">>, op, form, v)
      BY <1>3, CycleForms, Follows2, EmptyIsQuiet DEF Ends, Controlling, Places, Fetch, Source, Returns, Quiet
    <2> QED  BY <2>1, <2>2, <2>3, <2>4 DEF FollowsIts
  <1>4. CASE form = "IndirectHL_dec"
    <2>1. Cycles(op, form) = <<Wr("HL", "A", "HL-"), Fetch>>
      BY <1>4, CyclesOf DEF LoadFromAccumulatorCycles
    <2>2. KindOf(op, form, v) = "Write"
      BY <1>4, FamilySets DEF KindOf, Accumulator, Rotations, BitOps, AccumulatorKind
    <2>3. Microcode("Write") = <<"write", "fetch">> /\ "Write" \in DOMAIN Sequencer!Microcode
      BY Rows
    <2>4. Follows(<<Wr("HL", "A", "HL-"), Fetch>>, <<"write", "fetch">>, op, form, v)
      BY <1>4, CycleForms, Follows2, EmptyIsQuiet DEF Ends, Controlling, Places, Fetch, Source, Returns, Quiet
    <2> QED  BY <2>1, <2>2, <2>3, <2>4 DEF FollowsIts
  <1>5. CASE form = "IndirectHL_inc"
    <2>1. Cycles(op, form) = <<Wr("HL", "A", "HL+"), Fetch>>
      BY <1>5, CyclesOf DEF LoadFromAccumulatorCycles
    <2>2. KindOf(op, form, v) = "Write"
      BY <1>5, FamilySets DEF KindOf, Accumulator, Rotations, BitOps, AccumulatorKind
    <2>3. Microcode("Write") = <<"write", "fetch">> /\ "Write" \in DOMAIN Sequencer!Microcode
      BY Rows
    <2>4. Follows(<<Wr("HL", "A", "HL+"), Fetch>>, <<"write", "fetch">>, op, form, v)
      BY <1>5, CycleForms, Follows2, EmptyIsQuiet DEF Ends, Controlling, Places, Fetch, Source, Returns, Quiet
    <2> QED  BY <2>1, <2>2, <2>3, <2>4 DEF FollowsIts
  <1>6. CASE form = "Direct"
    <2>1. Cycles(op, form) = <<LowOperand, HighOperand, Wr("WZ", "A", ""), Fetch>>
      BY <1>6, CyclesOf DEF LoadFromAccumulatorCycles
    <2>2. KindOf(op, form, v) = "DirectWrite"
      BY <1>6, FamilySets DEF KindOf, Accumulator, Rotations, BitOps, AccumulatorKind
    <2>3. Microcode("DirectWrite") = <<"operand", "operand", "write", "fetch">> /\ "DirectWrite" \in DOMAIN Sequencer!Microcode
      BY Rows
    <2>4. Follows(<<LowOperand, HighOperand, Wr("WZ", "A", ""), Fetch>>, <<"operand", "operand", "write", "fetch">>, op, form, v)
      BY <1>6, CycleForms, Follows4, EmptyIsQuiet DEF Ends, Controlling, Places, Fetch, Source, Returns, Quiet
    <2> QED  BY <2>1, <2>2, <2>3, <2>4 DEF FollowsIts
  <1>7. CASE form = "Indirect0xFF00_n"
    <2>1. Cycles(op, form) = <<LowOperand, Wr("FF00+Z", "A", ""), Fetch>>
      BY <1>7, CyclesOf DEF LoadFromAccumulatorCycles
    <2>2. KindOf(op, form, v) = "ImmediateWrite"
      BY <1>7, FamilySets DEF KindOf, Accumulator, Rotations, BitOps, AccumulatorKind
    <2>3. Microcode("ImmediateWrite") = <<"operand", "write", "fetch">> /\ "ImmediateWrite" \in DOMAIN Sequencer!Microcode
      BY Rows
    <2>4. Follows(<<LowOperand, Wr("FF00+Z", "A", ""), Fetch>>, <<"operand", "write", "fetch">>, op, form, v)
      BY <1>7, CycleForms, Follows3, EmptyIsQuiet DEF Ends, Controlling, Places, Fetch, Source, Returns, Quiet
    <2> QED  BY <2>1, <2>2, <2>3, <2>4 DEF FollowsIts
  <1> QED  BY <1>1, <1>2, <1>3, <1>4, <1>5, <1>6, <1>7 DEF Pointers

LEMMA StackFollows ==
    ASSUME NEW op, NEW form, NEW v, 
           \/ op \in {"Load16bitRegisterOrRegisterPair", "LoadStackPointerFromHL", "PushToStack",
                     "PopFromStack", "LoadHLFromAdjustedStackPointer"} /\ form = ""
           \/ op = "LoadFromStackPointer" /\ form = "Direct"
    PROVE  FollowsIts(op, form, v)
  <1>1. CASE op = "Load16bitRegisterOrRegisterPair" /\ Pair(v) # 3
    <2>1. Cycles(op, form) = <<LowOperand, HighOperand, M1("PC", "r16=WZ")>>
      BY <1>1, CyclesOf DEF StackCycles, Push
    <2>2. KindOf(op, form, v) = "Immediate16"
      BY <1>1, FamilySets DEF KindOf, Accumulator, Rotations, BitOps, PairKind
    <2>3. Microcode("Immediate16") = <<"operand", "operand", "fetch">> /\ "Immediate16" \in DOMAIN Sequencer!Microcode
      BY Rows
    <2>4. Follows(<<LowOperand, HighOperand, M1("PC", "r16=WZ")>>, <<"operand", "operand", "fetch">>, op, form, v)
      BY <1>1, CycleForms, Follows3, EmptyIsQuiet DEF Ends, Controlling, Places, Fetch, Source, Returns, Quiet
    <2> QED  BY <2>1, <2>2, <2>3, <2>4 DEF FollowsIts
  <1>2. CASE op = "Load16bitRegisterOrRegisterPair" /\ Pair(v) = 3
    <2>1. Cycles(op, form) = <<LowOperand, HighOperand, M1("PC", "r16=WZ")>>
      BY <1>2, CyclesOf DEF StackCycles, Push
    <2>2. KindOf(op, form, v) = "LoadSP"
      BY <1>2, FamilySets DEF KindOf, Accumulator, Rotations, BitOps, PairKind
    <2>3. Microcode("LoadSP") = <<"operand", "operand", "fetchSP">> /\ "LoadSP" \in DOMAIN Sequencer!Microcode
      BY Rows
    <2>4. Follows(<<LowOperand, HighOperand, M1("PC", "r16=WZ")>>, <<"operand", "operand", "fetchSP">>, op, form, v)
      BY <1>2, CycleForms, Follows3, EmptyIsQuiet DEF Ends, Controlling, Places, Fetch, Source, Returns, SetsSP
    <2> QED  BY <2>1, <2>2, <2>3, <2>4 DEF FollowsIts
  <1>3. CASE op = "LoadFromStackPointer"
    <2>1. Cycles(op, form) = <<LowOperand, HighOperand, Wr("WZ", "SPL", "WZ+"), Wr("WZ", "SPH", ""), Fetch>>
      BY <1>3, CyclesOf DEF StackCycles, Push
    <2>2. KindOf(op, form, v) = "StoreSP"
      BY <1>3, FamilySets DEF KindOf, Accumulator, Rotations, BitOps, PairKind
    <2>3. Microcode("StoreSP") = <<"operand", "operand", "write", "write", "fetch">> /\ "StoreSP" \in DOMAIN Sequencer!Microcode
      BY Rows
    <2>4. Follows(<<LowOperand, HighOperand, Wr("WZ", "SPL", "WZ+"), Wr("WZ", "SPH", ""), Fetch>>, <<"operand", "operand", "write", "write", "fetch">>, op, form, v)
      BY <1>3, CycleForms, Follows5, EmptyIsQuiet DEF Ends, Controlling, Places, Fetch, Source, Returns, Quiet
    <2> QED  BY <2>1, <2>2, <2>3, <2>4 DEF FollowsIts
  <1>4. CASE op = "LoadStackPointerFromHL"
    <2>1. Cycles(op, form) = <<Do("SP=HL"), Fetch>>
      BY <1>4, CyclesOf DEF StackCycles, Push
    <2>2. KindOf(op, form, v) = "CopySP"
      BY <1>4, FamilySets DEF KindOf, Accumulator, Rotations, BitOps, PairKind
    <2>3. Microcode("CopySP") = <<"setSP", "fetch">> /\ "CopySP" \in DOMAIN Sequencer!Microcode
      BY Rows
    <2>4. Follows(<<Do("SP=HL"), Fetch>>, <<"setSP", "fetch">>, op, form, v)
      BY <1>4, CycleForms, Follows2, EmptyIsQuiet DEF Ends, Controlling, Places, Fetch, Source, Returns, SetsSP
    <2> QED  BY <2>1, <2>2, <2>3, <2>4 DEF FollowsIts
  <1>5. CASE op = "PushToStack"
    <2>1. Cycles(op, form) = <<Do("SP-"), Wr("SP", "R16Mstk", "SP-"), Wr("SP", "R16Lstk", ""), Fetch>>
      BY <1>5, CyclesOf DEF StackCycles, Push
    <2>2. KindOf(op, form, v) = "Push"
      BY <1>5, FamilySets DEF KindOf, Accumulator, Rotations, BitOps, PairKind
    <2>3. Microcode("Push") = <<"decSP", "push", "write", "fetch">> /\ "Push" \in DOMAIN Sequencer!Microcode
      BY Rows
    <2>4. Follows(<<Do("SP-"), Wr("SP", "R16Mstk", "SP-"), Wr("SP", "R16Lstk", ""), Fetch>>, <<"decSP", "push", "write", "fetch">>, op, form, v)
      BY <1>5, CycleForms, Follows4, EmptyIsQuiet DEF Ends, Controlling, Places, Fetch, Source, Returns, Quiet
    <2> QED  BY <2>1, <2>2, <2>3, <2>4 DEF FollowsIts
  <1>6. CASE op = "PopFromStack"
    <2>1. Cycles(op, form) = <<Rd("SP", "Z", "SP+"), Rd("SP", "W", "SP+"), M1("PC", "r16stk=WZ")>>
      BY <1>6, CyclesOf DEF StackCycles, Push
    <2>2. KindOf(op, form, v) = "Pop"
      BY <1>6, FamilySets DEF KindOf, Accumulator, Rotations, BitOps, PairKind
    <2>3. Microcode("Pop") = <<"pop", "pop", "fetch">> /\ "Pop" \in DOMAIN Sequencer!Microcode
      BY Rows
    <2>4. Follows(<<Rd("SP", "Z", "SP+"), Rd("SP", "W", "SP+"), M1("PC", "r16stk=WZ")>>, <<"pop", "pop", "fetch">>, op, form, v)
      BY <1>6, CycleForms, Follows3, EmptyIsQuiet DEF Ends, Controlling, Places, Fetch, Source, Returns, Quiet
    <2> QED  BY <2>1, <2>2, <2>3, <2>4 DEF FollowsIts
  <1>7. CASE op = "LoadHLFromAdjustedStackPointer"
    <2>1. Cycles(op, form) = <<LowOperand, Do("L=SP+Z"), M1("PC", "H=SP+Z")>>
      BY <1>7, CyclesOf DEF StackCycles, Push
    <2>2. KindOf(op, form, v) = "OffsetSP"
      BY <1>7, FamilySets DEF KindOf, Accumulator, Rotations, BitOps, PairKind
    <2>3. Microcode("OffsetSP") = <<"operand", "internal", "fetch">> /\ "OffsetSP" \in DOMAIN Sequencer!Microcode
      BY Rows
    <2>4. Follows(<<LowOperand, Do("L=SP+Z"), M1("PC", "H=SP+Z")>>, <<"operand", "internal", "fetch">>, op, form, v)
      BY <1>7, CycleForms, Follows3, EmptyIsQuiet DEF Ends, Controlling, Places, Fetch, Source, Returns, Quiet
    <2> QED  BY <2>1, <2>2, <2>3, <2>4 DEF FollowsIts
  <1> QED  BY <1>1, <1>2, <1>3, <1>4, <1>5, <1>6, <1>7

LEMMA AccumulatorFollows ==
    ASSUME NEW op, NEW form, NEW v, op \in Accumulator,
           form \in {"Register", "IndirectHL", "Immediate"}, form = "Register" => X(v) # 6
    PROVE  FollowsIts(op, form, v)
  <1>1. CASE form = "Register"
    <2>1. Cycles(op, form) = <<M1("PC", "accumulate")>>
      BY <1>1, CyclesOf DEF AccumulateCycles
    <2>2. KindOf(op, form, v) = "OneCycle"
      BY <1>1, FamilySets DEF KindOf, Accumulator, Rotations, BitOps, OperandKind
    <2>3. Microcode("OneCycle") = <<"fetch">> /\ "OneCycle" \in DOMAIN Sequencer!Microcode
      BY Rows
    <2>4. Follows(<<M1("PC", "accumulate")>>, <<"fetch">>, op, form, v)
      BY <1>1, CycleForms, Follows1, EmptyIsQuiet DEF Ends, Controlling, Places, Fetch, Source, Returns, Quiet, Accumulator
    <2> QED  BY <2>1, <2>2, <2>3, <2>4 DEF FollowsIts
  <1>2. CASE form = "IndirectHL"
    <2>1. Cycles(op, form) = <<Rd("HL", "Z", ""), M1("PC", "accumulate")>>
      BY <1>2, CyclesOf DEF AccumulateCycles
    <2>2. KindOf(op, form, v) = "Read"
      BY <1>2, FamilySets DEF KindOf, Accumulator, Rotations, BitOps, OperandKind
    <2>3. Microcode("Read") = <<"read", "fetch">> /\ "Read" \in DOMAIN Sequencer!Microcode
      BY Rows
    <2>4. Follows(<<Rd("HL", "Z", ""), M1("PC", "accumulate")>>, <<"read", "fetch">>, op, form, v)
      BY <1>2, CycleForms, Follows2, EmptyIsQuiet DEF Ends, Controlling, Places, Fetch, Source, Returns, Quiet, Accumulator
    <2> QED  BY <2>1, <2>2, <2>3, <2>4 DEF FollowsIts
  <1>3. CASE form = "Immediate"
    <2>1. Cycles(op, form) = <<LowOperand, M1("PC", "accumulate")>>
      BY <1>3, CyclesOf DEF AccumulateCycles
    <2>2. KindOf(op, form, v) = "Immediate"
      BY <1>3, FamilySets DEF KindOf, Accumulator, Rotations, BitOps, OperandKind
    <2>3. Microcode("Immediate") = <<"operand", "fetch">> /\ "Immediate" \in DOMAIN Sequencer!Microcode
      BY Rows
    <2>4. Follows(<<LowOperand, M1("PC", "accumulate")>>, <<"operand", "fetch">>, op, form, v)
      BY <1>3, CycleForms, Follows2, EmptyIsQuiet DEF Ends, Controlling, Places, Fetch, Source, Returns, Quiet, Accumulator
    <2> QED  BY <2>1, <2>2, <2>3, <2>4 DEF FollowsIts
  <1> QED  BY <1>1, <1>2, <1>3

LEMMA ModifyingFollows ==
    ASSUME NEW op, NEW form, NEW v, op \in Modifying, form \in {"Register", "Accumulator", "IndirectHL"},
           form # "IndirectHL" => ModifiedCode(op, v) # 6, form = "Accumulator" => op \in Rotations
    PROVE  FollowsIts(op, form, v)
  <1>1. CASE form \in {"Register", "Accumulator"}
    <2>1. Cycles(op, form) = <<M1("PC", "modify")>>
      BY <1>1, CyclesOf DEF ModifyCycles
    <2>2. KindOf(op, form, v) = "OneCycle"
      BY <1>1, FamilySets DEF KindOf, Accumulator, Rotations, BitOps, OperandKind
    <2>3. Microcode("OneCycle") = <<"fetch">> /\ "OneCycle" \in DOMAIN Sequencer!Microcode
      BY Rows
    <2>4. Follows(<<M1("PC", "modify")>>, <<"fetch">>, op, form, v)
      BY <1>1, CycleForms, Follows1, EmptyIsQuiet, FamilySets DEF Ends, Controlling, Places, Fetch, Source, Returns, Quiet, Rotations, BitOps
    <2> QED  BY <2>1, <2>2, <2>3, <2>4 DEF FollowsIts
  <1>2. CASE form = "IndirectHL" /\ op = "TestBit"
    <2>1. Cycles(op, form) = <<Rd("HL", "Z", ""), M1("PC", "flags")>>
      BY <1>2, CyclesOf DEF ModifyCycles
    <2>2. KindOf(op, form, v) = "Read"
      BY <1>2, FamilySets DEF KindOf, Accumulator, Rotations, BitOps, OperandKind
    <2>3. Microcode("Read") = <<"read", "fetch">> /\ "Read" \in DOMAIN Sequencer!Microcode
      BY Rows
    <2>4. Follows(<<Rd("HL", "Z", ""), M1("PC", "flags")>>, <<"read", "fetch">>, op, form, v)
      BY <1>2, CycleForms, Follows2, EmptyIsQuiet, FamilySets DEF Ends, Controlling, Places, Fetch, Source, Returns, Quiet
    <2> QED  BY <2>1, <2>2, <2>3, <2>4 DEF FollowsIts
  <1>3. CASE form = "IndirectHL" /\ op # "TestBit"
    <2>1. Cycles(op, form) = <<Rd("HL", "Z", ""), Wr("HL", "modified", "flags"), Fetch>>
      BY <1>3, CyclesOf DEF ModifyCycles
    <2>2. KindOf(op, form, v) = "ReadModifyWrite"
      BY <1>3, FamilySets DEF KindOf, Accumulator, Rotations, BitOps, OperandKind
    <2>3. Microcode("ReadModifyWrite") = <<"read", "write", "fetch">> /\ "ReadModifyWrite" \in DOMAIN Sequencer!Microcode
      BY Rows
    <2>4. Follows(<<Rd("HL", "Z", ""), Wr("HL", "modified", "flags"), Fetch>>, <<"read", "write", "fetch">>, op, form, v)
      BY <1>3, CycleForms, Follows3, EmptyIsQuiet, FamilySets DEF Ends, Controlling, Places, Fetch, Source, Returns, Quiet, Rotations, BitOps
    <2> QED  BY <2>1, <2>2, <2>3, <2>4 DEF FollowsIts
  <1> QED  BY <1>1, <1>2, <1>3

LEMMA WideFollows ==
    ASSUME NEW op, NEW form, NEW v, 
           \/ op \in {"Increment16bitRegister", "Decrement16bitRegister"} /\ form = ""
           \/ op = "Add" /\ form = "16bitRegister"
           \/ op = "AddToStackPointer" /\ form = "relative"
    PROVE  FollowsIts(op, form, v)
  <1>1. CASE op = "Increment16bitRegister" /\ Pair(v) # 3
    <2>1. Cycles(op, form) = <<Do("r16+"), Fetch>>
      BY <1>1, CyclesOf DEF WideCycles
    <2>2. KindOf(op, form, v) = "Internal"
      BY <1>1, FamilySets DEF KindOf, Accumulator, Rotations, BitOps, PairKind
    <2>3. Microcode("Internal") = <<"internal", "fetch">> /\ "Internal" \in DOMAIN Sequencer!Microcode
      BY Rows
    <2>4. Follows(<<Do("r16+"), Fetch>>, <<"internal", "fetch">>, op, form, v)
      BY <1>1, CycleForms, Follows2, EmptyIsQuiet DEF Ends, Controlling, Places, Fetch, Source, Returns, Quiet
    <2> QED  BY <2>1, <2>2, <2>3, <2>4 DEF FollowsIts
  <1>2. CASE op = "Increment16bitRegister" /\ Pair(v) = 3
    <2>1. Cycles(op, form) = <<Do("r16+"), Fetch>>
      BY <1>2, CyclesOf DEF WideCycles
    <2>2. KindOf(op, form, v) = "CopySP"
      BY <1>2, FamilySets DEF KindOf, Accumulator, Rotations, BitOps, PairKind
    <2>3. Microcode("CopySP") = <<"setSP", "fetch">> /\ "CopySP" \in DOMAIN Sequencer!Microcode
      BY Rows
    <2>4. Follows(<<Do("r16+"), Fetch>>, <<"setSP", "fetch">>, op, form, v)
      BY <1>2, CycleForms, Follows2, EmptyIsQuiet DEF Ends, Controlling, Places, Fetch, Source, Returns, SetsSP
    <2> QED  BY <2>1, <2>2, <2>3, <2>4 DEF FollowsIts
  <1>3. CASE op = "Decrement16bitRegister" /\ Pair(v) # 3
    <2>1. Cycles(op, form) = <<Do("r16-"), Fetch>>
      BY <1>3, CyclesOf DEF WideCycles
    <2>2. KindOf(op, form, v) = "Internal"
      BY <1>3, FamilySets DEF KindOf, Accumulator, Rotations, BitOps, PairKind
    <2>3. Microcode("Internal") = <<"internal", "fetch">> /\ "Internal" \in DOMAIN Sequencer!Microcode
      BY Rows
    <2>4. Follows(<<Do("r16-"), Fetch>>, <<"internal", "fetch">>, op, form, v)
      BY <1>3, CycleForms, Follows2, EmptyIsQuiet DEF Ends, Controlling, Places, Fetch, Source, Returns, Quiet
    <2> QED  BY <2>1, <2>2, <2>3, <2>4 DEF FollowsIts
  <1>4. CASE op = "Decrement16bitRegister" /\ Pair(v) = 3
    <2>1. Cycles(op, form) = <<Do("r16-"), Fetch>>
      BY <1>4, CyclesOf DEF WideCycles
    <2>2. KindOf(op, form, v) = "CopySP"
      BY <1>4, FamilySets DEF KindOf, Accumulator, Rotations, BitOps, PairKind
    <2>3. Microcode("CopySP") = <<"setSP", "fetch">> /\ "CopySP" \in DOMAIN Sequencer!Microcode
      BY Rows
    <2>4. Follows(<<Do("r16-"), Fetch>>, <<"setSP", "fetch">>, op, form, v)
      BY <1>4, CycleForms, Follows2, EmptyIsQuiet DEF Ends, Controlling, Places, Fetch, Source, Returns, SetsSP
    <2> QED  BY <2>1, <2>2, <2>3, <2>4 DEF FollowsIts
  <1>5. CASE op = "Add" /\ form = "16bitRegister"
    <2>1. Cycles(op, form) = <<Do("L+r16"), M1("PC", "H+r16")>>
      BY <1>5, CyclesOf DEF WideCycles
    <2>2. KindOf(op, form, v) = "Internal"
      BY <1>5, FamilySets DEF KindOf, Accumulator, Rotations, BitOps, PairKind
    <2>3. Microcode("Internal") = <<"internal", "fetch">> /\ "Internal" \in DOMAIN Sequencer!Microcode
      BY Rows
    <2>4. Follows(<<Do("L+r16"), M1("PC", "H+r16")>>, <<"internal", "fetch">>, op, form, v)
      BY <1>5, CycleForms, Follows2, EmptyIsQuiet DEF Ends, Controlling, Places, Fetch, Source, Returns, Quiet
    <2> QED  BY <2>1, <2>2, <2>3, <2>4 DEF FollowsIts
  <1>6. CASE op = "AddToStackPointer"
    <2>1. Cycles(op, form) = <<LowOperand, Do(""), Do(""), M1("PC", "SP+Z")>>
      BY <1>6, CyclesOf DEF WideCycles
    <2>2. KindOf(op, form, v) = "AddSP"
      BY <1>6, FamilySets DEF KindOf, Accumulator, Rotations, BitOps, PairKind
    <2>3. Microcode("AddSP") = <<"operand", "internal", "internal", "fetchSP">> /\ "AddSP" \in DOMAIN Sequencer!Microcode
      BY Rows
    <2>4. Follows(<<LowOperand, Do(""), Do(""), M1("PC", "SP+Z")>>, <<"operand", "internal", "internal", "fetchSP">>, op, form, v)
      BY <1>6, CycleForms, Follows4, EmptyIsQuiet DEF Ends, Controlling, Places, Fetch, Source, Returns, SetsSP
    <2> QED  BY <2>1, <2>2, <2>3, <2>4 DEF FollowsIts
  <1> QED  BY <1>1, <1>2, <1>3, <1>4, <1>5, <1>6

LEMMA JumpsFollow ==
    ASSUME NEW op, NEW form, NEW v, 
           \/ op \in {"Jump", "JumpToHL", "RelativeJump"} /\ form = ""
           \/ op \in {"Jump", "RelativeJump"} /\ form = "Conditional"
    PROVE  FollowsIts(op, form, v)
  <1>1. CASE op = "JumpToHL"
    <2>1. Cycles(op, form) = <<M1("HL", "")>>
      BY <1>1, CyclesOf DEF JumpCycles
    <2>2. KindOf(op, form, v) = "JumpHL"
      BY <1>1, FamilySets DEF KindOf, Accumulator, Rotations, BitOps, ConditionalKind
    <2>3. Microcode("JumpHL") = <<"fetchTarget">> /\ "JumpHL" \in DOMAIN Sequencer!Microcode
      BY Rows
    <2>4. Follows(<<M1("HL", "")>>, <<"fetchTarget">>, op, form, v)
      BY <1>1, CycleForms, Follows1, EmptyIsQuiet DEF Ends, Controlling, Places, Fetch, Source, Returns
    <2> QED  BY <2>1, <2>2, <2>3, <2>4 DEF FollowsIts
  <1>2. CASE op = "Jump" /\ form = ""
    <2>1. Cycles(op, form) = <<LowOperand, HighOperand, Do("PC=WZ"), Fetch>>
      BY <1>2, CyclesOf DEF JumpCycles
    <2>2. KindOf(op, form, v) = "Jump"
      BY <1>2, FamilySets DEF KindOf, Accumulator, Rotations, BitOps, ConditionalKind
    <2>3. Microcode("Jump") = <<"operand", "operand", "jump", "fetch">> /\ "Jump" \in DOMAIN Sequencer!Microcode
      BY Rows
    <2>4. Follows(<<LowOperand, HighOperand, Do("PC=WZ"), Fetch>>, <<"operand", "operand", "jump", "fetch">>, op, form, v)
      BY <1>2, CycleForms, Follows4, EmptyIsQuiet DEF Ends, Controlling, Places, Fetch, Source, Returns
    <2> QED  BY <2>1, <2>2, <2>3, <2>4 DEF FollowsIts
  <1>3. CASE op = "Jump" /\ form = "Conditional"
    <2>1. Cycles(op, form) = <<LowOperand, Test(HighOperand), If(Do("PC=WZ")), Fetch>>
      BY <1>3, CyclesOf DEF JumpCycles
    <2>2. KindOf(op, form, v) = "JumpIf"
      BY <1>3, FamilySets DEF KindOf, Accumulator, Rotations, BitOps, ConditionalKind
    <2>3. Microcode("JumpIf") = <<"operand", "operandTest", "jumpIf", "fetch">> /\ "JumpIf" \in DOMAIN Sequencer!Microcode
      BY Rows
    <2>4. Follows(<<LowOperand, Test(HighOperand), If(Do("PC=WZ")), Fetch>>, <<"operand", "operandTest", "jumpIf", "fetch">>, op, form, v)
      BY <1>3, CycleForms, Follows4, EmptyIsQuiet DEF Ends, Controlling, Places, Fetch, Source, Returns
    <2> QED  BY <2>1, <2>2, <2>3, <2>4 DEF FollowsIts
  <1>4. CASE op = "RelativeJump" /\ form = ""
    <2>1. Cycles(op, form) = <<LowOperand, Do("WZ=PC+Z"), M1("WZ", "")>>
      BY <1>4, CyclesOf DEF JumpCycles
    <2>2. KindOf(op, form, v) = "RelativeJump"
      BY <1>4, FamilySets DEF KindOf, Accumulator, Rotations, BitOps, ConditionalKind
    <2>3. Microcode("RelativeJump") = <<"operand", "internal", "fetchTarget">> /\ "RelativeJump" \in DOMAIN Sequencer!Microcode
      BY Rows
    <2>4. Follows(<<LowOperand, Do("WZ=PC+Z"), M1("WZ", "")>>, <<"operand", "internal", "fetchTarget">>, op, form, v)
      BY <1>4, CycleForms, Follows3, EmptyIsQuiet DEF Ends, Controlling, Places, Fetch, Source, Returns, Quiet
    <2> QED  BY <2>1, <2>2, <2>3, <2>4 DEF FollowsIts
  <1>5. CASE op = "RelativeJump" /\ form = "Conditional"
    <2>1. Cycles(op, form) = <<Test(LowOperand), If(Do("WZ=PC+Z")), M1("WZ", "")>>
      BY <1>5, CyclesOf DEF JumpCycles
    <2>2. KindOf(op, form, v) = "RelativeJumpIf"
      BY <1>5, FamilySets DEF KindOf, Accumulator, Rotations, BitOps, ConditionalKind
    <2>3. Microcode("RelativeJumpIf") = <<"operandTest", "internalIf", "fetchTarget">> /\ "RelativeJumpIf" \in DOMAIN Sequencer!Microcode
      BY Rows
    <2>4. Follows(<<Test(LowOperand), If(Do("WZ=PC+Z")), M1("WZ", "")>>, <<"operandTest", "internalIf", "fetchTarget">>, op, form, v)
      BY <1>5, CycleForms, Follows3, EmptyIsQuiet DEF Ends, Controlling, Places, Fetch, Source, Returns
    <2> QED  BY <2>1, <2>2, <2>3, <2>4 DEF FollowsIts
  <1> QED  BY <1>1, <1>2, <1>3, <1>4, <1>5

LEMMA CallsFollow ==
    ASSUME NEW op, NEW form, NEW v, 
           \/ op \in {"CallFunction", "Restart"} /\ form = ""
           \/ op = "CallFunction" /\ form = "Conditional"
    PROVE  FollowsIts(op, form, v)
  <1>1. CASE op = "Restart"
    <2>1. Cycles(op, form) = <<Do("SP-"), Wr("SP", "PCH", "SP-"), Wr("SP", "PCL", "PC=vector"), Fetch>>
      BY <1>1, CyclesOf DEF CallCycles, PushHigh, PushLow
    <2>2. KindOf(op, form, v) = "Restart"
      BY <1>1, FamilySets DEF KindOf, Accumulator, Rotations, BitOps, ConditionalKind
    <2>3. Microcode("Restart") = <<"decSP", "pushPCH", "pushPCL", "fetch">> /\ "Restart" \in DOMAIN Sequencer!Microcode
      BY Rows
    <2>4. Follows(<<Do("SP-"), Wr("SP", "PCH", "SP-"), Wr("SP", "PCL", "PC=vector"), Fetch>>, <<"decSP", "pushPCH", "pushPCL", "fetch">>, op, form, v)
      BY <1>1, CycleForms, Follows4, EmptyIsQuiet DEF Ends, Controlling, Places, Fetch, Source, Returns
    <2> QED  BY <2>1, <2>2, <2>3, <2>4 DEF FollowsIts
  <1>2. CASE op = "CallFunction" /\ form = ""
    <2>1. Cycles(op, form) = <<LowOperand, HighOperand, Do("SP-"), Wr("SP", "PCH", "SP-"), Wr("SP", "PCL", "PC=WZ"), Fetch>>
      BY <1>2, CyclesOf DEF CallCycles, PushHigh, PushLow
    <2>2. KindOf(op, form, v) = "Call"
      BY <1>2, FamilySets DEF KindOf, Accumulator, Rotations, BitOps, ConditionalKind
    <2>3. Microcode("Call") = <<"operand", "operand", "decSP", "pushPCH", "pushPCL", "fetch">> /\ "Call" \in DOMAIN Sequencer!Microcode
      BY Rows
    <2>4. Follows(<<LowOperand, HighOperand, Do("SP-"), Wr("SP", "PCH", "SP-"), Wr("SP", "PCL", "PC=WZ"), Fetch>>, <<"operand", "operand", "decSP", "pushPCH", "pushPCL", "fetch">>, op, form, v)
      BY <1>2, CycleForms, Follows6, EmptyIsQuiet DEF Ends, Controlling, Places, Fetch, Source, Returns
    <2> QED  BY <2>1, <2>2, <2>3, <2>4 DEF FollowsIts
  <1>3. CASE op = "CallFunction" /\ form = "Conditional"
    <2>1. Cycles(op, form) = <<LowOperand, Test(HighOperand), If(Do("SP-")), Wr("SP", "PCH", "SP-"), Wr("SP", "PCL", "PC=WZ"), Fetch>>
      BY <1>3, CyclesOf DEF CallCycles, PushHigh, PushLow
    <2>2. KindOf(op, form, v) = "CallIf"
      BY <1>3, FamilySets DEF KindOf, Accumulator, Rotations, BitOps, ConditionalKind
    <2>3. Microcode("CallIf") = <<"operand", "operandTest", "decSPIf", "pushPCH", "pushPCL", "fetch">> /\ "CallIf" \in DOMAIN Sequencer!Microcode
      BY Rows
    <2>4. Follows(<<LowOperand, Test(HighOperand), If(Do("SP-")), Wr("SP", "PCH", "SP-"), Wr("SP", "PCL", "PC=WZ"), Fetch>>, <<"operand", "operandTest", "decSPIf", "pushPCH", "pushPCL", "fetch">>, op, form, v)
      BY <1>3, CycleForms, Follows6, EmptyIsQuiet DEF Ends, Controlling, Places, Fetch, Source, Returns
    <2> QED  BY <2>1, <2>2, <2>3, <2>4 DEF FollowsIts
  <1> QED  BY <1>1, <1>2, <1>3

LEMMA ReturnsFollow ==
    ASSUME NEW op, NEW form, NEW v, 
           \/ op \in {"ReturnFromFunction", "ReturnFromInterruptHandler"} /\ form = ""
           \/ op = "ReturnFromFunction" /\ form = "Conditional"
    PROVE  FollowsIts(op, form, v)
  <1>1. CASE op = "ReturnFromFunction" /\ form = ""
    <2>1. Cycles(op, form) = <<Rd("SP", "Z", "SP+"), Rd("SP", "W", "SP+"), Do("PC=WZ"), Fetch>>
      BY <1>1, CyclesOf DEF ReturnCycles, PopLow, PopHigh
    <2>2. KindOf(op, form, v) = "Return"
      BY <1>1, FamilySets DEF KindOf, Accumulator, Rotations, BitOps, ConditionalKind
    <2>3. Microcode("Return") = <<"pop", "pop", "jump", "fetch">> /\ "Return" \in DOMAIN Sequencer!Microcode
      BY Rows
    <2>4. Follows(<<Rd("SP", "Z", "SP+"), Rd("SP", "W", "SP+"), Do("PC=WZ"), Fetch>>, <<"pop", "pop", "jump", "fetch">>, op, form, v)
      BY <1>1, CycleForms, Follows4, EmptyIsQuiet DEF Ends, Controlling, Places, Fetch, Source, Returns
    <2> QED  BY <2>1, <2>2, <2>3, <2>4 DEF FollowsIts
  <1>2. CASE op = "ReturnFromInterruptHandler" /\ form = ""
    <2>1. Cycles(op, form) = <<Rd("SP", "Z", "SP+"), Rd("SP", "W", "SP+"), Do("PC=WZ"), Fetch>>
      BY <1>2, CyclesOf DEF ReturnCycles, PopLow, PopHigh
    <2>2. KindOf(op, form, v) = "ReturnI"
      BY <1>2, FamilySets DEF KindOf, Accumulator, Rotations, BitOps, ConditionalKind
    <2>3. Microcode("ReturnI") = <<"pop", "pop", "jumpIME", "fetch">> /\ "ReturnI" \in DOMAIN Sequencer!Microcode
      BY Rows
    <2>4. Follows(<<Rd("SP", "Z", "SP+"), Rd("SP", "W", "SP+"), Do("PC=WZ"), Fetch>>, <<"pop", "pop", "jumpIME", "fetch">>, op, form, v)
      BY <1>2, CycleForms, Follows4, EmptyIsQuiet DEF Ends, Controlling, Places, Fetch, Source, Returns
    <2> QED  BY <2>1, <2>2, <2>3, <2>4 DEF FollowsIts
  <1>3. CASE op = "ReturnFromFunction" /\ form = "Conditional"
    <2>1. Cycles(op, form) = <<Test(Do("")), If(Rd("SP", "Z", "SP+")), Rd("SP", "W", "SP+"), Do("PC=WZ"), Fetch>>
      BY <1>3, CyclesOf DEF ReturnCycles, PopLow, PopHigh
    <2>2. KindOf(op, form, v) = "ReturnIf"
      BY <1>3, FamilySets DEF KindOf, Accumulator, Rotations, BitOps, ConditionalKind
    <2>3. Microcode("ReturnIf") = <<"test", "popIf", "pop", "jump", "fetch">> /\ "ReturnIf" \in DOMAIN Sequencer!Microcode
      BY Rows
    <2>4. Follows(<<Test(Do("")), If(Rd("SP", "Z", "SP+")), Rd("SP", "W", "SP+"), Do("PC=WZ"), Fetch>>, <<"test", "popIf", "pop", "jump", "fetch">>, op, form, v)
      BY <1>3, CycleForms, Follows5, EmptyIsQuiet DEF Ends, Controlling, Places, Fetch, Source, Returns
    <2> QED  BY <2>1, <2>2, <2>3, <2>4 DEF FollowsIts
  <1> QED  BY <1>1, <1>2, <1>3

LEMMA FlagsFollow ==
    ASSUME NEW op, NEW form, NEW v, 
           op \in {"ComplementCarryFlag", "SetCarryFlag", "DecimalAdjustAccumulator",
                   "ComplementAccumulator", "Nop", "StopSystemAndMainClocks"}
    PROVE  FollowsIts(op, form, v)
  <1>1. CASE op = "ComplementCarryFlag"
    <2>1. Cycles(op, form) = <<M1("PC", "CCF")>>
      BY <1>1, CyclesOf, Zenon
    <2>2. KindOf(op, form, v) = "OneCycle"
      BY <1>1, FamilySets DEF KindOf, Accumulator, Rotations, BitOps
    <2>3. Microcode("OneCycle") = <<"fetch">> /\ "OneCycle" \in DOMAIN Sequencer!Microcode
      BY Rows
    <2>4. Follows(<<M1("PC", "CCF")>>, <<"fetch">>, op, form, v)
      BY <1>1, CycleForms, Follows1, EmptyIsQuiet DEF Ends, Controlling, Places, Fetch, Source, Returns, Quiet
    <2> QED  BY <2>1, <2>2, <2>3, <2>4 DEF FollowsIts
  <1>2. CASE op = "SetCarryFlag"
    <2>1. Cycles(op, form) = <<M1("PC", "SCF")>>
      BY <1>2, CyclesOf, Zenon
    <2>2. KindOf(op, form, v) = "OneCycle"
      BY <1>2, FamilySets DEF KindOf, Accumulator, Rotations, BitOps
    <2>3. Microcode("OneCycle") = <<"fetch">> /\ "OneCycle" \in DOMAIN Sequencer!Microcode
      BY Rows
    <2>4. Follows(<<M1("PC", "SCF")>>, <<"fetch">>, op, form, v)
      BY <1>2, CycleForms, Follows1, EmptyIsQuiet DEF Ends, Controlling, Places, Fetch, Source, Returns, Quiet
    <2> QED  BY <2>1, <2>2, <2>3, <2>4 DEF FollowsIts
  <1>3. CASE op = "DecimalAdjustAccumulator"
    <2>1. Cycles(op, form) = <<M1("PC", "DAA")>>
      BY <1>3, CyclesOf, Zenon
    <2>2. KindOf(op, form, v) = "OneCycle"
      BY <1>3, FamilySets DEF KindOf, Accumulator, Rotations, BitOps
    <2>3. Microcode("OneCycle") = <<"fetch">> /\ "OneCycle" \in DOMAIN Sequencer!Microcode
      BY Rows
    <2>4. Follows(<<M1("PC", "DAA")>>, <<"fetch">>, op, form, v)
      BY <1>3, CycleForms, Follows1, EmptyIsQuiet DEF Ends, Controlling, Places, Fetch, Source, Returns, Quiet
    <2> QED  BY <2>1, <2>2, <2>3, <2>4 DEF FollowsIts
  <1>4. CASE op = "ComplementAccumulator"
    <2>1. Cycles(op, form) = <<M1("PC", "CPL")>>
      BY <1>4, CyclesOf, Zenon
    <2>2. KindOf(op, form, v) = "OneCycle"
      BY <1>4, FamilySets DEF KindOf, Accumulator, Rotations, BitOps
    <2>3. Microcode("OneCycle") = <<"fetch">> /\ "OneCycle" \in DOMAIN Sequencer!Microcode
      BY Rows
    <2>4. Follows(<<M1("PC", "CPL")>>, <<"fetch">>, op, form, v)
      BY <1>4, CycleForms, Follows1, EmptyIsQuiet DEF Ends, Controlling, Places, Fetch, Source, Returns, Quiet
    <2> QED  BY <2>1, <2>2, <2>3, <2>4 DEF FollowsIts
  <1>5. CASE op \in {"Nop", "StopSystemAndMainClocks"}
    <2>1. Cycles(op, form) = <<Fetch>>
      BY <1>5, CyclesOf, Zenon
    <2>2. KindOf(op, form, v) = "OneCycle"
      BY <1>5, FamilySets DEF KindOf, Accumulator, Rotations, BitOps
    <2>3. Microcode("OneCycle") = <<"fetch">> /\ "OneCycle" \in DOMAIN Sequencer!Microcode
      BY Rows
    <2>4. Follows(<<Fetch>>, <<"fetch">>, op, form, v)
      BY <1>5, CycleForms, Follows1, EmptyIsQuiet DEF Ends, Controlling, Places, Fetch, Source, Returns, Quiet
    <2> QED  BY <2>1, <2>2, <2>3, <2>4 DEF FollowsIts
  <1> QED  BY <1>1, <1>2, <1>3, <1>4, <1>5

LEMMA ControlFollows ==
    ASSUME NEW op, NEW form, NEW v, op \in Controlling
    PROVE  FollowsIts(op, form, v)
  <1>1. CASE op = "HaltSystemClock"
    <2>1. Cycles(op, form) = <<Fetch>>
      BY <1>1, CyclesOf DEF Controlling
    <2>2. KindOf(op, form, v) = "Halt"
      BY <1>1, FamilySets DEF KindOf, Accumulator, Rotations, BitOps
    <2>3. Microcode("Halt") = <<"halt">> /\ "Halt" \in DOMAIN Sequencer!Microcode
      BY Rows
    <2>4. Does(Fetch, "halt", op, form, v) /\ "halt" \in Ends
      BY <1>1 DEF Does, Ends
    <2>5. Follows(<<Fetch>>, <<"halt">>, op, form, v)
      BY <2>4, Follows1
    <2> QED  BY <2>1, <2>2, <2>3, <2>5 DEF FollowsIts
  <1>2. CASE op = "EnableInterrupts"
    <2>1. Cycles(op, form) = <<Fetch>>
      BY <1>2, CyclesOf DEF Controlling
    <2>2. KindOf(op, form, v) = "EI"
      BY <1>2, FamilySets DEF KindOf, Accumulator, Rotations, BitOps
    <2>3. Microcode("EI") = <<"enable">> /\ "EI" \in DOMAIN Sequencer!Microcode
      BY Rows
    <2>4. Does(Fetch, "enable", op, form, v) /\ "enable" \in Ends
      BY <1>2 DEF Does, Ends
    <2>5. Follows(<<Fetch>>, <<"enable">>, op, form, v)
      BY <2>4, Follows1
    <2> QED  BY <2>1, <2>2, <2>3, <2>5 DEF FollowsIts
  <1>3. CASE op = "DisableInterrupts"
    <2>1. Cycles(op, form) = <<Fetch>>
      BY <1>3, CyclesOf DEF Controlling
    <2>2. KindOf(op, form, v) = "DI"
      BY <1>3, FamilySets DEF KindOf, Accumulator, Rotations, BitOps
    <2>3. Microcode("DI") = <<"disable">> /\ "DI" \in DOMAIN Sequencer!Microcode
      BY Rows
    <2>4. Does(Fetch, "disable", op, form, v) /\ "disable" \in Ends
      BY <1>3 DEF Does, Ends
    <2>5. Follows(<<Fetch>>, <<"disable">>, op, form, v)
      BY <2>4, Follows1
    <2> QED  BY <2>1, <2>2, <2>3, <2>5 DEF FollowsIts
  <1>4. CASE op = "CB"
    <2>1. Cycles(op, form) = <<Fetch>>
      BY <1>4, CyclesOf DEF Controlling
    <2>2. KindOf(op, form, v) = "CB"
      BY <1>4, FamilySets DEF KindOf, Accumulator, Rotations, BitOps
    <2>3. Microcode("CB") = <<"prefix">> /\ "CB" \in DOMAIN Sequencer!Microcode
      BY Rows
    <2>4. Does(Fetch, "prefix", op, form, v) /\ "prefix" \in Ends
      BY <1>4 DEF Does, Ends
    <2>5. Follows(<<Fetch>>, <<"prefix">>, op, form, v)
      BY <2>4, Follows1
    <2> QED  BY <2>1, <2>2, <2>3, <2>5 DEF FollowsIts
  <1> QED  BY <1>1, <1>2, <1>3, <1>4 DEF Controlling

\* Those of the first table, and of the second.
LEMMA StdFollow ==
    ASSUME NEW op, NEW form, NEW v, StdMeans(v, op, form)
    PROVE  FollowsIts(op, form, v)
  <1>1. CASE \/ op = "LoadFromImmediateData" /\ form = "IndirectHL"
             \/ op = "LoadRegister" /\ form \in {"Immediate", "IndirectHL"} /\ Y(v) # 6
             \/ op = "LoadFromRegister" /\ form = "IndirectHL" /\ X(v) # 6
             \/ op = "LoadRegister" /\ form = "Register" /\ X(v) # 6 /\ Y(v) # 6
    BY <1>1, LoadsFollow
  <1>2. CASE op \in {"LoadAccumulator", "LoadFromAccumulator"} /\ form \in Pointers
    BY <1>2, AccumulatorLoadsFollow, AccumulatorStoresFollow
  <1>3. CASE op \in Accumulator /\ \/ form \in {"IndirectHL", "Immediate"}
                                   \/ form = "Register" /\ X(v) # 6
    BY <1>3, AccumulatorFollows
  <1>4. CASE op \in {"Increment", "Decrement"} /\ \/ form = "IndirectHL"
                                                  \/ form = "Register" /\ Y(v) # 6
    <2>1. op \in Modifying /\ ModifiedCode(op, v) = Y(v)
      BY <1>4, FamilySets DEF ModifiedCode
    <2> QED  BY <1>4, <2>1, ModifyingFollows
  <1>5. CASE /\ op \in {"RotateLeftCircular", "RotateRightCircular", "RotateLeft", "RotateRight"}
             /\ form = "Accumulator"
    <2>1. op \in Rotations /\ op \in Modifying
      BY <1>5, FamilySets DEF Rotations
    <2>2. ModifiedCode(op, v) # 6
      <3>1. X(v) # 6
        BY <1>5 DEF StdMeans
      <3> QED  BY <1>5, <3>1 DEF ModifiedCode
    <2> QED  BY <1>5, <2>1, <2>2, ModifyingFollows
  <1>6. CASE op \in Formless /\ form = ""
    <2>1. CASE op \in {"Load16bitRegisterOrRegisterPair", "PushToStack", "PopFromStack",
                       "LoadStackPointerFromHL", "LoadHLFromAdjustedStackPointer"}
      BY <1>6, <2>1, StackFollows
    <2>2. CASE op \in {"Increment16bitRegister", "Decrement16bitRegister"}
      BY <1>6, <2>2, WideFollows
    <2>3. CASE op \in {"ComplementCarryFlag", "SetCarryFlag", "DecimalAdjustAccumulator",
                       "ComplementAccumulator", "StopSystemAndMainClocks", "Nop"}
      BY <2>3, FlagsFollow
    <2>4. CASE op \in {"Jump", "JumpToHL", "RelativeJump"}
      BY <1>6, <2>4, JumpsFollow
    <2>5. CASE op \in {"CallFunction", "Restart"}
      BY <1>6, <2>5, CallsFollow
    <2>6. CASE op \in {"ReturnFromFunction", "ReturnFromInterruptHandler"}
      BY <1>6, <2>6, ReturnsFollow
    <2>7. CASE op \in Controlling
      BY <2>7, ControlFollows
    <2> QED  BY <1>6, <2>1, <2>2, <2>3, <2>4, <2>5, <2>6, <2>7 DEF Formless, Controlling
  <1>7. CASE /\ op \in {"Jump", "RelativeJump", "CallFunction", "ReturnFromFunction"}
             /\ form = "Conditional"
    BY <1>7, JumpsFollow, CallsFollow, ReturnsFollow
  <1>8. CASE \/ op = "LoadFromStackPointer" /\ form = "Direct"
             \/ op = "AddToStackPointer" /\ form = "relative"
             \/ op = "Add" /\ form = "16bitRegister"
    BY <1>8, StackFollows, WideFollows
  <1> QED  BY <1>1, <1>2, <1>3, <1>4, <1>5, <1>6, <1>7, <1>8 DEF StdMeans, Plain

LEMMA CbFollow ==
    ASSUME NEW op, NEW form, NEW v, CbMeans(v, op, form)
    PROVE  /\ FollowsIts(op, form, v)
           /\ KindOf(op, form, v) \in Sequencer!CbKinds
  <1>1. op \in Modifying /\ form \in {"Register", "IndirectHL"}
    BY FamilySets DEF CbMeans
  <1>2. op \in Rotations \cup BitOps /\ (form # "IndirectHL" => X(v) # 6)
    BY DEF CbMeans
  <1>3. ModifiedCode(op, v) = X(v)
    BY <1>2 DEF ModifiedCode, Rotations, BitOps
  <1>4. FollowsIts(op, form, v)
    BY <1>1, <1>2, <1>3, ModifyingFollows
  <1>5. KindOf(op, form, v) \in {"OneCycle", "Read", "ReadModifyWrite"}
    <2>1. op \notin Accumulator \cup {"LoadRegister"}
      BY <1>2 DEF Accumulator, Rotations, BitOps
    <2> QED  BY <1>1, <1>2, <2>1, FamilySets DEF KindOf, OperandKind, Rotations, BitOps
  <1> QED  BY <1>4, <1>5 DEF Sequencer!CbKinds

-----------------------------------------------------------------------------
(* The instruction in IR. *)

KindNow   == IF isCbInstruction THEN CbKind[regs.IR] ELSE StdKind[regs.IR]
CyclesNow == (IF isCbInstruction THEN CbCycles ELSE StdCycles)[regs.IR]

\* The cycle it is in, as the sequencer has it.
Micro == Microcode(KindNow)[instructionCycle + 1]

LEMMA StdCodes ==
    ASSUME NEW op, NEW form, NEW v, StdMeans(v, op, form) \/ CbMeans(v, op, form)
    PROVE  /\ form = "IndirectHL" /\ op = "LoadFromRegister" => X(v) # 6
           /\ op = "LoadRegister" => Y(v) # 6 /\ (form = "Register" => X(v) # 6)
           /\ op # "LoadRegister" /\ form = "Register" =>
                  /\ op \in Modifying => ModifiedCode(op, v) # 6
                  /\ op \notin Modifying => X(v) # 6
  <1>1. CASE StdMeans(v, op, form)
    <2>1. form = "IndirectHL" /\ op = "LoadFromRegister" => X(v) # 6
      BY <1>1 DEF StdMeans, Plain, Accumulator, Formless
    <2>2. op = "LoadRegister" => Y(v) # 6 /\ (form = "Register" => X(v) # 6)
      BY <1>1 DEF StdMeans, Plain, Accumulator, Formless
    <2>3. ASSUME op # "LoadRegister", form = "Register"
          PROVE  \/ op \in {"Increment", "Decrement"} /\ Y(v) # 6
                 \/ op \in Accumulator /\ X(v) # 6
      BY <1>1, <2>3 DEF StdMeans, Plain, Pointers
    <2>4. ASSUME op # "LoadRegister", form = "Register"
          PROVE  /\ op \in Modifying => ModifiedCode(op, v) # 6
                 /\ op \notin Modifying => X(v) # 6
      <3>1. CASE op \in {"Increment", "Decrement"} /\ Y(v) # 6
        BY <3>1, FamilySets DEF ModifiedCode
      <3>2. CASE op \in Accumulator /\ X(v) # 6
        BY <3>2 DEF ModifiedCode, Accumulator
      <3> QED  BY <2>3, <2>4, <3>1, <3>2
    <2> QED  BY <2>1, <2>2, <2>4
  <1>2. CASE CbMeans(v, op, form)
    <2>1. op \in Rotations \cup BitOps /\ (form = "Register" => X(v) # 6)
      BY <1>2 DEF CbMeans
    <2>2. op \notin {"LoadRegister", "LoadFromRegister", "Increment", "Decrement"}
      BY <2>1 DEF Rotations, BitOps
    <2> QED  BY <2>1, <2>2 DEF ModifiedCode
  <1> QED  BY <1>1, <1>2

LEMMA Decoded ==
    ASSUME regs.IR \in Byte, isCbInstruction \in BOOLEAN
    PROVE  /\ KindNow \in DOMAIN Sequencer!Microcode
           /\ Follows(CyclesNow, Microcode(KindNow), Op, Form, regs.IR)
           /\ isCbInstruction => KindNow \in Sequencer!CbKinds
           /\ ~Throws
  <1> DEFINE v == regs.IR
  <1>1. CASE isCbInstruction
    <2>1. /\ KindNow = KindOf(CbTable[v][1], CbTable[v][2], v)
          /\ CyclesNow = Cycles(CbTable[v][1], CbTable[v][2])
          /\ Op = CbTable[v][1] /\ Form = CbTable[v][2]
      BY <1>1 DEF KindNow, CyclesNow, CbKind, CbCycles, Op, Form, Instruction
    <2>2. CbMeans(v, Op, Form)
      BY <2>1, CbDecoded
    <2>3. FollowsIts(Op, Form, v) /\ KindOf(Op, Form, v) \in Sequencer!CbKinds
      BY <2>2, CbFollow
    <2>4. ~Throws
      BY <2>2, StdCodes DEF Throws, Codes
    <2> QED  BY <2>1, <2>3, <2>4 DEF FollowsIts
  <1>2. CASE ~isCbInstruction
    <2>1. /\ KindNow = KindOf(StdTable[v][1], StdTable[v][2], v)
          /\ CyclesNow = Cycles(StdTable[v][1], StdTable[v][2])
          /\ Op = StdTable[v][1] /\ Form = StdTable[v][2]
      BY <1>2 DEF KindNow, CyclesNow, StdKind, StdCycles, Op, Form, Instruction
    <2>2. StdMeans(v, Op, Form)
      BY <2>1, StdDecoded
    <2>3. FollowsIts(Op, Form, v)
      BY <2>2, StdFollow
    <2>4. ~Throws
      BY <2>2, StdCodes DEF Throws, Codes
    <2> QED  BY <1>2, <2>1, <2>3, <2>4 DEF FollowsIts
  <1> QED  BY <1>1, <1>2

LEMMA Running ==
    ASSUME TypeOK
    PROVE  /\ Does(Cycle, Micro, Op, Form, regs.IR)
           /\ instructionCycle \in Nat
           /\ Micro \in Ends <=> instructionCycle + 1 = Len(CyclesNow)
           /\ instructionCycle + 1 \in 1..Len(CyclesNow) /\ Len(CyclesNow) \in 1..6
           /\ Len(Microcode(KindNow)) = Len(CyclesNow)
           /\ ~Throws
  <1>1. regs.IR \in Byte /\ isCbInstruction \in BOOLEAN
    BY Fits DEF TypeOK
  <1>2. Follows(CyclesNow, Microcode(KindNow), Op, Form, regs.IR) /\ ~Throws
    BY <1>1, Decoded
  <1>3. instructionCycle \in Nat /\ instructionCycle < Len(CyclesNow)
    BY DEF TypeOK, CyclesNow
  <1>4. Cycle = CyclesNow[instructionCycle + 1]
    BY DEF Cycle, CyclesNow
  <1>5. Len(CyclesNow) \in 1..6 /\ Len(CyclesNow) = Len(Microcode(KindNow))
    BY <1>2 DEF Follows
  <1>6. instructionCycle + 1 \in 1..Len(CyclesNow)
    BY <1>3, <1>5
  <1>7. \A n \in 1..Len(CyclesNow) :
            /\ Does(CyclesNow[n], Microcode(KindNow)[n], Op, Form, regs.IR)
            /\ Microcode(KindNow)[n] \in Ends <=> n = Len(CyclesNow)
    BY <1>2, FollowsAt
  <1>8. /\ Does(Cycle, Micro, Op, Form, regs.IR)
        /\ Micro \in Ends <=> instructionCycle + 1 = Len(CyclesNow)
    BY <1>4, <1>6, <1>7 DEF Micro
  <1> QED  BY <1>2, <1>3, <1>5, <1>6, <1>8

(* The shape of a cycle, by what the sequencer takes it for. *)
Reading  == {"operand", "operandTest", "read", "pop", "popIf"}
Writing  == {"write", "push", "pushPCH", "pushPCL"}
Testing  == {"operandTest", "test"}
Depending == {"internalIf", "decSPIf", "popIf", "jumpIf"}
Inward == {"test", "internal", "internalIf", "setSP", "decSP", "decSPIf", "jump", "jumpIf", "jumpIME"}

Shaped(c, m, op, form, v) ==
    /\ c.at \in Places \/ m \in Inward
    /\ m \in Reading => c.io = "read" /\ c.data \in {"Z", "W"}
    /\ m \in Writing => /\ c.io = "write"
                        /\ Source(c.data, op, form, v) \/ c.data \in {"PCH", "PCL"}
                        /\ c.data = "PCH" <=> m = "pushPCH"
    /\ m \in Inward => c.io = "none"
    /\ m \in Ends => c.io = "fetch" /\ (m # "fetchTarget" => c.at = "PC")
    /\ m \in Testing <=> c.test
    /\ m \in Depending <=> c.if
    /\ m \notin Ends => (op = Returns /\ c.effect = "PC=WZ" <=> m = "jumpIME")
    /\ m = "halt" <=> m \in Ends /\ op = "HaltSystemClock"
    /\ m = "enable" <=> m \in Ends /\ op = "EnableInterrupts"
    /\ m = "disable" <=> m \in Ends /\ op = "DisableInterrupts"
    /\ m = "prefix" <=> m \in Ends /\ op = "CB"

\* Of its effect.
Affects(e, m, op, form, v) ==
    /\ m \in {"operand", "operandTest"} => e = "PC+"
    /\ m \in {"test", "read", "internal", "internalIf", "write", "fetch", "fetchTarget", "halt",
              "enable", "disable", "prefix"} => Quiet(e, op, form, v)
    /\ m \in {"setSP", "fetchSP"} => SetsSP(e, v)
    /\ m \in {"decSP", "decSPIf", "push", "pushPCH"} => e = "SP-"
    /\ m = "pushPCL" => e \in {"PC=WZ", "PC=vector"}
    /\ m \in {"pop", "popIf"} => e = "SP+"
    /\ m \in {"jump", "jumpIf", "jumpIME"} => e = "PC=WZ"

LEMMA Shapes ==
    ASSUME NEW c, NEW m, NEW op, NEW form, NEW v, Does(c, m, op, form, v)
    PROVE  Shaped(c, m, op, form, v) /\ Affects(c.effect, m, op, form, v)
  <1>1. CASE m = "operand"
    <2>1. c \in {LowOperand, HighOperand}
      BY <1>1 DEF Does
    <2>2. c.io = "read" /\ c.test = FALSE /\ c.if = FALSE /\ c.effect = "PC+" /\ c.at = "PC" /\ c.data \in {"Z", "W"}
      BY <2>1 DEF Rd, Wr, Do, M1, Test, If, LowOperand, HighOperand, Fetch
    <2>3. Shaped(c, m, op, form, v)
      BY <1>1, <2>1, <2>2 DEF Shaped, Reading, Writing, Testing, Depending, Inward, Ends, Places, Controlling, Returns, Source, Quiet, SetsSP
    <2>4. Affects(c.effect, m, op, form, v)
      BY <1>1, <2>1, <2>2, EmptyIsQuiet DEF Affects
    <2> QED  BY <2>3, <2>4
  <1>2. CASE m = "operandTest"
    <2>1. c \in {Test(LowOperand), Test(HighOperand)}
      BY <1>2 DEF Does
    <2>2. c.io = "read" /\ c.test = TRUE /\ c.if = FALSE /\ c.effect = "PC+" /\ c.at = "PC" /\ c.data \in {"Z", "W"}
      BY <2>1 DEF Rd, Wr, Do, M1, Test, If, LowOperand, HighOperand, Fetch
    <2>3. Shaped(c, m, op, form, v)
      BY <1>2, <2>1, <2>2 DEF Shaped, Reading, Writing, Testing, Depending, Inward, Ends, Places, Controlling, Returns, Source, Quiet, SetsSP
    <2>4. Affects(c.effect, m, op, form, v)
      BY <1>2, <2>1, <2>2, EmptyIsQuiet DEF Affects
    <2> QED  BY <2>3, <2>4
  <1>3. CASE m = "test"
    <2>1. c = Test(Do(""))
      BY <1>3 DEF Does
    <2>2. c.io = "none" /\ c.test = TRUE /\ c.if = FALSE /\ c.effect = ""
      BY <2>1 DEF Rd, Wr, Do, M1, Test, If, LowOperand, HighOperand, Fetch
    <2>3. Shaped(c, m, op, form, v)
      BY <1>3, <2>1, <2>2 DEF Shaped, Reading, Writing, Testing, Depending, Inward, Ends, Places, Controlling, Returns, Source, Quiet, SetsSP
    <2>4. Affects(c.effect, m, op, form, v)
      BY <1>3, <2>1, <2>2, EmptyIsQuiet DEF Affects
    <2> QED  BY <2>3, <2>4
  <1>4. CASE m = "read"
    <2>1. PICK at \in Places, e \in {"", "HL+", "HL-"} : c = Rd(at, "Z", e)
      BY <1>4 DEF Does
    <2>2. c.io = "read" /\ c.test = FALSE /\ c.if = FALSE /\ c.effect = e /\ c.at = at /\ c.data = "Z"
      BY <2>1 DEF Rd, Wr, Do, M1, Test, If, LowOperand, HighOperand, Fetch
    <2>3. Shaped(c, m, op, form, v)
      BY <1>4, <2>1, <2>2 DEF Shaped, Reading, Writing, Testing, Depending, Inward, Ends, Places, Controlling, Returns, Source, Quiet, SetsSP
    <2>4. Affects(c.effect, m, op, form, v)
      BY <1>4, <2>1, <2>2, EmptyIsQuiet DEF Affects, Quiet
    <2> QED  BY <2>3, <2>4
  <1>5. CASE m = "internal"
    <2>1. PICK e : c = Do(e) /\ Quiet(e, op, form, v)
      BY <1>5 DEF Does
    <2>2. c.io = "none" /\ c.test = FALSE /\ c.if = FALSE /\ c.effect = e
      BY <2>1 DEF Rd, Wr, Do, M1, Test, If, LowOperand, HighOperand, Fetch
    <2>3. Shaped(c, m, op, form, v)
      BY <1>5, <2>1, <2>2 DEF Shaped, Reading, Writing, Testing, Depending, Inward, Ends, Places, Controlling, Returns, Source, Quiet, SetsSP
    <2>4. Affects(c.effect, m, op, form, v)
      BY <1>5, <2>1, <2>2, EmptyIsQuiet DEF Affects
    <2> QED  BY <2>3, <2>4
  <1>6. CASE m = "internalIf"
    <2>1. c = If(Do("WZ=PC+Z"))
      BY <1>6 DEF Does
    <2>2. c.io = "none" /\ c.test = FALSE /\ c.if = TRUE /\ c.effect = "WZ=PC+Z"
      BY <2>1 DEF Rd, Wr, Do, M1, Test, If, LowOperand, HighOperand, Fetch
    <2>3. Shaped(c, m, op, form, v)
      BY <1>6, <2>1, <2>2 DEF Shaped, Reading, Writing, Testing, Depending, Inward, Ends, Places, Controlling, Returns, Source, Quiet, SetsSP
    <2>4. Affects(c.effect, m, op, form, v)
      BY <1>6, <2>1, <2>2, EmptyIsQuiet DEF Affects, Quiet
    <2> QED  BY <2>3, <2>4
  <1>7. CASE m = "write"
    <2>1. PICK at \in Places : \E from, e : c = Wr(at, from, e) /\ Source(from, op, form, v) /\ Quiet(e, op, form, v)
      BY <1>7 DEF Does
    <2>2. PICK from, e : c = Wr(at, from, e) /\ Source(from, op, form, v) /\ Quiet(e, op, form, v)
      BY <2>1
    <2>3. c.io = "write" /\ c.test = FALSE /\ c.if = FALSE /\ c.effect = e /\ c.at = at /\ c.data = from
      BY <2>2 DEF Rd, Wr, Do, M1, Test, If, LowOperand, HighOperand, Fetch
    <2>4. Shaped(c, m, op, form, v)
      BY <1>7, <2>2, <2>3 DEF Shaped, Reading, Writing, Testing, Depending, Inward, Ends, Places, Controlling, Returns, Source, Quiet, SetsSP
    <2>5. Affects(c.effect, m, op, form, v)
      BY <1>7, <2>2, <2>3, EmptyIsQuiet DEF Affects
    <2> QED  BY <2>4, <2>5
  <1>8. CASE m = "setSP"
    <2>1. PICK e : c = Do(e) /\ SetsSP(e, v)
      BY <1>8 DEF Does
    <2>2. c.io = "none" /\ c.test = FALSE /\ c.if = FALSE /\ c.effect = e
      BY <2>1 DEF Rd, Wr, Do, M1, Test, If, LowOperand, HighOperand, Fetch
    <2>3. Shaped(c, m, op, form, v)
      BY <1>8, <2>1, <2>2 DEF Shaped, Reading, Writing, Testing, Depending, Inward, Ends, Places, Controlling, Returns, Source, Quiet, SetsSP
    <2>4. Affects(c.effect, m, op, form, v)
      BY <1>8, <2>1, <2>2, EmptyIsQuiet DEF Affects
    <2> QED  BY <2>3, <2>4
  <1>9. CASE m = "decSP"
    <2>1. c = Do("SP-")
      BY <1>9 DEF Does
    <2>2. c.io = "none" /\ c.test = FALSE /\ c.if = FALSE /\ c.effect = "SP-"
      BY <2>1 DEF Rd, Wr, Do, M1, Test, If, LowOperand, HighOperand, Fetch
    <2>3. Shaped(c, m, op, form, v)
      BY <1>9, <2>1, <2>2 DEF Shaped, Reading, Writing, Testing, Depending, Inward, Ends, Places, Controlling, Returns, Source, Quiet, SetsSP
    <2>4. Affects(c.effect, m, op, form, v)
      BY <1>9, <2>1, <2>2, EmptyIsQuiet DEF Affects
    <2> QED  BY <2>3, <2>4
  <1>10. CASE m = "decSPIf"
    <2>1. c = If(Do("SP-"))
      BY <1>10 DEF Does
    <2>2. c.io = "none" /\ c.test = FALSE /\ c.if = TRUE /\ c.effect = "SP-"
      BY <2>1 DEF Rd, Wr, Do, M1, Test, If, LowOperand, HighOperand, Fetch
    <2>3. Shaped(c, m, op, form, v)
      BY <1>10, <2>1, <2>2 DEF Shaped, Reading, Writing, Testing, Depending, Inward, Ends, Places, Controlling, Returns, Source, Quiet, SetsSP
    <2>4. Affects(c.effect, m, op, form, v)
      BY <1>10, <2>1, <2>2, EmptyIsQuiet DEF Affects
    <2> QED  BY <2>3, <2>4
  <1>11. CASE m = "push"
    <2>1. c = Wr("SP", "R16Mstk", "SP-")
      BY <1>11 DEF Does
    <2>2. c.io = "write" /\ c.test = FALSE /\ c.if = FALSE /\ c.effect = "SP-" /\ c.at = "SP" /\ c.data = "R16Mstk"
      BY <2>1 DEF Rd, Wr, Do, M1, Test, If, LowOperand, HighOperand, Fetch
    <2>3. Shaped(c, m, op, form, v)
      BY <1>11, <2>1, <2>2 DEF Shaped, Reading, Writing, Testing, Depending, Inward, Ends, Places, Controlling, Returns, Source, Quiet, SetsSP
    <2>4. Affects(c.effect, m, op, form, v)
      BY <1>11, <2>1, <2>2, EmptyIsQuiet DEF Affects
    <2> QED  BY <2>3, <2>4
  <1>12. CASE m = "pushPCH"
    <2>1. c = Wr("SP", "PCH", "SP-")
      BY <1>12 DEF Does
    <2>2. c.io = "write" /\ c.test = FALSE /\ c.if = FALSE /\ c.effect = "SP-" /\ c.at = "SP" /\ c.data = "PCH"
      BY <2>1 DEF Rd, Wr, Do, M1, Test, If, LowOperand, HighOperand, Fetch
    <2>3. Shaped(c, m, op, form, v)
      BY <1>12, <2>1, <2>2 DEF Shaped, Reading, Writing, Testing, Depending, Inward, Ends, Places, Controlling, Returns, Source, Quiet, SetsSP
    <2>4. Affects(c.effect, m, op, form, v)
      BY <1>12, <2>1, <2>2, EmptyIsQuiet DEF Affects
    <2> QED  BY <2>3, <2>4
  <1>13. CASE m = "pushPCL"
    <2>1. PICK e \in {"PC=WZ", "PC=vector"} : op # Returns /\ c = Wr("SP", "PCL", e)
      BY <1>13 DEF Does
    <2>2. c.io = "write" /\ c.test = FALSE /\ c.if = FALSE /\ c.effect = e /\ c.at = "SP" /\ c.data = "PCL"
      BY <2>1 DEF Rd, Wr, Do, M1, Test, If, LowOperand, HighOperand, Fetch
    <2>3. Shaped(c, m, op, form, v)
      BY <1>13, <2>1, <2>2 DEF Shaped, Reading, Writing, Testing, Depending, Inward, Ends, Places, Controlling, Returns, Source, Quiet, SetsSP
    <2>4. Affects(c.effect, m, op, form, v)
      BY <1>13, <2>1, <2>2, EmptyIsQuiet DEF Affects
    <2> QED  BY <2>3, <2>4
  <1>14. CASE m = "pop"
    <2>1. PICK into \in {"Z", "W"} : c = Rd("SP", into, "SP+")
      BY <1>14 DEF Does
    <2>2. c.io = "read" /\ c.test = FALSE /\ c.if = FALSE /\ c.effect = "SP+" /\ c.at = "SP" /\ c.data = into
      BY <2>1 DEF Rd, Wr, Do, M1, Test, If, LowOperand, HighOperand, Fetch
    <2>3. Shaped(c, m, op, form, v)
      BY <1>14, <2>1, <2>2 DEF Shaped, Reading, Writing, Testing, Depending, Inward, Ends, Places, Controlling, Returns, Source, Quiet, SetsSP
    <2>4. Affects(c.effect, m, op, form, v)
      BY <1>14, <2>1, <2>2, EmptyIsQuiet DEF Affects
    <2> QED  BY <2>3, <2>4
  <1>15. CASE m = "popIf"
    <2>1. c = If(Rd("SP", "Z", "SP+"))
      BY <1>15 DEF Does
    <2>2. c.io = "read" /\ c.test = FALSE /\ c.if = TRUE /\ c.effect = "SP+" /\ c.at = "SP" /\ c.data = "Z"
      BY <2>1 DEF Rd, Wr, Do, M1, Test, If, LowOperand, HighOperand, Fetch
    <2>3. Shaped(c, m, op, form, v)
      BY <1>15, <2>1, <2>2 DEF Shaped, Reading, Writing, Testing, Depending, Inward, Ends, Places, Controlling, Returns, Source, Quiet, SetsSP
    <2>4. Affects(c.effect, m, op, form, v)
      BY <1>15, <2>1, <2>2, EmptyIsQuiet DEF Affects
    <2> QED  BY <2>3, <2>4
  <1>16. CASE m = "jump"
    <2>1. op # Returns /\ c = Do("PC=WZ")
      BY <1>16 DEF Does
    <2>2. c.io = "none" /\ c.test = FALSE /\ c.if = FALSE /\ c.effect = "PC=WZ"
      BY <2>1 DEF Rd, Wr, Do, M1, Test, If, LowOperand, HighOperand, Fetch
    <2>3. Shaped(c, m, op, form, v)
      BY <1>16, <2>1, <2>2 DEF Shaped, Reading, Writing, Testing, Depending, Inward, Ends, Places, Controlling, Returns, Source, Quiet, SetsSP
    <2>4. Affects(c.effect, m, op, form, v)
      BY <1>16, <2>1, <2>2, EmptyIsQuiet DEF Affects
    <2> QED  BY <2>3, <2>4
  <1>17. CASE m = "jumpIf"
    <2>1. op # Returns /\ c = If(Do("PC=WZ"))
      BY <1>17 DEF Does
    <2>2. c.io = "none" /\ c.test = FALSE /\ c.if = TRUE /\ c.effect = "PC=WZ"
      BY <2>1 DEF Rd, Wr, Do, M1, Test, If, LowOperand, HighOperand, Fetch
    <2>3. Shaped(c, m, op, form, v)
      BY <1>17, <2>1, <2>2 DEF Shaped, Reading, Writing, Testing, Depending, Inward, Ends, Places, Controlling, Returns, Source, Quiet, SetsSP
    <2>4. Affects(c.effect, m, op, form, v)
      BY <1>17, <2>1, <2>2, EmptyIsQuiet DEF Affects
    <2> QED  BY <2>3, <2>4
  <1>18. CASE m = "jumpIME"
    <2>1. op = Returns /\ c = Do("PC=WZ")
      BY <1>18 DEF Does
    <2>2. c.io = "none" /\ c.test = FALSE /\ c.if = FALSE /\ c.effect = "PC=WZ"
      BY <2>1 DEF Rd, Wr, Do, M1, Test, If, LowOperand, HighOperand, Fetch
    <2>3. Shaped(c, m, op, form, v)
      BY <1>18, <2>1, <2>2 DEF Shaped, Reading, Writing, Testing, Depending, Inward, Ends, Places, Controlling, Returns, Source, Quiet, SetsSP
    <2>4. Affects(c.effect, m, op, form, v)
      BY <1>18, <2>1, <2>2, EmptyIsQuiet DEF Affects
    <2> QED  BY <2>3, <2>4
  <1>19. CASE m = "fetch"
    <2>1. PICK e : op \notin Controlling /\ c = M1("PC", e) /\ Quiet(e, op, form, v)
      BY <1>19 DEF Does
    <2>2. c.io = "fetch" /\ c.test = FALSE /\ c.if = FALSE /\ c.effect = e /\ c.at = "PC"
      BY <2>1 DEF Rd, Wr, Do, M1, Test, If, LowOperand, HighOperand, Fetch
    <2>3. Shaped(c, m, op, form, v)
      BY <1>19, <2>1, <2>2 DEF Shaped, Reading, Writing, Testing, Depending, Inward, Ends, Places, Controlling, Returns, Source, Quiet, SetsSP
    <2>4. Affects(c.effect, m, op, form, v)
      BY <1>19, <2>1, <2>2, EmptyIsQuiet DEF Affects
    <2> QED  BY <2>3, <2>4
  <1>20. CASE m = "fetchSP"
    <2>1. PICK e : op \notin Controlling /\ c = M1("PC", e) /\ SetsSP(e, v)
      BY <1>20 DEF Does
    <2>2. c.io = "fetch" /\ c.test = FALSE /\ c.if = FALSE /\ c.effect = e /\ c.at = "PC"
      BY <2>1 DEF Rd, Wr, Do, M1, Test, If, LowOperand, HighOperand, Fetch
    <2>3. Shaped(c, m, op, form, v)
      BY <1>20, <2>1, <2>2 DEF Shaped, Reading, Writing, Testing, Depending, Inward, Ends, Places, Controlling, Returns, Source, Quiet, SetsSP
    <2>4. Affects(c.effect, m, op, form, v)
      BY <1>20, <2>1, <2>2, EmptyIsQuiet DEF Affects
    <2> QED  BY <2>3, <2>4
  <1>21. CASE m = "fetchTarget"
    <2>1. PICK at \in {"HL", "WZ"} : op \notin Controlling /\ c = M1(at, "")
      BY <1>21 DEF Does
    <2>2. c.io = "fetch" /\ c.test = FALSE /\ c.if = FALSE /\ c.effect = "" /\ c.at = at
      BY <2>1 DEF Rd, Wr, Do, M1, Test, If, LowOperand, HighOperand, Fetch
    <2>3. Shaped(c, m, op, form, v)
      BY <1>21, <2>1, <2>2 DEF Shaped, Reading, Writing, Testing, Depending, Inward, Ends, Places, Controlling, Returns, Source, Quiet, SetsSP
    <2>4. Affects(c.effect, m, op, form, v)
      BY <1>21, <2>1, <2>2, EmptyIsQuiet DEF Affects
    <2> QED  BY <2>3, <2>4
  <1>22. CASE m = "halt"
    <2>1. op = "HaltSystemClock" /\ c = Fetch
      BY <1>22 DEF Does
    <2>2. c.io = "fetch" /\ c.test = FALSE /\ c.if = FALSE /\ c.effect = "" /\ c.at = "PC"
      BY <2>1 DEF Rd, Wr, Do, M1, Test, If, LowOperand, HighOperand, Fetch
    <2>3. Shaped(c, m, op, form, v)
      BY <1>22, <2>1, <2>2 DEF Shaped, Reading, Writing, Testing, Depending, Inward, Ends, Places, Controlling, Returns, Source, Quiet, SetsSP
    <2>4. Affects(c.effect, m, op, form, v)
      BY <1>22, <2>1, <2>2, EmptyIsQuiet DEF Affects
    <2> QED  BY <2>3, <2>4
  <1>23. CASE m = "enable"
    <2>1. op = "EnableInterrupts" /\ c = Fetch
      BY <1>23 DEF Does
    <2>2. c.io = "fetch" /\ c.test = FALSE /\ c.if = FALSE /\ c.effect = "" /\ c.at = "PC"
      BY <2>1 DEF Rd, Wr, Do, M1, Test, If, LowOperand, HighOperand, Fetch
    <2>3. Shaped(c, m, op, form, v)
      BY <1>23, <2>1, <2>2 DEF Shaped, Reading, Writing, Testing, Depending, Inward, Ends, Places, Controlling, Returns, Source, Quiet, SetsSP
    <2>4. Affects(c.effect, m, op, form, v)
      BY <1>23, <2>1, <2>2, EmptyIsQuiet DEF Affects
    <2> QED  BY <2>3, <2>4
  <1>24. CASE m = "disable"
    <2>1. op = "DisableInterrupts" /\ c = Fetch
      BY <1>24 DEF Does
    <2>2. c.io = "fetch" /\ c.test = FALSE /\ c.if = FALSE /\ c.effect = "" /\ c.at = "PC"
      BY <2>1 DEF Rd, Wr, Do, M1, Test, If, LowOperand, HighOperand, Fetch
    <2>3. Shaped(c, m, op, form, v)
      BY <1>24, <2>1, <2>2 DEF Shaped, Reading, Writing, Testing, Depending, Inward, Ends, Places, Controlling, Returns, Source, Quiet, SetsSP
    <2>4. Affects(c.effect, m, op, form, v)
      BY <1>24, <2>1, <2>2, EmptyIsQuiet DEF Affects
    <2> QED  BY <2>3, <2>4
  <1>25. CASE m = "prefix"
    <2>1. op = "CB" /\ c = Fetch
      BY <1>25 DEF Does
    <2>2. c.io = "fetch" /\ c.test = FALSE /\ c.if = FALSE /\ c.effect = "" /\ c.at = "PC"
      BY <2>1 DEF Rd, Wr, Do, M1, Test, If, LowOperand, HighOperand, Fetch
    <2>3. Shaped(c, m, op, form, v)
      BY <1>25, <2>1, <2>2 DEF Shaped, Reading, Writing, Testing, Depending, Inward, Ends, Places, Controlling, Returns, Source, Quiet, SetsSP
    <2>4. Affects(c.effect, m, op, form, v)
      BY <1>25, <2>1, <2>2, EmptyIsQuiet DEF Affects
    <2> QED  BY <2>3, <2>4
  <1> QED
    BY <1>1, <1>2, <1>3, <1>4, <1>5, <1>6, <1>7, <1>8, <1>9, <1>10, <1>11, <1>12, <1>13, <1>14, <1>15, <1>16, <1>17, <1>18, <1>19, <1>20, <1>21, <1>22, <1>23, <1>24, <1>25 DEF Does

\* What a cycle that is not the last makes of PC and SP.
Advances(s, r, m) ==
    /\ s \in Registers /\ s.IR = r.IR
    /\ s.PC = IF m \in {"operand", "operandTest"} THEN Increment(r.PC)
              ELSE IF m \in {"pushPCL", "jump", "jumpIf", "jumpIME"} THEN s.PC ELSE r.PC
    /\ s.SP = IF m \in {"decSP", "decSPIf", "push", "pushPCH"} THEN Decrement(r.SP)
              ELSE IF m \in {"pop", "popIf"} THEN Increment(r.SP)
              ELSE IF m = "setSP" THEN s.SP ELSE r.SP

Inner == Reading \cup Writing \cup Inward

LEMMA EffectAdvances ==
    ASSUME NEW r \in Registers, NEW v \in Byte, NEW op, NEW form, NEW e, NEW m \in Inner,
           Affects(e, m, op, form, v)
    PROVE  Advances(Effect(e, r, v, op, form), r, m)
  <1> DEFINE s == Effect(e, r, v, op, form)
  <1> HIDE DEF s
  <1>1. CASE m \in {"operand", "operandTest"}
    <2>1. e = "PC+"
      BY <1>1 DEF Affects
    <2>2. MovesPC(s, r) /\ s.PC = Increment(r.PC)
      BY <2>1, Moves DEF s
    <2> QED  BY <1>1, <2>2 DEF MovesPC, Advances, s
  <1>2. CASE m \in {"test", "read", "internal", "internalIf", "write"}
    <2>1. Quiet(e, op, form, v)
      BY <1>2 DEF Affects
    <2>2. Keeps(s, r)
      BY <2>1, QuietKeeps DEF s
    <2> QED  BY <1>2, <2>2 DEF Keeps, Advances, s
  <1>3. CASE m = "setSP"
    <2>1. SetsSP(e, v)
      BY <1>3 DEF Affects
    <2>2. MovesSP(s, r)
      BY <2>1, SetsSPMoves DEF s
    <2> QED  BY <1>3, <2>2 DEF MovesSP, Advances, s
  <1>4. CASE m \in {"decSP", "decSPIf", "push", "pushPCH"}
    <2>1. e = "SP-"
      BY <1>4 DEF Affects
    <2>2. MovesSP(s, r) /\ s.SP = Decrement(r.SP)
      BY <2>1, Moves DEF s
    <2> QED  BY <1>4, <2>2 DEF MovesSP, Advances, s
  <1>5. CASE m \in {"pop", "popIf"}
    <2>1. e = "SP+"
      BY <1>5 DEF Affects
    <2>2. MovesSP(s, r) /\ s.SP = Increment(r.SP)
      BY <2>1, Moves DEF s
    <2> QED  BY <1>5, <2>2 DEF MovesSP, Advances, s
  <1>6. CASE m \in {"pushPCL", "jump", "jumpIf", "jumpIME"}
    <2>1. e \in {"PC=WZ", "PC=vector"}
      BY <1>6 DEF Affects
    <2>2. MovesPC(s, r)
      BY <2>1, Moves DEF s
    <2> QED  BY <1>6, <2>2 DEF MovesPC, Advances, s
  <1> QED
    BY <1>1, <1>2, <1>3, <1>4, <1>5, <1>6 DEF Inner, Reading, Writing, Inward

\* And of the registers after a fetch.
Lands(s, r, m) ==
    s \in Registers /\ s.IR = r.IR /\ s.PC = r.PC /\ (m # "fetchSP" => s.SP = r.SP)

LEMMA EffectLands ==
    ASSUME NEW r \in Registers, NEW v \in Byte, NEW op, NEW form, NEW e, NEW m \in Ends,
           Affects(e, m, op, form, v)
    PROVE  Lands(Effect(e, r, v, op, form), r, m)
  <1>1. CASE m = "fetchSP"
    <2>1. SetsSP(e, v)
      BY <1>1 DEF Affects
    <2> QED  BY <1>1, <2>1, SetsSPMoves DEF MovesSP, Lands
  <1>2. CASE m # "fetchSP"
    <2>1. Quiet(e, op, form, v)
      BY <1>2 DEF Affects, Ends
    <2> QED  BY <2>1, QuietKeeps DEF Keeps, Lands
  <1> QED  BY <1>1, <1>2

-----------------------------------------------------------------------------
(* Memory, and what the instructions read and write. *)

LEMMA PlacesFit ==
    ASSUME TypeOK, NEW place \in Places
    PROVE  At(place) \in Word
  <1>1. regs \in Registers
    BY DEF TypeOK
  <1>2. /\ regs.PC \in Word /\ HL(regs) \in Word /\ BC(regs) \in Word /\ DE(regs) \in Word
        /\ regs.SP \in Word /\ WZ(regs) \in Word
    BY <1>1, Fits, PairWords
  <1>3. 65280 + regs.C \in Word /\ 65280 + regs.Z \in Word
    BY <1>1, Fits, ByteBounds, WordBounds
  <1> HIDE DEF Word
  <1> QED  BY <1>2, <1>3 DEF At, Places

LEMMA ContentsFit ==
    ASSUME TypeOK, NEW a
    PROVE  Contents(a) \in Byte
  BY CpuAssumption DEF TypeOK, Contents

LEMMA WrittenFits ==
    ASSUME TypeOK, NEW data, Source(data, Op, Form, regs.IR) \/ data \in {"PCH", "PCL"}
    PROVE  Written(data) \in Byte
  <1>1. /\ regs \in Registers /\ regs.IR \in Byte /\ regs.A \in Byte /\ regs.Z \in Byte
        /\ regs.SP \in Word /\ regs.PC \in Word /\ regs.F \in Flags
    BY Fits DEF TypeOK
  <1>2. Low(regs.SP) \in Byte /\ High(regs.SP) \in Byte /\ Low(regs.PC) \in Byte /\ High(regs.PC) \in Byte
    BY <1>1, HalfBytes
  <1>3. CASE data \in {"A", "Z", "SPL", "SPH", "PCL", "PCH"}
    BY <1>1, <1>2, <1>3 DEF Written
  <1>4. CASE data \in {"R16Lstk", "R16Mstk"}
    <2>1. R16stk(regs, Pair(regs.IR)) \in Word
      BY <1>1, Fields, PairsByCode
    <2>2. Low(R16stk(regs, Pair(regs.IR))) \in Byte /\ High(R16stk(regs, Pair(regs.IR))) \in Byte
      BY <2>1, HalfBytes
    <2> QED  BY <1>4, <2>2 DEF Written
  <1>5. CASE data = "r8" /\ X(regs.IR) # 6
    <2>1. R8(regs, X(regs.IR)) \in Byte
      BY <1>1, <1>5, Fields, BytesByCode
    <2> QED  BY <1>5, <2>1 DEF Written
  <1>6. CASE data = "modified" /\ Op \in Modifying /\ Form # "Accumulator"
    <2>1. Modified(Op, Form, regs.IR, regs.Z, regs.F).value \in Byte
      BY <1>1, <1>6, ModifiedFits
    <2> QED  BY <1>6, <2>1 DEF Written
  <1> QED  BY <1>3, <1>4, <1>5, <1>6 DEF Source

-----------------------------------------------------------------------------
(* What each step does. *)

LEMMA MicroCycles ==
    ASSUME NEW c, NEW m, NEW op, NEW form, NEW v, Does(c, m, op, form, v)
    PROVE  m \in Inner \cup Ends
  <1>1. Shaped(c, m, op, form, v) /\ Does(c, m, op, form, v)
    BY Shapes
  <1> QED  BY <1>1 DEF Does, Inner, Reading, Writing, Inward, Ends

\* The cycles of the tables.
LEMMA CycleCounts == \A v \in Byte : Len(StdCycles[v]) \in 1..6 /\ Len(CbCycles[v]) \in 1..6
  <1> SUFFICES ASSUME NEW v \in Byte
               PROVE  Len(StdCycles[v]) \in 1..6 /\ Len(CbCycles[v]) \in 1..6
    OBVIOUS
  <1>1. Len(StdCycles[v]) \in 1..6
    <2>1. FollowsIts(StdTable[v][1], StdTable[v][2], v)
      BY StdDecoded, StdFollow
    <2> QED  BY <2>1 DEF FollowsIts, Follows, StdCycles
  <1>2. Len(CbCycles[v]) \in 1..6
    <2>1. FollowsIts(CbTable[v][1], CbTable[v][2], v)
      BY CbDecoded, CbFollow
    <2> QED  BY <2>1 DEF FollowsIts, Follows, CbCycles
  <1> QED  BY <1>1, <1>2

LEMMA CycleNow ==
    ASSUME TypeOK
    PROVE  /\ Shaped(Cycle, Micro, Op, Form, regs.IR)
           /\ Affects(Cycle.effect, Micro, Op, Form, regs.IR)
           /\ Micro \in Inner \cup Ends
           /\ Micro \in Ends <=> Cycle.io = "fetch"
           /\ regs \in Registers /\ regs.IR \in Byte
  <1>1. Does(Cycle, Micro, Op, Form, regs.IR)
    BY Running
  <1>2. Shaped(Cycle, Micro, Op, Form, regs.IR) /\ Affects(Cycle.effect, Micro, Op, Form, regs.IR)
    BY <1>1, Shapes
  <1>3. Micro \in Inner \cup Ends
    BY <1>1, MicroCycles
  <1>4. Micro \in Ends <=> Cycle.io = "fetch"
    BY <1>2, <1>3 DEF Shaped, Inner, Reading, Writing, Inward, Ends
  <1>5. regs \in Registers /\ regs.IR \in Byte
    BY Fits DEF TypeOK
  <1> QED  BY <1>2, <1>3, <1>4, <1>5

\* A cycle that is not the last.
InnerCycle == ReadCycle \/ WriteCycle \/ InternalCycle

LEMMA InnerAdvances ==
    ASSUME TypeOK, InnerCycle
    PROVE  /\ Advances(regs', regs, Micro)
           /\ Micro \in Inner /\ Proceed /\ ~halted
           /\ Micro \in Depending => cCheck
  <1>1. /\ Shaped(Cycle, Micro, Op, Form, regs.IR)
        /\ Affects(Cycle.effect, Micro, Op, Form, regs.IR)
        /\ regs \in Registers /\ regs.IR \in Byte
    BY CycleNow
  <1>2. Cycle.io # "fetch" /\ Proceed /\ ~halted /\ (Cycle.if => cCheck)
    BY DEF InnerCycle, ReadCycle, WriteCycle, InternalCycle, Runs
  <1>3. Micro \in Inner
    BY <1>2, CycleNow
  <1>4. Micro \in Depending => cCheck
    BY <1>1, <1>2 DEF Shaped
  <1>5. Advances(regs', regs, Micro)
    <2>1. CASE ReadCycle
      <3> DEFINE b == Contents(At(Cycle.at))
                 r == [regs EXCEPT ![Cycle.data] = b]
      <3>1. b \in Byte
        BY ContentsFit
      <3>2. Cycle.data \in {"Z", "W"}
        <4>1. Cycle.io = "read"
          BY <2>1 DEF ReadCycle, Runs
        <4> QED  BY <1>1, <1>3, <4>1 DEF Shaped, Inner, Reading, Writing, Inward
      <3>3. regs' = Effect(Cycle.effect, r, regs.IR, Op, Form)
        BY <2>1 DEF ReadCycle, After
      <3> HIDE DEF b
      <3>4. Keeps(r, regs)
        BY <1>1, <3>1, <3>2, Kept
      <3> HIDE DEF r
      <3>5. Advances(regs', r, Micro)
        BY <1>1, <1>3, <3>3, <3>4, EffectAdvances DEF Keeps
      <3> QED  BY <3>4, <3>5 DEF Advances, Keeps
    <2>2. CASE WriteCycle \/ InternalCycle
      <3>1. regs' = Effect(Cycle.effect, regs, regs.IR, Op, Form)
        BY <2>2 DEF WriteCycle, InternalCycle, After
      <3> QED  BY <1>1, <1>3, <3>1, EffectAdvances
    <2> QED  BY <2>1, <2>2 DEF InnerCycle
  <1> QED  BY <1>2, <1>3, <1>4, <1>5

\* IR, PC and SP after a fetch from a.
Landed(a) ==
    /\ regs' \in Registers /\ regs'.IR \in Byte
    /\ regs'.PC = Increment(a)
    /\ Micro # "fetchSP" => regs'.SP = regs.SP

LEMMA FetchLoads ==
    ASSUME TypeOK, NEW a \in Word
    PROVE  LET r == [regs EXCEPT !.IR = Contents(a), !.PC = Increment(a)] IN
           r \in Registers /\ r.PC = Increment(a) /\ r.SP = regs.SP
  <1> DEFINE b == Contents(a)
             w == Increment(a)
  <1>1. b \in Byte /\ w \in Word /\ regs \in Registers
    BY ContentsFit, WordSteps DEF TypeOK
  <1> HIDE DEF b, w
  <1>2. /\ [regs EXCEPT !.IR = b, !.PC = w] \in Registers
        /\ [regs EXCEPT !.IR = b, !.PC = w].PC = w
        /\ [regs EXCEPT !.IR = b, !.PC = w].SP = regs.SP
    BY <1>1 DEF Registers
  <1> QED  BY <1>2 DEF b, w

LEMMA FetchLands ==
    ASSUME TypeOK, FetchCycle
    PROVE  /\ Landed(At(Cycle.at)) /\ At(Cycle.at) \in Word
           /\ Micro \in Ends /\ ~halted
  <1>1. /\ Shaped(Cycle, Micro, Op, Form, regs.IR)
        /\ Affects(Cycle.effect, Micro, Op, Form, regs.IR)
        /\ regs \in Registers /\ regs.IR \in Byte
    BY CycleNow
  <1>2. Micro \in Ends /\ ~halted
    BY CycleNow DEF FetchCycle, Runs
  <1>3. At(Cycle.at) \in Word
    <2>1. Cycle.at \in Places
      BY <1>1, <1>2 DEF Shaped, Ends, Inward
    <2> QED  BY <2>1, PlacesFit
  <1> DEFINE a == At(Cycle.at)
             r == [regs EXCEPT !.IR = Contents(a), !.PC = Increment(a)]
  <1>4. regs' = Effect(Cycle.effect, r, regs.IR, Op, Form)
    BY DEF FetchCycle, FetchFrom
  <1> HIDE DEF a
  <1>5. r \in Registers /\ r.PC = Increment(a) /\ r.SP = regs.SP
    BY <1>3, FetchLoads DEF a
  <1> HIDE DEF r
  <1>6. Lands(regs', r, Micro)
    BY <1>1, <1>2, <1>4, <1>5, EffectLands
  <1>7. Landed(a)
    BY <1>5, <1>6, Fits DEF Lands, Landed
  <1> QED  BY <1>2, <1>3, <1>7 DEF a

LEMMA NotTakenLands ==
    ASSUME TypeOK, NotTaken
    PROVE  /\ Landed(regs.PC) /\ regs.PC \in Word
           /\ Micro \in Depending /\ ~halted /\ ~cCheck
           /\ regs'.SP = regs.SP
  <1>1. /\ Shaped(Cycle, Micro, Op, Form, regs.IR)
        /\ regs \in Registers /\ regs.IR \in Byte /\ regs.PC \in Word
    BY CycleNow, Fits
  <1>2. Micro \in Depending /\ ~halted /\ ~cCheck
    BY <1>1 DEF NotTaken, Shaped
  <1> DEFINE r == [regs EXCEPT !.IR = Contents(regs.PC), !.PC = Increment(regs.PC)]
  <1>3. regs' = r
    BY DEF NotTaken, FetchFrom, Effect
  <1>4. r \in Registers /\ r.PC = Increment(regs.PC) /\ r.SP = regs.SP
    BY <1>1, FetchLoads
  <1> HIDE DEF r
  <1>5. Landed(regs.PC) /\ regs'.SP = regs.SP
    BY <1>3, <1>4, Fits DEF Landed
  <1> QED  BY <1>1, <1>2, <1>5

-----------------------------------------------------------------------------
(* Type correctness: every register and every byte of memory stays in its *)
(* range, and no instruction runs past its last cycle.                     *)

LEMMA CyclesCounted ==
    /\ regs.IR \in Byte /\ isCbInstruction \in BOOLEAN => Len(CyclesNow) \in 1..6
    /\ (regs.IR \in Byte /\ isCbInstruction \in BOOLEAN => Len(CyclesNow) \in 1..6)'
  BY CycleCounts DEF CyclesNow

LEMMA InitTyped == Init => TypeOK
  <1> SUFFICES ASSUME Init PROVE TypeOK
    OBVIOUS
  <1>1. PICK p \in Programs : \E r \in p.inputs :
            origin = [program |-> p.program, regs |-> r, memory |-> p.memory]
    BY DEF Init
  <1> PICK r \in p.inputs : origin = [program |-> p.program, regs |-> r, memory |-> p.memory]
    BY <1>1
  <1>2. regs = r /\ memory = p.memory
    BY <1>1 DEF Init
  <1>3. /\ regs \in Registers /\ DOMAIN memory \subseteq Word
        /\ \A a \in DOMAIN memory : memory[a] \in Byte
    BY <1>2, CpuAssumption
  <1>4. regs.IR \in Byte
    BY <1>3, Fits
  <1>5. instructionCycle = 0 /\ isCbInstruction = FALSE
    BY DEF Init
  <1>6. Len(CyclesNow) \in 1..6
    BY <1>4, <1>5, CyclesCounted
  <1>7. 0 \in Word
    BY WordBounds
  <1> HIDE DEF Word, Byte, Registers
  <1>8. /\ cCheck = FALSE /\ IME = FALSE /\ enablingIME = FALSE /\ halted = FALSE
        /\ before = regs /\ pushedPC = 0 /\ last = "other"
    BY DEF Init
  <1>9. instructionCycle \in Nat /\ instructionCycle < Len(CyclesNow)
    <2>1. instructionCycle = 0
      BY <1>5
    <2>2. 0 \in Nat /\ \A n \in 1..6 : 0 < n
      OBVIOUS
    <2> QED  BY <1>6, <2>1, <2>2
  <1> QED  BY <1>3, <1>5, <1>7, <1>8, <1>9 DEF TypeOK, CyclesNow

\* The switches.
LEMMA SwitchesSettle ==
    ASSUME TypeOK
    PROVE  IMENow \in BOOLEAN /\ EnablingNow \in BOOLEAN
  BY DEF TypeOK, IMENow, EnablingNow

LEMMA InnerTyped == TypeOK /\ InnerCycle => TypeOK'
  <1> SUFFICES ASSUME TypeOK, InnerCycle PROVE TypeOK'
    OBVIOUS
  <1>1. Advances(regs', regs, Micro) /\ Micro \in Inner /\ Proceed
    BY InnerAdvances
  <1>2. regs' \in Registers /\ before' \in Registers /\ CyclesNow' = CyclesNow
    BY <1>1 DEF TypeOK, Proceed, Advances, CyclesNow
  <1>3. instructionCycle' \in Nat /\ instructionCycle' < Len(CyclesNow)
    <2>1. Micro \notin Ends
      BY <1>1 DEF Inner, Reading, Writing, Inward, Ends
    <2>2. /\ instructionCycle + 1 # Len(CyclesNow) /\ instructionCycle \in Nat
          /\ instructionCycle + 1 \in 1..Len(CyclesNow) /\ Len(CyclesNow) \in 1..6
      BY <2>1, Running
    <2> QED  BY <1>1, <2>2 DEF Proceed
  <1>4. DOMAIN memory' \subseteq Word /\ \A a \in DOMAIN memory' : memory'[a] \in Byte
    <2>1. CASE WriteCycle
      <3> DEFINE at == At(Cycle.at)
                 b == Written(Cycle.data)
      <3>1. Shaped(Cycle, Micro, Op, Form, regs.IR) /\ Cycle.io = "write"
        BY <2>1, CycleNow DEF WriteCycle, Runs
      <3>2. Micro \in Writing
        BY <1>1, <3>1 DEF Shaped, Inner, Reading, Writing, Inward
      <3>3. at \in Word
        <4>1. Cycle.at \in Places
          BY <3>1, <3>2 DEF Shaped, Writing, Inward
        <4> QED  BY <4>1, PlacesFit
      <3>4. b \in Byte
        <4>1. Source(Cycle.data, Op, Form, regs.IR) \/ Cycle.data \in {"PCH", "PCL"}
          BY <3>1, <3>2 DEF Shaped
        <4> QED  BY <4>1, WrittenFits
      <3>5. memory' = [a \in DOMAIN memory \cup {at} |-> IF a = at THEN b ELSE memory[a]]
        BY <2>1 DEF WriteCycle
      <3> HIDE DEF at, b
      <3>6. DOMAIN memory \subseteq Word /\ \A a \in DOMAIN memory : memory[a] \in Byte
        BY DEF TypeOK
      <3> HIDE DEF Byte, Word
      <3> QED  BY <3>3, <3>4, <3>5, <3>6
    <2>2. CASE ~WriteCycle
      <3>1. memory' = memory
        BY <2>2 DEF InnerCycle, ReadCycle, InternalCycle
      <3> QED  BY <3>1 DEF TypeOK
    <2> QED  BY <2>1, <2>2
  <1>5. pushedPC' \in Word
    BY Fits DEF TypeOK, InnerCycle, ReadCycle, WriteCycle, InternalCycle
  <1>6. {isCbInstruction', cCheck', IME', enablingIME', halted'} \subseteq BOOLEAN
    <2>1. cCheck' \in BOOLEAN
      BY <1>1 DEF Proceed, TypeOK, Condition
    <2>2. IME' \in BOOLEAN
      BY <1>1 DEF Proceed
    <2>3. enablingIME' \in BOOLEAN
      BY <1>1, SwitchesSettle DEF Proceed
    <2>4. isCbInstruction' \in BOOLEAN /\ halted' \in BOOLEAN
      BY <1>1 DEF Proceed, TypeOK
    <2> QED  BY <2>1, <2>2, <2>3, <2>4
  <1>7. last' \in {"other", "EI", "DI"}
    BY <1>1 DEF Proceed, TypeOK
  <1>8. instructionCycle' < Len(CyclesNow')
    BY <1>2, <1>3
  <1> QED  BY <1>2, <1>3, <1>4, <1>5, <1>6, <1>7, <1>8 DEF TypeOK, CyclesNow

\* A fetch from a.
Fetching(a) ==
    /\ Landed(a)
    /\ instructionCycle' = 0 /\ isCbInstruction' = (Op = "CB") /\ pushedPC' = 0
    /\ before' = IF Op = "CB" THEN before ELSE regs'
    /\ UNCHANGED <<memory, cCheck, origin>>
    /\ {IME', enablingIME', halted'} \subseteq BOOLEAN
    /\ last' \in {"other", "EI", "DI"}

LEMMA FetchingTyped ==
    ASSUME TypeOK, NEW a \in Word, Fetching(a)
    PROVE  TypeOK'
  <1>1. /\ regs' \in Registers /\ regs'.IR \in Byte /\ before' \in Registers
        /\ isCbInstruction' \in BOOLEAN
    BY DEF Fetching, Landed, TypeOK
  <1>2. Len(CyclesNow') \in 1..6
    BY <1>1, CyclesCounted
  <1>3. instructionCycle' \in Nat /\ instructionCycle' < Len(CyclesNow')
    BY <1>2 DEF Fetching
  <1>4. pushedPC' \in Word
    BY WordBounds DEF Fetching
  <1>5. {isCbInstruction', cCheck', IME', enablingIME', halted'} \subseteq BOOLEAN
    BY <1>1 DEF Fetching, TypeOK
  <1>6. DOMAIN memory' \subseteq Word /\ \A x \in DOMAIN memory' : memory'[x] \in Byte
    BY DEF Fetching, TypeOK
  <1> QED  BY <1>1, <1>3, <1>4, <1>5, <1>6 DEF TypeOK, CyclesNow, Fetching

LEMMA FetchFetches == TypeOK /\ FetchCycle => Fetching(At(Cycle.at))
  <1> SUFFICES ASSUME TypeOK, FetchCycle PROVE Fetching(At(Cycle.at))
    OBVIOUS
  <1>1. Landed(At(Cycle.at))
    BY FetchLands
  <1>2. IME' \in BOOLEAN /\ enablingIME' \in BOOLEAN /\ halted' \in BOOLEAN
    BY SwitchesSettle DEF FetchCycle
  <1>3. last' \in {"other", "EI", "DI"}
    BY DEF FetchCycle
  <1> QED  BY <1>1, <1>2, <1>3 DEF Fetching, FetchCycle, FetchFrom

LEMMA NotTakenFetches == TypeOK /\ NotTaken => Fetching(regs.PC)
  <1> SUFFICES ASSUME TypeOK, NotTaken PROVE Fetching(regs.PC)
    OBVIOUS
  <1>1. Landed(regs.PC)
    BY NotTakenLands
  <1>2. IME' \in BOOLEAN /\ enablingIME' \in BOOLEAN /\ halted' \in BOOLEAN
    BY SwitchesSettle DEF NotTaken, TypeOK
  <1>3. last' \in {"other", "EI", "DI"}
    BY DEF NotTaken
  <1> QED  BY <1>1, <1>2, <1>3 DEF Fetching, NotTaken, FetchFrom

LEMMA NextTyped == TypeOK /\ [Next]_vars => TypeOK'
  <1> SUFFICES ASSUME TypeOK, [Next]_vars PROVE TypeOK'
    OBVIOUS
  <1>1. CASE InnerCycle
    BY <1>1, InnerTyped
  <1>2. CASE FetchCycle
    BY <1>2, FetchLands, FetchFetches, FetchingTyped
  <1>3. CASE NotTaken
    BY <1>3, NotTakenLands, NotTakenFetches, FetchingTyped
  <1>4. CASE StayHalted
    BY <1>4, SwitchesSettle DEF StayHalted, TypeOK
  <1>5. CASE UNCHANGED vars
    BY <1>5 DEF vars, interrupts, TypeOK
  <1> QED  BY <1>1, <1>2, <1>3, <1>4, <1>5 DEF Next, InnerCycle

(* The registers, memory and the place in the instruction stay in range    *)
(* for every program and every input.                                      *)
THEOREM InstructionsTyped == Spec => []TypeOK
  <1> QED  BY InitTyped, NextTyped, PTL DEF Spec

(* No opcode makes its handler ask for the register that stands for memory *)
(* at HL, at which the register file throws.                               *)
THEOREM RegistersNamed == Spec => []NeverThrows
  <1>1. TypeOK => NeverThrows
    BY Running DEF NeverThrows
  <1> QED  BY <1>1, InstructionsTyped, PTL

-----------------------------------------------------------------------------
(* The sequencer takes the same steps. *)

\* Zero, which IR holds at first, is a NOP.
NopIfZero(row) == row.opcode = 0 => row.is = <<"Nop", "">>

LEMMA OnlyNopIsZero == \A row \in Exact : NopIfZero(row)
  <1>1. \A opcode, op, form : opcode # 0 => NopIfZero(Exactly(opcode, op, form))
    BY DEF Exactly, NopIfZero
  <1>2. \A opcode : NopIfZero(Exactly(opcode, "Nop", ""))
    BY DEF Exactly, NopIfZero
  <1>3. \A row \in ExactLoads : NopIfZero(row)
    <2>1. /\ \b00110110 # 0 /\ \b00001010 # 0 /\ \b00011010 # 0 /\ \b00000010 # 0
          /\ \b00010010 # 0 /\ \b11111010 # 0 /\ \b11101010 # 0 /\ \b11110010 # 0
          /\ \b11100010 # 0 /\ \b11110000 # 0 /\ \b11100000 # 0 /\ \b00111010 # 0
          /\ \b00110010 # 0 /\ \b00101010 # 0 /\ \b00100010 # 0 /\ \b00001000 # 0
          /\ \b11111001 # 0 /\ \b11111000 # 0
      OBVIOUS
    <2>2. /\ NopIfZero(Exactly(\b00110110, "LoadFromImmediateData", "IndirectHL"))
          /\ NopIfZero(Exactly(\b00001010, "LoadAccumulator", "IndirectBC"))
          /\ NopIfZero(Exactly(\b00011010, "LoadAccumulator", "IndirectDE"))
          /\ NopIfZero(Exactly(\b00000010, "LoadFromAccumulator", "IndirectBC"))
          /\ NopIfZero(Exactly(\b00010010, "LoadFromAccumulator", "IndirectDE"))
          /\ NopIfZero(Exactly(\b11111010, "LoadAccumulator", "Direct"))
          /\ NopIfZero(Exactly(\b11101010, "LoadFromAccumulator", "Direct"))
          /\ NopIfZero(Exactly(\b11110010, "LoadAccumulator", "Indirect0xFF00_C"))
          /\ NopIfZero(Exactly(\b11100010, "LoadFromAccumulator", "Indirect0xFF00_C"))
          /\ NopIfZero(Exactly(\b11110000, "LoadAccumulator", "Indirect0xFF00_n"))
          /\ NopIfZero(Exactly(\b11100000, "LoadFromAccumulator", "Indirect0xFF00_n"))
          /\ NopIfZero(Exactly(\b00111010, "LoadAccumulator", "IndirectHL_dec"))
          /\ NopIfZero(Exactly(\b00110010, "LoadFromAccumulator", "IndirectHL_dec"))
          /\ NopIfZero(Exactly(\b00101010, "LoadAccumulator", "IndirectHL_inc"))
          /\ NopIfZero(Exactly(\b00100010, "LoadFromAccumulator", "IndirectHL_inc"))
          /\ NopIfZero(Exactly(\b00001000, "LoadFromStackPointer", "Direct"))
          /\ NopIfZero(Exactly(\b11111001, "LoadStackPointerFromHL", ""))
          /\ NopIfZero(Exactly(\b11111000, "LoadHLFromAdjustedStackPointer", ""))
      BY <1>1, <1>2, <2>1
    <2>3. ASSUME NEW row \in {Exactly(\b00110110, "LoadFromImmediateData", "IndirectHL"),
                              Exactly(\b00001010, "LoadAccumulator", "IndirectBC"),
                              Exactly(\b00011010, "LoadAccumulator", "IndirectDE"),
                              Exactly(\b00000010, "LoadFromAccumulator", "IndirectBC"),
                              Exactly(\b00010010, "LoadFromAccumulator", "IndirectDE"),
                              Exactly(\b11111010, "LoadAccumulator", "Direct"),
                              Exactly(\b11101010, "LoadFromAccumulator", "Direct"),
                              Exactly(\b11110010, "LoadAccumulator", "Indirect0xFF00_C"),
                              Exactly(\b11100010, "LoadFromAccumulator", "Indirect0xFF00_C")}
          PROVE  NopIfZero(row)
      BY <2>2
    <2>4. ASSUME NEW row \in {Exactly(\b11110000, "LoadAccumulator", "Indirect0xFF00_n"),
                              Exactly(\b11100000, "LoadFromAccumulator", "Indirect0xFF00_n"),
                              Exactly(\b00111010, "LoadAccumulator", "IndirectHL_dec"),
                              Exactly(\b00110010, "LoadFromAccumulator", "IndirectHL_dec"),
                              Exactly(\b00101010, "LoadAccumulator", "IndirectHL_inc"),
                              Exactly(\b00100010, "LoadFromAccumulator", "IndirectHL_inc"),
                              Exactly(\b00001000, "LoadFromStackPointer", "Direct"),
                              Exactly(\b11111001, "LoadStackPointerFromHL", ""),
                              Exactly(\b11111000, "LoadHLFromAdjustedStackPointer", "")}
          PROVE  NopIfZero(row)
      BY <2>2
    <2>5. ExactLoads = {Exactly(\b00110110, "LoadFromImmediateData", "IndirectHL"),
                       Exactly(\b00001010, "LoadAccumulator", "IndirectBC"),
                       Exactly(\b00011010, "LoadAccumulator", "IndirectDE"),
                       Exactly(\b00000010, "LoadFromAccumulator", "IndirectBC"),
                       Exactly(\b00010010, "LoadFromAccumulator", "IndirectDE"),
                       Exactly(\b11111010, "LoadAccumulator", "Direct"),
                       Exactly(\b11101010, "LoadFromAccumulator", "Direct"),
                       Exactly(\b11110010, "LoadAccumulator", "Indirect0xFF00_C"),
                       Exactly(\b11100010, "LoadFromAccumulator", "Indirect0xFF00_C")}
                  \cup {Exactly(\b11110000, "LoadAccumulator", "Indirect0xFF00_n"),
                       Exactly(\b11100000, "LoadFromAccumulator", "Indirect0xFF00_n"),
                       Exactly(\b00111010, "LoadAccumulator", "IndirectHL_dec"),
                       Exactly(\b00110010, "LoadFromAccumulator", "IndirectHL_dec"),
                       Exactly(\b00101010, "LoadAccumulator", "IndirectHL_inc"),
                       Exactly(\b00100010, "LoadFromAccumulator", "IndirectHL_inc"),
                       Exactly(\b00001000, "LoadFromStackPointer", "Direct"),
                       Exactly(\b11111001, "LoadStackPointerFromHL", ""),
                       Exactly(\b11111000, "LoadHLFromAdjustedStackPointer", "")}
      BY DEF ExactLoads
    <2> QED  BY <2>3, <2>4, <2>5
  <1>4. \A row \in ExactControl : NopIfZero(row)
    <2>1. /\ \b11000011 # 0 /\ \b11101001 # 0 /\ \b00011000 # 0 /\ \b11001101 # 0
          /\ \b11001011 # 0 /\ \b11001001 # 0 /\ \b11011001 # 0 /\ \b01110110 # 0
          /\ \b00010000 # 0 /\ \b11110011 # 0 /\ \b11111011 # 0
      OBVIOUS
    <2>2. /\ NopIfZero(Exactly(\b11000011, "Jump", ""))
          /\ NopIfZero(Exactly(\b11101001, "JumpToHL", ""))
          /\ NopIfZero(Exactly(\b00011000, "RelativeJump", ""))
          /\ NopIfZero(Exactly(\b11001101, "CallFunction", ""))
          /\ NopIfZero(Exactly(\b11001011, "CB", ""))
          /\ NopIfZero(Exactly(\b11001001, "ReturnFromFunction", ""))
          /\ NopIfZero(Exactly(\b11011001, "ReturnFromInterruptHandler", ""))
          /\ NopIfZero(Exactly(\b01110110, "HaltSystemClock", ""))
          /\ NopIfZero(Exactly(\b00010000, "StopSystemAndMainClocks", ""))
          /\ NopIfZero(Exactly(\b11110011, "DisableInterrupts", ""))
          /\ NopIfZero(Exactly(\b11111011, "EnableInterrupts", ""))
          /\ NopIfZero(Exactly(\b00000000, "Nop", ""))
      BY <1>1, <1>2, <2>1
    <2> QED  BY <2>2 DEF ExactControl
  <1>5. ASSUME NEW row \in ExactArithmetic PROVE NopIfZero(row)
    <2>1. CASE \E f \in 0..7 : row = Exactly(\b10000110 + 8 * f, Accumulating[f + 1], "IndirectHL")
      <3>1. \A f \in 0..7 : \b10000110 + 8 * f # 0
        OBVIOUS
      <3> QED  BY <1>1, <2>1, <3>1
    <2>2. CASE \E f \in 0..7 : row = Exactly(\b11000110 + 8 * f, Accumulating[f + 1], "Immediate")
      <3>1. \A f \in 0..7 : \b11000110 + 8 * f # 0
        OBVIOUS
      <3> QED  BY <1>1, <2>2, <3>1
    <2>3. CASE row \in {Exactly(\b00110100, "Increment", "IndirectHL"),
                        Exactly(\b00110101, "Decrement", "IndirectHL"),
                        Exactly(\b00111111, "ComplementCarryFlag", ""),
                        Exactly(\b00110111, "SetCarryFlag", ""),
                        Exactly(\b00100111, "DecimalAdjustAccumulator", ""),
                        Exactly(\b00101111, "ComplementAccumulator", ""),
                        Exactly(\b11101000, "AddToStackPointer", "relative"),
                        Exactly(\b00000111, "RotateLeftCircular", "Accumulator"),
                        Exactly(\b00001111, "RotateRightCircular", "Accumulator"),
                        Exactly(\b00010111, "RotateLeft", "Accumulator"),
                        Exactly(\b00011111, "RotateRight", "Accumulator")}
      <3>1. /\ \b00110100 # 0 /\ \b00110101 # 0 /\ \b00111111 # 0 /\ \b00110111 # 0
            /\ \b00100111 # 0 /\ \b00101111 # 0 /\ \b11101000 # 0 /\ \b00000111 # 0
            /\ \b00001111 # 0 /\ \b00010111 # 0 /\ \b00011111 # 0
        OBVIOUS
      <3>2. /\ NopIfZero(Exactly(\b00110100, "Increment", "IndirectHL"))
            /\ NopIfZero(Exactly(\b00110101, "Decrement", "IndirectHL"))
            /\ NopIfZero(Exactly(\b00111111, "ComplementCarryFlag", ""))
            /\ NopIfZero(Exactly(\b00110111, "SetCarryFlag", ""))
            /\ NopIfZero(Exactly(\b00100111, "DecimalAdjustAccumulator", ""))
            /\ NopIfZero(Exactly(\b00101111, "ComplementAccumulator", ""))
            /\ NopIfZero(Exactly(\b11101000, "AddToStackPointer", "relative"))
            /\ NopIfZero(Exactly(\b00000111, "RotateLeftCircular", "Accumulator"))
            /\ NopIfZero(Exactly(\b00001111, "RotateRightCircular", "Accumulator"))
            /\ NopIfZero(Exactly(\b00010111, "RotateLeft", "Accumulator"))
            /\ NopIfZero(Exactly(\b00011111, "RotateRight", "Accumulator"))
        BY <1>1, <1>2, <3>1
      <3> QED  BY <2>3, <3>2
    <2> QED  BY <2>1, <2>2, <2>3 DEF ExactArithmetic
  <1> QED  BY <1>3, <1>4, <1>5 DEF Exact

LEMMA ZeroIsNop == StdKind[0] = "OneCycle"
  <1>1. 0 \in Byte
    BY ByteBounds
  <1>2. StdTable[0] = <<"Nop", "">>
    <2> DEFINE rows == {row \in Exact : row.opcode = 0}
    <2>1. Exactly(\b00000000, "Nop", "") \in Exact
      BY DEF Exact, ExactControl
    <2>2. Exactly(\b00000000, "Nop", "").opcode = 0
      BY DEF Exactly
    <2>3. rows # {}
      BY <2>1, <2>2
    <2>4. \A row \in rows : row.is = <<"Nop", "">>
      BY OnlyNopIsZero DEF NopIfZero
    <2>5. StdTable[0] = IF rows = {} THEN FirstMatch(StdPatterns, 0)
                        ELSE (CHOOSE row \in rows : TRUE).is
      BY <1>1 DEF StdTable
    <2> HIDE DEF rows
    <2> QED  BY <2>3, <2>4, <2>5
  <1>3. StdKind[0] = KindOf(StdTable[0][1], StdTable[0][2], 0)
    BY <1>1 DEF StdKind
  <1>4. StdTable[0][1] = "Nop"
    <2>1. <<"Nop", "">>[1] = "Nop"
      OBVIOUS
    <2> QED  BY <1>2, <2>1
  <1>5. \A op, form, v : op = "Nop" => KindOf(op, form, v) = "OneCycle"
    BY FamilySets DEF KindOf, Accumulator, Rotations, BitOps
  <1> QED  BY <1>3, <1>4, <1>5

\* Addresses are words.
LEMMA Addresses ==
    /\ \A w \in Word : w \in Sequencer!Addr
    /\ \A w \in Word : Sequencer!Plus(w, 1) = Increment(w) /\ Sequencer!Minus(w, 1) = Decrement(w)
    /\ \A w \in Word : Decrement(Increment(w)) = w
  <1>1. \A w \in Word : w \in Sequencer!Addr
    <2> SUFFICES ASSUME NEW w \in Word PROVE w \in Sequencer!Addr
      OBVIOUS
    <2>1. w \in Int /\ 0 <= w /\ w <= 65536 - 1
      BY WordBounds
    <2> DEFINE count == 65536
    <2>2. Sequencer!Addr = 0..(count - 1) /\ count \in Nat /\ w <= count - 1
      BY <2>1 DEF Sequencer!Addr
    <2> HIDE DEF count
    <2> QED  BY <2>1, <2>2
  <1>2. \A w \in Word : Sequencer!Plus(w, 1) = Increment(w) /\ Sequencer!Minus(w, 1) = Decrement(w)
    BY WordBounds DEF Sequencer!Plus, Sequencer!Minus, Increment, Decrement
  <1>3. \A w \in Word : Decrement(Increment(w)) = w
    BY WordBounds DEF Increment, Decrement
  <1> QED  BY <1>1, <1>2, <1>3

\* No kind is one the sequencer does not know.
LEMMA KindsKnown ==
    /\ \A v \in Byte : StdKind[v] \in {StdKind[w] : w \in Byte}
    /\ \A v \in Byte : CbKind[v] \in Sequencer!CbKinds
  <1>1. ASSUME NEW v \in Byte PROVE CbKind[v] \in Sequencer!CbKinds
    BY CbDecoded, CbFollow DEF CbKind
  <1> QED  BY <1>1

\* The start of the sequencer.
LEMMA InitSequenced == Init => Sequencer!Init
  <1> SUFFICES ASSUME Init PROVE Sequencer!Init
    OBVIOUS
  <1>1. PICK p \in Programs : \E r \in p.inputs :
            origin = [program |-> p.program, regs |-> r, memory |-> p.memory]
    BY DEF Init
  <1> PICK r \in p.inputs : origin = [program |-> p.program, regs |-> r, memory |-> p.memory]
    BY <1>1
  <1>2. regs.IR = 0 /\ regs \in Registers
    BY CpuAssumption DEF Init
  <1>3. regs.PC \in Sequencer!Addr /\ regs.SP \in Sequencer!Addr
        /\ Sequencer!Minus(regs.PC, 1) = Decrement(regs.PC)
    BY <1>2, Fits, Addresses
  <1>4. isCbInstruction = FALSE /\ StdKind[regs.IR] = "OneCycle"
    BY <1>2, ZeroIsNop DEF Init
  <1> QED  BY <1>3, <1>4 DEF Init, Sequencer!Init

\* An instruction is only ever between two cycles with what it pushed of PC.
Sequenced == TypeOK /\ (instructionCycle = 0 => pushedPC = 0)

\* Out of HALT, it runs the cycle it is in.
LEMMA Executes ==
    ASSUME TypeOK, ~halted, halted' = (Micro = "halt")
    PROVE  Sequencer!Execute(Micro)
  <1>1. ~Sequencer!Handling /\ Sequencer!Awake /\ Sequencer!Pending = {}
    BY DEF Sequencer!Handling, Sequencer!Scrap, Sequencer!Awake, Sequencer!Pending
  <1>2. Sequencer!Microcode[KindNow][instructionCycle + 1] = Micro
    BY DEF Micro, Microcode
  <1> QED  BY <1>1, <1>2 DEF Sequencer!Execute, KindNow

LEMMA Settles ==
    /\ Sequencer!IMENow = IMENow /\ Sequencer!EnablingNow = EnablingNow
    /\ Sequencer!Boundary = (instructionCycle = 0)
  BY DEF Sequencer!IMENow, Sequencer!EnablingNow, Sequencer!Boundary, IMENow, EnablingNow

\* What an inner cycle does to the switches and the history.
LEMMA InnerProceeds ==
    ASSUME TypeOK, InnerCycle
    PROVE  /\ Sequencer!Execute(Micro) /\ Sequencer!Proceed
           /\ IME' = (IMENow \/ Micro = "jumpIME") /\ enablingIME' = EnablingNow
           /\ Micro # "jumpIME" => Sequencer!SettleIME
           /\ IF Micro \in Testing THEN cCheck' \in BOOLEAN ELSE cCheck' = cCheck
           /\ pushedPC' = IF Micro = "pushPCH" THEN regs.PC ELSE pushedPC
  <1>1. /\ Advances(regs', regs, Micro) /\ Micro \in Inner /\ Proceed /\ ~halted
        /\ Shaped(Cycle, Micro, Op, Form, regs.IR)
    BY InnerAdvances, CycleNow
  <1>2. Micro # "halt" /\ Micro \notin Ends
    BY <1>1 DEF Inner, Reading, Writing, Inward, Ends
  <1>3. Sequencer!Execute(Micro)
    <2>1. halted' = FALSE
      BY <1>1 DEF Proceed, TypeOK
    <2> QED  BY <1>1, <1>2, <2>1, Executes
  <1>4. Sequencer!Proceed
    <2>1. regs'.IR = regs.IR /\ isCbInstruction' = isCbInstruction /\ before' = before
      BY <1>1 DEF Proceed, Advances
    <2> QED  BY <1>1, <2>1 DEF Proceed, Sequencer!Proceed
  <1>5. IME' = (IMENow \/ Micro = "jumpIME") /\ enablingIME' = EnablingNow
    <2>1. Op = Returns /\ Cycle.effect = "PC=WZ" <=> Micro = "jumpIME"
      BY <1>1, <1>2 DEF Shaped
    <2> QED  BY <1>1, <2>1 DEF Proceed, Returns
  <1>6. Micro # "jumpIME" => Sequencer!SettleIME
    BY <1>5, Settles, SwitchesSettle DEF Sequencer!SettleIME
  <1>7. IF Micro \in Testing THEN cCheck' \in BOOLEAN ELSE cCheck' = cCheck
    <2>1. Micro \in Testing <=> Cycle.test
      BY <1>1 DEF Shaped
    <2> QED  BY <1>1, <2>1 DEF Proceed, Condition
  <1>8. pushedPC' = IF Micro = "pushPCH" THEN regs.PC ELSE pushedPC
    <2>1. CASE WriteCycle
      <3>1. Cycle.io = "write"
        BY <2>1 DEF WriteCycle, Runs
      <3>2. Cycle.data = "PCH" <=> Micro = "pushPCH"
        BY <1>1, <3>1 DEF Shaped, Inner, Reading, Writing, Inward
      <3> QED  BY <2>1, <3>2 DEF WriteCycle
    <2>2. CASE ReadCycle \/ InternalCycle
      <3>1. Cycle.io # "write"
        BY <2>2 DEF ReadCycle, InternalCycle, Runs
      <3>2. Micro # "pushPCH"
        BY <1>1, <3>1 DEF Shaped, Writing
      <3> QED  BY <2>2, <3>2 DEF ReadCycle, InternalCycle
    <2> QED  BY <2>1, <2>2 DEF InnerCycle
  <1> QED  BY <1>3, <1>4, <1>5, <1>6, <1>7, <1>8

LEMMA InnerSequenced == TypeOK /\ InnerCycle => Sequencer!Instruction
  <1> SUFFICES ASSUME TypeOK, InnerCycle PROVE Sequencer!Instruction
    OBVIOUS
  <1>1. /\ Advances(regs', regs, Micro) /\ Micro \in Inner
        /\ Micro \in Depending => cCheck
    BY InnerAdvances
  <1>2. /\ Sequencer!Execute(Micro) /\ Sequencer!Proceed
        /\ IME' = (IMENow \/ Micro = "jumpIME") /\ enablingIME' = EnablingNow
        /\ Micro # "jumpIME" => Sequencer!SettleIME
        /\ IF Micro \in Testing THEN cCheck' \in BOOLEAN ELSE cCheck' = cCheck
        /\ pushedPC' = IF Micro = "pushPCH" THEN regs.PC ELSE pushedPC
    BY InnerProceeds
  <1>3. /\ regs'.PC \in Sequencer!Addr /\ regs'.SP \in Sequencer!Addr
        /\ Sequencer!Plus(regs.PC, 1) = Increment(regs.PC)
        /\ Sequencer!Plus(regs.SP, 1) = Increment(regs.SP)
        /\ Sequencer!Minus(regs.SP, 1) = Decrement(regs.SP)
    <2>1. regs \in Registers /\ regs' \in Registers
      BY <1>1 DEF TypeOK, Advances
    <2> QED  BY <2>1, Fits, Addresses
  <1>4. CASE Micro \in {"operand", "operandTest"}
    <2>1. Sequencer!Operand
      BY <1>1, <1>2, <1>3, <1>4 DEF Advances, Testing, Sequencer!Operand, Sequencer!lines
    <2> QED  BY <2>1 DEF Sequencer!Instruction
  <1>5. CASE Micro = "test"
    <2>1. Sequencer!Test
      BY <1>1, <1>2, <1>5 DEF Advances, Testing, Sequencer!Test, Sequencer!lines
    <2> QED  BY <2>1 DEF Sequencer!Instruction
  <1>6. CASE Micro \in {"read", "internal", "internalIf"}
    <2>1. Sequencer!Internal
      BY <1>1, <1>2, <1>6 DEF Advances, Testing, Depending, Sequencer!Internal, Sequencer!Taken,
         Sequencer!lines
    <2> QED  BY <2>1 DEF Sequencer!Instruction
  <1>7. CASE Micro = "write"
    <2>1. Sequencer!Write
      BY <1>1, <1>2, <1>7 DEF Advances, Testing, Sequencer!Write, Sequencer!BusWrite,
         Sequencer!lines
    <2> QED  BY <2>1 DEF Sequencer!Instruction
  <1>8. CASE Micro = "setSP"
    <2>1. Sequencer!SetSP
      BY <1>1, <1>2, <1>3, <1>8 DEF Advances, Testing, Sequencer!SetSP, Sequencer!lines
    <2> QED  BY <2>1 DEF Sequencer!Instruction
  <1>9. CASE Micro \in {"decSP", "decSPIf"}
    <2>1. Sequencer!DecSP
      BY <1>1, <1>2, <1>3, <1>9 DEF Advances, Testing, Depending, Sequencer!DecSP,
         Sequencer!Taken, Sequencer!lines
    <2> QED  BY <2>1 DEF Sequencer!Instruction
  <1>10. CASE Micro \in {"push", "pushPCH"}
    <2>1. Sequencer!Push
      BY <1>1, <1>2, <1>3, <1>10 DEF Advances, Testing, Sequencer!Push, Sequencer!BusWrite,
         Sequencer!lines
    <2> QED  BY <2>1 DEF Sequencer!Instruction
  <1>11. CASE Micro = "pushPCL"
    <2>1. Sequencer!PushPCL
      BY <1>1, <1>2, <1>3, <1>11 DEF Advances, Testing, Sequencer!PushPCL, Sequencer!BusWrite,
         Sequencer!lines
    <2> QED  BY <2>1 DEF Sequencer!Instruction
  <1>12. CASE Micro \in {"pop", "popIf"}
    <2>1. Sequencer!Pop
      BY <1>1, <1>2, <1>3, <1>12 DEF Advances, Testing, Depending, Sequencer!Pop,
         Sequencer!Taken, Sequencer!lines
    <2> QED  BY <2>1 DEF Sequencer!Instruction
  <1>13. CASE Micro \in {"jump", "jumpIf"}
    <2>1. Sequencer!Jump
      BY <1>1, <1>2, <1>3, <1>13 DEF Advances, Testing, Depending, Sequencer!Jump,
         Sequencer!Taken, Sequencer!lines
    <2> QED  BY <2>1 DEF Sequencer!Instruction
  <1>14. CASE Micro = "jumpIME"
    <2>1. Sequencer!Jump
      BY <1>1, <1>2, <1>3, <1>14, Settles DEF Advances, Testing, Sequencer!Jump, Sequencer!lines
    <2> QED  BY <2>1 DEF Sequencer!Instruction
  <1> QED
    BY <1>1, <1>4, <1>5, <1>6, <1>7, <1>8, <1>9, <1>10, <1>11, <1>12, <1>13, <1>14
    DEF Inner, Reading, Writing, Inward

\* HALT, EI, DI and the prefix have one cycle.
LEMMA ControlsAtOnce ==
    ASSUME TypeOK, Op \in Controlling
    PROVE  instructionCycle = 0 /\ Cycle = Fetch
  <1>1. CyclesNow = Cycles(Op, Form)
    <2>1. regs.IR \in Byte
      BY Fits DEF TypeOK
    <2> QED  BY <2>1 DEF CyclesNow, StdCycles, CbCycles, Op, Form, Instruction
  <1>2. CyclesNow = <<Fetch>>
    BY <1>1, CyclesOf
  <1>3. Len(CyclesNow) = 1 /\ CyclesNow[1] = Fetch
    BY <1>2
  <1>4. instructionCycle \in Nat /\ instructionCycle < Len(CyclesNow)
    BY DEF TypeOK, CyclesNow
  <1>5. instructionCycle = 0
    BY <1>3, <1>4
  <1>6. Cycle = CyclesNow[instructionCycle + 1]
    BY DEF Cycle, CyclesNow
  <1>7. instructionCycle + 1 = 1
    BY <1>5
  <1> QED  BY <1>3, <1>5, <1>6, <1>7

\* The fetches.
LEMMA FetchSequenced == Sequenced /\ FetchCycle => Sequencer!Instruction
  <1> SUFFICES ASSUME Sequenced, FetchCycle PROVE Sequencer!Instruction
    OBVIOUS
  <1> DEFINE a == At(Cycle.at)
  <1>1. /\ TypeOK /\ Landed(a) /\ a \in Word /\ Micro \in Ends /\ ~halted
        /\ Shaped(Cycle, Micro, Op, Form, regs.IR)
    BY FetchLands, CycleNow DEF Sequenced
  <1>2. /\ Micro = "halt" <=> Op = "HaltSystemClock"
        /\ Micro = "enable" <=> Op = "EnableInterrupts"
        /\ Micro = "disable" <=> Op = "DisableInterrupts"
        /\ Micro = "prefix" <=> Op = "CB"
        /\ Micro # "fetchTarget" => a = regs.PC
    <2>1. Micro # "fetchTarget" => Cycle.at = "PC"
      BY <1>1 DEF Shaped
    <2> QED  BY <1>1, <2>1 DEF Shaped, At
  <1>3. /\ instructionCycle' = 0 /\ isCbInstruction' = (Op = "CB") /\ pushedPC' = 0
        /\ before' = IF Op = "CB" THEN before ELSE regs'
        /\ cCheck' = cCheck
        /\ halted' = (Op = "HaltSystemClock")
        /\ IME' = (IMENow /\ Op # "DisableInterrupts")
        /\ enablingIME' = (Op = "EnableInterrupts" \/ (EnablingNow /\ Op # "DisableInterrupts"))
        /\ last' = IF Op = "EnableInterrupts" /\ ~IMENow THEN "EI"
                   ELSE IF Op = "DisableInterrupts" THEN "DI" ELSE "other"
    BY DEF FetchCycle, FetchFrom
  <1>4. Sequencer!Execute(Micro)
    BY <1>1, <1>2, <1>3, Executes
  <1> HIDE DEF a
  <1>5. /\ regs'.PC = Sequencer!Plus(a, 1) /\ Decrement(regs'.PC) = a /\ regs'.IR \in Byte
        /\ a \in Sequencer!Addr /\ regs'.SP \in Sequencer!Addr
    <2>1. regs'.SP \in Word
      BY <1>1, Fits DEF Landed
    <2> QED  BY <1>1, <2>1, Addresses DEF Landed
  <1>6. /\ StdKind[regs'.IR] \in {StdKind[w] : w \in Byte}
        /\ CbKind[regs'.IR] \in Sequencer!CbKinds
    BY <1>5, KindsKnown
  <1>7. Op \notin {"EnableInterrupts", "DisableInterrupts"} =>
            Sequencer!SettleIME /\ last' = "other"
    <2> SUFFICES ASSUME Op \notin {"EnableInterrupts", "DisableInterrupts"}
                 PROVE  Sequencer!SettleIME /\ last' = "other"
      OBVIOUS
    <2>1. Op # "EnableInterrupts" /\ Op # "DisableInterrupts"
      OBVIOUS
    <2>2. IME' = IMENow /\ enablingIME' = EnablingNow
      BY <1>1, <1>3, <2>1, SwitchesSettle
    <2>3. Sequencer!SettleIME
      BY <2>2, Settles DEF Sequencer!SettleIME
    <2> QED  BY <1>3, <2>1, <2>3
  <1>8. Op # "CB" => Sequencer!Retire(a)
    BY <1>3, <1>5, <1>6 DEF Sequencer!Retire, Sequencer!M1, Sequencer!lines
  <1>9. CASE Micro \in {"fetch", "fetchSP"}
    <2>1. Sequencer!Fetch
      BY <1>1, <1>2, <1>4, <1>5, <1>7, <1>8, <1>9 DEF Sequencer!Fetch, Landed
    <2> QED  BY <2>1 DEF Sequencer!Instruction
  <1>10. CASE Micro = "fetchTarget"
    <2>1. Sequencer!FetchTarget
      BY <1>1, <1>2, <1>4, <1>5, <1>7, <1>8, <1>10 DEF Sequencer!FetchTarget, Landed
    <2> QED  BY <2>1 DEF Sequencer!Instruction
  <1>11. CASE Micro = "enable"
    <2>1. Op = "EnableInterrupts" /\ a = regs.PC /\ regs'.SP = regs.SP
      BY <1>1, <1>2, <1>11 DEF Landed
    <2>2. /\ IME' = Sequencer!IMENow /\ enablingIME' = TRUE
          /\ last' = IF Sequencer!IMENow THEN "other" ELSE "EI"
      BY <1>1, <1>3, <2>1, Settles, SwitchesSettle
    <2>3. Sequencer!EnableInterrupts
      BY <1>4, <1>8, <1>11, <2>1, <2>2 DEF Sequencer!EnableInterrupts
    <2> QED  BY <2>3 DEF Sequencer!Instruction
  <1>12. CASE Micro = "disable"
    <2>1. Sequencer!DisableInterrupts
      BY <1>1, <1>2, <1>3, <1>4, <1>8, <1>12 DEF Sequencer!DisableInterrupts, Landed
    <2> QED  BY <2>1 DEF Sequencer!Instruction
  <1>13. pushedPC = 0 \/ Micro \notin {"halt", "prefix"}
    <2>1. ASSUME Micro \in {"halt", "prefix"} PROVE instructionCycle = 0
      <3>1. Op \in Controlling
        BY <1>2, <2>1 DEF Controlling
      <3> QED  BY <1>1, <3>1, ControlsAtOnce
    <2> QED  BY <2>1 DEF Sequenced
  <1>14. CASE Micro = "halt"
    <2>1. Sequencer!Pending = {}
      BY DEF Sequencer!Pending
    <2>2. Sequencer!Halt
      BY <1>1, <1>2, <1>3, <1>4, <1>5, <1>6, <1>7, <1>13, <1>14, <2>1
      DEF Sequencer!Halt, Sequencer!lines, Landed
    <2> QED  BY <2>2 DEF Sequencer!Instruction
  <1>15. CASE Micro = "prefix"
    <2>1. Sequencer!Prefix
      BY <1>1, <1>2, <1>3, <1>4, <1>5, <1>6, <1>7, <1>13, <1>15
      DEF Sequencer!Prefix, Sequencer!lines, Landed
    <2> QED  BY <2>1 DEF Sequencer!Instruction
  <1> QED
    BY <1>1, <1>9, <1>10, <1>11, <1>12, <1>14, <1>15 DEF Ends

LEMMA NotTakenSequenced == TypeOK /\ NotTaken => Sequencer!Instruction
  <1> SUFFICES ASSUME TypeOK, NotTaken PROVE Sequencer!Instruction
    OBVIOUS
  <1>1. /\ Landed(regs.PC) /\ regs.PC \in Word /\ Micro \in Depending /\ ~halted /\ ~cCheck
        /\ regs'.SP = regs.SP
    BY NotTakenLands
  <1>2. /\ instructionCycle' = 0 /\ isCbInstruction' = FALSE /\ pushedPC' = 0
        /\ before' = regs' /\ cCheck' = cCheck /\ halted' = FALSE
        /\ IME' = IMENow /\ enablingIME' = EnablingNow /\ last' = "other"
    <2>1. Op # "CB"
      <3>1. ASSUME Op = "CB" PROVE FALSE
        <4>1. Cycle = Fetch
          BY <3>1, ControlsAtOnce DEF Controlling
        <4>2. ~Cycle.if
          BY <4>1 DEF Fetch, M1
        <4> QED  BY <4>2 DEF NotTaken
      <3> QED  BY <3>1
    <2> QED  BY <1>1, <2>1 DEF NotTaken, FetchFrom, TypeOK
  <1>3. Sequencer!Execute(Micro)
    BY <1>1, <1>2, Executes DEF Depending
  <1>4. /\ regs'.PC = Sequencer!Plus(regs.PC, 1) /\ Decrement(regs'.PC) = regs.PC
        /\ regs'.IR \in Byte
    BY <1>1, Addresses DEF Landed
  <1>5. StdKind[regs'.IR] \in {StdKind[w] : w \in Byte}
    BY <1>4, KindsKnown
  <1>6. Sequencer!Retire(regs.PC)
    BY <1>2, <1>4, <1>5 DEF Sequencer!Retire, Sequencer!M1, Sequencer!lines
  <1>7. Sequencer!SettleIME
    BY <1>2, Settles DEF Sequencer!SettleIME
  <1>8. Sequencer!Fetch
    BY <1>1, <1>2, <1>3, <1>6, <1>7 DEF Sequencer!Fetch, Depending
  <1> QED  BY <1>8 DEF Sequencer!Instruction

LEMMA HaltedSequenced == StayHalted => Sequencer!StayHalted
  <1> SUFFICES ASSUME StayHalted PROVE Sequencer!StayHalted
    OBVIOUS
  <1>1. ~Sequencer!Handling /\ ~Sequencer!Awake
    BY DEF StayHalted, Sequencer!Handling, Sequencer!Scrap, Sequencer!Awake, Sequencer!Pending
  <1>2. Sequencer!SettleIME
    BY Settles DEF StayHalted, Sequencer!SettleIME
  <1> QED  BY <1>1, <1>2 DEF StayHalted, Sequencer!StayHalted, Sequencer!lines, Sequencer!history

LEMMA SequencedKept == Sequenced /\ [Next]_vars => Sequenced'
  <1> SUFFICES ASSUME Sequenced, [Next]_vars PROVE Sequenced'
    OBVIOUS
  <1>1. TypeOK /\ TypeOK'
    BY NextTyped DEF Sequenced
  <1>2. CASE InnerCycle
    <2>1. instructionCycle' = instructionCycle + 1 /\ instructionCycle \in Nat
      BY <1>1, <1>2, InnerAdvances DEF Proceed, TypeOK
    <2> QED  BY <1>1, <2>1 DEF Sequenced
  <1>3. CASE FetchCycle \/ NotTaken
    BY <1>1, <1>3 DEF FetchCycle, NotTaken, FetchFrom, Sequenced
  <1>4. CASE StayHalted \/ UNCHANGED vars
    BY <1>1, <1>4 DEF StayHalted, vars, Sequenced
  <1> QED  BY <1>2, <1>3, <1>4 DEF Next, InnerCycle

LEMMA NextSequenced == Sequenced /\ [Next]_vars => [Sequencer!Next]_Sequencer!vars
  <1> SUFFICES ASSUME Sequenced, [Next]_vars PROVE [Sequencer!Next]_Sequencer!vars
    OBVIOUS
  <1>1. CASE InnerCycle
    BY <1>1, InnerSequenced DEF Sequenced, Sequencer!Next, Sequencer!CoreTick
  <1>2. CASE FetchCycle
    BY <1>2, FetchSequenced DEF Sequencer!Next, Sequencer!CoreTick
  <1>3. CASE NotTaken
    BY <1>3, NotTakenSequenced DEF Sequenced, Sequencer!Next, Sequencer!CoreTick
  <1>4. CASE StayHalted
    BY <1>4, HaltedSequenced DEF Sequencer!Next, Sequencer!CoreTick
  <1>5. CASE UNCHANGED vars
    BY <1>5 DEF vars, interrupts, Sequencer!vars, Sequencer!lines, Sequencer!history
  <1> QED  BY <1>1, <1>2, <1>3, <1>4, <1>5 DEF Next, InnerCycle

(* Every program takes only steps of the sequencer, so that what is proved *)
(* of the sequencer holds of every instruction as it is decoded and run.   *)
THEOREM SequencerImplemented == Spec => ImplementsSequencer
  <1>1. Init => Sequenced
    BY InitTyped DEF Init, Sequenced
  <1> QED
    BY <1>1, InitSequenced, SequencedKept, NextSequenced, PTL
    DEF Spec, ImplementsSequencer, Sequencer!Spec

(* The constants the sequencer is given are ones its theorems are about:   *)
(* every opcode is of a kind it has cycles for, and the vectors of its     *)
(* interrupts are addresses.                                               *)
THEOREM SequencerApplies ==
    /\ {StdKind[opcode] : opcode \in Byte} \subseteq DOMAIN Sequencer!Microcode
    /\ [n \in 0..4 |-> 64 + 8 * n] \in [Sequencer!Irq -> Sequencer!Addr]
  <1>1. ASSUME NEW v \in Byte PROVE StdKind[v] \in DOMAIN Sequencer!Microcode
    <2>1. FollowsIts(StdTable[v][1], StdTable[v][2], v)
      BY StdDecoded, StdFollow
    <2> QED  BY <2>1 DEF FollowsIts, StdKind
  <1>2. Sequencer!Irq = 0..4
    BY DEF Sequencer!Irq
  <1>3. \A n \in 0..4 : 64 + 8 * n \in Sequencer!Addr
    BY WordBounds, Addresses
  <1> QED  BY <1>1, <1>2, <1>3

==============================================================================
