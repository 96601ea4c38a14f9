------------------------------- MODULE Mapper -------------------------------
(***************************************************************************)
(* Banking in the cartridge mappers (src/src/cartridge/mbc1.cpp, mbc2.cpp, *)
(* mbc3.cpp and mbc5.cpp): the registers the program writes through the    *)
(* ROM's own addresses, the ROM banks the two windows 0000 and 4000 then   *)
(* show, and the RAM bank at A000.  A mapper lives as long as its          *)
(* cartridge is loaded: module Cartridge makes and destroys it.  Bank      *)
(* masks are one less than a power of two, so that masking is a remainder. *)
(***************************************************************************)
EXTENDS Integers

CONSTANTS
    LowBanks,       \* 32: values of MBC1's bank1
    HighBanks,      \* 4: values of MBC1's bank2
    Mbc2Banks,      \* 16
    Mbc3Banks,      \* 128
    Mbc5Low,        \* 256: values of a byte, MBC5's low register
    Mbc3Ram,        \* 4: RAM banks an MBC3 tells apart
    ClockSelect,    \* 8: from here on its RAM bank register selects the clock
    Mbc3Selects,    \* 256: values of that register
    Mbc5Ram,        \* 16, half of it with a rumble motor
    MaxBanks,       \* the ROM banks a kind supports: 2, 16, 128 or 512
    MaxRam          \* and its RAM banks: 0, 1, 4 or 16

Kinds == {"ROM", "MBC1", "MBC2", "MBC3", "MBC5"}

ASSUME MapperAssumption ==
    /\ {LowBanks, HighBanks, Mbc2Banks, Mbc3Banks, Mbc5Low} \subseteq Nat \ {0}
    /\ {Mbc3Ram, ClockSelect, Mbc3Selects, Mbc5Ram} \subseteq Nat \ {0}
    /\ MaxBanks \in [Kinds -> Nat \ {0}] /\ MaxRam \in [Kinds -> Nat]

\* No kind supports more banks than its registers can name.
ASSUME LimitsAssumption ==
    /\ MaxBanks["ROM"] <= 2 /\ MaxBanks["MBC1"] <= LowBanks * HighBanks
    /\ MaxBanks["MBC2"] <= Mbc2Banks /\ MaxBanks["MBC3"] <= Mbc3Banks
    /\ MaxBanks["MBC5"] <= 2 * Mbc5Low
    /\ \A kind \in Kinds : MaxBanks[kind] <= 512
    /\ MaxRam["ROM"] <= 1 /\ MaxRam["MBC1"] <= HighBanks
    /\ MaxRam["MBC3"] <= Mbc3Ram /\ MaxRam["MBC5"] <= Mbc5Ram
    /\ Mbc3Ram <= ClockSelect /\ Mbc3Ram <= Mbc3Selects

VARIABLES
    ramEnable,
    romBank,                \* romBank, or MBC1's bank1
    ramBank,                \* MBC3 and MBC5 only
    bank2, bankingMode      \* MBC1 only

registers == <<ramEnable, romBank, ramBank, bank2, bankingMode>>

\* The constructors.
MapperInit == ramEnable = FALSE /\ romBank = 1 /\ ramBank = 0 /\ bank2 = 0 /\ bankingMode = FALSE
Construct ==
    ramEnable' = FALSE /\ romBank' = 1 /\ ramBank' = 0 /\ bank2' = 0 /\ bankingMode' = FALSE

-----------------------------------------------------------------------------
Smaller(m, n) == IF m < n THEN m ELSE n

\* The ROM and RAM a mapper knows of.  An MBC2 has RAM of its own.
Banks(rom) == Smaller(rom.banks, MaxBanks[rom.kind])
Cells(rom) == IF rom.kind = "MBC2" THEN 1 ELSE Smaller(rom.size, MaxRam[rom.kind])

Powers == {1, 2, 4, 8, 16, 32, 64, 128, 256, 512}

\* bankMaskFor: the least 2^k - 1 no bank is above, up to the limit; here
\* 2^k, the number of banks the mapper has lines for.
LinesOf(rom) ==
    LET wired == {p \in Powers : p >= Banks(rom)}
    IN  CHOOSE p \in wired : \A q \in wired : p <= q

\* Mutant: one line short, as when an MBC1 drives a larger cartridge.
LinesShort(rom) == IF LinesOf(rom) > 1 THEN LinesOf(rom) \div 2 ELSE 1

Lines(rom) == LinesOf(rom)

Masked(rom, bank) == bank % Lines(rom)

NotZero(bank) == IF bank = 0 THEN 1 ELSE bank

\* The bank in 0000-3FFF: only an MBC1 in mode 1 moves it.
LowWindow(rom, hi, mode) ==
    IF rom.kind = "MBC1" /\ mode THEN Masked(rom, hi * LowBanks) ELSE 0

\* The bank in 4000-7FFF.  A ROM without a mapper and an MBC2 have no mask.
HighWindow(rom, lo, hi) ==
    CASE rom.kind = "ROM"  -> 1
      [] rom.kind = "MBC1" -> Masked(rom, (hi * LowBanks) + NotZero(lo))
      [] rom.kind = "MBC2" -> NotZero(lo)
      [] rom.kind = "MBC3" -> Masked(rom, NotZero(lo))
      [] rom.kind = "MBC5" -> Masked(rom, lo)

\* The RAM bank at A000-BFFF.  An MBC1 in mode 0 stays at the first.
RamWindow(rom, bank, hi, mode) ==
    CASE rom.kind = "MBC1" -> IF mode THEN hi ELSE 0
      [] rom.kind = "MBC3" -> bank % Mbc3Ram
      [] rom.kind = "MBC5" -> bank
      [] OTHER -> 0

\* The clock's registers lie there instead.
ClockSelected(rom, bank) == rom.clock /\ bank >= ClockSelect

\* The cell an access in the window reaches, if it is not open bus.
RamCell(rom) == RamWindow(rom, ramBank, bank2, bankingMode)
RamOpen(rom) == ramEnable /\ ~ClockSelected(rom, ramBank) /\ RamCell(rom) < Cells(rom)

-----------------------------------------------------------------------------
(***************************************************************************)
(* Writes of the registers.                                                *)
(***************************************************************************)
BankValues(kind) ==
    CASE kind = "ROM"  -> {1}
      [] kind = "MBC1" -> 0..(LowBanks - 1)
      [] kind = "MBC2" -> 1..(Mbc2Banks - 1)       \* 0 is stored as 1
      [] kind = "MBC3" -> 0..(Mbc3Banks - 1)
      [] kind = "MBC5" -> 0..((2 * Mbc5Low) - 1)

\* 0A enables the RAM, anything else disables it.
WriteEnable(rom) ==
    /\ rom.kind # "ROM"
    /\ ramEnable' \in BOOLEAN
    /\ UNCHANGED <<romBank, ramBank, bank2, bankingMode>>

WriteBank(rom) ==
    /\ rom.kind # "MBC5"
    /\ romBank' \in BankValues(rom.kind)
    /\ UNCHANGED <<ramEnable, ramBank, bank2, bankingMode>>

\* MBC5 has nine bits, in two registers.
WriteMbc5(rom) ==
    /\ rom.kind = "MBC5"
    /\ \/ \E value \in 0..(Mbc5Low - 1) : romBank' = (romBank \div Mbc5Low) * Mbc5Low + value
       \/ \E value \in 0..1 : romBank' = (value * Mbc5Low) + (romBank % Mbc5Low)
    /\ UNCHANGED <<ramEnable, ramBank, bank2, bankingMode>>

RamSelects(rom) ==
    CASE rom.kind = "MBC3" -> 0..(Mbc3Selects - 1)
      [] rom.kind = "MBC5" -> 0..((IF rom.rumble THEN Mbc5Ram \div 2 ELSE Mbc5Ram) - 1)
      [] OTHER -> {}

WriteRamBank(rom) ==
    /\ ramBank' \in RamSelects(rom)
    /\ UNCHANGED <<ramEnable, romBank, bank2, bankingMode>>

WriteMbc1(rom) ==
    /\ rom.kind = "MBC1"
    /\ \/ bank2' \in 0..(HighBanks - 1) /\ UNCHANGED bankingMode
       \/ bankingMode' \in BOOLEAN /\ UNCHANGED bank2
    /\ UNCHANGED <<ramEnable, romBank, ramBank>>

WriteRegister(rom) ==
    WriteEnable(rom) \/ WriteBank(rom) \/ WriteMbc5(rom) \/ WriteRamBank(rom) \/ WriteMbc1(rom)

-----------------------------------------------------------------------------
(* No bank of the ROM or of the RAM is out of the program's reach: each is *)
(* in its window for some value of the registers.                          *)
RomReachable(rom, bank) ==
    \/ \E hi \in 0..(HighBanks - 1), mode \in BOOLEAN : LowWindow(rom, hi, mode) = bank
    \/ \E lo \in BankValues(rom.kind), hi \in 0..(HighBanks - 1) : HighWindow(rom, lo, hi) = bank

RamReachable(rom, cell) ==
    \E bank \in RamSelects(rom) \cup {0}, hi \in 0..(HighBanks - 1), mode \in BOOLEAN :
        ~ClockSelected(rom, bank) /\ RamWindow(rom, bank, hi, mode) = cell

Reachable(rom) ==
    /\ \A bank \in 0..(Banks(rom) - 1) : RomReachable(rom, bank)
    /\ \A cell \in 0..(Cells(rom) - 1) : RamReachable(rom, cell)
=============================================================================
