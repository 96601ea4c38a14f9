-------------------------- MODULE CartridgeProofs --------------------------
(* Theorems about cartridges, for all sets of ROMs, sizes of their ROM and *)
(* RAM and limits of the mappers: that a game keeps what it saved, across  *)
(* closing, kills and saves that cannot be opened, as long as the host     *)
(* makes a new Emu for every game and no two games share a save file; and  *)
(* that the banking shows the program its own ROM, and all of it.          *)
EXTENDS Cartridge, SequenceTheorems, TLAPS

(* No two games have the same save file. *)
OwnSaves ==
    \A r1, r2 \in Roms : r1.battery /\ r2.battery /\ r1.stem = r2.stem => r1 = r2

-----------------------------------------------------------------------------
(***************************************************************************)
(* The inductive invariant: what the mapper, while there is one, is to its *)
(* game; and what every save file is to what its game has written.         *)
(***************************************************************************)
RegistersOK ==
    /\ romBank \in Nat /\ ramBank \in Nat /\ bank2 \in Nat
    /\ bankingMode \in BOOLEAN /\ ramEnable \in BOOLEAN

\* The mapper has its game's ROM, and so has the one in the making, which
\* replaces none.
Holds(rom) == \A bank \in 0..(Banks(rom) - 1) : romData[bank] = rom

Mounted ==
    /\ memory \in Roms \cup {None} /\ loading \in Roms \cup {None}
    /\ DOMAIN romData = 0..(LastBank - 1)
    /\ memory # None => Holds(memory)
    /\ loading # None => memory = None /\ Holds(loading)

Types ==
    /\ files \in [Stems -> Seq(Values) \cup {NoFile}]
    /\ memory # None => ram \in [1..Cells(memory) -> Values]
    /\ rtc \in Values
    /\ shown \in [Roms -> Values]
    /\ written = [rom \in Roms |-> written[rom]]
    /\ \A rom \in Roms : written[rom] \in [1..Cells(rom) -> Values \cup {None}]

\* Cells of a game's RAM are what it is to find.
AsLeft(rom, cells) ==
    \A i \in 1..Cells(rom) : Left(written[rom][i], rom \in cutShort, cells[i])

\* The open save is that of the game, whose RAM is as it was left.
Open ==
    /\ loading # None =>
           /\ alive /\ stream /\ loading.battery /\ battery = loading.stem
           /\ files[loading.stem] # NoFile
    /\ stream /\ loading = None =>
           /\ memory # None /\ memory.battery /\ battery = memory.stem
           /\ files[memory.stem] # NoFile
           /\ AsLeft(memory, ram)

\* A save that exists begins with what its game has written: it may be too
\* short only if its creation was cut short, and then lacks no cell that was
\* written.  It goes on with the time its clock showed, if it was put away.
Kept(rom, file, data, cut, time) ==
    /\ \A i \in 1..Cells(rom) :
           IF i <= Len(file) THEN Left(data[i], cut, file[i]) ELSE cut /\ data[i] = None
    /\ rom.clock => time = IF Len(file) > Cells(rom) THEN file[Cells(rom) + 1] ELSE Zero

Fresh(rom, data, time) == data = Filled(Cells(rom), None) /\ time = Zero

\* A save that is being created is still empty, and its game fresh.
Saved ==
    \A rom \in Roms : rom.battery =>
        IF files[rom.stem] = NoFile \/ (Creating /\ loading = rom)
        THEN Fresh(rom, written[rom], shown[rom]) /\ files[rom.stem] \in {NoFile, <<>>}
        ELSE Kept(rom, files[rom.stem], written[rom], rom \in cutShort, shown[rom])

Banked == RegistersOK /\ Mounted
IInv == Banked /\ Types /\ Open /\ Saved

-----------------------------------------------------------------------------
(***************************************************************************)
(* Sizes and banks.                                                        *)
(***************************************************************************)
LEMMA Greater ==
    ASSUME NEW S \in SUBSET Nat, NEW m \in S, NEW n \in S
    PROVE  \E top \in S : n <= top /\ \A k \in Nat : k <= m => k <= top
<1>1. CASE m <= n
  BY <1>1
<1>2. CASE n <= m
  BY <1>2
<1> QED  BY <1>1, <1>2

\* The Cartridge has room for the ROM of every mapper.
LEMMA TopBank == LastBank \in Nat /\ \A kind \in Kinds : MaxBanks[kind] <= LastBank
<1> DEFINE limits == {MaxBanks[kind] : kind \in Kinds}
<1>1. \A kind \in Kinds : MaxBanks[kind] \in Nat
  BY MapperAssumption
<1>2. /\ MaxBanks["ROM"] \in limits /\ MaxBanks["MBC1"] \in limits /\ MaxBanks["MBC2"] \in limits
      /\ MaxBanks["MBC3"] \in limits /\ MaxBanks["MBC5"] \in limits
  BY DEF Kinds
<1>3. limits \subseteq Nat
  BY <1>1
<1>4. \E m \in limits : \A kind \in Kinds : MaxBanks[kind] <= m
  <2> HIDE DEF limits
  <2>1. PICK m1 \in limits : MaxBanks["MBC1"] <= m1 /\ MaxBanks["ROM"] <= m1
    BY <1>2, <1>3, Greater
  <2>2. PICK m2 \in limits : MaxBanks["MBC2"] <= m2 /\ \A k \in Nat : k <= m1 => k <= m2
    BY <1>2, <1>3, Greater
  <2>3. PICK m3 \in limits : MaxBanks["MBC3"] <= m3 /\ \A k \in Nat : k <= m2 => k <= m3
    BY <1>2, <1>3, Greater
  <2>4. PICK m4 \in limits : MaxBanks["MBC5"] <= m4 /\ \A k \in Nat : k <= m3 => k <= m4
    BY <1>2, <1>3, Greater
  <2>5. \A kind \in Kinds : MaxBanks[kind] <= m4
    BY <1>2, <1>3, <2>1, <2>2, <2>3, <2>4 DEF Kinds
  <2> QED  BY <2>5
<1>5. LastBank \in limits /\ \A kind \in Kinds : MaxBanks[kind] <= LastBank
  BY <1>4, Zenon DEF LastBank
<1> QED  BY <1>3, <1>5

LEMMA Sizes ==
    ASSUME NEW rom \in Roms
    PROVE  /\ rom.kind \in Kinds
           /\ Banks(rom) \in Nat \ {0} /\ Banks(rom) <= rom.banks
           /\ Banks(rom) <= MaxBanks[rom.kind] /\ Banks(rom) <= LastBank
           /\ Cells(rom) \in Nat
<1>1. rom.kind \in Kinds /\ rom.banks \in Nat \ {0} /\ rom.size \in Nat
  BY CartridgeAssumption
<1>2. MaxBanks[rom.kind] \in Nat \ {0} /\ MaxRam[rom.kind] \in Nat
  BY <1>1, MapperAssumption
<1>3. Banks(rom) \in Nat \ {0} /\ Banks(rom) <= rom.banks /\ Banks(rom) <= MaxBanks[rom.kind]
  BY <1>1, <1>2 DEF Banks, Smaller
<1>4. Cells(rom) \in Nat
  BY <1>1, <1>2 DEF Cells, Smaller
<1>5. MaxBanks[rom.kind] <= LastBank
  BY <1>1, TopBank
<1> QED  BY <1>1, <1>2, <1>3, <1>4, <1>5, TopBank

(* The lines of a mapper reach all of its banks. *)
LEMMA LinesReach ==
    ASSUME NEW rom \in Roms
    PROVE  LinesOf(rom) \in Powers /\ Banks(rom) <= LinesOf(rom)
<1> DEFINE wired == {p \in Powers : p >= Banks(rom)}
<1>1. Banks(rom) \in Nat \ {0} /\ Banks(rom) <= 512
  BY Sizes, LimitsAssumption, MapperAssumption
<1>2. \E p \in wired : \A q \in wired : p <= q
  <2> DEFINE n == Banks(rom)
  <2> SUFFICES \E p \in Powers : p >= n /\ \A q \in Powers : q >= n => p <= q
    OBVIOUS
  <2>1. n \in Int /\ n <= 512
    BY <1>1
  <2> HIDE DEF n
  <2> QED  BY <2>1 DEF Powers
<1>3. LinesOf(rom) = CHOOSE p \in wired : \A q \in wired : p <= q
  BY DEF LinesOf
<1>4. LinesOf(rom) \in wired
  BY <1>2, <1>3, Zenon
<1> QED  BY <1>1, <1>4 DEF Powers

LEMMA LinesPositive ==
    ASSUME NEW rom \in Roms
    PROVE  /\ Lines(rom) \in Nat \ {0} /\ Lines(rom) = LinesOf(rom)
           /\ \A bank \in Nat : Masked(rom, bank) \in 0..(Lines(rom) - 1)
           /\ \A bank \in 0..(Banks(rom) - 1) : Masked(rom, bank) = bank
<1>1. Lines(rom) \in Nat \ {0} /\ Lines(rom) = LinesOf(rom) /\ Banks(rom) <= Lines(rom)
  BY LinesReach DEF Lines, Powers
<1>2. Banks(rom) \in Nat \ {0}
  BY Sizes
<1>3. \A m \in Nat \ {0}, bank \in Nat :
          bank % m \in 0..(m - 1) /\ (bank < m => bank % m = bank)
  OBVIOUS
<1>4. \A bank \in Nat : Masked(rom, bank) \in 0..(Lines(rom) - 1)
  BY <1>1, <1>3, Zenon DEF Masked
<1>5. ASSUME NEW bank \in 0..(Banks(rom) - 1)
      PROVE  Masked(rom, bank) = bank
  <2>1. bank \in Nat /\ bank < Lines(rom)
    BY <1>1, <1>2
  <2> QED  BY <1>1, <1>3, <2>1, Zenon DEF Masked
<1> QED  BY <1>1, <1>4, <1>5, Zenon

(* Every number of a bank is low + LowBanks * high. *)
LEMMA Split ==
    ASSUME NEW bank \in Nat, bank < LowBanks * HighBanks
    PROVE  /\ bank % LowBanks \in 0..(LowBanks - 1)
           /\ bank \div LowBanks \in 0..(HighBanks - 1)
           /\ bank = ((bank \div LowBanks) * LowBanks) + (bank % LowBanks)
<1> DEFINE n == LowBanks
           q == bank \div n
<1>1. n \in Nat \ {0} /\ HighBanks \in Nat \ {0}
  BY MapperAssumption
<1>2. bank % n \in 0..(n - 1) /\ q \in Nat /\ bank = (n * q) + (bank % n)
  <2> HIDE DEF n
  <2> QED  BY <1>1
<1> HIDE DEF n, q
<1>3. ASSUME q >= HighBanks PROVE FALSE
  <2>1. n * q >= n * HighBanks
    BY <1>1, <1>2, <1>3
  <2>2. bank < n * HighBanks
    BY DEF n
  <2>3. n * q \in Nat /\ n * HighBanks \in Nat
    BY <1>1, <1>2
  <2> QED  BY <1>2, <2>1, <2>2, <2>3
<1>4. n * q = q * n
  BY <1>1, <1>2
<1> QED  BY <1>1, <1>2, <1>3, <1>4 DEF n, q

(* Every bank of a ROM is in a window for some value of the registers. *)
LEMMA RomInReach ==
    ASSUME NEW rom \in Roms, NEW bank \in 0..(Banks(rom) - 1)
    PROVE  RomReachable(rom, bank)
<1>1. /\ bank \in Nat /\ bank < MaxBanks[rom.kind] /\ MaxBanks[rom.kind] \in Nat
      /\ Masked(rom, bank) = bank /\ rom.kind \in Kinds
  BY Sizes, LinesPositive, MapperAssumption
<1>2. HighBanks \in Nat \ {0} /\ 0 \in 0..(HighBanks - 1)
  BY MapperAssumption
<1>3. ASSUME bank = 0, rom.kind # "MBC1" PROVE RomReachable(rom, bank)
  <2>1. LowWindow(rom, 0, FALSE) = bank
    BY <1>3 DEF LowWindow
  <2> QED  BY <1>2, <2>1, Zenon DEF RomReachable
<1>4. CASE rom.kind = "ROM"
  <2>1. bank < 2
    BY <1>1, <1>4, LimitsAssumption
  <2>2. CASE bank = 1
    <3>1. HighWindow(rom, 1, 0) = bank /\ 1 \in BankValues(rom.kind)
      BY <1>4, <2>2 DEF HighWindow, BankValues
    <3> QED  BY <1>2, <3>1, Zenon DEF RomReachable
  <2>3. bank = 0 \/ bank = 1
    BY <1>1, <2>1
  <2> QED  BY <1>3, <1>4, <2>2, <2>3
<1>5. CASE rom.kind = "MBC1"
  <2> DEFINE lo == bank % LowBanks
             hi == bank \div LowBanks
  <2>1. MaxBanks["MBC1"] <= LowBanks * HighBanks /\ LowBanks \in Nat /\ HighBanks \in Nat
    BY LimitsAssumption, MapperAssumption
  <2>2. bank < LowBanks * HighBanks
    BY <1>1, <1>5, <2>1
  <2>3. lo \in 0..(LowBanks - 1) /\ hi \in 0..(HighBanks - 1) /\ bank = (hi * LowBanks) + lo
    BY <1>1, <2>2, Split
  <2>4. hi * LowBanks \in Nat
    BY <2>1, <2>3
  <2> HIDE DEF lo, hi
  <2>5. CASE lo = 0
    <3>1. bank = hi * LowBanks
      BY <2>3, <2>4, <2>5
    <3>2. LowWindow(rom, hi, TRUE) = bank
      BY <1>1, <1>5, <3>1 DEF LowWindow
    <3> QED  BY <2>3, <3>2, Zenon DEF RomReachable
  <2>6. CASE lo # 0
    <3>1. NotZero(lo) = lo /\ lo \in BankValues(rom.kind)
      BY <1>5, <2>3, <2>6 DEF NotZero, BankValues
    <3>2. HighWindow(rom, lo, hi) = bank
      BY <1>1, <1>5, <2>3, <3>1 DEF HighWindow
    <3> QED  BY <2>3, <3>1, <3>2, Zenon DEF RomReachable
  <2> QED  BY <2>5, <2>6
<1>6. ASSUME bank # 0, rom.kind \in {"MBC2", "MBC3"} PROVE RomReachable(rom, bank)
  <2>1. bank \in BankValues(rom.kind)
    BY <1>1, <1>6, LimitsAssumption, MapperAssumption DEF BankValues
  <2>2. HighWindow(rom, bank, 0) = bank
    BY <1>1, <1>6 DEF HighWindow, NotZero
  <2> QED  BY <1>2, <2>1, <2>2, Zenon DEF RomReachable
<1>7. CASE rom.kind = "MBC5"
  <2>1. bank \in BankValues(rom.kind)
    BY <1>1, <1>7, LimitsAssumption, MapperAssumption DEF BankValues
  <2>2. HighWindow(rom, bank, 0) = bank
    BY <1>1, <1>7 DEF HighWindow
  <2> QED  BY <1>2, <2>1, <2>2, Zenon DEF RomReachable
<1> QED  BY <1>1, <1>3, <1>4, <1>5, <1>6, <1>7 DEF Kinds

(* Every bank of a RAM is in the window for some value of the registers.   *)
LEMMA RamInReach ==
    ASSUME NEW rom \in Roms, NEW cell \in 0..(Cells(rom) - 1)
    PROVE  RamReachable(rom, cell)
<1>1. /\ rom.kind \in Kinds /\ cell \in Nat /\ Cells(rom) \in Nat
      /\ rom.size \in Nat /\ (rom.rumble => rom.size <= Mbc5Ram \div 2)
  BY Sizes, CartridgeAssumption
<1>2. /\ HighBanks \in Nat \ {0} /\ ClockSelect \in Nat \ {0} /\ Mbc3Ram \in Nat \ {0}
      /\ Mbc3Selects \in Nat \ {0} /\ Mbc5Ram \in Nat \ {0} /\ 0 \in 0..(HighBanks - 1)
      /\ MaxRam["ROM"] \in Nat /\ MaxRam["MBC1"] \in Nat /\ MaxRam["MBC3"] \in Nat
      /\ MaxRam["MBC5"] \in Nat
  BY MapperAssumption DEF Kinds
<1>3. ~ClockSelected(rom, 0)
  BY <1>2 DEF ClockSelected
<1>4. CASE rom.kind \in {"ROM", "MBC2"}
  <2>1. Cells(rom) <= 1
    BY <1>1, <1>2, <1>4, LimitsAssumption DEF Cells, Smaller
  <2>2. cell = 0
    BY <1>1, <2>1
  <2>3. RamWindow(rom, 0, 0, FALSE) = cell
    BY <1>4, <2>2 DEF RamWindow
  <2> QED  BY <1>2, <1>3, <2>3, Zenon DEF RamReachable
<1>5. CASE rom.kind = "MBC1"
  <2>1. cell \in 0..(HighBanks - 1)
    BY <1>1, <1>2, <1>5, LimitsAssumption DEF Cells, Smaller
  <2>2. RamWindow(rom, 0, cell, TRUE) = cell
    BY <1>5 DEF RamWindow
  <2> QED  BY <1>3, <2>1, <2>2, Zenon DEF RamReachable
<1>6. CASE rom.kind = "MBC3"
  <2>1. cell < Mbc3Ram /\ cell < ClockSelect /\ cell < Mbc3Selects
    BY <1>1, <1>2, <1>6, LimitsAssumption DEF Cells, Smaller
  <2>2. cell \in RamSelects(rom) \cup {0} /\ ~ClockSelected(rom, cell)
    BY <1>1, <1>2, <1>6, <2>1 DEF RamSelects, ClockSelected
  <2>3. RamWindow(rom, cell, 0, FALSE) = cell
    <3>1. cell % Mbc3Ram = cell
      BY <1>1, <1>2, <2>1
    <3> QED  BY <1>6, <3>1 DEF RamWindow
  <2> QED  BY <1>2, <2>2, <2>3, Zenon DEF RamReachable
<1>7. CASE rom.kind = "MBC5"
  <2>1. cell < Mbc5Ram /\ (rom.rumble => cell < Mbc5Ram \div 2)
    BY <1>1, <1>2, <1>7, LimitsAssumption DEF Cells, Smaller
  <2> DEFINE half == Mbc5Ram \div 2
  <2>2. half \in Nat
    BY <1>2
  <2>3. cell \in RamSelects(rom) \cup {0}
    <3> HIDE DEF half
    <3>1. RamSelects(rom) = 0..((IF rom.rumble THEN half ELSE Mbc5Ram) - 1)
      BY <1>7 DEF RamSelects, half
    <3> QED  BY <1>1, <1>2, <2>1, <2>2, <3>1 DEF half
  <2>4. RamWindow(rom, cell, 0, FALSE) = cell
    BY <1>7 DEF RamWindow
  <2>5. ~ClockSelected(rom, cell)
    BY <1>7, CartridgeAssumption DEF ClockSelected
  <2> QED  BY <1>2, <2>3, <2>4, <2>5, Zenon DEF RamReachable
<1> QED  BY <1>1, <1>4, <1>5, <1>6, <1>7 DEF Kinds


-----------------------------------------------------------------------------
(***************************************************************************)
(* Files.                                                                  *)
(***************************************************************************)
LEMMA FilledSeq ==
    ASSUME NEW n \in Nat, NEW v \in Values
    PROVE  /\ Filled(n, v) \in [1..n -> Values] /\ Filled(n, v) \in Seq(Values)
           /\ Len(Filled(n, v)) = n /\ \A i \in 1..n : Filled(n, v)[i] = v
  BY DEF Filled

LEMMA SpecialValues == Blank \in Values /\ Zero \in Values
  BY CartridgeAssumption

(* A cell is written into a file, or beyond its end, where the hole reads  *)
(* as zeros; the rest stays.                                               *)
LEMMA SaveOne ==
    ASSUME NEW file \in Seq(Values), NEW k \in Nat, NEW v \in Values
    PROVE  /\ SaveAt(file, k, <<v>>) \in Seq(Values)
           /\ Len(SaveAt(file, k, <<v>>)) = IF k < Len(file) THEN Len(file) ELSE k + 1
           /\ \A i \in 1..(IF k < Len(file) THEN Len(file) ELSE k + 1) :
                  SaveAt(file, k, <<v>>)[i] =
                      IF i = k + 1 THEN v ELSE IF i <= Len(file) THEN file[i] ELSE Zero
<1> DEFINE n == IF k < Len(file) THEN Len(file) ELSE k + 1
           f == Grown(file, k + 1)
           data == <<v>>
           g == [i \in DOMAIN f |-> IF i - k \in DOMAIN data THEN data[i - k] ELSE f[i]]
<1>1. Len(file) \in Nat /\ n \in Nat /\ file \in [1..Len(file) -> Values]
  OBVIOUS
<1>2. /\ f \in Seq(Values) /\ Len(f) = n
      /\ \A i \in 1..n : f[i] = IF i <= Len(file) THEN file[i] ELSE Zero
  <2> DEFINE m == (k + 1) - Len(file)
             more == Filled(m, Zero)
  <2>1. CASE k < Len(file)
    <3>1. Len(file) >= k + 1
      BY <1>1, <2>1
    <3>2. f = file
      BY <3>1, Zenon DEF Grown
    <3> HIDE DEF f
    <3> QED  BY <1>1, <2>1, <3>2
  <2>2. CASE ~(k < Len(file))
    <3>1. ~(Len(file) >= k + 1) /\ m \in Nat /\ n = Len(file) + m
      BY <1>1, <2>2
    <3>2. more \in Seq(Values) /\ Len(more) = m /\ \A i \in 1..m : more[i] = Zero
      <4> HIDE DEF m
      <4> QED  BY <3>1, FilledSeq, SpecialValues, Zenon
    <3>3. f = file \o more
      BY <3>1, Zenon DEF Grown
    <3> HIDE DEF more, f, n, m
    <3>4. /\ f \in Seq(Values) /\ Len(f) = Len(file) + Len(more)
          /\ \A i \in 1..Len(file) + Len(more) : f[i] = IF i <= Len(file) THEN file[i] ELSE more[i - Len(file)]
      BY <3>2, <3>3, ConcatProperties
    <3>5. \A i \in 1..n : ~(i <= Len(file)) => i - Len(file) \in 1..m
      BY <1>1, <3>1
    <3> QED  BY <3>1, <3>2, <3>4, <3>5
  <2> QED  BY <2>1, <2>2
<1>3. DOMAIN data = {1} /\ data[1] = v /\ Len(data) = 1
  OBVIOUS
<1>4. SaveAt(file, k, data) = g
  BY <1>3 DEF SaveAt
<1> HIDE DEF f, n, data
<1>5. DOMAIN f = 1..n /\ \A i \in 1..n : f[i] \in Values
  BY <1>1, <1>2
<1>6. \A i \in 1..n : g[i] = IF i = k + 1 THEN v ELSE f[i]
  BY <1>1, <1>3, <1>5
<1>7. g \in [1..n -> Values]
  BY <1>1, <1>3, <1>5
<1> HIDE DEF g
<1>8. g \in Seq(Values) /\ Len(g) = n
  BY <1>1, <1>7
<1> QED  BY <1>2, <1>4, <1>6, <1>8 DEF n, data

LEMMA SaveFresh ==
    ASSUME NEW n \in Nat
    PROVE  SaveAt(<<>>, 0, Filled(n, Blank)) = Filled(n, Blank)
<1> DEFINE data == Filled(n, Blank)
           f == Grown(<<>>, n)
<1>1. data \in [1..n -> Values] /\ Len(data) = n /\ DOMAIN data = 1..n
  BY FilledSeq, SpecialValues
<1>2. f \in [1..n -> Values]
  <2>1. CASE n = 0
    BY <2>1 DEF Grown
  <2>2. CASE n # 0
    <3>1. Len(<<>>) = 0 /\ ~(0 >= n)
      BY <2>2
    <3>2. f = <<>> \o Filled(n, Zero)
      BY <3>1 DEF Grown
    <3>3. Filled(n, Zero) \in Seq(Values) /\ Len(Filled(n, Zero)) = n
      BY FilledSeq, SpecialValues
    <3>4. f \in Seq(Values) /\ Len(f) = n
      BY <3>2, <3>3
    <3> HIDE DEF f
    <3> QED  BY <3>4
  <2> QED  BY <2>1, <2>2
<1>3. SaveAt(<<>>, 0, data) = [i \in DOMAIN f |-> IF i - 0 \in DOMAIN data THEN data[i - 0] ELSE f[i]]
  BY <1>1 DEF SaveAt
<1> HIDE DEF data, f
<1>4. SaveAt(<<>>, 0, data) = [i \in 1..n |-> data[i]]
  BY <1>1, <1>2, <1>3
<1> QED  BY <1>1, <1>4 DEF data

-----------------------------------------------------------------------------
(***************************************************************************)
(* The mapper and its game.                                                *)
(***************************************************************************)
LEMMA Constructed == Construct => RegistersOK'
<1> SUFFICES ASSUME Construct PROVE RegistersOK'
  OBVIOUS
<1>1. romBank' \in Nat /\ ramBank' \in Nat /\ bank2' \in Nat
  BY DEF Construct
<1>2. bankingMode' \in BOOLEAN /\ ramEnable' \in BOOLEAN
  BY Zenon DEF Construct
<1> QED  BY <1>1, <1>2, Zenon DEF RegistersOK

LEMMA Selected ==
    ASSUME NEW rom \in Roms, RegistersOK, WriteRegister(rom)
    PROVE  RegistersOK'
<1>1. /\ LowBanks \in Nat \ {0} /\ HighBanks \in Nat \ {0} /\ Mbc2Banks \in Nat \ {0}
      /\ Mbc3Banks \in Nat \ {0} /\ Mbc5Low \in Nat \ {0} /\ Mbc3Selects \in Nat \ {0}
      /\ Mbc5Ram \in Nat \ {0}
  BY MapperAssumption
<1>2. rom.kind \in Kinds
  BY Sizes
<1>3. CASE WriteEnable(rom)
  BY <1>3 DEF WriteEnable, RegistersOK
<1>4. CASE WriteBank(rom)
  <2>1. romBank' \in BankValues(rom.kind) /\ rom.kind # "MBC5"
    BY <1>4 DEF WriteBank
  <2>2. romBank' \in Nat
    BY <1>1, <1>2, <2>1 DEF BankValues, Kinds
  <2> QED  BY <1>4, <2>2 DEF WriteBank, RegistersOK
<1>5. CASE WriteMbc5(rom)
  <2> DEFINE n == Mbc5Low
  <2>1. romBank \div n \in Nat /\ romBank % n \in Nat
    BY <1>1 DEF RegistersOK
  <2> HIDE DEF n
  <2>2. \A q \in Nat, r \in Nat : q * n + r \in Nat
    BY <1>1 DEF n
  <2>3. romBank' \in Nat
    BY <1>1, <1>5, <2>1, <2>2 DEF WriteMbc5, n
  <2> QED  BY <1>5, <2>3 DEF WriteMbc5, RegistersOK
<1>6. CASE WriteRamBank(rom)
  <2>1. ramBank' \in RamSelects(rom)
    BY <1>6 DEF WriteRamBank
  <2>2. ramBank' \in Nat
    BY <1>1, <1>2, <2>1 DEF RamSelects, Kinds
  <2> QED  BY <1>6, <2>2 DEF WriteRamBank, RegistersOK
<1>7. CASE WriteMbc1(rom)
  BY <1>1, <1>7 DEF WriteMbc1, RegistersOK
<1> QED  BY <1>3, <1>4, <1>5, <1>6, <1>7 DEF WriteRegister

LEMMA RomRead ==
    ASSUME NEW rom \in Roms, Mounted, Read(rom)
    PROVE  DOMAIN romData' = 0..(LastBank - 1) /\ Holds(rom)'
<1>1. romData' = [bank \in 0..(LastBank - 1) |-> IF bank < rom.banks THEN rom ELSE romData[bank]]
  BY DEF Read, Mounted
<1>2. rom.banks \in Nat
  BY CartridgeAssumption
<1>3. \A bank \in 0..(Banks(rom) - 1) : bank \in 0..(LastBank - 1) /\ bank < rom.banks
  BY <1>2, Sizes, TopBank
<1> QED  BY <1>1, <1>3 DEF Holds

LEMMA Mounts ==
    ASSUME NEW rom \in Roms, Mounted, Read(rom), memory' = rom, loading' = None
    PROVE  Mounted'
<1>1. rom # None
  BY CartridgeAssumption
<1> QED  BY <1>1, RomRead DEF Mounted

LEMMA Unmounts ==
    NoMapper => Banked' /\ rtc' \in Values /\ stream' = FALSE /\ memory' = None /\ loading' = None
<1> SUFFICES ASSUME NoMapper
             PROVE  Banked' /\ rtc' \in Values /\ stream' = FALSE /\ memory' = None /\ loading' = None
  OBVIOUS
<1>1. RegistersOK'
  BY Constructed DEF NoMapper
<1>2. rtc' \in Values /\ stream' = FALSE /\ memory' = None /\ loading' = None
  BY SpecialValues DEF NoMapper
<1>3. DOMAIN romData' = 0..(LastBank - 1)
  BY DEF NoMapper, NoBytes
<1> QED  BY <1>1, <1>2, <1>3 DEF Banked, Mounted

(* With one game to an Emu a mapper is never replaced.                     *)
LEMMA FirstLoad ==
    ASSUME ~Reloads, MayLoad
    PROVE  memory = None /\ loading = None /\ PutAwayShown = shown /\ PutAway = files
  BY DEF MayLoad, PutAway, PutAwayShown, HasClock

LEMMA FirstMapper ==
    ASSUME Mounted, loading # None
    PROVE  loading \in Roms /\ memory = None /\ PutAwayShown = shown /\ PutAway = files
  BY DEF Mounted, PutAway, PutAwayShown, HasClock

LEMMA BankedNext ==
    ASSUME ~Reloads, Banked, [Next]_vars
    PROVE  Banked'
<1>1. ASSUME UNCHANGED <<romData, memory, loading, registers>> PROVE Banked'
  BY <1>1 DEF Banked, RegistersOK, Mounted, Holds, registers
<1>2. CASE NewEmu \/ Crash \/ CrashWhileSaving \/ DeleteEmu
  BY <1>2, Unmounts DEF NewEmu, Crash, CrashWhileSaving, Killed, DeleteEmu
<1>3. CASE LoadMisses \/ WriteRam \/ ClockMoves \/ UNCHANGED vars
  BY <1>1, <1>3 DEF LoadMisses, WriteRam, ClockMoves, vars, object
<1>4. CASE SelectBank
  <2>1. memory # None /\ WriteRegister(memory) /\ UNCHANGED <<romData, memory, loading>>
    BY <1>4 DEF SelectBank, Running
  <2>2. RegistersOK'
    BY <2>1, Selected DEF Banked, Mounted
  <2> QED  BY <2>1, <2>2 DEF Banked, Mounted, Holds
<1>5. ASSUME NEW rom \in Roms, LoadFails(rom) PROVE Banked'
  <2>1. memory = None /\ loading = None /\ Read(rom) /\ UNCHANGED <<memory, loading, registers>>
    BY <1>5, FirstLoad DEF LoadFails
  <2>2. RegistersOK'
    BY <2>1 DEF Banked, RegistersOK, registers
  <2> QED  BY <2>1, <2>2, RomRead DEF Banked, Mounted
<1>6. ASSUME NEW rom \in Roms, LoadPlain(rom) \/ LoadUnsaved(rom) PROVE Banked'
  <2>1. Read(rom) /\ memory' = rom /\ loading' = None /\ Construct
    BY <1>6 DEF LoadPlain, LoadUnsaved, MayLoad
  <2> QED  BY <2>1, Mounts, Constructed DEF Banked
<1>7. ASSUME NEW rom \in Roms, OpenSave(rom) PROVE Banked'
  <2>1. memory = None /\ Read(rom) /\ loading' = rom /\ UNCHANGED <<memory, registers>>
    BY <1>7, FirstLoad DEF OpenSave
  <2>2. RegistersOK'
    BY <2>1 DEF Banked, RegistersOK, registers
  <2> QED  BY <2>1, <2>2, RomRead DEF Banked, Mounted
<1>8. CASE MakeMapper
  <2>1. loading # None /\ memory' = loading /\ loading' = None /\ romData' = romData /\ Construct
    BY <1>8 DEF MakeMapper
  <2> QED  BY <2>1, Constructed DEF Banked, Mounted, Holds
<1> QED  BY <1>2, <1>3, <1>4, <1>5, <1>6, <1>7, <1>8 DEF Next

(* The cell that the window shows is one of the game's.                    *)
LEMMA CellInside ==
    ASSUME NEW rom \in Roms, RegistersOK, RamOpen(rom)
    PROVE  RamCell(rom) \in Nat /\ RamCell(rom) + 1 \in 1..Cells(rom)
<1>1. rom.kind \in Kinds /\ Cells(rom) \in Nat /\ Mbc3Ram \in Nat \ {0}
  BY Sizes, MapperAssumption
<1>2. RamCell(rom) \in Nat
  BY <1>1 DEF RamCell, RamWindow, RegistersOK, Kinds
<1>3. RamCell(rom) < Cells(rom)
  BY DEF RamOpen
<1> QED  BY <1>1, <1>2, <1>3

-----------------------------------------------------------------------------
(***************************************************************************)
(* The invariant is inductive.                                             *)
(***************************************************************************)
LEMMA InvInit == Init => IInv
<1> SUFFICES ASSUME Init PROVE IInv
  OBVIOUS
<1>1. RegistersOK
  <2>1. romBank \in Nat /\ ramBank \in Nat /\ bank2 \in Nat
    BY DEF Init, MapperInit
  <2>2. bankingMode \in BOOLEAN /\ ramEnable \in BOOLEAN
    BY Zenon DEF Init, MapperInit
  <2> QED  BY <2>1, <2>2, Zenon DEF RegistersOK
<1>2. Mounted
  BY DEF Init, Mounted, NoBytes
<1>3. \A rom \in Roms : written[rom] = Filled(Cells(rom), None) /\ shown[rom] = Zero
  BY Zenon DEF Init
<1>4. Types
  <2>1. files \in [Stems -> Seq(Values) \cup {NoFile}]
    BY DEF Init
  <2>2. rtc \in Values /\ shown \in [Roms -> Values]
    BY SpecialValues DEF Init
  <2>3. written = [rom \in Roms |-> written[rom]]
    BY DEF Init
  <2>4. \A rom \in Roms : written[rom] \in [1..Cells(rom) -> Values \cup {None}]
    BY <1>3 DEF Filled
  <2>5. memory = None
    BY DEF Init
  <2> QED  BY <2>1, <2>2, <2>3, <2>4, <2>5 DEF Types
<1>5. Open
  BY DEF Init, Open
<1>6. Saved
  <2>1. \A rom \in Roms : files[rom.stem] = NoFile
    BY DEF Init, Stems
  <2>2. ASSUME NEW rom \in Roms PROVE Fresh(rom, written[rom], shown[rom])
    BY <1>3, Zenon DEF Fresh
  <2> QED  BY <2>1, <2>2, Zenon DEF Saved
<1> QED  BY <1>1, <1>2, <1>4, <1>5, <1>6 DEF IInv, Banked

(* A mapper is made from an open save: its RAM is as the game left it, and *)
(* so is the file.                                                         *)
LEMMA SaveRead ==
    ASSUME IInv, NEW rom \in Roms, loading = rom, NEW file, file = files[rom.stem]
    PROVE  /\ RamOf(rom, saveExists, file) \in [1..Cells(rom) -> Values]
           /\ AsLeft(rom, RamOf(rom, saveExists, file))
           /\ FileOf(rom, saveExists, file) \in Seq(Values)
           /\ Kept(rom, FileOf(rom, saveExists, file), written[rom], rom \in cutShort, shown[rom])
           /\ rom.clock => ClockOf(rom, FileOf(rom, saveExists, file)) = shown[rom]
           /\ ClockOf(rom, FileOf(rom, saveExists, file)) \in Values
<1> DEFINE n == Cells(rom)
           blank == Filled(n, Blank)
           data == written[rom]
           new == FileOf(rom, saveExists, file)
<1>1. n \in Nat /\ shown[rom] \in Values /\ Zero \in Values
  BY Sizes, SpecialValues DEF IInv, Types
<1>2. /\ blank \in [1..n -> Values] /\ blank \in Seq(Values) /\ Len(blank) = n
      /\ DOMAIN blank = 1..n /\ \A i \in 1..n : blank[i] = Blank
  BY <1>1, FilledSeq, SpecialValues
<1>3. rom # None /\ rom.battery /\ rom.stem \in Stems /\ file # NoFile /\ file \in Seq(Values)
  <2>1. rom # None
    BY CartridgeAssumption
  <2>2. rom.stem \in Stems
    BY DEF Stems
  <2> QED  BY <2>1, <2>2 DEF IInv, Open, Types
<1>4. /\ RamOf(rom, saveExists, file) \in [1..n -> Values]
      /\ AsLeft(rom, RamOf(rom, saveExists, file))
      /\ new \in Seq(Values) /\ Kept(rom, new, data, rom \in cutShort, shown[rom])
  <2>1. CASE ~saveExists
    <3>1. Fresh(rom, data, shown[rom]) /\ file = <<>>
      BY <1>3, <2>1 DEF IInv, Saved, Creating
    <3>2. shown[rom] = Zero /\ \A i \in 1..n : data[i] = None
      BY <3>1 DEF Fresh, Filled
    <3>3. new = blank /\ RamOf(rom, saveExists, file) = blank
      BY <1>1, <2>1, <3>1, SaveFresh, Zenon DEF FileOf, RamOf
    <3> HIDE DEF blank, new
    <3>4. Kept(rom, blank, data, rom \in cutShort, shown[rom])
      BY <1>1, <1>2, <3>2 DEF Kept, Left
    <3>5. AsLeft(rom, blank)
      BY <1>2, <3>2 DEF AsLeft, Left
    <3> QED  BY <1>2, <3>3, <3>4, <3>5
  <2>2. CASE saveExists
    <3>1. Kept(rom, file, data, rom \in cutShort, shown[rom])
      BY <1>3, <2>2 DEF IInv, Saved, Creating
    <3>2. new = file /\ RamOf(rom, saveExists, file) = Load(file, blank)
      BY <1>3, <2>2, Zenon DEF FileOf, RamOf
    <3>3. Load(file, blank) = [i \in 1..n |-> IF i <= Len(file) THEN file[i] ELSE blank[i]]
      BY <1>2, Zenon DEF Load
    <3>4. Load(file, blank) \in [1..n -> Values]
      <4> HIDE DEF blank
      <4>1. Len(file) \in Nat /\ \A i \in 1..Len(file) : file[i] \in Values
        BY <1>3
      <4> HIDE DEF n
      <4>2. \A i \in 1..n : (IF i <= Len(file) THEN file[i] ELSE blank[i]) \in Values
        BY <1>1, <1>2, <4>1
      <4> QED  BY <3>3, <4>2
    <3>5. AsLeft(rom, Load(file, blank))
      <4> HIDE DEF blank
      <4> QED  BY <1>2, <3>1, <3>3 DEF Kept, AsLeft, Left
    <3> QED  BY <1>3, <3>1, <3>2, <3>4, <3>5
  <2> QED  BY <2>1, <2>2
<1> HIDE DEF data, new
<1>5. (rom.clock => ClockOf(rom, new) = shown[rom]) /\ ClockOf(rom, new) \in Values
  <2>1. Len(new) \in Nat /\ \A i \in 1..Len(new) : new[i] \in Values
    BY <1>4
  <2>2. CASE rom.clock /\ Len(new) > n
    <3>1. Len(new) >= n + 1 /\ n + 1 \in 1..Len(new)
      BY <1>1, <2>1, <2>2
    <3>2. ClockOf(rom, new) = new[n + 1]
      BY <2>2, <3>1, Zenon DEF ClockOf
    <3> QED  BY <1>4, <2>1, <2>2, <3>1, <3>2 DEF Kept
  <2>3. CASE ~(rom.clock /\ Len(new) > n)
    <3>1. ClockOf(rom, new) = Zero
      BY <1>1, <2>1, <2>3 DEF ClockOf
    <3> QED  BY <1>1, <1>4, <2>3, <3>1 DEF Kept
  <2> QED  BY <2>2, <2>3
<1> QED  BY <1>4, <1>5 DEF data, new

(* The file of one game changes, and with it what the game has saved; the  *)
(* others have files of their own.                                         *)
LEMMA OneSave ==
    ASSUME OwnSaves, IInv, NEW rom \in Roms, rom.battery, NEW file \in Seq(Values),
           files' = [files EXCEPT ![rom.stem] = file],
           NEW data \in [1..Cells(rom) -> Values \cup {None}], NEW time \in Values,
           written' = [written EXCEPT ![rom] = data],
           shown' = [shown EXCEPT ![rom] = time],
           \A r \in Roms \ {rom} : r \in cutShort <=> r \in cutShort',
           loading \in {None, rom}, loading' \in {None, rom},
           IF Creating' /\ loading' = rom THEN Fresh(rom, data, time) /\ file = <<>>
           ELSE Kept(rom, file, data, rom \in cutShort', time)
    PROVE  /\ files' \in [Stems -> Seq(Values) \cup {NoFile}] /\ shown' \in [Roms -> Values]
           /\ written' = [r \in Roms |-> written'[r]]
           /\ \A r \in Roms : written'[r] \in [1..Cells(r) -> Values \cup {None}]
           /\ files'[rom.stem] = file /\ file # NoFile
           /\ written'[rom] = data /\ shown'[rom] = time
           /\ Saved'
<1>1. rom.stem \in Stems /\ \A r \in Roms : r.stem \in Stems
  BY DEF Stems
<1>2. /\ files \in [Stems -> Seq(Values) \cup {NoFile}] /\ shown \in [Roms -> Values]
      /\ written = [r \in Roms |-> written[r]]
      /\ \A r \in Roms : written[r] \in [1..Cells(r) -> Values \cup {None}]
  BY DEF IInv, Types
<1>3. file # NoFile
  BY CartridgeAssumption
<1>4. files' \in [Stems -> Seq(Values) \cup {NoFile}] /\ shown' \in [Roms -> Values]
  BY <1>1, <1>2
<1>5. DOMAIN written = Roms
  BY <1>2
<1>6. written' = [r \in Roms |-> IF r = rom THEN data ELSE written[r]]
  BY <1>5
<1>7. /\ written' = [r \in Roms |-> written'[r]]
      /\ \A r \in Roms : written'[r] \in [1..Cells(r) -> Values \cup {None}]
  BY <1>2, <1>6
<1>8. files'[rom.stem] = file /\ written'[rom] = data /\ shown'[rom] = time
  BY <1>1, <1>2, <1>6
<1>9. ASSUME NEW r \in Roms, r.battery
      PROVE  IF files'[r.stem] = NoFile \/ (Creating' /\ loading' = r)
             THEN Fresh(r, written'[r], shown'[r]) /\ files'[r.stem] \in {NoFile, <<>>}
             ELSE Kept(r, files'[r.stem], written'[r], r \in cutShort', shown'[r])
  <2>1. CASE r = rom
    <3>1. /\ files'[r.stem] = file /\ file # NoFile /\ written'[r] = data /\ shown'[r] = time
      BY <1>3, <1>8, <2>1
    <3> QED  BY <2>1, <3>1
  <2>2. CASE r # rom
    <3>1. r.stem # rom.stem
      BY <1>9, <2>2, Zenon DEF OwnSaves
    <3>2. files'[r.stem] = files[r.stem] /\ written'[r] = written[r] /\ shown'[r] = shown[r]
      BY <1>1, <1>2, <1>6, <2>2, <3>1
    <3>3. loading # r /\ loading' # r
      BY <2>2, CartridgeAssumption
    <3>4. IF files[r.stem] = NoFile
          THEN Fresh(r, written[r], shown[r]) /\ files[r.stem] \in {NoFile, <<>>}
          ELSE Kept(r, files[r.stem], written[r], r \in cutShort, shown[r])
      BY <1>9, <3>3 DEF IInv, Saved
    <3>5. r \in cutShort <=> r \in cutShort'
      BY <2>2
    <3>6. CASE files[r.stem] = NoFile
      BY <3>2, <3>4, <3>6
    <3>7. CASE files[r.stem] # NoFile
      <4>1. Kept(r, files[r.stem], written[r], r \in cutShort, shown[r])
        BY <3>4, <3>7
      <4>2. Kept(r, files[r.stem], written[r], r \in cutShort', shown[r])
        BY <3>5, <4>1 DEF Kept, Left
      <4> QED  BY <3>2, <3>3, <3>7, <4>2
    <3> QED  BY <3>6, <3>7
  <2> QED  BY <2>1, <2>2
<1> QED  BY <1>3, <1>4, <1>7, <1>8, <1>9 DEF Saved

(* What happens with all saves closed, or one that was complete.           *)
LEMMA Closed ==
    ASSUME Types, Saved, Banked', rtc' \in Values, stream' = FALSE, ~Creating, loading' = None,
           UNCHANGED <<files, written, shown, cutShort>>,
           memory' # None => ram' \in [1..Cells(memory') -> Values]
    PROVE  IInv'
<1>1. Types'
  BY DEF Types
<1>2. ~Creating'
  BY DEF Creating
<1>3. Saved'
  BY <1>2 DEF Saved, Stems
<1>4. Open'
  BY DEF Open
<1> QED  BY <1>1, <1>3, <1>4 DEF IInv

LEMMA NewEmuStep == IInv /\ NewEmu => IInv'
<1> SUFFICES ASSUME IInv, NewEmu PROVE IInv'
  OBVIOUS
<1>1. ~Creating
  BY DEF NewEmu, IInv, Open, Creating
<1>2. Banked' /\ rtc' \in Values /\ stream' = FALSE /\ memory' = None /\ loading' = None
  BY Unmounts DEF NewEmu
<1>3. UNCHANGED <<files, written, shown, cutShort>>
  BY DEF NewEmu, history
<1> QED  BY <1>1, <1>2, <1>3, Closed DEF IInv

(* A kill leaves a part of the blank RAM in a save that is being created.  *)
LEMMA KilledCreating ==
    ASSUME OwnSaves, IInv, Creating, Killed, shown' = shown, NEW n \in 0..Cells(loading),
           files' = [files EXCEPT ![loading.stem] = Filled(n, Blank)]
    PROVE  IInv'
<1> DEFINE rom == loading
           file == Filled(n, Blank)
<1>1. rom \in Roms /\ rom # None /\ rom.battery /\ ~saveExists
  BY DEF Creating, IInv, Banked, Mounted, Open
<1>2. n \in Nat /\ Cells(rom) \in Nat /\ n <= Cells(rom)
  BY <1>1, Sizes
<1>3. file \in Seq(Values) /\ Len(file) = n /\ \A i \in 1..n : file[i] = Blank
  <2>1. n \in Nat /\ Blank \in Values
    BY <1>2, SpecialValues
  <2> QED  BY <2>1, FilledSeq, Zenon
<1>4. Fresh(rom, written[rom], shown[rom])
  BY <1>1 DEF IInv, Saved, Creating
<1>5. shown[rom] = Zero /\ \A i \in 1..Cells(rom) : written[rom][i] = None
  BY <1>4 DEF Fresh, Filled
<1>6. /\ Banked' /\ rtc' \in Values /\ stream' = FALSE /\ memory' = None /\ loading' = None
      /\ written' = written /\ cutShort' = cutShort \cup {rom}
  BY Unmounts DEF Killed
<1>7. Kept(rom, file, written[rom], rom \in cutShort', shown[rom])
  <2>1. rom \in cutShort'
    BY <1>6
  <2> HIDE DEF rom, file
  <2> QED  BY <1>2, <1>3, <1>5, <2>1 DEF Kept, Left
<1>8. /\ written[rom] \in [1..Cells(rom) -> Values \cup {None}] /\ shown[rom] \in Values
      /\ written' = [written EXCEPT ![rom] = written[rom]]
      /\ shown' = [shown EXCEPT ![rom] = shown[rom]]
  BY <1>1, <1>6 DEF IInv, Types
<1>9. ~Creating' /\ \A r \in Roms \ {rom} : r \in cutShort <=> r \in cutShort'
  BY <1>6 DEF Creating
<1>10. /\ files' \in [Stems -> Seq(Values) \cup {NoFile}] /\ shown' \in [Roms -> Values]
       /\ written' = [r \in Roms |-> written'[r]]
       /\ \A r \in Roms : written'[r] \in [1..Cells(r) -> Values \cup {None}]
       /\ Saved'
  <2> DEFINE data == written[rom]
             time == shown[rom]
  <2>1. /\ data \in [1..Cells(rom) -> Values \cup {None}] /\ time \in Values
        /\ written' = [written EXCEPT ![rom] = data]
        /\ shown' = [shown EXCEPT ![rom] = time] /\ Kept(rom, file, data, rom \in cutShort', time)
    BY <1>7, <1>8, Zenon
  <2> HIDE DEF data, time, file
  <2>2. files' = [files EXCEPT ![rom.stem] = file]
    BY DEF file
  <2>3. loading \in {None, rom} /\ loading' \in {None, rom}
    BY <1>6
  <2>4. IF Creating' /\ loading' = rom THEN Fresh(rom, data, time) /\ file = <<>>
        ELSE Kept(rom, file, data, rom \in cutShort', time)
    BY <1>9, <2>1
  <2> HIDE DEF rom
  <2> QED  BY <1>1, <1>3, <1>9, <2>1, <2>2, <2>3, <2>4, OneSave, Zenon
<1>11. Types' /\ Open'
  BY <1>6, <1>10 DEF Types, Open
<1> QED  BY <1>6, <1>10, <1>11 DEF IInv

LEMMA CrashStep ==
    ASSUME OwnSaves, IInv, Crash
    PROVE  IInv'
<1>1. Killed /\ files' = files /\ shown' = shown
  BY DEF Crash
<1>2. CASE ~Creating
  <2>1. /\ Banked' /\ rtc' \in Values /\ stream' = FALSE /\ memory' = None /\ loading' = None
        /\ UNCHANGED <<files, written, shown, cutShort>>
    BY <1>1, <1>2, Unmounts DEF Killed
  <2> QED  BY <1>2, <2>1, Closed DEF IInv
<1>3. CASE Creating
  <2>1. /\ loading \in Roms /\ loading # None /\ loading.battery /\ loading.stem \in Stems
        /\ files[loading.stem] # NoFile
    BY <1>3 DEF Creating, IInv, Banked, Mounted, Open, Stems
  <2>2. files[loading.stem] = <<>>
    BY <1>3, <2>1 DEF IInv, Saved
  <2>3. Filled(0, Blank) = <<>> /\ 0 \in 0..Cells(loading)
    BY <2>1, Sizes DEF Filled
  <2>4. files' = [files EXCEPT ![loading.stem] = Filled(0, Blank)]
    BY <1>1, <2>1, <2>2, <2>3 DEF IInv, Types
  <2> QED  BY <1>1, <1>3, <2>3, <2>4, KilledCreating
<1> QED  BY <1>2, <1>3

LEMMA CrashWhileSavingStep ==
    ASSUME OwnSaves, IInv, CrashWhileSaving
    PROVE  IInv'
<1>1. Creating /\ Killed /\ loading # None
  BY DEF CrashWhileSaving, Creating
<1>2. /\ loading \in Roms /\ PutAway = files /\ shown' = shown
      /\ battery = loading.stem /\ loading.battery /\ loading.stem \in Stems
      /\ files[loading.stem] # NoFile
  BY <1>1, FirstMapper DEF CrashWhileSaving, IInv, Banked, Open, Stems
<1>3. files[loading.stem] = <<>>
  BY <1>1, <1>2 DEF IInv, Saved
<1>4. PICK n \in 0..(Cells(loading) - 1) :
          files' = [PutAway EXCEPT ![battery] = SaveAt(@, 0, Filled(n, Blank))]
  BY DEF CrashWhileSaving
<1>5. n \in Nat /\ n \in 0..Cells(loading)
  BY <1>2, Sizes
<1>6. files' = [files EXCEPT ![loading.stem] = Filled(n, Blank)]
  BY <1>2, <1>3, <1>4, <1>5, SaveFresh DEF IInv, Types
<1> QED  BY <1>1, <1>2, <1>5, <1>6, KilledCreating

LEMMA LoadFailsStep ==
    ASSUME ~Reloads, IInv, Banked', NEW rom \in Roms, LoadFails(rom)
    PROVE  IInv'
<1>1. /\ memory = None /\ memory' = None /\ stream' = stream /\ rtc' = rtc /\ loading' = None
      /\ loading = None /\ UNCHANGED <<files, written, shown, cutShort>>
  BY FirstLoad DEF LoadFails, history
<1>2. Open'
  BY <1>1 DEF Open, IInv
<1>3. Types'
  BY <1>1 DEF Types, IInv
<1>4. Saved'
  BY <1>1 DEF Saved, IInv, Creating
<1> QED  BY <1>2, <1>3, <1>4 DEF IInv

LEMMA BlankRam ==
    ASSUME NEW rom \in Roms
    PROVE  RamOf(rom, FALSE, <<>>) \in [1..Cells(rom) -> Values]
<1>1. RamOf(rom, FALSE, <<>>) = Filled(Cells(rom), Blank)
  BY Zenon DEF RamOf
<1>2. Cells(rom) \in Nat /\ Blank \in Values
  BY Sizes, SpecialValues, Zenon
<1>3. Filled(Cells(rom), Blank) \in [1..Cells(rom) -> Values]
  BY <1>2, FilledSeq, Zenon
<1> QED  BY <1>1, <1>3, Zenon

LEMMA LoadPlainStep ==
    ASSUME ~Reloads, IInv, Banked', NEW rom \in Roms, LoadPlain(rom)
    PROVE  IInv'
<1>1. /\ memory = None /\ loading = None /\ loading' = None /\ stream' = stream
      /\ UNCHANGED <<files, written, shown, cutShort>>
  BY FirstLoad DEF LoadPlain
<1>2. ~stream'
  BY <1>1 DEF IInv, Open
<1>3. Open'
  BY <1>1, <1>2 DEF Open
<1>4. Types'
  BY <1>1, SpecialValues, BlankRam DEF Types, IInv, LoadPlain
<1>5. Saved'
  BY <1>1 DEF Saved, IInv, Creating
<1> QED  BY <1>3, <1>4, <1>5 DEF IInv

LEMMA LoadUnsavedStep ==
    ASSUME ~Reloads, IInv, Banked', NEW rom \in Roms, LoadUnsaved(rom)
    PROVE  IInv'
<1>1. /\ loading = None /\ loading' = None /\ stream' = FALSE
      /\ UNCHANGED <<files, written, shown, cutShort>>
  BY FirstLoad DEF LoadUnsaved
<1>2. memory' = rom /\ ram' \in [1..Cells(rom) -> Values] /\ rtc' \in Values
  BY BlankRam, SpecialValues DEF LoadUnsaved
<1>3. ~Creating
  BY <1>1 DEF Creating
<1> QED  BY <1>1, <1>2, <1>3, Closed DEF IInv

LEMMA OpenSaveStep ==
    ASSUME ~Reloads, OwnSaves, IInv, Banked', NEW rom \in Roms, OpenSave(rom)
    PROVE  IInv'
<1> DEFINE file == Opened(files[rom.stem])
           data == written[rom]
           time == shown[rom]
<1>1. /\ alive /\ memory = None /\ loading = None /\ rom.battery /\ rom # None /\ rom.stem \in Stems
      /\ alive' = alive /\ memory' = None /\ loading' = rom /\ stream' /\ battery' = rom.stem
      /\ saveExists' = (files[rom.stem] # NoFile)
      /\ UNCHANGED <<rtc, written, shown, cutShort>>
  BY FirstLoad, CartridgeAssumption DEF OpenSave, MayLoad, Stems
<1>2. files' = [files EXCEPT ![rom.stem] = file]
  BY DEF OpenSave
<1>3. /\ data \in [1..Cells(rom) -> Values \cup {None}] /\ time \in Values
      /\ written' = [written EXCEPT ![rom] = data] /\ shown' = [shown EXCEPT ![rom] = time]
  BY <1>1 DEF IInv, Types
<1>4. /\ file \in Seq(Values)
      /\ IF Creating' /\ loading' = rom THEN Fresh(rom, data, time) /\ file = <<>>
         ELSE Kept(rom, file, data, rom \in cutShort', time)
  <2>1. CASE files[rom.stem] = NoFile
    <3>1. file = <<>> /\ Creating'
      BY <1>1, <2>1 DEF Opened, Creating
    <3>2. Fresh(rom, data, time)
      BY <1>1, <2>1 DEF IInv, Saved
    <3> HIDE DEF file, data, time
    <3> QED  BY <1>1, <3>1, <3>2
  <2>2. CASE files[rom.stem] # NoFile
    <3>1. file = files[rom.stem] /\ ~Creating'
      BY <1>1, <2>2 DEF Opened, Creating
    <3>2. Kept(rom, files[rom.stem], data, rom \in cutShort, time)
      BY <1>1, <2>2 DEF IInv, Saved, Creating
    <3>3. file \in Seq(Values)
      BY <1>1, <2>2, <3>1 DEF IInv, Types
    <3>4. cutShort' = cutShort
      BY <1>1
    <3> HIDE DEF file, data, time
    <3> QED  BY <3>1, <3>2, <3>3, <3>4
  <2> QED  BY <2>1, <2>2
<1>5. /\ loading \in {None, rom} /\ loading' \in {None, rom}
      /\ \A r \in Roms \ {rom} : r \in cutShort <=> r \in cutShort'
  BY <1>1
<1> HIDE DEF file, data, time
<1>6. /\ files' \in [Stems -> Seq(Values) \cup {NoFile}] /\ shown' \in [Roms -> Values]
      /\ written' = [r \in Roms |-> written'[r]]
      /\ \A r \in Roms : written'[r] \in [1..Cells(r) -> Values \cup {None}]
      /\ files'[rom.stem] # NoFile /\ Saved'
  BY <1>1, <1>2, <1>3, <1>4, <1>5, OneSave, Zenon
<1>7. Types'
  BY <1>1, <1>6 DEF Types, IInv
<1>8. Open'
  BY <1>1, <1>6 DEF Open
<1> QED  BY <1>6, <1>7, <1>8 DEF IInv

\* What the mapper reads from the save.
LEMMA MapperReads ==
    ASSUME IInv, MakeMapper
    PROVE  /\ loading \in Roms /\ loading # None /\ loading.battery /\ battery = loading.stem
           /\ stream /\ UNCHANGED <<shown, written, cutShort, battery, stream>>
           /\ ram' \in [1..Cells(loading) -> Values] /\ AsLeft(loading, ram')
           /\ \E file \in Seq(Values) :
                  /\ files' = [files EXCEPT ![loading.stem] = file]
                  /\ Kept(loading, file, written[loading], loading \in cutShort, shown[loading])
           /\ rtc' \in Values /\ (loading.clock => rtc' = shown[loading])
<1> DEFINE rom == loading
           file == files[rom.stem]
           new == FileOf(rom, saveExists, file)
<1>1. /\ rom \in Roms /\ rom # None /\ PutAway = files /\ rom.battery /\ battery = rom.stem /\ stream
      /\ UNCHANGED <<shown, written, cutShort, battery, stream>>
  BY FirstMapper DEF MakeMapper, IInv, Banked, Open
<1>2. rom.stem \in Stems
  BY <1>1 DEF Stems
<1>3. /\ ram' = RamOf(rom, saveExists, file)
      /\ files' = [files EXCEPT ![rom.stem] = new]
      /\ rtc' = ClockOf(rom, files'[rom.stem])
  BY <1>1, <1>2 DEF MakeMapper, IInv, Types
<1>4. files'[rom.stem] = new
  BY <1>2, <1>3 DEF IInv, Types
<1>5. /\ RamOf(rom, saveExists, file) \in [1..Cells(rom) -> Values]
      /\ AsLeft(rom, RamOf(rom, saveExists, file))
      /\ new \in Seq(Values)
      /\ Kept(rom, new, written[rom], rom \in cutShort, shown[rom])
      /\ rom.clock => ClockOf(rom, new) = shown[rom]
      /\ ClockOf(rom, new) \in Values
  BY <1>1, SaveRead
<1> HIDE DEF file, new
<1> QED  BY <1>1, <1>3, <1>4, <1>5

LEMMA MakeMapperStep ==
    ASSUME OwnSaves, IInv, Banked', MakeMapper
    PROVE  IInv'
<1> DEFINE rom == loading
           data == written[rom]
           time == shown[rom]
<1>1. PICK file \in Seq(Values) :
          /\ files' = [files EXCEPT ![rom.stem] = file]
          /\ Kept(rom, file, written[rom], rom \in cutShort, shown[rom])
  BY MapperReads
<1>2. /\ rom \in Roms /\ rom # None /\ rom.battery /\ battery' = rom.stem
      /\ memory' = rom /\ loading' = None /\ written' = written /\ shown' = shown
      /\ cutShort' = cutShort /\ rtc' \in Values
      /\ ram' \in [1..Cells(rom) -> Values] /\ AsLeft(rom, ram')
  BY MapperReads DEF MakeMapper
<1>3. /\ data \in [1..Cells(rom) -> Values \cup {None}] /\ time \in Values
      /\ written' = [written EXCEPT ![rom] = data] /\ shown' = [shown EXCEPT ![rom] = time]
  BY <1>2 DEF IInv, Types
<1>4. /\ loading \in {None, rom} /\ loading' \in {None, rom} /\ ~Creating'
      /\ \A r \in Roms \ {rom} : r \in cutShort <=> r \in cutShort'
  BY <1>2 DEF Creating
<1>5. rom.battery /\ Kept(rom, file, data, rom \in cutShort', time)
  BY <1>1, <1>2
<1> HIDE DEF rom, data, time
<1>6. IF Creating' /\ loading' = rom THEN Fresh(rom, data, time) /\ file = <<>>
      ELSE Kept(rom, file, data, rom \in cutShort', time)
  BY <1>4, <1>5
<1>7. /\ files' \in [Stems -> Seq(Values) \cup {NoFile}] /\ shown' \in [Roms -> Values]
      /\ written' = [r \in Roms |-> written'[r]]
      /\ \A r \in Roms : written'[r] \in [1..Cells(r) -> Values \cup {None}]
      /\ files'[rom.stem] # NoFile /\ Saved'
  BY <1>1, <1>2, <1>3, <1>4, <1>5, <1>6, OneSave, Zenon
<1>8. Types'
  BY <1>2, <1>7 DEF Types
<1>9. Open'
  <2>1. AsLeft(memory, ram)'
    BY <1>2 DEF AsLeft, rom
  <2> QED  BY <1>2, <1>7, <2>1 DEF Open
<1> QED  BY <1>7, <1>8, <1>9 DEF IInv

(* The save that is open.                                                  *)
LEMMA TheOpenSave ==
    ASSUME IInv, stream, loading = None
    PROVE  /\ memory \in Roms /\ memory # None /\ memory.battery /\ battery = memory.stem
           /\ files[memory.stem] \in Seq(Values) /\ files[memory.stem] # NoFile
           /\ AsLeft(memory, ram) /\ ram \in [1..Cells(memory) -> Values]
           /\ written[memory] \in [1..Cells(memory) -> Values \cup {None}]
           /\ Kept(memory, files[memory.stem], written[memory], memory \in cutShort, shown[memory])
           /\ Cells(memory) \in Nat
<1>1. /\ memory \in Roms /\ memory # None /\ memory.battery /\ battery = memory.stem
      /\ files[memory.stem] # NoFile /\ AsLeft(memory, ram)
  BY DEF IInv, Open, Banked, Mounted
<1>2. memory.stem \in Stems
  BY <1>1 DEF Stems
<1>3. /\ files[memory.stem] \in Seq(Values) /\ ram \in [1..Cells(memory) -> Values]
      /\ written[memory] \in [1..Cells(memory) -> Values \cup {None}]
  BY <1>1, <1>2 DEF IInv, Types
<1>4. Kept(memory, files[memory.stem], written[memory], memory \in cutShort, shown[memory])
  BY <1>1 DEF IInv, Saved, Creating
<1> QED  BY <1>1, <1>3, <1>4, Sizes

(* A write into the RAM of a save, or behind it: a hole it leaves is of    *)
(* cells that were never written.                                          *)
LEMMA SaveWritten ==
    ASSUME NEW rom \in Roms, NEW file \in Seq(Values),
           NEW data \in [1..Cells(rom) -> Values \cup {None}], NEW time,
           Kept(rom, file, data, rom \in cutShort, time),
           NEW k \in Nat, NEW v \in Values
    PROVE  /\ k < Cells(rom) =>
                  Kept(rom, SaveAt(file, k, <<v>>), [data EXCEPT ![k + 1] = v], rom \in cutShort, time)
           /\ k = Cells(rom) => Kept(rom, SaveAt(file, k, <<v>>), data, rom \in cutShort, v)
<1> DEFINE n == Cells(rom)
           len == Len(file)
           new == SaveAt(file, k, <<v>>)
           longer == IF k < len THEN len ELSE k + 1
<1>1. n \in Nat /\ len \in Nat /\ longer \in Nat
  BY Sizes
<1>2. /\ Len(new) = longer
      /\ \A i \in 1..longer :
             new[i] = IF i = k + 1 THEN v ELSE IF i <= len THEN file[i] ELSE Zero
  BY SaveOne, Zenon
<1>3. \A i \in 1..n : IF i <= len THEN Left(data[i], rom \in cutShort, file[i])
                      ELSE rom \in cutShort /\ data[i] = None
  BY DEF Kept
<1>4. rom.clock => time = IF len > n THEN file[n + 1] ELSE Zero
  BY DEF Kept
<1>5. v # None
  BY CartridgeAssumption
<1> HIDE DEF n, len, new
<1>6. \A i \in 1..n : i # k + 1 =>
          IF i <= longer THEN Left(data[i], rom \in cutShort, new[i])
          ELSE rom \in cutShort /\ data[i] = None
  BY <1>1, <1>2, <1>3 DEF Left
<1>7. ASSUME k < n
      PROVE  Kept(rom, new, [data EXCEPT ![k + 1] = v], rom \in cutShort, time)
  <2> DEFINE now == [data EXCEPT ![k + 1] = v]
  <2>1. k + 1 \in 1..n /\ k + 1 <= longer
    BY <1>1, <1>7
  <2>2. now[k + 1] = v /\ \A i \in 1..n : i # k + 1 => now[i] = data[i]
    BY <2>1 DEF n
  <2> HIDE DEF now
  <2>3. Left(now[k + 1], rom \in cutShort, new[k + 1])
    BY <1>1, <1>2, <1>5, <2>1, <2>2 DEF Left
  <2>4. \A i \in 1..n : IF i <= longer THEN Left(now[i], rom \in cutShort, new[i])
                        ELSE rom \in cutShort /\ now[i] = None
    BY <1>6, <2>1, <2>2, <2>3
  <2>5. (longer > n) <=> (len > n)
    BY <1>1, <1>7
  <2>6. len > n => new[n + 1] = file[n + 1]
    BY <1>1, <1>2, <1>7
  <2> QED  BY <1>2, <1>4, <2>4, <2>5, <2>6 DEF Kept, n, now
<1>8. ASSUME k = n
      PROVE  Kept(rom, new, data, rom \in cutShort, v)
  <2>1. longer > n /\ new[n + 1] = v
    BY <1>1, <1>2, <1>8
  <2>2. \A i \in 1..n : i # k + 1
    BY <1>1, <1>8
  <2> QED  BY <1>2, <1>6, <2>1, <2>2 DEF Kept, n
<1> QED  BY <1>7, <1>8 DEF n, new

LEMMA WriteRamStep ==
    ASSUME OwnSaves, IInv, Banked', WriteRam
    PROVE  IInv'
<1> DEFINE i == RamCell(memory) + 1
           k == i - 1
<1>1. memory \in Roms /\ RamOpen(memory) /\ memory # None /\ loading = None
  BY DEF WriteRam, Running, IInv, Banked, Mounted
<1>2. i \in 1..Cells(memory) /\ Cells(memory) \in Nat
  BY <1>1, CellInside, Sizes DEF IInv, Banked
<1>3. PICK v \in Values :
          /\ ram' = [ram EXCEPT ![i] = v] /\ files' = WrittenThrough(i, v)
          /\ written' = IF memory.battery /\ stream THEN [written EXCEPT ![memory][i] = v] ELSE written
  BY DEF WriteRam
<1>4. UNCHANGED <<battery, stream, romData, memory, rtc, loading, registers, shown, cutShort, saveExists>>
  BY DEF WriteRam
<1> HIDE DEF i
<1>5. ram \in [1..Cells(memory) -> Values] /\ ram' \in [1..Cells(memory) -> Values]
  BY <1>1, <1>2, <1>3 DEF IInv, Types
<1>6. ~Creating /\ ~Creating'
  BY <1>1, <1>4 DEF Creating
<1>7. CASE ~stream
  <2>1. files' = files /\ written' = written
    BY <1>3, <1>7 DEF WrittenThrough
  <2>2. Types' /\ Open'
    BY <1>1, <1>4, <1>5, <1>7, <2>1 DEF Types, Open, IInv
  <2>3. Saved'
    BY <1>4, <1>6, <2>1 DEF Saved, IInv
  <2> QED  BY <2>2, <2>3 DEF IInv
<1>8. CASE stream
  <2> DEFINE file == files[memory.stem]
             data == written[memory]
             new == SaveAt(file, k, <<v>>)
             now == [data EXCEPT ![i] = v]
             time == shown[memory]
  <2>1. /\ memory.battery /\ battery = memory.stem /\ file \in Seq(Values)
        /\ data \in [1..Cells(memory) -> Values \cup {None}] /\ AsLeft(memory, ram)
        /\ Kept(memory, file, data, memory \in cutShort, time)
    BY <1>1, <1>8, TheOpenSave
  <2>2. k \in Nat /\ k + 1 = i /\ k < Cells(memory)
    BY <1>2
  <2>3. /\ files' = [files EXCEPT ![memory.stem] = new]
        /\ now \in [1..Cells(memory) -> Values \cup {None}]
        /\ written' = [written EXCEPT ![memory] = now]
    BY <1>2, <1>3, <1>8, <2>1 DEF WrittenThrough
  <2>4. new \in Seq(Values) /\ Kept(memory, new, now, memory \in cutShort, time)
    <3> HIDE DEF file, data, k, time
    <3>1. new \in Seq(Values)
      BY <2>1, <2>2, SaveOne, Zenon
    <3>2. Kept(memory, new, [data EXCEPT ![k + 1] = v], memory \in cutShort, time)
      BY <1>1, <2>1, <2>2, SaveWritten, Zenon
    <3> QED  BY <2>2, <3>1, <3>2
  <2>5. shown' = [shown EXCEPT ![memory] = time] /\ time \in Values
    BY <1>1, <1>4 DEF IInv, Types
  <2>6. /\ loading \in {None, memory} /\ loading' \in {None, memory}
        /\ \A r \in Roms \ {memory} : r \in cutShort <=> r \in cutShort'
        /\ cutShort' = cutShort
    BY <1>1, <1>4
  <2>7. AsLeft(memory, ram)'
    <3>1. now[i] = v /\ \A j \in 1..Cells(memory) : j # i => now[j] = data[j]
      BY <1>2, <2>1
    <3>2. written'[memory] = now
      BY <1>1, <2>3 DEF IInv, Types
    <3>3. ram'[i] = v /\ \A j \in 1..Cells(memory) : j # i => ram'[j] = ram[j]
      BY <1>2, <1>3, <1>5
    <3>4. v # None
      BY CartridgeAssumption
    <3>5. \A j \in 1..Cells(memory) : Left(now[j], memory \in cutShort, ram'[j])
      <4>1. \A j \in 1..Cells(memory) : Left(data[j], memory \in cutShort, ram[j])
        BY <2>1 DEF AsLeft
      <4> HIDE DEF now, data
      <4> QED  BY <3>1, <3>3, <3>4, <4>1 DEF Left
    <3> HIDE DEF now
    <3> QED  BY <1>4, <3>2, <3>5 DEF AsLeft
  <2> HIDE DEF new, file, data, now, time, k
  <2>8. /\ files' \in [Stems -> Seq(Values) \cup {NoFile}] /\ shown' \in [Roms -> Values]
        /\ written' = [r \in Roms |-> written'[r]]
        /\ \A r \in Roms : written'[r] \in [1..Cells(r) -> Values \cup {None}]
        /\ files'[memory.stem] # NoFile /\ Saved'
    <3>1. Kept(memory, new, now, memory \in cutShort', time)
      BY <2>4, <2>6
    <3> QED  BY <1>1, <1>6, <2>1, <2>3, <2>4, <2>5, <2>6, <3>1, OneSave, Zenon
  <2>9. Types'
    BY <1>4, <1>5, <2>8 DEF Types, IInv
  <2>10. Open'
    BY <1>1, <1>4, <2>1, <2>7, <2>8 DEF Open
  <2> QED  BY <2>8, <2>9, <2>10 DEF IInv
<1> QED  BY <1>7, <1>8

LEMMA ClockMovesStep ==
    ASSUME IInv, Banked', ClockMoves
    PROVE  IInv'
<1>1. /\ UNCHANGED <<files, alive, battery, stream, saveExists, memory, ram, loading>>
      /\ UNCHANGED <<written, shown, cutShort>> /\ rtc' \in Values
  BY DEF ClockMoves, history
<1>2. Types' /\ Open'
  BY <1>1 DEF Types, Open, AsLeft, IInv
<1>3. Saved'
  BY <1>1 DEF Saved, Creating, IInv
<1> QED  BY <1>2, <1>3 DEF IInv

LEMMA SelectBankStep ==
    ASSUME IInv, Banked', SelectBank
    PROVE  IInv'
<1>1. /\ UNCHANGED <<files, alive, battery, stream, saveExists, memory, ram, rtc, loading>>
      /\ UNCHANGED <<written, shown, cutShort>>
  BY DEF SelectBank, history
<1>2. Types' /\ Open'
  BY <1>1 DEF Types, Open, AsLeft, IInv
<1>3. Saved'
  BY <1>1 DEF Saved, Creating, IInv
<1> QED  BY <1>2, <1>3 DEF IInv

LEMMA DeleteEmuStep ==
    ASSUME OwnSaves, IInv, DeleteEmu
    PROVE  IInv'
<1>1. /\ files' = PutAway /\ shown' = PutAwayShown /\ UNCHANGED <<written, cutShort>>
      /\ Banked' /\ rtc' \in Values /\ stream' = FALSE /\ memory' = None
      /\ loading = None /\ loading' = None
  BY Unmounts DEF DeleteEmu
<1>2. ~Creating /\ ~Creating'
  BY <1>1 DEF Creating
<1>3. CASE ~stream
  <2>1. files' = files /\ shown' = shown
    BY <1>1, <1>3 DEF PutAway, PutAwayShown
  <2> QED  BY <1>1, <1>2, <2>1, Closed DEF IInv
<1>4. CASE stream
  <2> DEFINE n == Cells(memory)
             file == files[memory.stem]
             data == written[memory]
             new == IF memory.clock THEN SaveAt(file, n, <<rtc>>) ELSE file
  <2>1. /\ memory \in Roms /\ memory # None /\ memory.battery /\ battery = memory.stem
        /\ file \in Seq(Values) /\ file # NoFile
        /\ data \in [1..n -> Values \cup {None}]
        /\ Kept(memory, file, data, memory \in cutShort, shown[memory]) /\ n \in Nat
    BY <1>1, <1>4, TheOpenSave
  <2>2. rtc \in Values
    BY DEF IInv, Types
  <2>3. shown' = [shown EXCEPT ![memory] = rtc]
    BY <1>1, <1>4, <2>1 DEF PutAwayShown
  <2>4. files' = [files EXCEPT ![memory.stem] = new]
    <3>1. CASE memory.clock
      BY <1>1, <1>4, <2>1, <3>1 DEF PutAway, HasClock, SavedBy, TrailerAt
    <3>2. CASE ~memory.clock
      <4>1. files' = files
        BY <1>1, <3>2 DEF PutAway, HasClock
      <4> QED  BY <3>2, <4>1 DEF IInv, Types
    <3> QED  BY <3>1, <3>2
  <2>5. new \in Seq(Values) /\ Kept(memory, new, data, memory \in cutShort, rtc)
    <3>1. CASE memory.clock
      <4> DEFINE longer == SaveAt(file, n, <<rtc>>)
      <4>1. longer \in Seq(Values)
        <5> HIDE DEF file, n
        <5> QED  BY <2>1, <2>2, SaveOne, Zenon
      <4>2. Kept(memory, longer, data, memory \in cutShort, rtc)
        BY <2>1, <2>2, SaveWritten
      <4>3. new = longer
        BY <3>1
      <4> HIDE DEF longer, new
      <4> QED  BY <4>1, <4>2, <4>3
    <3>2. CASE ~memory.clock
      BY <2>1, <3>2 DEF Kept
    <3> QED  BY <3>1, <3>2
  <2>6. written' = [written EXCEPT ![memory] = data]
    BY <1>1, <2>1 DEF IInv, Types
  <2>7. /\ loading \in {None, memory} /\ loading' \in {None, memory}
        /\ \A r \in Roms \ {memory} : r \in cutShort <=> r \in cutShort'
        /\ Kept(memory, new, data, memory \in cutShort', rtc)
    <3>1. cutShort' = cutShort
      BY <1>1
    <3> HIDE DEF new, data
    <3> QED  BY <1>1, <2>5, <3>1
  <2> HIDE DEF new, file, data, n
  <2>8. /\ files' \in [Stems -> Seq(Values) \cup {NoFile}] /\ shown' \in [Roms -> Values]
        /\ written' = [r \in Roms |-> written'[r]]
        /\ \A r \in Roms : written'[r] \in [1..Cells(r) -> Values \cup {None}]
        /\ Saved'
    <3>1. data \in [1..Cells(memory) -> Values \cup {None}]
      BY <2>1 DEF n
    <3> QED  BY <1>2, <2>1, <2>2, <2>3, <2>4, <2>5, <2>6, <2>7, <3>1, OneSave, Zenon
  <2>9. Types' /\ Open'
    BY <1>1, <2>8 DEF Types, Open
  <2> QED  BY <1>1, <2>8, <2>9 DEF IInv
<1> QED  BY <1>3, <1>4

LEMMA InvNext ==
    ASSUME ~Reloads, OwnSaves, IInv, [Next]_vars
    PROVE  IInv'
<1>0. Banked'
  BY BankedNext DEF IInv
<1>1. ASSUME UNCHANGED vars PROVE IInv'
  <2>1. /\ UNCHANGED <<files, alive, battery, stream, saveExists, memory, ram, rtc, loading>>
        /\ UNCHANGED <<written, shown, cutShort>>
    BY <1>1 DEF vars, object, history
  <2>2. Types' /\ Open'
    BY <2>1 DEF Types, Open, AsLeft, IInv
  <2>3. Saved'
    BY <2>1 DEF Saved, Creating, IInv
  <2> QED  BY <1>0, <2>2, <2>3 DEF IInv
<1>2. CASE NewEmu \/ Crash \/ CrashWhileSaving
  BY <1>2, NewEmuStep, CrashStep, CrashWhileSavingStep
<1>3. CASE LoadMisses
  BY <1>1, <1>3 DEF LoadMisses
<1>4. CASE MakeMapper \/ WriteRam \/ ClockMoves \/ SelectBank \/ DeleteEmu
  BY <1>0, <1>4, MakeMapperStep, WriteRamStep, ClockMovesStep, SelectBankStep, DeleteEmuStep
<1>5. ASSUME NEW rom \in Roms, LoadFails(rom) \/ LoadPlain(rom) \/ OpenSave(rom) \/ LoadUnsaved(rom)
      PROVE  IInv'
  BY <1>0, <1>5, LoadFailsStep, LoadPlainStep, OpenSaveStep, LoadUnsavedStep
<1> QED  BY <1>1, <1>2, <1>3, <1>4, <1>5 DEF Next

-----------------------------------------------------------------------------
(***************************************************************************)
(* The theorems.                                                           *)
(***************************************************************************)
(* One game to an Emu, and a save file of its own for every game: then     *)
(* saves and mappers agree throughout, with kills at any moment, while a   *)
(* save is being created too.                                              *)
THEOREM Invariance == ~Reloads /\ OwnSaves => (Spec => []IInv)
<1> SUFFICES ASSUME ~Reloads, OwnSaves PROVE Spec => []IInv
  OBVIOUS
<1>1. Init => IInv
  BY InvInit
<1> QED  BY <1>1, InvNext, PTL DEF Spec

(* A game with a battery finds every cell of RAM that it wrote as it left   *)
(* it, however the emulator ended, whatever was played meanwhile, and       *)
(* whenever a save could not be opened; one that it never wrote is blank,   *)
(* or zero if the creation of its save was cut short by a kill.             *)
THEOREM RamIsKept == ~Reloads /\ OwnSaves => (Spec => []RamSurvives)
<1>1. IInv => RamSurvives
  BY DEF IInv, Open, AsLeft, RamSurvives, Banked, Mounted
<1> QED  BY <1>1, Invariance, PTL

(* Its clock comes back showing what it showed when the game was last put  *)
(* away, of the bytes that follow its RAM in the file.                     *)
THEOREM ClocksAreKept == ~Reloads /\ OwnSaves => (Spec => ClockSurvives)
<1> SUFFICES ASSUME ~Reloads, OwnSaves PROVE Spec => ClockSurvives
  OBVIOUS
<1>1. ASSUME IInv, HasClock(loading), MakeMapper
      PROVE  rtc' = shown'[loading]
  BY <1>1, MapperReads DEF HasClock
<1>2. IInv /\ [Next]_vars => [HasClock(loading) /\ MakeMapper => rtc' = shown'[loading]]_vars
  BY <1>1
<1>3. Spec => []IInv
  BY Invariance
<1> QED  BY <1>2, <1>3, PTL DEF Spec, ClockSurvives

(* The windows show a program its own ROM, whatever it writes to the       *)
(* registers: beyond its end a number wraps wherever the mapper masks it,  *)
(* and reads as open bus elsewhere.                                        *)
THEOREM WindowsAreItsOwn == ~Reloads => (Spec => []WindowsShowTheGame)
<1> SUFFICES ASSUME ~Reloads PROVE Spec => []WindowsShowTheGame
  OBVIOUS
<1>1. Init => Banked
  BY InvInit DEF IInv
<1>2. Banked => WindowsShowTheGame
  <2> SUFFICES ASSUME Banked, memory # None,
                      NEW bank \in {LowWindow(memory, bank2, bankingMode), HighWindow(memory, romBank, bank2)}
               PROVE  \/ ReadRom(memory, bank) = memory
                      \/ ReadRom(memory, bank) = OpenBus /\ ~Wraps(memory)
    BY DEF WindowsShowTheGame
  <2>1. memory \in Roms /\ RegistersOK
    BY DEF Banked, Mounted
  <2>2. /\ Banks(memory) \in Nat \ {0} /\ memory.kind \in Kinds
        /\ Lines(memory) \in Nat \ {0} /\ Lines(memory) = LinesOf(memory)
        /\ \A n \in Nat : Masked(memory, n) \in 0..(Lines(memory) - 1)
    BY <2>1, Sizes, LinesPositive
  <2>3. /\ bank \in Nat
        /\ memory.kind \in {"MBC1", "MBC3", "MBC5"} => bank < Lines(memory)
        /\ memory.kind = "ROM" => bank < 2
    <3>1. LowBanks \in Nat /\ bank2 \in Nat /\ romBank \in Nat /\ bank2 * LowBanks \in Nat
      BY <2>1, MapperAssumption DEF RegistersOK
    <3>2. NotZero(romBank) \in Nat /\ bank2 * LowBanks + NotZero(romBank) \in Nat
      BY <3>1 DEF NotZero
    <3>3. CASE bank = LowWindow(memory, bank2, bankingMode)
      BY <2>2, <3>1, <3>3 DEF LowWindow
    <3>4. CASE bank = HighWindow(memory, romBank, bank2)
      BY <2>2, <3>1, <3>2, <3>4 DEF HighWindow, Kinds
    <3> QED  BY <3>3, <3>4
  <2>4. CASE bank < Banks(memory)
    <3>1. bank \in 0..(Banks(memory) - 1)
      BY <2>2, <2>3, <2>4
    <3> QED  BY <2>4, <3>1 DEF ReadRom, Banked, Mounted, Holds
  <2>5. CASE ~(bank < Banks(memory))
    <3>1. ReadRom(memory, bank) = OpenBus
      BY <2>5, Zenon DEF ReadRom
    <3>2. ~Wraps(memory)
      BY <2>2, <2>3, <2>5 DEF Wraps
    <3> QED  BY <3>1, <3>2
  <2> QED  BY <2>4, <2>5
<1> QED  BY <1>1, <1>2, BankedNext, PTL DEF Spec

(* A mapper of any kind, with as many banks of ROM and RAM as it supports, *)
(* lets its program reach each of them.                                    *)
THEOREM BanksAreVisible == Spec => []EveryBankVisible
<1> DEFINE Known == memory \in Roms \cup {None} /\ loading \in Roms \cup {None}
<1>1. Init => Known
  BY DEF Init
<1>2. Known /\ [Next]_vars => Known'
  BY DEF Next, vars, object, NewEmu, NoMapper, MayLoad, LoadMisses, WriteRam, ClockMoves,
         SelectBank, DeleteEmu, Crash, CrashWhileSaving, Killed, LoadFails, LoadPlain, OpenSave,
         MakeMapper, LoadUnsaved
<1>3. Known => EveryBankVisible
  <2> SUFFICES ASSUME memory \in Roms PROVE Reachable(memory)
    BY DEF EveryBankVisible
  <2> QED  BY RomInReach, RamInReach DEF Reachable
<1> QED  BY <1>1, <1>2, <1>3, PTL DEF Spec
=============================================================================
