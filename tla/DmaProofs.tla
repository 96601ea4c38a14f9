----------------------------- MODULE DmaProofs -----------------------------
(* Theorems about the address decoding, for every set of addresses, and    *)
(* about OAM DMA and the memory it shares with the CPU, for every size of  *)
(* OAM, every start delay and every set of pages, addresses and bytes.     *)
EXTENDS Dma, TLAPS

-----------------------------------------------------------------------------
(* The address decoding. *)

(* An address is a number of sixteen bits. *)
LEMMA AddressBounds == \A a : a \in Address <=> a \in Nat /\ a <= 65535
<1> DEFINE last == 65535
<1>1. last \in Nat
  OBVIOUS
<1>2. Address = 0..last
  BY DEF Address
<1> HIDE DEF last
<1>3. \A a : a \in 0..last <=> a \in Nat /\ a <= last
  BY <1>1
<1>4. \A a : a \in Address <=> a \in Nat /\ a <= last
  BY <1>2, <1>3, Zenon
<1> QED  BY <1>4 DEF last

(* What Target says of each range of the memory map. *)
Between(a, low, high) == a \in Nat /\ low <= a /\ a <= high
RamArrays == {"vram", "wram0", "wramN", "hram", "ie"}
NotRam(a) == a \in Nat /\ (a <= 32767 \/ Between(a, 40960, 49151) \/ Between(a, 65024, 65407))
Vram(a)  == Between(a, 32768, 40959) /\ Target(a) = [array |-> "vram", index |-> a - 32768]
Wram0(a) == Between(a, 49152, 53247) /\ Target(a) = [array |-> "wram0", index |-> a - 49152]
WramN(a) == Between(a, 53248, 57343) /\ Target(a) = [array |-> "wramN", index |-> a - 53248]
Echo0(a) == Between(a, 57344, 61439) /\ Target(a) = [array |-> "wram0", index |-> a - 57344]
EchoN(a) == Between(a, 61440, 65023) /\ Target(a) = [array |-> "wramN", index |-> a - 61440]
Hram(a)  == Between(a, 65408, 65534) /\ Target(a) = [array |-> "hram", index |-> a - 65408]
Enable(a) == a = 65535 /\ Target(a) = [array |-> "ie", index |-> 0]
Region(a) == \/ Vram(a) \/ Wram0(a) \/ WramN(a) \/ Echo0(a) \/ EchoN(a) \/ Hram(a) \/ Enable(a)

(* Outside the ranges of RAM no address reaches an array of Memory. *)
LEMMA Nowhere == ASSUME NEW a, NotRam(a) PROVE Target(a).array \notin RamArrays
<1>1. CASE a \in Nat /\ a <= 32767
  BY <1>1 DEF Target, Elsewhere, RamArrays, Between
<1>2. CASE Between(a, 40960, 49151)
  BY <1>2 DEF Target, Elsewhere, RamArrays, Between
<1>3. CASE Between(a, 65024, 65407)
  BY <1>3 DEF Target, Elsewhere, RamArrays, Between
<1> QED  BY <1>1, <1>2, <1>3 DEF NotRam, Between

(* Every address is in a range of RAM or outside all of them. *)
LEMMA Somewhere == ASSUME NEW a \in Address PROVE NotRam(a) \/ Region(a)
<1>1. CASE Between(a, 32768, 40959)
  <2>1. (a - 32768) % 8192 = a - 32768
    BY <1>1 DEF Between
  <2> QED BY <2>1, <1>1 DEF Target, Vram, Region, Between
<1>2. CASE Between(a, 49152, 53247)
  BY <1>2 DEF Target, WorkRam, Wram0, Region, Between
<1>3. CASE Between(a, 53248, 57343)
  BY <1>3 DEF Target, WorkRam, WramN, Region, Between
<1>4. CASE Between(a, 57344, 61439)
  BY <1>4 DEF Target, WorkRam, Echo, Echo0, Region, Between
<1>5. CASE Between(a, 61440, 65023)
  BY <1>5 DEF Target, WorkRam, Echo, EchoN, Region, Between
<1>6. CASE Between(a, 65408, 65534)
  BY <1>6 DEF Target, Hram, Region, Between
<1>7. CASE a = 65535
  BY <1>7 DEF Target, Enable, Region, Between
<1>8. CASE NotRam(a)
  BY <1>8
<1>9. \/ Between(a, 32768, 40959) \/ Between(a, 49152, 53247) \/ Between(a, 53248, 57343) \/ Between(a, 57344, 61439)
      \/ Between(a, 61440, 65023) \/ Between(a, 65408, 65534) \/ a = 65535 \/ NotRam(a)
  BY AddressBounds DEF NotRam, Between
<1> QED  BY <1>1, <1>2, <1>3, <1>4, <1>5, <1>6, <1>7, <1>8, <1>9

(* An index below its size lies in an array. *)
LEMMA Holds ==
    ASSUME NEW name \in DOMAIN Array, NEW i \in Nat, i < Array[name]
    PROVE  Inside([array |-> name, index |-> i])
<1> DEFINE size == Array[name]
<1>1. size \in Nat
  BY DEF Array
<1> HIDE DEF size
<1>2. i \in 0..(size - 1)
  BY <1>1 DEF size
<1> QED  BY <1>2, Zenon DEF Inside, size

LEMMA Sizes ==
    /\ Array["dmgBoot"] = 256 /\ Array["vram"] = 8192 /\ Array["wram0"] = 4096
    /\ Array["wramN"] = 4096 /\ Array["hram"] = 128 /\ Array["ie"] = 1 /\ Array["oam"] = 160
    /\ {"dmgBoot", "vram", "wram0", "wramN", "hram", "ie", "oam"} \subseteq DOMAIN Array
  BY DEF Array

(* An address lands inside the array it lands in. *)
LEMMA TargetInside ==
    ASSUME NEW a \in Address
    PROVE  Inside(Target(a))
<1> DEFINE Lands(name, first) ==
               a - first \in Nat /\ a - first < Array[name] /\ name \in DOMAIN Array
                   /\ Target(a) = [array |-> name, index |-> a - first]
<1>1. ASSUME NEW name, NEW first, Lands(name, first) PROVE Inside(Target(a))
  BY <1>1, Holds
<1>2. ASSUME NEW name, name \notin DOMAIN Array, Target(a) = Elsewhere(name)
      PROVE  Inside(Target(a))
  BY <1>2 DEF Elsewhere, Inside
<1>3. CASE Region(a)
  <2>1. \/ Lands("vram", 32768) \/ Lands("wram0", 49152) \/ Lands("wramN", 53248)
        \/ Lands("wram0", 57344) \/ Lands("wramN", 61440) \/ Lands("hram", 65408)
        \/ Target(a) = [array |-> "ie", index |-> 0]
    BY <1>3, Sizes DEF Region, Vram, Wram0, WramN, Echo0, EchoN, Hram, Enable, Between
  <2>2. Target(a) = [array |-> "ie", index |-> 0] => Inside(Target(a))
    BY Holds, Sizes
  <2> HIDE DEF Lands
  <2> QED  BY <1>1, <2>1, <2>2
<1>4. CASE NotRam(a)
  <2>1. \/ Lands("oam", 65024) \/ Target(a) = Elsewhere("cartridge")
        \/ Target(a) = Elsewhere("nothing") \/ Target(a) = Elsewhere("io")
    <3>0. a \in Nat
      BY <1>4 DEF NotRam
    <3>1. a <= 32767 => Target(a) = Elsewhere("cartridge")
      BY <3>0 DEF Target
    <3>2. Between(a, 40960, 49151) => Target(a) = Elsewhere("cartridge")
      BY DEF Between, Target
    <3>3. Between(a, 65184, 65279) => Target(a) = Elsewhere("nothing")
      BY DEF Between, Target
    <3>4. Between(a, 65280, 65407) => Target(a) = Elsewhere("io")
      BY DEF Between, Target
    <3>5. ASSUME Between(a, 65024, 65183) PROVE Lands("oam", 65024)
      <4>1. Target(a) = [array |-> "oam", index |-> a - 65024]
        BY <3>5 DEF Between, Target
      <4>2. a - 65024 \in Nat /\ a - 65024 < 160
        BY <3>5 DEF Between
      <4> QED  BY <4>1, <4>2, Sizes
    <3>6. \/ a <= 32767 \/ Between(a, 40960, 49151) \/ Between(a, 65024, 65183)
          \/ Between(a, 65184, 65279) \/ Between(a, 65280, 65407)
      BY <3>0, <1>4 DEF NotRam, Between
    <3> HIDE DEF Lands
    <3> QED  BY <3>1, <3>2, <3>3, <3>4, <3>5, <3>6
  <2>2. /\ "cartridge" \notin DOMAIN Array /\ "nothing" \notin DOMAIN Array
        /\ "io" \notin DOMAIN Array
    <3>1. DOMAIN Array = {"dmgBoot", "vram", "wram0", "wramN", "hram", "ie", "oam"}
      BY DEF Array
    <3> QED  BY <3>1
  <2> HIDE DEF Lands
  <2> QED  BY <1>1, <1>2, <2>1, <2>2
<1> QED  BY <1>3, <1>4, Somewhere

(* An address of RAM is in one of the ranges. *)
LEMMA RamRegion == ASSUME NEW a \in Ram PROVE Region(a)
<1>1. a \in Addresses /\ Target(a).array \in RamArrays
  BY Zenon DEF Ram, RamArrays
<1>2. a \in Address
  BY <1>1, MapAssumption
<1> QED  BY <1>1, <1>2, Nowhere, Somewhere, Zenon

(* RAM is never hidden by the boot ROM. *)
LEMMA RamIsVisible ==
    ASSUME NEW a \in Ram
    PROVE  Source(a) = Target(a)
<1>1. CASE Vram(a)
  BY <1>1 DEF Vram, Source, Between
<1>2. CASE Wram0(a)
  BY <1>2 DEF Wram0, Source, Between
<1>3. CASE WramN(a)
  BY <1>3 DEF WramN, Source, Between
<1>4. CASE Echo0(a)
  BY <1>4 DEF Echo0, Source, Between
<1>5. CASE EchoN(a)
  BY <1>5 DEF EchoN, Source, Between
<1>6. CASE Hram(a)
  BY <1>6 DEF Hram, Source, Between
<1>7. CASE Enable(a)
  BY <1>7 DEF Enable, Source
<1> QED  BY RamRegion, <1>1, <1>2, <1>3, <1>4, <1>5, <1>6, <1>7, Zenon DEF Region

(* Two addresses of RAM share a cell if and only if they mirror each other. *)
LEMMA CellsAreMirrors ==
    ASSUME NEW a \in Ram, NEW b \in Ram
    PROVE  Target(a) = Target(b) <=> Mirrors(a, b)
<1>0. Region(b)
  BY RamRegion
<1>1. CASE Vram(a)
  BY <1>1, <1>0 DEF Vram, Wram0, WramN, Echo0, EchoN, Hram, Enable, Region, Mirrors, Between
<1>2. CASE Wram0(a)
  BY <1>2, <1>0 DEF Vram, Wram0, WramN, Echo0, EchoN, Hram, Enable, Region, Mirrors, Between
<1>3. CASE WramN(a)
  BY <1>3, <1>0 DEF Vram, Wram0, WramN, Echo0, EchoN, Hram, Enable, Region, Mirrors, Between
<1>4. CASE Echo0(a)
  BY <1>4, <1>0 DEF Vram, Wram0, WramN, Echo0, EchoN, Hram, Enable, Region, Mirrors, Between
<1>5. CASE EchoN(a)
  BY <1>5, <1>0 DEF Vram, Wram0, WramN, Echo0, EchoN, Hram, Enable, Region, Mirrors, Between
<1>6. CASE Hram(a)
  BY <1>6, <1>0 DEF Vram, Wram0, WramN, Echo0, EchoN, Hram, Enable, Region, Mirrors, Between
<1>7. CASE Enable(a)
  BY <1>7, <1>0 DEF Vram, Wram0, WramN, Echo0, EchoN, Hram, Enable, Region, Mirrors, Between
<1> QED  BY RamRegion, <1>1, <1>2, <1>3, <1>4, <1>5, <1>6, <1>7, Zenon DEF Region

(* Every address of the 64 KiB decodes inside the array it lands in, also  *)
(* where the boot ROM hides the cartridge.                                 *)
THEOREM AccessesInBounds == InBounds /\ \A a \in Address : Inside(Source(a))
<1>1. ASSUME NEW a \in Address
      PROVE  Inside(Target(a)) /\ Inside(Source(a))
  <2>1. Inside(Target(a))
    BY TargetInside
  <2>2. Source(a) = Target(a) \/ (a <= 255 /\ Source(a) = [array |-> "dmgBoot", index |-> a])
    BY Zenon DEF Source
  <2>3. CASE a <= 255
    <3>1. a \in Nat /\ "dmgBoot" \in DOMAIN Array /\ a < Array["dmgBoot"]
      BY <1>1, <2>3, AddressBounds, Sizes
    <3>2. Inside([array |-> "dmgBoot", index |-> a])
      BY <3>1, Holds
    <3> QED  BY <2>1, <2>2, <3>2
  <2>4. CASE ~(a <= 255)
    BY <2>1, <2>2, <2>4
  <2> QED  BY <2>3, <2>4
<1> QED  BY <1>1 DEF InBounds
-----------------------------------------------------------------------------
(* OAM DMA. *)

(* A page lies below OAM, and at most 160 of its bytes are copied. *)
LEMMA InPage ==
    ASSUME NEW page \in Pages, NEW i \in Index
    PROVE  page \in 0..253 /\ i \in 0..159
<1>1. OamSize \in 1..160 /\ Pages \subseteq 0..253
  BY DmaAssumption
<1> QED  BY <1>1 DEF Index

(* A byte of a page comes from the boot ROM, the cartridge or RAM: never   *)
(* from OAM, so that a transfer does not lock itself out of its page.      *)
LEMMA PageSource ==
    ASSUME NEW page \in Pages, NEW i \in Index
    PROVE  \/ Source(PageAddress(page, i)).array \in {"dmgBoot", "cartridge"}
           \/ Source(PageAddress(page, i)) \in Cells
              /\ Source(PageAddress(page, i)).array \in RamArrays
<1> DEFINE a == PageAddress(page, i)
<1>1. a \in Nat /\ a <= 65023
  <2>1. page \in 0..253 /\ i \in 0..159
    BY InPage
  <2> QED  BY <2>1 DEF PageAddress
<1>2. Target(a).array = "cartridge" \/ a \in Addresses
  BY DmaAssumption
<1> HIDE DEF a
<1>3. a \in Address
  BY <1>1, AddressBounds
<1>4. CASE Target(a).array = "cartridge"
  <2>1. Source(a).array = "dmgBoot" \/ Source(a) = Target(a)
    BY DEF Source
  <2> QED  BY <1>4, <2>1 DEF a
<1>5. CASE a \in Addresses /\ NotRam(a)
  <2>1. Target(a).array = "cartridge"
    BY <1>1, <1>5 DEF NotRam, Between, Target, Elsewhere
  <2> QED  BY <1>4, <2>1
<1>6. CASE a \in Addresses /\ Region(a)
  <2>1. Target(a).array \in RamArrays
    BY <1>6 DEF Region, RamArrays, Vram, Wram0, WramN, Echo0, EchoN, Hram, Enable
  <2>2. a \in Ram
    BY <1>6, <2>1 DEF Ram, RamArrays
  <2>3. Source(a) = Target(a)
    BY <2>2, RamIsVisible
  <2> QED  BY <2>1, <2>2, <2>3 DEF Cells, a
<1> QED  BY <1>2, <1>3, <1>4, <1>5, <1>6, Somewhere

(* A byte of a page is read as if no transfer were under way. *)
LEMMA PageRead ==
    ASSUME NEW page \in Pages, NEW i \in Index
    PROVE  LET place == Source(PageAddress(page, i)) IN
           Read(PageAddress(page, i)) = IF place.array \in DOMAIN Rom THEN Rom[place.array]
                                                                     ELSE contents[place]
  BY PageSource, Zenon DEF Read, RamArrays

(* OAM is read where it is. *)
LEMMA OamSource ==
    ASSUME NEW i \in Index
    PROVE  Source(PageAddress(OamPage, i)) = [array |-> "oam", index |-> i]
<1>1. i \in 0..159 /\ PageAddress(OamPage, i) = 65024 + i
  BY DmaAssumption DEF Index, PageAddress, OamPage
<1>2. Source(65024 + i) = Target(65024 + i)
  BY <1>1 DEF Source
<1>3. Target(65024 + i) = [array |-> "oam", index |-> i]
  BY <1>1 DEF Target
<1> QED  BY <1>1, <1>2, <1>3

(* The constructor's state satisfies the invariant. *)
LEMMA InvInit == Init => IInv
<1> SUFFICES ASSUME Init
             PROVE  IInv
  OBVIOUS
<1>1. LockTime \in Nat /\ 0 \in 0..OamSize /\ 0 \in 0..StartDelay
  BY DmaAssumption DEF LockTime
<1>2. ~active /\ active \in BOOLEAN /\ ~pristine /\ pristine \in BOOLEAN
  BY Zenon DEF Init
<1>3. LockTime \in 0..LockTime
  BY <1>1
<1>4. TypeOK
  BY <1>1, <1>2, <1>3 DEF Init, RamInit, TypeOK
<1>5. Coherent
  BY DEF Init, RamInit, Coherent
<1> QED  BY <1>2, <1>4, <1>5 DEF Init, IInv, PositionIsAge, CopiesThePage

(* What the page reads stays as it is while the boot ROM stays as it is,   *)
(* or the page is not the one it hides, and the page's cells are kept.     *)
LEMMA PageKept ==
    ASSUME value' = value, value \in Pages, NEW i \in Index,
           booted' = booted \/ value # 0,
           \A j \in Index : LET place == Source(PageAddress(value, j)) IN
               place \in Cells => contents'[place] = contents[place]
    PROVE  Read(PageAddress(value, i))' = Read(PageAddress(value, i))
<1> DEFINE a == PageAddress(value, i)
<1>1. a' = a
  BY DEF PageAddress
<1>2. Target(a)' = Target(a)
  BY <1>1 DEF Target, Elsewhere, WorkRam, Echo
<1>3. Source(a)' = Source(a)
  <2>1. CASE booted' = booted
    BY <1>1, <1>2, <2>1 DEF Source
  <2>2. CASE value # 0
    <3>1. ~(a <= 255)
      <4>1. value \in 0..253 /\ i \in 0..159
        BY InPage
      <4>2. value \in 1..253
        BY <2>2, <4>1
      <4> QED  BY <4>1, <4>2 DEF PageAddress
    <3> QED  BY <1>1, <1>2, <3>1 DEF Source
  <2> QED  BY <2>1, <2>2
<1> DEFINE place == Source(a)
<1>4. place.array \in {"dmgBoot", "cartridge"} \/ (place \in Cells /\ place.array \in RamArrays)
  BY PageSource
<1>5. place.array # "oam"
  BY <1>4 DEF RamArrays
<1>6. CASE place.array \in {"dmgBoot", "cartridge"}
  BY <1>3, <1>5, <1>6, DmaAssumption DEF Read
<1>7. CASE place \in Cells /\ place.array \in RamArrays
  <2>1. contents'[place] = contents[place]
    BY <1>7
  <2>2. place.array \notin DOMAIN Rom
    BY <1>7, DmaAssumption DEF RamArrays
  <2> QED  BY <1>3, <1>5, <2>1, <2>2 DEF Read
<1> QED  BY <1>4, <1>6, <1>7

(* The copy stays faithful in a step that leaves memory, OAM and the       *)
(* transfer's position alone.                                              *)
LEMMA CopyKept ==
    ASSUME IInv, pristine' => pristine, UNCHANGED <<ram, value, oam, byte>>
    PROVE  CopiesThePage'
<1> SUFFICES ASSUME pristine', NEW j \in 0..(byte' - 1)
             PROVE  oam'[j] = IF value' = OamPage THEN OpenBus
                              ELSE Read(PageAddress(value, j))'
  BY DEF CopiesThePage
<1>1. j \in 0..(byte - 1) /\ j \in Index
  BY DmaAssumption DEF IInv, TypeOK, Index
<1>2. oam[j] = IF value = OamPage THEN OpenBus ELSE Read(PageAddress(value, j))
  BY <1>1 DEF IInv, CopiesThePage
<1>3. CASE value # OamPage
  <2>1. value \in Pages
    BY <1>3 DEF IInv, TypeOK
  <2>2. value' = value /\ booted' = booted /\ contents' = contents
    BY DEF ram
  <2>3. Read(PageAddress(value, j))' = Read(PageAddress(value, j))
    BY <1>1, <2>1, <2>2, PageKept
  <2> QED  BY <1>2, <1>3, <2>3
<1> QED  BY <1>2, <1>3

(* A write of 0xFF46 leaves nothing copied and the whole delay to go. *)
LEMMA StartStep == IInv /\ WriteDMA => IInv'
<1> SUFFICES ASSUME IInv, WriteDMA
             PROVE  IInv'
  OBVIOUS
<1>1. TypeOK'
  BY DmaAssumption DEF IInv, TypeOK, WriteDMA, Core, Index, LockTime, ram
<1>2. PositionIsAge'
  BY DmaAssumption DEF IInv, TypeOK, WriteDMA, PositionIsAge
<1>3. CopiesThePage'
  BY DEF WriteDMA, CopiesThePage
<1>4. Coherent'
  BY DEF IInv, Coherent, WriteDMA, ram
<1> QED  BY <1>1, <1>2, <1>3, <1>4 DEF IInv

(* A write reaches exactly the mirrors of its address. *)
LEMMA WriteCoherent ==
    ASSUME Coherent, NEW a \in Addresses, NEW data \in Values, Write(a, data)
    PROVE  Coherent'
<1>1. a \in Ram /\ Target(a) \in Cells
  BY DEF Write, Cells
<1>2. contents' \in [Cells -> Values]
  BY DEF Coherent, Write
<1>3. ASSUME NEW b \in Ram
      PROVE  contents'[Target(b)] = written'[b]
  <2>1. Target(b) \in Cells
    BY DEF Cells
  <2>2. written'[b] = IF Mirrors(a, b) THEN data ELSE written[b]
    BY DEF Write
  <2>3. contents'[Target(b)] = IF Target(a) = Target(b) THEN data ELSE contents[Target(b)]
    BY <1>1, <2>1 DEF Coherent, Write
  <2> QED  BY <1>1, <2>2, <2>3, CellsAreMirrors DEF Coherent
<1> QED  BY <1>2, <1>3 DEF Coherent

(* A write to memory is either to no cell of the page or counted as a      *)
(* change of it.                                                           *)
LEMMA MemoryStep == IInv /\ WriteMemory => IInv'
<1> SUFFICES ASSUME IInv, WriteMemory
             PROVE  IInv'
  OBVIOUS
<1>1. PICK a \in Addresses, data \in Values :
          Write(a, data) /\ pristine' = (pristine /\ ~Feeds(Target(a)))
  BY DEF WriteMemory
<1>2. UNCHANGED <<dma, oam, elapsed>> /\ pc' = "dma" /\ booted' = booted
  BY <1>1 DEF WriteMemory, Core, Write
<1>3. TypeOK'
  BY <1>1, <1>2 DEF IInv, TypeOK, dma
<1>4. PositionIsAge'
  BY <1>2 DEF IInv, PositionIsAge, dma
<1>5. CopiesThePage'
  <2> SUFFICES ASSUME pristine', NEW j \in 0..(byte' - 1)
               PROVE  oam'[j] = IF value' = OamPage THEN OpenBus
                                ELSE Read(PageAddress(value, j))'
    BY DEF CopiesThePage
  <2>1. pristine /\ ~Feeds(Target(a))
    BY <1>1
  <2>2. value' = value /\ oam' = oam /\ j \in 0..(byte - 1) /\ j \in Index
    BY <1>2, DmaAssumption DEF dma, IInv, TypeOK, Index
  <2>3. oam[j] = IF value = OamPage THEN OpenBus ELSE Read(PageAddress(value, j))
    BY <2>1, <2>2 DEF IInv, CopiesThePage
  <2>4. CASE value # OamPage
    <3>1. value \in Pages
      BY <2>4 DEF IInv, TypeOK
    <3>2. \A i \in Index : LET place == Source(PageAddress(value, i)) IN
              place \in Cells => contents'[place] = contents[place]
      BY <1>1, <2>1 DEF Feeds, Write, IInv, Coherent
    <3>3. Read(PageAddress(value, j))' = Read(PageAddress(value, j))
      BY <1>2, <2>2, <3>1, <3>2, PageKept
    <3> QED  BY <2>2, <2>3, <2>4, <3>3
  <2> QED  BY <2>2, <2>3, <2>4
<1>6. Coherent'
  BY <1>1, WriteCoherent DEF IInv
<1> QED  BY <1>3, <1>4, <1>5, <1>6 DEF IInv

(* Other writes, the boot ROM's latch among them. *)
LEMMA OtherStep == IInv /\ Otherwise => IInv'
<1> SUFFICES ASSUME IInv, Otherwise
             PROVE  IInv'
  OBVIOUS
<1>1. /\ pristine' = (pristine /\ (value = 0 => booted' = booted))
      /\ booted' \in {booted, TRUE}
      /\ UNCHANGED <<contents, written, dma, oam, elapsed>> /\ pc' = "dma"
  BY DEF Otherwise, WriteElsewhere, Core
<1>2. TypeOK'
  <2>1. pristine' \in BOOLEAN /\ booted' \in BOOLEAN
    BY <1>1 DEF IInv, TypeOK
  <2> QED  BY <1>1, <2>1 DEF IInv, TypeOK, dma
<1>3. PositionIsAge'
  BY <1>1 DEF IInv, PositionIsAge, dma
<1>4. Coherent'
  BY <1>1 DEF IInv, Coherent
<1>5. CopiesThePage'
  <2> SUFFICES ASSUME pristine', NEW j \in 0..(byte' - 1)
               PROVE  oam'[j] = IF value' = OamPage THEN OpenBus
                                ELSE Read(PageAddress(value, j))'
    BY DEF CopiesThePage
  <2>1. pristine /\ (booted' = booted \/ value # 0)
    BY <1>1
  <2>2. value' = value /\ oam' = oam /\ j \in 0..(byte - 1) /\ j \in Index
    BY <1>1, DmaAssumption DEF dma, IInv, TypeOK, Index
  <2>3. oam[j] = IF value = OamPage THEN OpenBus ELSE Read(PageAddress(value, j))
    BY <2>1, <2>2 DEF IInv, CopiesThePage
  <2>4. CASE value # OamPage
    <3>1. value \in Pages
      BY <2>4 DEF IInv, TypeOK
    <3>2. Read(PageAddress(value, j))' = Read(PageAddress(value, j))
      BY <1>1, <2>1, <2>2, <3>1, PageKept
    <3> QED  BY <2>2, <2>3, <2>4, <3>2
  <2> QED  BY <2>2, <2>3, <2>4
<1> QED  BY <1>2, <1>3, <1>4, <1>5 DEF IInv

(* A write to OAM is dropped, or comes after the transfer. *)
LEMMA OamStep == IInv /\ WriteOam => IInv'
<1> SUFFICES ASSUME IInv, WriteOam
             PROVE  IInv'
  OBVIOUS
<1>1. PICK i \in Index, data \in Values :
          oam' = IF OamOpen THEN [oam EXCEPT ![i] = data] ELSE oam
  BY DEF WriteOam
<1>2. /\ pristine' = (pristine /\ active)
      /\ UNCHANGED <<ram, dma, elapsed>> /\ pc' = "dma"
  BY DEF WriteOam, Core
<1>3. TypeOK'
  BY <1>1, <1>2 DEF IInv, TypeOK, dma, ram
<1>4. PositionIsAge'
  BY <1>2 DEF IInv, PositionIsAge, dma
<1>5. CopiesThePage'
  <2>1. CASE active
    <3>1. oam' = oam
      BY <1>1, <2>1, Zenon DEF OamOpen
    <3> QED  BY <1>2, <3>1, CopyKept DEF dma
  <2>2. CASE ~active
    BY <1>2, <2>2 DEF CopiesThePage
  <2> QED  BY <2>1, <2>2
<1>6. Coherent'
  BY <1>2 DEF IInv, Coherent, ram
<1> QED  BY <1>3, <1>4, <1>5, <1>6 DEF IInv

(* A tick of the delay is one cycle of the transfer's age. *)
LEMMA DelayStep == IInv /\ TickDelay => IInv'
<1> SUFFICES ASSUME IInv, TickDelay
             PROVE  IInv'
  OBVIOUS
<1>1. elapsed < LockTime
  BY DmaAssumption DEF IInv, TypeOK, PositionIsAge, TickDelay, LockTime, Index
<1>2. TypeOK'
  <2>1. elapsed' \in 0..LockTime
    BY <1>1, DmaAssumption DEF IInv, TypeOK, TickDelay, Longer, LockTime
  <2>2. startDelay' \in 0..StartDelay
    BY DmaAssumption DEF IInv, TypeOK, TickDelay
  <2> QED  BY <2>1, <2>2 DEF IInv, TypeOK, TickDelay, Tick, ram
<1>3. PositionIsAge'
  BY <1>1, DmaAssumption DEF IInv, TypeOK, PositionIsAge, TickDelay, Longer
<1>4. CopiesThePage'
  BY CopyKept DEF TickDelay, Tick
<1>5. Coherent'
  BY DEF IInv, Coherent, TickDelay, Tick, ram
<1> QED  BY <1>2, <1>3, <1>4, <1>5 DEF IInv

(* A tick of an idle unit. *)
LEMMA IdleStep == IInv /\ TickIdle => IInv'
<1> SUFFICES ASSUME IInv, TickIdle
             PROVE  IInv'
  OBVIOUS
<1>1. TypeOK' /\ PositionIsAge' /\ Coherent'
  BY DEF IInv, TypeOK, PositionIsAge, Coherent, TickIdle, Tick, ram
<1>2. CopiesThePage'
  BY CopyKept DEF TickIdle, Tick
<1> QED  BY <1>1, <1>2 DEF IInv

(* A byte copied is one cycle of the age, and the last one ends the lock. *)
LEMMA CopyStep == IInv /\ TickCopy => IInv'
<1> SUFFICES ASSUME IInv, TickCopy
             PROVE  IInv'
  OBVIOUS
<1>0. /\ active /\ startDelay = 0 /\ byte \in Index
      /\ byte' = byte + 1 /\ active' = (byte + 1 < OamSize)
      /\ oam' = [oam EXCEPT ![byte] = Read(PageAddress(value, byte))]
      /\ UNCHANGED <<ram, value, pristine, startDelay>> /\ pc' = "core"
      /\ elapsed' = Longer
  BY DEF IInv, TypeOK, TickCopy, Tick, BytesLeft
<1>1. elapsed = byte + StartDelay /\ elapsed < LockTime
  BY <1>0, DmaAssumption DEF IInv, TypeOK, PositionIsAge, LockTime, Index
<1>2. /\ Read(PageAddress(value, byte)) \in Values
      /\ value = OamPage => Read(PageAddress(value, byte)) = OpenBus
  <2>1. CASE value = OamPage
    BY <1>0, <2>1, OamSource, DmaAssumption DEF Read
  <2>2. CASE value \in Pages
    <3> DEFINE place == Source(PageAddress(value, byte))
    <3>1. \/ place.array \in {"dmgBoot", "cartridge"}
          \/ place \in Cells /\ place.array \in RamArrays
      BY <1>0, <2>2, PageSource
    <3>2. Read(PageAddress(value, byte)) = IF place.array \in DOMAIN Rom THEN Rom[place.array]
                                                                         ELSE contents[place]
      BY <1>0, <2>2, PageRead
    <3> HIDE DEF place
    <3>3. contents \in [Cells -> Values] /\ Rom \in [{"dmgBoot", "cartridge"} -> Values]
      BY DmaAssumption DEF IInv, Coherent
    <3>4. Read(PageAddress(value, byte)) \in Values
      BY <3>1, <3>2, <3>3 DEF RamArrays
    <3>5. value # OamPage
      BY <2>2, DmaAssumption DEF OamPage
    <3> QED  BY <3>4, <3>5
  <2> QED  BY <2>1, <2>2 DEF IInv, TypeOK
<1>3. TypeOK'
  <2>0. byte \in 0..(OamSize - 1)
    BY <1>0 DEF Index
  <2>1. byte' \in 0..OamSize
    BY <1>0, <2>0, DmaAssumption
  <2>a. active' => byte' \in Index
    <3>1. active' => byte' < OamSize
      BY <1>0, Zenon
    <3> QED  BY <2>1, <3>1, DmaAssumption DEF Index
  <2>2. elapsed' \in 0..LockTime
    BY <1>0, <1>1, DmaAssumption DEF IInv, TypeOK, Longer, LockTime
  <2>3. active' \in BOOLEAN
    BY <1>0
  <2>4. oam' \in [Index -> Values]
    <3>1. Read(PageAddress(value, byte)) \in Values /\ oam \in [Index -> Values]
      BY <1>2 DEF IInv, TypeOK
    <3>2. oam' = [oam EXCEPT ![byte] = Read(PageAddress(value, byte))]
      BY <1>0
    <3> QED  BY <3>1, <3>2
  <2> QED  BY <1>0, <2>1, <2>a, <2>2, <2>3, <2>4 DEF IInv, TypeOK, ram
<1>4. PositionIsAge'
  <2>1. elapsed' = byte' + StartDelay /\ byte' <= OamSize
    BY <1>0, <1>1, DmaAssumption DEF IInv, TypeOK, Longer, LockTime, Index
  <2>2. CASE byte + 1 < OamSize
    <3>1. active'
      BY <1>0, <2>2, Zenon
    <3> QED  BY <1>0, <2>1, <3>1, DmaAssumption DEF PositionIsAge
  <2>3. CASE ~(byte + 1 < OamSize)
    <3>1. ~active'
      BY <1>0, <2>3, Zenon
    <3>2. byte' = OamSize
      BY <1>0, <2>1, <2>3, DmaAssumption DEF Index
    <3> QED  BY <2>1, <3>1, <3>2, DmaAssumption DEF PositionIsAge, LockTime
  <2> QED  BY <2>2, <2>3
<1>5. CopiesThePage'
  <2> SUFFICES ASSUME pristine', NEW j \in 0..(byte' - 1)
               PROVE  oam'[j] = IF value' = OamPage THEN OpenBus ELSE Read(PageAddress(value, j))'
    BY DEF CopiesThePage
  <2>0. value' = value /\ booted' = booted /\ contents' = contents /\ pristine
    BY <1>0 DEF ram
  <2>1. j \in Index /\ (j = byte \/ j \in 0..(byte - 1))
    BY <1>0, DmaAssumption DEF Index
  <2>2. oam'[j] = IF value = OamPage THEN OpenBus ELSE Read(PageAddress(value, j))
    <3>1. CASE j = byte
      <4>1. oam'[byte] = Read(PageAddress(value, byte))
        BY <1>0 DEF IInv, TypeOK
      <4>2. value = OamPage => Read(PageAddress(value, byte)) = OpenBus
        BY <1>2
      <4>3. CASE value = OamPage
        BY <3>1, <4>1, <4>2, <4>3
      <4>4. CASE value # OamPage
        BY <3>1, <4>1, <4>4, Zenon
      <4> QED  BY <4>3, <4>4
    <3>2. CASE j # byte
      <4>1. oam'[j] = oam[j]
        BY <1>0, <2>1, <3>2 DEF IInv, TypeOK
      <4> QED  BY <2>0, <2>1, <3>2, <4>1 DEF IInv, CopiesThePage
    <3> QED  BY <3>1, <3>2
  <2>3. CASE value # OamPage
    <3>1. value \in Pages
      BY <2>3 DEF IInv, TypeOK
    <3>2. Read(PageAddress(value, j))' = Read(PageAddress(value, j))
      BY <2>0, <2>1, <3>1, PageKept
    <3> QED  BY <2>0, <2>2, <2>3, <3>2
  <2> QED  BY <2>0, <2>2, <2>3
<1>6. Coherent'
  BY <1>0 DEF IInv, Coherent, ram
<1> QED  BY <1>3, <1>4, <1>5, <1>6 DEF IInv

(* Every step keeps the invariant. *)
LEMMA InvStep == IInv /\ [Next]_vars => IInv'
<1>1. ASSUME IInv, UNCHANGED vars
      PROVE  IInv'
  <2>1. TypeOK' /\ PositionIsAge' /\ Coherent'
    BY <1>1 DEF IInv, TypeOK, PositionIsAge, Coherent, vars, dma, history, ram
  <2>2. CopiesThePage'
    BY <1>1, CopyKept DEF vars, dma, history
  <2> QED  BY <2>1, <2>2 DEF IInv
<1> QED  BY <1>1, StartStep, MemoryStep, OamStep, OtherStep, IdleStep, DelayStep, CopyStep
         DEF Next, DmaTick

(* A transfer is always where its age says, whatever the program writes. *)
THEOREM Invariance == Spec => []IInv
  BY InvInit, InvStep, PTL DEF Spec

(* OAM is locked for exactly the delay and one M-cycle per byte. *)
THEOREM LockIsExact == Spec => []LockedExactlyAsLong
<1>1. IInv => LockedExactlyAsLong
  BY DmaAssumption DEF IInv, TypeOK, PositionIsAge, LockedExactlyAsLong, LockTime, Index
<1> QED  BY <1>1, Invariance, PTL

(* What a transfer has copied is what its page holds. *)
THEOREM CopyIsFaithful == Spec => []CopiesThePage
<1>1. IInv => CopiesThePage
  BY DEF IInv
<1> QED  BY <1>1, Invariance, PTL

(* No access to memory runs off the end of an array, and a read of RAM     *)
(* returns what was last written at the address or at its mirror.          *)
THEOREM MemoryIsCoherent == Spec => []ReadsLastWrite
<1>1. IInv => ReadsLastWrite
  BY RamIsVisible, AccessesInBounds DEF IInv, Coherent, ReadsLastWrite
<1> QED  BY <1>1, Invariance, PTL

(* The DMA unit never writes past the end of OAM. *)
THEOREM TypeCorrect == Spec => []TypeOK
<1>1. IInv => TypeOK
  BY DEF IInv
<1> QED  BY <1>1, Invariance, PTL
=============================================================================
