-------------------------------- MODULE Dma --------------------------------
(***************************************************************************)
(* OAM DMA (src/src/video/dma.cpp) and the CPU's access to memory while it *)
(* runs (src/src/memory/memory.cpp, src/src/video/lcd.cpp).  In every      *)
(* M-cycle the CPU makes at most one bus access and the DMA unit then      *)
(* ticks (src/src/system/emu.cpp): it counts down its start delay or       *)
(* copies one byte, which it reads through the memory map as the CPU does. *)
(* It does not own the bus: the CPU may write the page being copied, at    *)
(* its own addresses or at their mirrors, may latch the boot ROM off, and  *)
(* may start another transfer, while one is under way.                     *)
(***************************************************************************)
EXTENDS MemoryMap

CONSTANTS
    OamSize,        \* 0xA0: bytes of OAM, and bytes copied
    StartDelay,     \* 2: M-cycles before the first byte
    Pages,          \* pages of memory to copy from, below OAM
    Rom,            \* the bytes of the boot ROM and of the cartridge
    OpenBus         \* 0xFF

Index == 0..(OamSize - 1)

\* The page that holds OAM itself.
OamPage == 254

PageAddress(page, i) == 256 * page + i

ASSUME DmaAssumption ==
    /\ OamSize \in 1..160
    /\ StartDelay \in Nat
    /\ Pages \subseteq 0..253
    /\ \A page \in Pages, i \in Index :
           Target(PageAddress(page, i)).array = "cartridge" \/ PageAddress(page, i) \in Addresses
    /\ Rom \in [{"dmgBoot", "cartridge"} -> Values]
    /\ OpenBus \in Values

\* M-cycles a transfer takes.
LockTime == StartDelay + OamSize

VARIABLES
    active, byte, value, startDelay,    \* DMA
    oam,
    pc              \* what runs next in the M-cycle: the "core" or the "dma"

\* History.
VARIABLES
    elapsed,        \* DMA ticks since a transfer was started, up to LockTime
    pristine        \* neither its page nor OAM was changed since

dma == <<active, byte, value, startDelay>>
history == <<elapsed, pristine>>
vars == <<ram, dma, oam, pc, history>>

Init ==
    /\ RamInit
    /\ active = FALSE /\ byte = 0 /\ value = OamPage /\ startDelay = 0
    /\ oam \in [Index -> Values]
    /\ pc = "core"
    /\ elapsed = LockTime /\ pristine = FALSE

-----------------------------------------------------------------------------
(***************************************************************************)
(* The CPU's bus access.                                                   *)
(***************************************************************************)
Core == pc = "core" /\ pc' = "dma"

\* A write of 0xFF46 starts a transfer, also over one under way.
WriteDMA ==
    /\ Core
    /\ \E page \in Pages \cup {OamPage} : value' = page
    /\ active' = TRUE
    /\ byte' = 0
    /\ startDelay' = StartDelay
    /\ elapsed' = 0 /\ pristine' = TRUE
    /\ UNCHANGED <<ram, oam>>

\* The transfer reads this cell.
Feeds(cell) == \E i \in Index : Source(PageAddress(value, i)) = cell

WriteMemory ==
    /\ Core
    /\ \E a \in Addresses, data \in Values :
           /\ Write(a, data)
           /\ pristine' = (pristine /\ ~Feeds(Target(a)))
    /\ UNCHANGED <<dma, oam, elapsed>>

\* Mutant: the write is not locked out.
OamUnlocked == TRUE

\* Memory::write to OAM is dropped while a transfer is active.
OamOpen == ~active

WriteOam ==
    /\ Core
    /\ \E i \in Index, data \in Values :
           oam' = IF OamOpen THEN [oam EXCEPT ![i] = data] ELSE oam
    /\ pristine' = (pristine /\ active)
    /\ UNCHANGED <<ram, dma, elapsed>>

Otherwise ==
    /\ Core
    /\ WriteElsewhere
    /\ pristine' = (pristine /\ (value = 0 => booted' = booted))
    /\ UNCHANGED <<dma, oam, elapsed>>

-----------------------------------------------------------------------------
(***************************************************************************)
(* DMA::tick                                                               *)
(***************************************************************************)
\* Memory::read: OAM reads as open bus while a transfer is active.
Read(a) ==
    LET place == Source(a) IN
    IF place.array = "oam" THEN (IF active THEN OpenBus ELSE oam[place.index]) ELSE
    IF place.array \in DOMAIN Rom THEN Rom[place.array] ELSE contents[place]

Longer == IF elapsed < LockTime THEN elapsed + 1 ELSE elapsed

Tick ==
    /\ pc = "dma" /\ pc' = "core"
    /\ UNCHANGED <<ram, value, pristine>>

TickIdle ==
    /\ Tick
    /\ ~active
    /\ UNCHANGED <<active, byte, startDelay, oam, elapsed>>

TickDelay ==
    /\ Tick
    /\ active /\ startDelay > 0
    /\ startDelay' = startDelay - 1
    /\ elapsed' = Longer
    /\ UNCHANGED <<active, byte, oam>>

\* Mutant: off by one.
BytesLeftShort(n) == n < OamSize - 1

BytesLeft(n) == n < OamSize

TickCopy ==
    /\ Tick
    /\ active /\ startDelay = 0
    /\ oam' = [oam EXCEPT ![byte] = Read(PageAddress(value, byte))]
    /\ byte' = byte + 1
    /\ active' = BytesLeft(byte')
    /\ elapsed' = Longer
    /\ UNCHANGED startDelay

DmaTick == TickIdle \/ TickDelay \/ TickCopy

Next == DmaTick \/ WriteDMA \/ WriteMemory \/ WriteOam \/ Otherwise

\* Emu::tick runs the core and then the DMA unit on every fourth T-cycle.
Spec == Init /\ [][Next]_vars

-----------------------------------------------------------------------------
(* Type invariant of the DMA unit: it never writes past the end of OAM.    *)
TypeOK ==
    /\ active \in BOOLEAN
    /\ byte \in 0..OamSize
    /\ active => byte \in Index
    /\ value \in Pages \cup {OamPage}
    /\ startDelay \in 0..StartDelay
    /\ oam \in [Index -> Values]
    /\ booted \in BOOLEAN
    /\ pc \in {"core", "dma"}
    /\ elapsed \in 0..LockTime
    /\ pristine \in BOOLEAN

(* A transfer keeps OAM from the CPU for exactly its delay and one M-cycle *)
(* per byte, counted from the last write of 0xFF46, however often the      *)
(* program restarts it, and never writes past the end of OAM.              *)
LockedExactlyAsLong ==
    /\ active <=> elapsed < LockTime
    /\ active => byte \in Index

(* What has been copied so far is what the CPU reads at the page, unless   *)
(* the program changed it, also at a mirror of its addresses: whatever it  *)
(* wrote to OAM meanwhile had no effect, and nothing of a transfer that    *)
(* was cut short is left.  OAM copied to itself reads as open bus.         *)
CopiesThePage ==
    pristine => \A i \in 0..(byte - 1) :
        oam[i] = IF value = OamPage THEN OpenBus ELSE Read(PageAddress(value, i))

-----------------------------------------------------------------------------
(* The position of a transfer gives its age: the strengthening that makes  *)
(* the length of the lock inductive.                                       *)
PositionIsAge ==
    IF active
    THEN elapsed = byte + (StartDelay - startDelay) /\ (startDelay > 0 => byte = 0)
    ELSE elapsed = LockTime

(* What memory holds at a cell is what was last written at any address of  *)
(* the cell: the inductive form of ReadsLastWrite.                         *)
Coherent ==
    /\ contents \in [Cells -> Values]
    /\ \A a \in Ram : contents[Target(a)] = written[a]

IInv == TypeOK /\ Coherent /\ PositionIsAge /\ CopiesThePage
=============================================================================
