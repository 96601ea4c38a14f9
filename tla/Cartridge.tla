----------------------------- MODULE Cartridge -----------------------------
(***************************************************************************)
(* Loading a ROM, its battery RAM and its save file                        *)
(* (src/src/cartridge/cartridge.cpp, battery_ram.cpp and the constructors  *)
(* and destructors of the mappers).  A cartridge with a battery keeps its  *)
(* RAM in a file named after the ROM, written through byte by byte; an     *)
(* MBC3 clock is appended to that file only when the mapper is destroyed.  *)
(* Loading takes two steps: the save is opened, or created empty, before   *)
(* the mapper reads it, or writes its blank RAM to it.                     *)
(* The process may be killed between any two steps, or with that blank     *)
(* half written, and files outlive it.                                     *)
(* A file that exists may load, or be rejected once its bytes are in       *)
(* place; and the save may be a file that cannot be opened.                *)
(*                                                                         *)
(* A cell stands for a bank of RAM; the clock's trailer takes one cell.    *)
(***************************************************************************)
EXTENDS Mapper, Sequences

CONSTANTS
    Roms,           \* [stem, kind, banks, size, battery, clock, rumble, good]:
                    \* the file name without its extension, its mapper, its banks
                    \* of ROM and of RAM, what else it has, and whether it loads
    Values,         \* what a cell holds, or the clock shows
    Blank,          \* 0xFF (0x0F on an MBC2), of which fresh RAM is full
    Zero,           \* 0x00, of a fresh clock and of a hole in a file
    NoFile, None,
    OpenBus,        \* what a window shows beyond the end of the ROM
    Reloads         \* TRUE: the host calls loadRom again on one Emu

ASSUME CartridgeAssumption ==
    /\ {Blank, Zero} \subseteq Values
    /\ None \notin Roms /\ None \notin Values /\ NoFile \notin Seq(Values)
    /\ \A rom \in Roms :
           /\ rom.kind \in Kinds /\ rom.banks \in Nat \ {0}
           /\ rom.size \in Nat
           /\ rom.clock => rom.battery /\ rom.kind = "MBC3"
           \* A motor takes the place of half of the RAM banks.
           /\ rom.rumble => rom.size <= Mbc5Ram \div 2

Stems == {rom.stem : rom \in Roms}

VARIABLES
    files,          \* the save files, NoFile or a sequence of cells
    alive,          \* there is an Emu, and so a Cartridge
    battery,        \* the stem of the save file, or None
    stream,         \* that file is open
    saveExists,     \* and was there before
    romData,        \* by bank, the ROM whose bytes it holds, or None
    memory,         \* the mapper: its ROM, or None
    ram, rtc,       \* its RAM and its clock
    loading         \* the ROM whose save is open and whose mapper is still to
                    \* be made, or None

\* History, of the times a game had its save open: what it last wrote to each
\* cell of its RAM, or None; the time its clock showed when it was last put
\* away, or the save closed before it was; and the games whose save a kill cut short
\* while it was being created.
VARIABLES written, shown, cutShort

object == <<alive, battery, stream, saveExists, romData, memory, ram, rtc, loading, registers>>
history == <<written, shown, cutShort>>
vars == <<files, object, history>>

LastBank == CHOOSE n \in {MaxBanks[kind] : kind \in Kinds} :
                \A kind \in Kinds : MaxBanks[kind] <= n
NoBytes  == [bank \in 0..(LastBank - 1) |-> None]

Filled(n, v) == [i \in 1..n |-> v]

Init ==
    /\ files = [stem \in Stems |-> NoFile]
    /\ alive = FALSE /\ battery = None /\ stream = FALSE /\ saveExists = FALSE
    /\ romData = NoBytes /\ memory = None /\ ram = <<>> /\ rtc = Zero /\ loading = None
    /\ MapperInit
    /\ written = [rom \in Roms |-> Filled(Cells(rom), None)]
    /\ shown = [rom \in Roms |-> Zero] /\ cutShort = {}

-----------------------------------------------------------------------------
(***************************************************************************)
(* BatteryRam                                                              *)
(***************************************************************************)
\* saveAt: past the end of the file the hole reads as zeros.
Grown(file, n) == IF Len(file) >= n THEN file ELSE file \o Filled(n - Len(file), Zero)

SaveAt(file, offset, data) ==
    LET f == Grown(file, offset + Len(data))
    IN  [i \in DOMAIN f |-> IF i - offset \in DOMAIN data THEN data[i - offset] ELSE f[i]]

\* load: what a short file does not hold stays as it was.
Load(file, data) == [i \in DOMAIN data |-> IF i <= Len(file) THEN file[i] ELSE data[i]]

\* The constructor opens the file, or creates it empty.
Opened(file) == IF file = NoFile THEN <<>> ELSE file

-----------------------------------------------------------------------------
(***************************************************************************)
(* The mappers                                                             *)
(***************************************************************************)
HasClock(rom) == rom # None /\ rom.clock

\* The clock's trailer follows the RAM.  Mutant: it starts with its last cell.
TrailerEarly(rom) == Cells(rom) - 1

TrailerAt(rom) == Cells(rom)

\* ~MBC3, with the battery object as it is then.
SavedBy(rom, file) == SaveAt(file, TrailerAt(rom), <<rtc>>)

\* The constructors: RAM is read from a save that exists and written to one
\* that does not.
RamOf(rom, existed, file) ==
    IF rom.battery /\ existed THEN Load(file, Filled(Cells(rom), Blank))
    ELSE Filled(Cells(rom), Blank)

\* loadRtcState
ClockOf(rom, file) ==
    IF rom.clock /\ Len(file) >= Cells(rom) + 1 THEN file[Cells(rom) + 1] ELSE Zero

FileOf(rom, existed, file) == IF existed THEN file ELSE SaveAt(file, 0, Filled(Cells(rom), Blank))

-----------------------------------------------------------------------------
(***************************************************************************)
(* Emu, Cartridge                                                          *)
(***************************************************************************)
NoMapper ==
    /\ battery' = None /\ stream' = FALSE /\ saveExists' = FALSE /\ romData' = NoBytes
    /\ memory' = None /\ ram' = <<>> /\ rtc' = Zero /\ loading' = None
    /\ Construct

NewEmu ==
    /\ ~alive
    /\ alive' = TRUE
    /\ NoMapper
    /\ UNCHANGED <<files, history>>

MayLoad == alive /\ loading = None /\ (Reloads \/ memory = None)

\* readRomFile: a shorter ROM leaves the rest of the bytes as they were.
Read(rom) ==
    romData' = [bank \in DOMAIN romData |-> IF bank < rom.banks THEN rom ELSE romData[bank]]

\* A file that is missing, or too short for a header.
LoadMisses == MayLoad /\ UNCHANGED vars

\* A ROM with a bad checksum or an unknown type: the mapper stays, if there is
\* one, over the new ROM's bytes.
LoadFails(rom) ==
    /\ MayLoad /\ ~rom.good
    /\ Read(rom)
    /\ UNCHANGED <<files, alive, battery, stream, saveExists, memory, ram, rtc, loading, registers, history>>

\* The mapper that goes is put away first; its clock goes to the file the
\* battery has by then, if that is open.
PutAway ==
    IF HasClock(memory) /\ stream THEN [files EXCEPT ![battery] = SavedBy(memory, @)]
    ELSE files

PutAwayShown ==
    IF memory # None /\ stream /\ battery = memory.stem THEN [shown EXCEPT ![memory] = rtc]
    ELSE shown

\* initMemory without a battery: the old file stays open, unused.
LoadPlain(rom) ==
    /\ MayLoad /\ rom.good /\ ~rom.battery
    /\ Read(rom)
    /\ files' = PutAway
    /\ memory' = rom /\ Construct
    /\ ram' = RamOf(rom, FALSE, <<>>)
    /\ rtc' = Zero
    /\ shown' = PutAwayShown
    /\ UNCHANGED <<alive, battery, stream, saveExists, loading, written, cutShort>>

\* initMemory with a battery, the first step: battery.emplace closes the old
\* save and opens the new one, or creates it empty.  The old mapper is still
\* there.
OpenSave(rom) ==
    /\ MayLoad /\ rom.good /\ rom.battery
    /\ Read(rom)
    /\ battery' = rom.stem /\ stream' = TRUE
    /\ saveExists' = (files[rom.stem] # NoFile)
    /\ files' = [files EXCEPT ![rom.stem] = Opened(@)]
    /\ loading' = rom
    /\ shown' = PutAwayShown
    /\ UNCHANGED <<alive, memory, ram, rtc, registers, written, cutShort>>

\* The second: memoryStorage.emplace destroys the old mapper and makes the new
\* one, which reads the save or writes its blank RAM.
MakeMapper ==
    /\ loading # None
    /\ ram' = RamOf(loading, saveExists, PutAway[battery])
    /\ files' = [PutAway EXCEPT ![battery] = FileOf(loading, saveExists, @)]
    /\ rtc' = ClockOf(loading, files'[battery])
    /\ memory' = loading /\ Construct
    /\ loading' = None
    /\ shown' = PutAwayShown
    /\ UNCHANGED <<alive, battery, stream, saveExists, romData, written, cutShort>>

\* The save can be opened in neither mode: the game starts afresh, and saves
\* nothing.
LoadUnsaved(rom) ==
    /\ MayLoad /\ rom.good /\ rom.battery
    /\ Read(rom)
    /\ battery' = rom.stem /\ stream' = FALSE /\ saveExists' = FALSE
    /\ memory' = rom /\ Construct
    /\ ram' = RamOf(rom, FALSE, <<>>)
    /\ rtc' = Zero
    /\ shown' = PutAwayShown
    /\ UNCHANGED <<files, alive, loading, written, cutShort>>

\* Mutant: RAM reaches the file when it is put away, not before.
WrittenBack(i, v) == files

\* saveByte, flushed.
WrittenThrough(i, v) ==
    IF memory.battery /\ stream THEN [files EXCEPT ![battery] = SaveAt(@, i - 1, <<v>>)]
    ELSE files

\* There is a mapper, and none in the making.
Running == memory # None /\ loading = None

\* The game writes its RAM, in the bank it has selected.
WriteRam ==
    /\ Running
    /\ RamOpen(memory)
    /\ \E v \in Values :
           LET i == RamCell(memory) + 1
           IN  /\ ram' = [ram EXCEPT ![i] = v]
               /\ files' = WrittenThrough(i, v)
               /\ written' = IF memory.battery /\ stream THEN [written EXCEPT ![memory][i] = v]
                             ELSE written
    /\ UNCHANGED <<alive, battery, stream, saveExists, romData, memory, rtc, loading, registers>>
    /\ UNCHANGED <<shown, cutShort>>

\* Its clock runs, or it sets it (module Rtc).
ClockMoves ==
    /\ Running /\ HasClock(memory)
    /\ rtc' \in Values
    /\ UNCHANGED <<files, alive, battery, stream, saveExists, romData, memory, ram, loading, registers, history>>

\* It selects a bank.
SelectBank ==
    /\ Running
    /\ WriteRegister(memory)
    /\ UNCHANGED <<files, alive, battery, stream, saveExists, romData, memory, ram, rtc, loading, history>>

\* ~Emu: the mapper is destroyed before the battery.
DeleteEmu ==
    /\ alive /\ loading = None
    /\ files' = PutAway
    /\ shown' = PutAwayShown
    /\ alive' = FALSE
    /\ NoMapper
    /\ UNCHANGED <<written, cutShort>>

\* A save that was not there is being created.
Creating == loading # None /\ ~saveExists

\* The process is killed: no destructor runs.
Killed ==
    /\ alive' = FALSE
    /\ NoMapper
    /\ cutShort' = IF Creating THEN cutShort \cup {loading} ELSE cutShort
    /\ UNCHANGED written

Crash == alive /\ Killed /\ UNCHANGED <<files, shown>>

\* It is killed in MakeMapper, with a part of the blank RAM in the new save.
CrashWhileSaving ==
    /\ Creating
    /\ \E n \in 0..(Cells(loading) - 1) :
           files' = [PutAway EXCEPT ![battery] = SaveAt(@, 0, Filled(n, Blank))]
    /\ shown' = PutAwayShown
    /\ Killed

Next ==
    \/ NewEmu \/ LoadMisses \/ MakeMapper \/ WriteRam \/ ClockMoves \/ SelectBank
    \/ DeleteEmu \/ Crash \/ CrashWhileSaving
    \/ \E rom \in Roms : LoadFails(rom) \/ LoadPlain(rom) \/ OpenSave(rom) \/ LoadUnsaved(rom)

Spec == Init /\ [][Next]_vars

-----------------------------------------------------------------------------
\* Mutant: bytes past the end of the ROM are read like any others.
ReadRomAll(rom, bank) == romData[bank]

\* readRom
ReadRom(rom, bank) == IF bank < Banks(rom) THEN romData[bank] ELSE OpenBus

Wraps(rom) ==
    \/ rom.kind = "ROM" /\ Banks(rom) > 1
    \/ rom.kind \in {"MBC1", "MBC3", "MBC5"} /\ Banks(rom) = LinesOf(rom)

\* What a cell comes back as, by what its game last wrote to it.
Left(last, cut, v) == IF last # None THEN v = last ELSE v = Blank \/ (cut /\ v = Zero)

(* A game with a battery finds every cell of RAM that it wrote as it left  *)
(* it, whether the emulator was closed or killed, at whatever moment, its  *)
(* save opening, being created or in use, and whatever else was played     *)
(* meanwhile.  A cell that it never wrote is blank; only if a kill cut the *)
(* creation of its save short may it be zero, a hole in the file.  Times   *)
(* when its save could not be opened are lost, and cost it nothing of what *)
(* it had saved before.                                                    *)
RamSurvives ==
    memory # None /\ memory.battery /\ stream =>
        \A i \in 1..Cells(memory) : Left(written[memory][i], memory \in cutShort, ram[i])

(* A game with a clock finds it at the time it showed when the game was    *)
(* last put away, or its save closed before it was.  (A killed emulator    *)
(* loses the time since: only the destructor saves it.)                    *)
ClockSurvives ==
    [][HasClock(loading) /\ MakeMapper => rtc' = shown'[loading]]_vars

(* Whatever the program selects, the windows show it a bank of its own     *)
(* ROM, never bytes that an earlier, longer ROM left behind: a number that *)
(* is too large wraps, and only on an MBC2, where the banks are no power   *)
(* of two, or with no mapper and one bank, may it read as open bus.        *)
WindowsShowTheGame ==
    memory # None =>
        \A bank \in {LowWindow(memory, bank2, bankingMode), HighWindow(memory, romBank, bank2)} :
            \/ ReadRom(memory, bank) = memory
            \/ ReadRom(memory, bank) = OpenBus /\ ~Wraps(memory)

(* No bank of its ROM or RAM is out of a program's reach. *)
EveryBankVisible == memory # None => Reachable(memory)
=============================================================================
