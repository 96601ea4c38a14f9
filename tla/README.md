# gbemo-core: specifications, model checking and proofs

`gbemo-core` emulates the Game Boy (DMG) at the level of T-cycles and M-cycles.
It is one C++ library with one entry point for time, `Emu::tick` (`src/src/system/emu.cpp`).
Nothing in it runs in parallel; what is hard to test is *cycle-level* concurrency.
In every T-cycle several units read and write shared registers in a fixed order, the program
may write any register in one T-cycle out of four, and the host presses keys, replaces the
cartridge or kills the process between any two ticks. A defect is an order of such
events that no test ROM happens to produce.

This directory holds TLA+ modules of those units, configurations of TLC that check them on small
instances, and TLAPS proofs of the most important properties for all sizes. `PROJECT.json` is
the index: components, runs, mutants of each property, the source lines of each definition,
hazards, findings and theorems.

    tlc -workers 2 -config MCTimer.cfg MCTimer       # any run of the table below
    tlapm IoProofs.tla                               # any *Proofs module

## 1. The system

One call of `Emu::tick` is a T-cycle:

1. `timer.tick()`: the divider steps, TIMA may count, a reload may land; on the fall of divider
   bit 4 it calls `apu.increaseDiv()`.
2. if `globalTicks % 4 == 0`: `core.tick()` (one M-cycle of the CPU with at most one bus
   access) and then `dma.tick()`.
3. `ppu.tick()`, then `apu.tick()`; `globalTicks++`.

So a register write happens *after* the timer of its T-cycle and *before* the PPU of the same
one. `globalTicks` belongs to the process and not to an `Emu`, so the first tick of a new `Emu` may
have any phase; all models start with any. (Two `Emu`s ticked in turn share the counter, and
one of them may then never run its CPU; the models have one.)

| Component | State | Operations | Interacts with | What is hard | What makes it correct |
|---|---|---|---|---|---|
| Timer (`system/timer.cpp`) | DIV, TIMA, TMA, TAC, edge latch, reload countdown | `tick`, `read`, `write` of four registers | raises IF bit 2; clocks the APU; written by the CPU in its slot | writes that race the reload and the clock's edge | every overflow answered once; no stale edge; the timer never stops |
| CPU sequencer (`cpu/control_unit.cpp`, `idu.cpp`, `core.cpp`) | PC, SP, IR, Z and W, cycle, IME, EI delay, HALT, CB prefix, dispatch | `executeInstruction`, two decoders, 512 opcodes | reads and clears IF; its pushes may hit IE, IF and any I/O register | requests in any cycle against EI, DI, HALT, RETI, CB; overlapping patterns in the decoders | a dispatch starts only at a legal boundary and returns to the instruction it put off; the stack is balanced; no handler throws |
| ALU, register file (`alu.cpp`, `register_file.cpp`) | eight registers, flags | pure operations | CPU | which flags an instruction leaves alone; DAA; words in two halves | whole routines compute what they should |
| Interrupts (`system/interrupts.cpp`) | IE, IF | get and set, by byte and by bit | everything | set by units, cleared by the CPU | no request lost or made up |
| PPU raster and pipeline (`video/ppu.cpp`, `ppu_sm.cpp`, `fifo.cpp`) | mode, LY, line position, fetcher, FIFO, window line, STAT line | `tick`, state machine of four modes | LCD registers written by the CPU; raises VBlank and STAT; reads VRAM and OAM | LCD switched off mid-line, SCX/WX/LYC/STAT changed mid-line | lines of exactly 456 cycles, all pixels drawn, one VBlank per frame, STAT on rising edges |
| Sprite selection and mixing (`PPU::loadLineSpites`, `pipelineLoadSpriteTile`, `fetchSpritePixels`) | list of the line; sprites of a tile | once per line; once per tile | OAM, VRAM, LCDC | ties, both ends of a sprite, the limit of ten; sprites across tiles and edges; priority | first ten of OAM, in drawing order; each pixel is that of the nearest opaque one |
| LCD registers (`video/lcd.cpp`) | LCDC, STAT, SCX, ... | `read`, `write` | PPU, DMA | read-only bits | see PPU |
| OAM DMA (`video/dma.cpp`) | active, source page, index, delay | `start`, `tick` | locks OAM against the CPU; reads any page | restart over a running transfer; CPU writing the page | the lock lasts as long as the transfer; the copy is faithful |
| Memory map (`memory/memory.cpp`, buses) | VRAM, WRAM, HRAM, boot ROM | `read`, `write` | dispatches to all units | region ends, echo RAM | in bounds; mirrors coherent |
| I/O registers and serial (`memory/memory_io.cpp`) | SB, SC, log, boot latch | `read`, `write` | raises IF bit 3; the host reads the log | log at its limit | the log holds what was sent |
| Joypad (`system/joypad.cpp`) | keys held, column selection | `press`, `release`, `read`, `write` | host calls, CPU; raises IF bit 4 | two keys on one line; selection changed while held | a request for each fall of a line and no other |
| Cartridge and battery (`cartridge/cartridge.cpp`, `battery_ram.cpp`) | ROM, mapper, save file | `loadRom`, destructor, `saveByte` | host, files that outlive the process | kills, also between the steps of a load, replacement, rejected ROMs, saves that do not open, clock trailer | a game finds its RAM and clock as it left them, and its own ROM |
| Mappers (`mbc1.cpp` ... `rom_only.cpp`) | bank registers, RAM enable | `read`, `write` | CPU; battery; clock | masks, bank 0, limits; what lies in the RAM window | windows show the game's own banks, and each of them |
| MBC3 clock (`mbc3.cpp`) | five counters, latched copy, last tick | `tickRtc`, latch, set, save and load | `globalTicks`, save file | computed only when looked at | equals a clock that ticks |
| APU channels, sequencer (`pulse_channel.cpp`, `wave_channel.cpp`, `noise_channel.cpp`, `apu.cpp`) | length, envelope, sweep, shift register | `increaseDiv`, register writes, trigger | clocked by the timer | writes between sequencer steps; widths of lengths and periods | notes end; the envelope is followed; the sweep does not wrap; the noise is not stuck |
| APU mixer, filter, waveforms | filter state, positions | `tick` | - | - | - |
| Debug output, `SystemClock` | none that feeds back | print | - | - | - |

## 2. The modules

Each module names the code's variables and functions where it can. A comment *History* marks a
variable the code does not have, kept only to state a property. A definition commented *Mutant* is
a plausible defect which no action uses; each property is known to fail when the corresponding
definition is replaced by it (`mutants` in `PROJECT.json`).

**`Timer`** - `timer.cpp` and the slot of `emu.cpp`. `pc` says whether the timer's half of the
T-cycle (`Tick`) or the CPU's (`Core`: one `WriteXXX`, `SetIF` or `ElseWhere`) is next;
`phase` is `globalTicks % 4`. `UpdateEdge` is `Timer::updateEdge`, `ReloadDue` and the rest of `Tick` is
`Timer::tick`. History: `owed`, overflows not yet answered. `IoProofs` has its theorems.

**`ControlUnit`** - `executeInstruction` and the sub-steps of all opcodes. An opcode is
represented by its *kind*: the sequence of what its M-cycles do to PC, SP and the bus
(`Microcode`). Data is abstracted: the next opcode, a jump target, a condition and what a push to
IE or IF writes are free choices. One step is an M-cycle or `Raise`, a request from a unit between two
of them. Each of the five cycles of a dispatch is an action. HALT with and without its bug, EI's delay, RETI
and the CB prefix are in. History: `start`, `baseSP`, `pushedPC`, `last`, `repeated`. `CpuProofs` has its theorems.

**`Cpu`** is the same sequencer with the data: **`Decoder`** has both decoders, exact opcodes first and then the patterns
in their order; **`Alu`** the operations of `alu.cpp` and `idu.cpp` and the register file; and `Cpu` what every opcode does in each
of its cycles, to the registers and to a flat memory. An instruction is a sequence of cycles (`Cycles`), each with at most one
bus access (`Rd`, `Wr`, `M1`) and an effect on the registers, and the actions are one per kind of access. Undefined opcodes are
decoded to a Nop, and STOP does what a Nop does, as in the code. No interrupt is requested here. Instead,
`ImplementsSequencer` shows that `Cpu` implements `ControlUnit`: the refinement mapping keeps PC, SP, the cycle, IME, HALT and the CB
prefix and maps an opcode to its kind (`KindOf`). So what the other runs and the proofs say of dispatches between kinds of
instruction, they say of the real ones. **`CpuPrograms`** has routines in machine code and what they compute. `InstructionProofs` has the theorems of
`Cpu`, `Decoder` and `Alu`. `CpuAssumption` is what a program to be run is: memory and registers of bytes, and a NOP in IR, as the constructor of
the register file leaves it.
History: `origin`, `before`, `pushedPC`, `last`.

**`Ppu`** - `PPU::tick` with one action per branch of the mode machine, `SwitchOff`/`StayOff` for LCDC
bit 7, and the `LCD::write` actions in the CPU's slot before it. The pixel pipeline keeps counts: FIFO size, tiles
fetched, pixels pushed, and the fetcher's state. The STAT line is the wired-OR with its rising
edge. What a pixel looks like, and the palettes, are left out. History: `frameTicks`, `wasHigh`. `PpuProofs` has its theorems.

**`Sprites`** - the loop of `PPU::loadLineSpites`, a step (`ScanNext`) per OAM entry, with its theorems in `PpuProofs` too. **`Pixels`** EXTENDS it with the line that is then drawn: the sprites
fetched with each tile, and what each pixel of the tile shows when it is added to the FIFO. LCDC bits 0 and 1 may change at each of the two steps, and
video memory (a row of each sprite) between tiles; SCX stands still within the line. Palettes, tile addresses and which row of a sprite
is shown are left out. History: `objKept`, `pushed`. **`Fifo`** declares what `Ppu` and `Pixels` both speak of: tiles, the picture's width and the fetcher's place.

**`MemoryMap`** - the decoding in `Memory::read`/`write`, and the RAM arrays. **`Dma`** EXTENDS it with `DMA::start`/`tick`, which reads its page through the
same decoding, and the OAM lock. The CPU may write any address of the instance, the page, its mirror or OAM, write 0xFF46 again, or
unmap the boot ROM, in any M-cycle. History: `elapsed`, `pristine`, `written`. `DmaProofs` has the theorems of both.

**`Io`** composes **`MemoryIO`** (serial port, log, boot latch) and **`Joypad`** (host key calls, column
selection) over one IF: a write of IF may take back either request or both. `IoProofs` has its theorems.

**`Clock`** is what a real-time clock promises a game, one second at a time; **`Rtc`** is
`mbc3.cpp`, which computes it from the time that passed since it was last looked at. The refinement mapping
(`Ideal` in `Rtc`) reads the clock as what the mapper would show if it looked now:
`now <- CaughtUp, frozen <- latched, phase <- Remainder`. `RtcProofs` proves it one.

**`Mapper`** has the registers of MBC1, 2, 3, 5 and of a plain ROM, and what their two
ROM windows and their RAM window then show. **`Cartridge`** EXTENDS it with loading, battery RAM, save files
that survive, `~Emu` and a kill. Whether a file parses is one choice (`good`); one that does not has replaced the ROM's bytes all the same
(`romData`). A load with a battery takes two steps, as in the code: `OpenSave` is `battery.emplace`, which creates a save that is not there *empty*, and `MakeMapper` is `memoryStorage.emplace`, whose constructor
reads the save or fills the new one with blank RAM. Between them (`loading`) nothing but a kill can happen; a kill may also cut off the fill itself (`CrashWhileSaving`). One byte, or the 48 of the clock, are one write
and one step. A save may not open (`LoadUnsaved`). A cell stands for a bank of RAM (what is said of a cell holds of each byte of it). `Reloads` says whether the host
calls `loadRom` twice on one `Emu`. History: `written` (what the game wrote, cell by cell), `shown`, and `cutShort`, the games whose save a kill cut short when it was created. `CartridgeProofs` has
the theorems of both.

**`AudioChannel`** - one of the four channels under `APU::increaseDiv`; what the channels do not share (the sweep of channel 1, the wave's
missing envelope and its registers without initial values, the widths of lengths) depends on `channel`. **`NoiseChannel`** EXTENDS it with the timer and the
shift register of channel 4. The waveforms of the others are left out. History: `touched`, `age`, `narrowed`, `overflowed`. `AudioChannelProofs` has
the theorems of both.

`MC*` modules only give constants.

## 3. The runs

| Run | Shows | Bounds |
|---|---|---|
| `timer` | all interleavings of writes with the reload window: the edge latch is never stale; each overflow is answered once; in its cycle the reload and the CPU agree on TIMA; the interrupt comes from reloads only; an enabled timer left alone reloads for ever, and the APU is clocked for ever if DIV is left alone | the real clock bits 3, 5, 7, 9, APU bit 4 and latency 4, with the divider cut to the ten bits TAC can select (higher bits are only read); TIMA of 3 values (overflow, and one value in between) |
| `control_unit` | which boundary a dispatch starts at, that it serves the request it clears, returns to the instruction it put off, that calls return past their operands and that the stack is balanced, over all kinds of instruction, requests in any cycle and pushes onto IE and IF | 4 addresses: PC and SP wrap within one instruction, yet its three bytes are distinct; 2 requests, so that one can overtake another |
| `prefix` | *finding*: a dispatch between the CB prefix and its operand | 1 request, 4 kinds |
| `cpu` | decimal, word and bit arithmetic, comparisons, calls and returns come out right for whole routines; no opcode throws; each takes the cycles the sequencer has for its kind | real widths and addresses; all 512 opcodes on 12 or 6 sets of registers; all pairs of packed decimal bytes; all bytes and words of 7 or 256 bytes at the carries; all 256 offsets on 10 stack pointers; routines of up to ten iterations. Every routine ends in HALT, of which the rest of memory is full |
| `ppu` | lines complete and in step whatever is written mid-line, which a FIFO that overflows or runs dry would not leave them; VBlank once a frame; STAT on rising edges only; the window's row stays behind the picture's | real tile (8), FIFO (32) and fetcher; one tile of picture, 64 cycles a line (so that a transfer with the largest SCX and a stalled fetcher still has to fit), 4 lines of which 2 are visible (VBlank has lines that begin within it); SCX 0, 3, 7; all LCDC; three pairs of STAT sources, each of adjacent ones |
| `sprites` | the list is the first entries of OAM on the line, in drawing order; each pixel shows the sprite nearest on the whole line, or the background | 4 entries for 3 slots; Y at both ends of an 8 and a 16 row sprite; X beyond the left edge, within a tile and across two; both priorities, a flipped sprite; tiles of 2 pixels, a picture of one, both fine scrolls. The line ends, hence no deadlock check |
| `dma` | length of the lock, fidelity of the copy and coherence of memory under restarts and CPU writes | 3 bytes; pages of the boot ROM or cartridge, of work RAM and of its echo; real addresses, both ends of regions, with mirrors |
| `io` | each fall of a joypad line is requested and nothing else; the serial log up to and beyond its capacity | 3 keys of each column on 4 lines, 2 of them shared; log of 2 characters, 3 sent |
| `rtc` | `Rtc` implements `Clock` | radix 2 everywhere (each carry in each combination); up to 20 ticks between looks, which carries through several counters |
| `cartridge` | every cell that a game wrote, and its clock, survive closing and (RAM) kills, at any moment of loading too; a cell never written is blank, or zero if a kill cut the creation of the save short; the windows show the game's own banks, all of them reachable | two battery games, one of two cells (a write to the second leaves the first a hole) and one of a single cell and a clock (whose trailer does), any number of sessions; 2 values, blank and zero: a written cell that was lost to a hole or to blank RAM shows in the other; plain games of 1, 2 and 8 banks for each mapper and one of 3, a longer file that does not load; limit of 4 banks |
| `reload` | *finding*: a second `loadRom` writes the old clock into the new save | as `cartridge`, with 3 values and `Reloads` |
| `audio` | no note without an end; the volume is what NRx2 says; the sweep never wraps; the noise goes on | frequency of 3 bits, lengths of 3 (the wave's of 4 in a counter of 4, so that the longest is held as none), volumes of 4; shift register of 4 bits, 2 when short; noise periods beyond their type; sequencer of the real 8 steps; all four channels |

Widths are cut only where the code compares or wraps at the width and nowhere else: the models
take the width as a constant and the code's constant is a multiple or a larger instance of the
same shape. Every bound on a behaviour is named: `MaxSent`, `MaxElapsed`.

### Fairness

Only `timer` and `audio` check liveness. `Timer` assumes `WF_vars(Next)`: the host calls
`Emu::tick` for ever and a tick returns; which write the CPU makes, if any, is free, and
`KeepsReloading` says in its premise that the program leaves the registers alone and the timer
enabled from some time on. `KeepsClockingTheApu` only needs that DIV is left alone: a program that writes it often enough
stops the sequencer, because `WriteDIV` does not pass the APU (`timer.cpp:49`). `AudioChannel` assumes `WF_vars(IncreaseDiv)`, which is
what `KeepsClockingTheApu` shows, for programs that do leave it alone; `NotesEnd` is about those. No other specification assumes
fairness.

## 4. What is proved

All theorems hold for every value of the constants that satisfies the named ASSUMEs; TLC evaluates those
ASSUMEs in the run of the module. There are eight modules of proofs.

**`IoProofs`**, first part (`SizeAssumption`, `LatencyAssumption`, `ClockAssumption`): the timer. Type correctness, `EdgeInSync`,
`ReadsZeroDuringReload`, `OneAnswerPerOverflow`, `ReloadTakesTMA` and the action property
`RequestedByReload`. None but the first two is inductive: that TIMA cannot count up while a reload is due
depends on where the divider is. The strengthening `ReloadWindow` says why a reload due in k cycles
is safe. Either the divider itself made the overflow; then no clock bit falls in the next k cycles and the
selected one is low, so that a DIV or TAC write in the CPU's slot finds no edge. Or a write made it (or
the CPU's slot of the window is past); then no other slot comes before the reload, and only the selected
bit must not fall. `ClockAssumption` is what this needs of the clock bits: slow against the window, and low at zero;
the real ones satisfy it. The step lemmas are split by `Tick`, the edge-making writes (`EdgeWrite`) and the others
(`QuietWrite`).

**`DmaProofs`** (`MapAssumption`: any subset of the 64 KiB; `DmaAssumption`). Every address decodes inside its array, for reads and for writes
(`AccessesInBounds`); the key lemma is that two addresses share a cell exactly if they are mirrors. `PositionIsAge` ties the index and the delay of a
transfer to the time since the last start; with it the length of the lock, the bound on the index and the fidelity of the copy are
inductive, for all sizes of OAM, delays, pages and byte values. `Coherent` is the same of the cells of RAM, from which
`ReadsLastWrite` follows. Where the two meet are the lemmas on `PageSource` and `OamSource`: a page is never read from OAM, and so never through the lock.

**`CpuProofs`** (`ControlUnitAssumption`: any address space, any sources and vectors, any
of the kinds). Its first part is about dispatches: `TypeOK`, `DispatchCoherent`, and the action properties `DispatchWindow` and
`ServesWhatItClears`. It shows once that the microcode of each kind is well formed (only its last cycle is one that fetches), so that the cycle never
passes the end of the instruction in IR. `TypeOK` and `DispatchCoherent` do not give where a dispatch may start;
`WindowShut` does: after EI, DI or a dispatch the CPU is awake and IME is off at the next boundary, and a
pending EI is settled only when that boundary has been passed. `DispatchTarget` says that from the fifth cycle on PC is the vector
of the request chosen in the first. TLC agrees that the whole invariant (`IInv`) holds on the instance of `control_unit`.
The lemmas are one per shape of cycle (`CycleStep`, `RetireStep`, `DispatchCycleStep`) and one per group of actions.

Its second part is about the stack and return addresses: `ResumesUnlessPrefixed`, `CallPushesReturn` and `StackBalanced`. They compare PC and SP at the end of an
instruction with their values at its start, and so are not inductive: `InStep` gives their values at every cycle between, from the
operands and the stack accesses of the cycles that the kind in IR has run, for whichever kind and wherever the addresses wrap. It also says that a conditional call or return that has
touched the stack had its condition met, and that no dispatch follows the HALT bug, whose repeated byte would shift the address pushed. `Tables` unfolds the microcode once, by
position (`StackCodes`, `Positions`), and the step lemmas use only that. TLC agrees with `InStep` on the instance too.

**`InstructionProofs`** (`CpuAssumption`: any programs, memories and sets of registers). Three groups of theorems are about what the opcodes do, for whatever bytes the bus returns.

*Words.* `PairsAddUp`: `ADD HL,rr`, in two halves a cycle apart with the carry in F between them, is the sum of the words, with its carry.
`OffsetsAgree`: `LD HL,SP+e`, by bytes with a sign byte, and `ADD SP,e`, by words with a signed offset, arrive at the same address. Both are from one lemma
(`HalvesInt`) on sums of bytes and their remainders. The `cpu` run checks the same on the bytes at the carries, and the flags too.

*Ranges.* `InstructionsTyped` (`TypeOK`) and `RegistersNamed` (`NeverThrows`). The argument follows the code: first what the two decoders return, as far as the rest needs it, which rests
on the order of the patterns (an opcode of memory at HL never reaches a pattern of registers); then the *shapes* of the cycles of each instruction they can return (which access, which place, which effect); then
the effects, of which each leaves every register in its range, with one lemma per operation of the ALU, DAA and the rotations included; and last what a cycle lands in when its access and its effect are put together. `TypeOK` is inductive with
these lemmas: that `instructionCycle` never passes the end of the instruction in IR is because the last cycle of each, and an untaken branch, fetch anew. `NeverThrows` follows from `TypeOK` and the decoders' lemmas alone.

*The sequencer.* `SequencerImplemented`: `Cpu` implements `ControlUnit` under its refinement mapping. `Follows` says of an opcode that, cycle by cycle, what it does to PC, SP, the pushes and the fetch is the microcode of its kind, and `StdFollow` and `CbFollow` that
this holds of all 512, from what the decoders return. A step of `Cpu` with an access is then a cycle of the kind (`Executes`), the last one a fetch with IME settled alike (`FetchSequenced`, `Settles`), a branch not taken the sequencer's
fetch after a test that failed, and HALT the sequencer's own. The strengthening it takes is `Sequenced`: `TypeOK`, and nothing is on record as pushed at the start of an instruction (TLC agrees with it on the instance of `cpu`). `SequencerApplies` shows that the kinds and vectors `Cpu` gives the sequencer
satisfy `ControlUnitAssumption`; hence the theorems of `CpuProofs`, which hold for any kinds, hold for the instructions as they are decoded.

**`PpuProofs`** (`PpuAssumption`, `TransferAssumption`). With `SkipBoot` (without it LY and LCDC have no defined value, see section 5), `RasterInStep`, `LinesComplete`, `WindowBehindPicture` and the action
property `VBlankOnTime`; `StatOnRisingEdge` without. The invariant is `Position` (LY and the dot are the time since the LCD was turned on) with what each mode adds to it (`InMode`). The part that takes
the work is `Transfer`: that the line ends on time needs a bound on the time to the n-th tile, and a full FIFO would break it. `Progress(n)` shows that the fetcher never waits: while the
FIFO holds more than a tile a pixel leaves it on each tick, so that there is room again when the next tile is there, four steps of the fetcher later. So a tile takes at most ten ticks, and
`TransferAssumption` says what this asks of the sizes: a tile is at most ten pixels, two of them fit the FIFO, and a line is long enough for the picture and four tiles more. 160 pixels, tiles of 8, a FIFO
of 32, and 456 dots with 80 of OAM satisfy it; SCX, the window and LCDC may then be written at any time.

The same module proves `ShowsTheFirst` of `Sprites` (`SpritesAssumption`: any OAM, any number of slots). `ListInv` says that, as long as the loop runs, the list has *all* the sprites passed that have a row on the line, as many as there
are of them (`Picked`), in drawing order. That an insertion keeps the order is from `PlaceFits`, where the walk along the list stops, and `Inserted`, what `InsertAt` does to a sequence. `ScanIsComplete` adds what the loop leaves behind: a full line
shows none of the entries that are left, so that the list is of the first ten of the whole of OAM.

And it proves `NearestSpriteShows` of `Pixels` (`PixelsAssumption`: any width of tile and line): the pixel that is added shows the nearest opaque sprite of the *whole* line, though the mixing only looks at those fetched with its tile, in the
order of the list, and stops at the first opaque one. The invariant says that while a tile waits to be pushed the sprites fetched with it are those of the list that touch it (if LCDC had sprites on); a sprite with an opaque dot in a pixel touches its tile, so that none is missed. The sprites of
a tile are the *places* in the list they were found at, and the nearest is the least of them.

**`CartridgeProofs`** (`MapperAssumption`, `LimitsAssumption`: a kind supports no more banks than its registers can name; `CartridgeAssumption`: ROMs are as a header can describe them). With `~Reloads` and `OwnSaves` (no two games share a save file; both
are what sections 5 and 6 say of the host) `RamSurvives` and the action property `ClockSurvives`. The invariant `Saved` says of *every* file, the open one or not, that it holds each cell its game has written and goes on with the clock last
shown (`Kept`), and `Open` that the mapper's RAM, too, is what its game is to find. `Kept` has to allow for a file that is too short: a kill while the save was created leaves one, and it stays so until a write behind its end. What makes that harmless
for what a game wrote is that a cell beyond the end of the file, and so each cell that a hole then fills with zeros, was never written (`SaveWritten`). While a new save is open and not yet filled it is empty and its game fresh. TLC agrees that the invariant holds on the instance of `cartridge`.
With `~Reloads`, `WindowsShowTheGame`; with neither, `EveryBankVisible`, for all sizes of a ROM up to the limit. The latter needs that the mask of a size is one less than a power of two (`Powers`, up to the
512 banks an MBC5 can name), so that the bits of a bank number below the size pass it.

**`RtcProofs`** (`RtcAssumption`: any radices). `Rtc` implements `Clock` (`ClockIsReal`), with any time between two looks. What the mapper computes in one go is a chain of quotients and remainders (`SecondsOn(t, n)`, n seconds
after t); what `Clock` does is to count one second (`Following`). `Link` is one counter of the chain: one second more counts it exactly if all below it stand at their ends, and the quotients carry the same. So
the chain of n + 1 seconds is `Following` of the chain of n, and a T-cycle maps to a second or to none as the remainder of the elapsed time wraps or not. Catching up maps to a stutter (what it leaves elapsed is less than a second), and a write to the registers to a write of `Clock`.
`TypeOK`, which keeps each counter below its radix, is all it takes of an invariant.

**`IoProofs`**, second part (`MemoryIOAssumption`, `PadAssumption`): the joypad and the serial port. `RequestedByFalls`, with the keys, lines
and columns any sets, and `LogHoldsWhatWasSent` for every capacity. The joypad's invariant (`PadInv`) relates
the lines that are low to those low when the request was last cleared; the log's (`LogInv`) adds the types of the buffer and of
what was sent.

**`AudioChannelProofs`** (`ChannelAssumption`). `TypeOK`, `NoEndlessNote`, the action property `SweepNeverWraps` and `VolumeFollowsEnvelope`, for
all four channels and all widths. `Held` adds the values the registers hold, which the lemmas on quotients and remainders need: a
frequency is put together from NR13 and NR14, and a sweep divides the shadow register by a power of two. `Followed` is the invariant of the envelope: its age is
q periods and r steps, of which the timer holds the rest, until the volume can move no further.

The same module proves `NoiseAlive` (`NoiseAssumption`: registers of any length, a short one of at least two bits that is shorter than the whole), and `NoiseIsAChannel`: `NoiseSpec` implements `Spec`, so that
the theorems of the channel hold of the noise channel too. A register could only empty with a single bit left, the lowest, and this one feeds a bit in at the top (`LastBitFeeds`), which in the short mode is also put into
the short part (`PutFits`, `ShiftKeeps`). All of this is about powers of two, on which the provers know nothing: the lemmas take `2^n` as the number of subsets of a set of n elements, which the
library's theorem on `SUBSET` gives, and derive from it that they are positive, double and divide one another (`PowerPositive`, `PowerDoubles`, `PowerDivides`).

**Only model-checked**, and why:

* the three liveness properties (`KeepsReloading`, `KeepsClockingTheApu`, `NotesEnd`): liveness under fairness is outside what the installed provers do;
* `DecimalArithmetic`, `WideArithmetic`, `BitsMove` and `BranchesCompare` of `CpuPrograms`: they are about the results of given routines, which TLC runs to their ends. There is no constant for a theorem to generalise, and a loop's result is an induction over its turns. The steps
  such routines are made of are what `InstructionProofs` is about.

No module here declares a RECURSIVE operator.

## 5. Findings and divergences

* **`prefix`**: `control_unit.cpp:2149` sets `instructionCycle` to 0 after the CB prefix, which line 437 takes for
  an instruction boundary. A request pending then is dispatched inside the two-byte instruction, and RETI resumes at
  its second byte as if that were an opcode. `control_unit` therefore checks `ResumesUnlessPrefixed`.
* **`reload`**: `cartridge.cpp:107` opens the new battery before the old mapper is destroyed, whose destructor
  then saves its clock through the new one, against the comment at `cartridge.h:25`.

Noted while reading and not made a run:

* the comment at `control_unit.cpp:2077` counts five cycles for RST; the code and the hardware take four;
* with `Emu(false)` the LCD registers and LY are not initialised before the boot ROM has run, so that an LCDC which
  happens to start enabled draws outside the frame (`ppu.cpp:392`); the `ppu` run uses `SkipBoot`;
* `bankMaskFor` (`mbc1.cpp:7`) rounds a ROM size that is no power of two up, so that some bank numbers
  read open bus; an MBC2 has no mask at all. `WindowsShowTheGame` allows both;
* undefined opcodes decode to a Nop (`control_unit.cpp:339`), and STOP only fetches the next opcode (`control_unit.cpp:2122`);
  the hardware locks up, or stops;
* a second `loadRom` that fails leaves the old mapper over the new ROM's bytes (`cartridge.cpp:72`): with `Reloads`, `WindowsShowTheGame` does
  not hold. The run has one load that succeeds per `Emu`, as in the example of the repository's README;
* a length of 256 of the wave channel is stored as 0 in eight bits (`wave_channel.cpp:12`), so that this note never ends: `Uncounted` names it;
* a save is created in two steps (`battery_ram.cpp:34`, then the mapper's constructor, `mbc1.cpp:41`). If the process is killed between them, or within the second, the file that is left is empty or short and yet
  `isSaveExist()` from then on, so that it is never filled; the next write behind its end (`saveByte` at a higher offset, or the clock at `ramSize`, `mbc3.cpp:285`) leaves a hole of zeros. In the session after that the
  game reads 0x00 in cells where it read 0xFF before, none of which it has ever written. No document or comment says what such cells hold, hence no run is about it: `RamSurvives` promises what the game wrote in any case, blank cells elsewhere, and
  zeros only for the games in `cutShort`. A stronger promise, blank cells always, is false: create, kill, load, close with a clock, load;
* if "r+b" fails for another reason than a missing file, the "w+b" that follows (`battery_ram.cpp:34`) would empty a save that is there. The models let both modes fail or neither, for a save that is there;
* noise periods of 2^16 and more are truncated (`noise_channel.cpp:18`); a period of 0 takes 2^32 T-cycles. `NoiseAlive` is about the
  periods that fit;
* `globalTicks` is shared by all `Emu`s (`emu.cpp:83`).

## 6. Not modelled

* **Mixer and high-pass filter**, and the waveforms of the pulse and wave channels: floating-point arithmetic on samples, which nothing reads back.
* **Palettes and tile addresses**: table lookups between a tile map and a colour; they keep no state.
* **Header parsing and printing, debug output, `SystemClock`, tables**: output and constants only. Whether a header is accepted is the choice `good`.
* **The dispatch of interrupts within `Cpu`**: it is in `ControlUnit`, which `Cpu` implements.
* **Two `Emu`s in one process** (`globalTicks`) and two ROMs with one save file: the host's choice, on which neither the code nor its documents rule.

## 7. Plan

What earlier plans had left and is now done: the ALU and all opcodes (`cpu`), the wave and noise channels (`audio`), RAM banking and failed loads
(`cartridge`), sprite mixing (`sprites`), the DMA over the memory map (`dma`), and the proofs of the
PPU, the list of sprites and their mixing, the stack, the ranges of all registers and the refinement of the sequencer, the clock, the cartridge, the envelope and the noise. What is left, in the order of importance:

1. *Extend.* `Machine`: `ControlUnit`'s pushes and IF shared with `Timer`, `Ppu` and `Io` in the order of `Emu::tick`, with the question
   that no request is lost between units. `Pixels` driven by `Ppu`'s fetcher, with SCX changed mid-line.
2. *Prove.* `Machine`'s invariant, from those of its parts.
