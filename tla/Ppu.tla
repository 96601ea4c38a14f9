-------------------------------- MODULE Ppu --------------------------------
(***************************************************************************)
(* The pixel processing unit: the raster and its mode machine              *)
(* (src/src/video/ppu.cpp, ppu_sm.cpp), the LCD registers it reads         *)
(* (lcd.cpp) and the pixel FIFO (fifo.cpp), driven the way Emu::tick       *)
(* drives them: on every CpuPeriod-th T-cycle the CPU may first write one  *)
(* LCD register, and the PPU then ticks.                                   *)
(*                                                                         *)
(* What is kept is when things happen: modes, LY, interrupt requests, how  *)
(* many pixels are fetched, queued and drawn.  Which tiles, sprites and    *)
(* colours they are is left out.                                           *)
(***************************************************************************)
EXTENDS Integers, Fifo

CONSTANTS
    YRes,               \* 144: the picture has XRes by YRes pixels
    TicksPerLine,       \* 456
    LinesPerFrame,      \* 154
    OamTicks,           \* 80: the OAM scan
    FifoCapacity,       \* 32
    CpuPeriod,          \* T-cycles per M-cycle
    SkipBoot,           \* Emu's argument: LCD registers are initialised
    LcdcValues, StatValues, LineValues, ScrollValues, WindowXValues
                        \* what programs write to LCDC, STAT, LYC and WY, SCX, WX

Sources == {"HBLANK", "VBLANK", "OAM", "LYC"}
LcdControl == [enable : BOOLEAN, window : BOOLEAN]

ASSUME PpuAssumption ==
    /\ {XRes, YRes, TicksPerLine, LinesPerFrame, OamTicks, Tile, FifoCapacity, CpuPeriod}
           \subseteq Nat \ {0}
    /\ OamTicks > 1
    /\ YRes < LinesPerFrame
    /\ SkipBoot \in BOOLEAN
    /\ LcdcValues \subseteq LcdControl
    /\ StatValues \subseteq SUBSET Sources
    /\ LineValues \subseteq Nat
    /\ ScrollValues \subseteq 0..(Tile - 1)
    /\ WindowXValues \subseteq Nat

\* The longest transfer of a line's pixels: the fetcher takes ten ticks for a
\* tile, and tiles are fetched for the picture, the fine scroll and the FIFO.
ASSUME TransferAssumption ==
    /\ Tile <= 10
    /\ 2 * Tile <= FifoCapacity
    /\ OamTicks + 10 * ((XRes \div Tile) + 4) < TicksPerLine

VARIABLES
    lcdc,               \* LCDC's enable and window bits
    statInt,            \* the interrupt sources STAT selects
    mode, lyc,          \* STAT's own bits: mode, and LY = LYC
    ly, lyCompare,
    windowX, windowY,
    lcdWasEnabled,
    lineTicks,
    windowLine,
    statLine,           \* the wired-OR of the STAT sources
    size, lineX, pushedX,   \* the FIFO: what it holds, and what left and entered it
    requested,          \* the interrupts the last PPU tick requested
    phase,              \* globalTicks % CpuPeriod
    pc                  \* what runs next: the "core" or the "ppu"

\* History.
VARIABLES
    frameTicks,         \* T-cycles with the LCD on, modulo a frame
    wasHigh             \* a STAT source was asserted at the end of the last T-cycle

registers == <<lcdc, statInt, lyCompare, scrollX, windowX, windowY>>
pipeline  == <<fetchState, size, lineX, fetchX, pushedX>>
raster    == <<mode, ly, lineTicks, windowLine, frameTicks>>
vars == <<registers, pipeline, raster, lyc, lcdWasEnabled, statLine, requested,
          phase, pc, wasHigh>>

(***************************************************************************)
(* PPU::PPU and LCD::LCD.  STAT is never initialised, whatever SkipBoot    *)
(* is, except for its mode; the other registers only when it is set.       *)
(***************************************************************************)
Init ==
    /\ IF SkipBoot
       THEN /\ lcdc = [enable |-> TRUE, window |-> FALSE]
            /\ ly = 0 /\ lyCompare = 0 /\ scrollX = 0 /\ windowX = 0 /\ windowY = 0
       ELSE /\ lcdc \in LcdcValues
            /\ ly \in LineValues /\ lyCompare \in LineValues
            /\ scrollX \in ScrollValues
            /\ windowX \in WindowXValues /\ windowY \in LineValues
    /\ statInt \in StatValues /\ lyc \in BOOLEAN
    /\ mode = "OAM"
    /\ lcdWasEnabled = TRUE
    /\ lineTicks = 0 /\ windowLine = 0
    /\ statLine = FALSE
    /\ fetchState = "TILE"
    /\ size = 0 /\ lineX = 0 /\ fetchX = 0 /\ pushedX = 0
    /\ requested = {}
    /\ phase \in 0..(CpuPeriod - 1)
    /\ pc = IF phase = 0 THEN "core" ELSE "ppu"
    /\ frameTicks = 0 /\ wasHigh = FALSE

-----------------------------------------------------------------------------
(***************************************************************************)
(* LCD::write, in the CPU's slot.  The mode, the LY = LYC bit and LY are   *)
(* read-only; STAT writes keep the interrupt sources alone.                *)
(***************************************************************************)
Core ==
    /\ pc = "core"
    /\ pc' = "ppu"
    /\ UNCHANGED <<pipeline, raster, lyc, lcdWasEnabled, statLine, requested, phase, wasHigh>>

WriteLCDC ==
    /\ Core
    /\ lcdc' \in LcdcValues
    /\ UNCHANGED <<statInt, lyCompare, scrollX, windowX, windowY>>

WriteSTAT ==
    /\ Core
    /\ statInt' \in StatValues
    /\ UNCHANGED <<lcdc, lyCompare, scrollX, windowX, windowY>>

WriteLYC ==
    /\ Core
    /\ lyCompare' \in LineValues
    /\ UNCHANGED <<lcdc, statInt, scrollX, windowX, windowY>>

WriteSCX ==
    /\ Core
    /\ scrollX' \in ScrollValues
    /\ UNCHANGED <<lcdc, statInt, lyCompare, windowX, windowY>>

WriteWindow ==
    /\ Core
    /\ \/ windowX' \in WindowXValues /\ UNCHANGED windowY
       \/ windowY' \in LineValues /\ UNCHANGED windowX
    /\ UNCHANGED <<lcdc, statInt, lyCompare, scrollX>>

ElseWhere == Core /\ UNCHANGED registers

-----------------------------------------------------------------------------
(***************************************************************************)
(* PPU::tick                                                               *)
(***************************************************************************)
Tick ==
    /\ pc = "ppu"
    /\ phase' = (phase + 1) % CpuPeriod
    /\ pc' = IF phase' = 0 THEN "core" ELSE "ppu"
    /\ UNCHANGED registers

\* Some source STAT selects is asserted, in mode m on line y.
Level(m, y) == m \in statInt \/ (y = lyCompare /\ "LYC" \in statInt)

\* Mutant: a request for every source that becomes true, not for their OR.
UpdateStatOnEvents(also) ==
    /\ lyc' = (ly' = lyCompare)
    /\ statLine' = Level(mode', ly')
    /\ requested' = also \cup (IF statLine' /\ (~statLine \/ mode' # mode) THEN {"LCD"} ELSE {})
    /\ wasHigh' = statLine'

(* PpuStateMachine::updateStatLine, at the end of a tick with the LCD on   *)
(* that itself requested the interrupts in also.                           *)
UpdateStatLine(also) ==
    /\ lyc' = (ly' = lyCompare)
    /\ statLine' = Level(mode', ly')
    /\ requested' = also \cup (IF statLine' /\ ~statLine THEN {"LCD"} ELSE {})
    /\ wasHigh' = statLine'

\* FIFO::reset
FifoReset == 0

\* With the LCD off the controller is stopped; it is cleared once.
SwitchOff ==
    /\ Tick
    /\ ~lcdc.enable /\ lcdWasEnabled
    /\ lcdWasEnabled' = FALSE
    /\ lineTicks' = 0 /\ windowLine' = 0 /\ ly' = 0
    /\ mode' = "HBLANK" /\ lyc' = FALSE
    /\ size' = FifoReset
    /\ statLine' = FALSE
    /\ requested' = {}
    /\ frameTicks' = 0 /\ wasHigh' = FALSE
    /\ UNCHANGED <<fetchState, lineX, fetchX, pushedX>>

StayOff ==
    /\ Tick
    /\ ~lcdc.enable /\ ~lcdWasEnabled
    /\ requested' = {}
    /\ UNCHANGED <<pipeline, raster, lyc, lcdWasEnabled, statLine, wasHigh>>

\* Mutant: it goes on where it was stopped.
Resumed(value, first) == value

\* Switched on again, the LCD starts a frame from its first line.
Fresh(value, first) == IF lcdWasEnabled THEN value ELSE first

TickIn(m) ==
    /\ Tick
    /\ lcdc.enable
    /\ Fresh(mode, "OAM") = m
    /\ lcdWasEnabled' = TRUE
    /\ frameTicks' = (Fresh(frameTicks, 0) + 1) % (TicksPerLine * LinesPerFrame)

OamMode ==
    /\ TickIn("OAM")
    /\ lineTicks' = Fresh(lineTicks, 0) + 1
    /\ ly' = Fresh(ly, 0) /\ windowLine' = Fresh(windowLine, 0)
    /\ IF lineTicks' >= OamTicks
       THEN /\ mode' = "XFER"
            /\ fetchState' = "TILE" /\ lineX' = 0 /\ fetchX' = 0 /\ pushedX' = 0
       ELSE /\ mode' = "OAM"
            /\ UNCHANGED <<fetchState, lineX, fetchX, pushedX>>
    /\ UpdateStatLine({})
    /\ UNCHANGED size

(***************************************************************************)
(* The pipeline.  On even ticks the fetcher takes a step; it pushes the    *)
(* tile it holds once the FIFO has room.  On every tick a pixel leaves a   *)
(* FIFO that holds more than a tile, and is drawn unless the fine scroll   *)
(* drops it.                                                               *)
(***************************************************************************)
WindowVisible == lcdc.window /\ windowX <= XRes + Tile - 2 /\ windowY < YRes

NextFetch == [TILE |-> "DATA0", DATA0 |-> "DATA1", DATA1 |-> "SLEEP",
              SLEEP |-> "PUSH", PUSH |-> "TILE"]

HasRoom == size <= Tile

Least(a, b) == IF a <= b THEN a ELSE b

\* pipelineFifoAdd: the FIFO after a tile is pushed.
Pushed == IF fetchX + scrollX >= Tile THEN Least(size + Tile, FifoCapacity) ELSE size

\* Mutant: the pixels the fine scroll drops are counted.
LineDonePopped == lineX' >= XRes

LineDone == pushedX' >= XRes

XferMode ==
    LET fetches == lineTicks' % 2 = 0
        pushes  == fetches /\ fetchState = "PUSH" /\ HasRoom
        stalls  == fetchState = "PUSH" /\ ~HasRoom
        filled  == IF pushes THEN Pushed ELSE size
        pops    == filled > Tile
        draws   == pops /\ lineX >= scrollX
    IN  /\ TickIn("XFER")
        /\ lineTicks' = lineTicks + 1
        /\ fetchState' = IF fetches /\ ~stalls THEN NextFetch[fetchState] ELSE fetchState
        /\ fetchX' = IF fetches /\ fetchState = "TILE" THEN fetchX + Tile ELSE fetchX
        /\ pushedX' = IF draws THEN pushedX + 1 ELSE pushedX
        /\ lineX' = IF pops THEN lineX + 1 ELSE lineX
        /\ size' = IF LineDone THEN FifoReset ELSE IF pops THEN filled - 1 ELSE filled
        /\ mode' = IF LineDone THEN "HBLANK" ELSE "XFER"
        /\ UNCHANGED <<ly, windowLine>>
        /\ UpdateStatLine({})

\* Mutant: not only on visible lines.
WindowStepAlways == IF WindowVisible /\ ly >= windowY THEN 1 ELSE 0

\* The end of a line: incrementLy moves the window's own line counter too.
WindowStep == IF WindowVisible /\ ly >= windowY /\ ly < YRes THEN 1 ELSE 0

\* Mutant: off by one.
LineOverLate == lineTicks + 1 > TicksPerLine

LineOver == lineTicks + 1 >= TicksPerLine

EndLine ==
    /\ LineOver
    /\ lineTicks' = 0
    /\ UNCHANGED pipeline

WithinLine ==
    /\ ~LineOver
    /\ lineTicks' = lineTicks + 1
    /\ UNCHANGED <<mode, ly, windowLine, pipeline>>

HblankMode ==
    /\ TickIn("HBLANK")
    /\ \/ /\ WithinLine
          /\ UpdateStatLine({})
       \/ /\ EndLine
          /\ ly' = ly + 1 /\ windowLine' = windowLine + WindowStep
          /\ mode' = IF ly' >= YRes THEN "VBLANK" ELSE "OAM"
          /\ UpdateStatLine(IF ly' >= YRes THEN {"VBlank"} ELSE {})

FrameOver == ly + 1 >= LinesPerFrame

VblankMode ==
    /\ TickIn("VBLANK")
    /\ \/ WithinLine
       \/ /\ EndLine
          /\ IF FrameOver
             THEN ly' = 0 /\ windowLine' = 0 /\ mode' = "OAM"
             ELSE ly' = ly + 1 /\ windowLine' = windowLine + WindowStep /\ mode' = "VBLANK"
    /\ UpdateStatLine({})

PpuTick == SwitchOff \/ StayOff \/ OamMode \/ XferMode \/ HblankMode \/ VblankMode

Write == WriteLCDC \/ WriteSTAT \/ WriteLYC \/ WriteSCX \/ WriteWindow

Next == PpuTick \/ Write \/ ElseWhere

Spec == Init /\ [][Next]_vars

-----------------------------------------------------------------------------
(* While the LCD is on, LY and the position in the line are the time since *)
(* it was switched on, whatever the program writes meanwhile: no scroll or *)
(* window setting makes a line longer or shorter, and every line leaves    *)
(* the pixel transfer before it must end.                                  *)
RasterInStep ==
    lcdWasEnabled =>
        /\ ly * TicksPerLine + lineTicks = frameTicks
        /\ mode = "VBLANK" <=> ly >= YRes
        /\ mode = "OAM" <=> ly < YRes /\ lineTicks < OamTicks

(* One VBlank per frame of LinesPerFrame * TicksPerLine T-cycles (README,  *)
(* "one Game Boy frame is 70224 T-cycles"), requested as the last visible  *)
(* line ends, and none with the LCD off.                                   *)
VBlankOnTime ==
    [][pc = "ppu" => ("VBlank" \in requested' <=>
                          lcdc.enable /\ frameTicks' = YRes * TicksPerLine)]_vars

(* Every pixel lands in the picture, and a line ends with all of its       *)
(* pixels drawn, however SCX changes while it is being drawn: the FIFO     *)
(* never fills up, so that no push is dropped, and starts empty on every   *)
(* line, also the first after the LCD was switched off in the middle of    *)
(* one.                                                                    *)
LinesComplete ==
    /\ mode = "XFER" => ly < YRes /\ pushedX < XRes
    /\ mode = "HBLANK" /\ lcdWasEnabled => pushedX = XRes
    /\ size <= 2 * Tile /\ 2 * Tile <= FifoCapacity
    /\ mode # "XFER" => size = 0

(* The STAT interrupt is requested when the wired-OR of the selected       *)
(* sources rises, and at no other time: not when one source takes over     *)
(* from another, and not missed after the LCD was off.                     *)
StatOnRisingEdge ==
    [][pc = "ppu" => ("LCD" \in requested' <=>
                          lcdc.enable /\ ~wasHigh /\ Level(mode', ly'))]_vars

(* The window's row never gets ahead of the picture's, so that what it     *)
(* fetches is a row of its map.                                            *)
WindowBehindPicture == windowLine <= Least(ly, YRes)
=============================================================================
