----------------------------- MODULE PpuProofs -----------------------------
(* Theorems about the PPU, for every size of the picture, of lines and of  *)
(* frames that leaves a line room for its transfer, and for whatever       *)
(* programs write to the LCD registers; and about its list of sprites and  *)
(* the pixels they become, for every OAM and every line.                   *)
EXTENDS Ppu, Pixels, SequenceTheorems, FiniteSetTheorems, TLAPS

(***************************************************************************)
(* Arithmetic of the raster.                                               *)
(***************************************************************************)
LEMMA Constants ==
    /\ XRes \in Nat /\ XRes > 0 /\ YRes \in Nat /\ YRes > 0
    /\ TicksPerLine \in Nat /\ TicksPerLine > 0
    /\ LinesPerFrame \in Nat /\ YRes < LinesPerFrame
    /\ OamTicks \in Nat /\ OamTicks > 1
    /\ Tile \in 1..10 /\ FifoCapacity \in Nat /\ 2 * Tile <= FifoCapacity
  BY PpuAssumption, TransferAssumption

LEMMA OrderedProducts ==
    ASSUME NEW a \in Nat, NEW b \in Nat, NEW k \in Nat, a <= b
    PROVE  a * k <= b * k
<1>1. (b - a) * k >= 0
  OBVIOUS
<1> QED  BY <1>1

Odd(n) == n % 2

LEMMA Parity == \A n \in Nat : Odd(n) \in {0, 1} /\ Odd(n + 1) = 1 - Odd(n)
  BY DEF Odd

(* The tiles a transfer needs: pixels up to the picture's and three tiles  *)
(* more.                                                                   *)
LEMMA TilesNeeded ==
    ASSUME NEW n \in Nat, n * Tile < XRes + 3 * Tile
    PROVE  n <= (XRes \div Tile) + 3
<1> DEFINE q == XRes \div Tile
           r == XRes % Tile
<1>1. q \in Int /\ r \in 0..(Tile - 1) /\ XRes = Tile * q + r
  BY Constants
<1> HIDE DEF q, r
<1>2. n * Tile < (q + 4) * Tile
  BY <1>1, Constants
<1>3. SUFFICES ASSUME n >= q + 4 PROVE FALSE
  BY <1>1 DEF q
<1>4. (n - (q + 4)) * Tile >= 0
  BY <1>1, <1>3, Constants
<1> QED  BY <1>1, <1>2, <1>4, Constants

(* The last tick of a transfer of n tiles lies within the line. *)
LEMMA TransferFits ==
    ASSUME NEW n \in Nat, n * Tile < XRes + 3 * Tile
    PROVE  OamTicks + 10 * n + 10 < TicksPerLine
<1> DEFINE q == XRes \div Tile
<1>1. n <= q + 3
  BY TilesNeeded
<1>2. q \in Int
  BY Constants
<1>3. OamTicks + 10 * (q + 4) < TicksPerLine
  BY TransferAssumption
<1> HIDE DEF q
<1> QED  BY <1>1, <1>2, <1>3, Constants

LEMMA OamFits == OamTicks < TicksPerLine
<1>1. 0 * Tile < XRes + 3 * Tile
  BY Constants
<1>2. OamTicks + 10 * 0 + 10 < TicksPerLine
  BY <1>1, TransferFits
<1> QED  BY <1>2, Constants

(* The time in a frame, a tick later: on the same line, on the next, or at *)
(* the start of the next frame.                                            *)
LEMMA FrameTick ==
    ASSUME NEW y \in 0..(LinesPerFrame - 1), NEW t \in 0..(TicksPerLine - 1),
           NEW f, f = y * TicksPerLine + t
    PROVE  LET next == (f + 1) % (TicksPerLine * LinesPerFrame) IN
           /\ f \in Nat
           /\ t + 1 < TicksPerLine => next = y * TicksPerLine + (t + 1)
           /\ t + 1 >= TicksPerLine /\ y + 1 < LinesPerFrame => next = (y + 1) * TicksPerLine + 0
           /\ t + 1 >= TicksPerLine /\ y + 1 >= LinesPerFrame => next = 0 * TicksPerLine + 0
<1> DEFINE T == TicksPerLine
           M == T * LinesPerFrame
<1>1. T \in Nat \ {0} /\ LinesPerFrame \in Nat \ {0}
  BY Constants
<1>2. y * T \in Nat /\ (y + 1) * T = y * T + T /\ M \in Nat /\ M > 0 /\ f \in Nat
  BY <1>1
<1>3. (y + 1) * T <= LinesPerFrame * T
  BY <1>1, OrderedProducts
<1>4. y * T + T <= M
  BY <1>1, <1>2, <1>3
<1>5. \A n \in Nat : n < M => n % M = n
  BY <1>2
<1> DEFINE next == (f + 1) % M
<1>6. ASSUME t + 1 < T PROVE next = y * T + (t + 1)
  <2>1. f + 1 = y * T + (t + 1) /\ f + 1 \in Nat /\ f + 1 < M
    BY <1>1, <1>2, <1>4, <1>6
  <2> QED  BY <1>5, <2>1
<1>7. ASSUME t + 1 >= T PROVE f + 1 = (y + 1) * T
  BY <1>1, <1>2, <1>7
<1>8. ASSUME t + 1 >= T, y + 1 < LinesPerFrame PROVE next = (y + 1) * T + 0
  <2>1. (y + 2) * T <= LinesPerFrame * T
    BY <1>1, <1>8, OrderedProducts
  <2>2. (y + 2) * T = (y + 1) * T + T /\ (y + 1) * T \in Nat
    BY <1>1
  <2>3. f + 1 < M
    BY <1>1, <1>2, <1>7, <1>8, <2>1, <2>2
  <2>4. next = f + 1
    BY <1>2, <1>5, <2>3
  <2> QED  BY <1>7, <1>8, <2>2, <2>4
<1>9. ASSUME t + 1 >= T, y + 1 >= LinesPerFrame PROVE next = 0 * T + 0
  <2>1. y + 1 = LinesPerFrame
    BY <1>1, <1>9
  <2>2. f + 1 = M
    BY <1>1, <1>7, <1>9, <2>1
  <2>3. M % M = 0
    BY <1>2
  <2> QED  BY <1>1, <2>2, <2>3
<1> HIDE DEF next
<1> QED  BY <1>2, <1>6, <1>7, <1>8, <1>9 DEF next

(* Only the start of a line is a whole number of lines into the frame.     *)
LEMMA LineStart ==
    ASSUME NEW y \in Nat, NEW z \in Nat, NEW t \in 0..(TicksPerLine - 1),
           y * TicksPerLine + t = z * TicksPerLine
    PROVE  y = z /\ t = 0
<1> DEFINE T == TicksPerLine
<1>1. T \in Nat /\ T > 0
  BY Constants
<1>2. CASE y >= z + 1
  <2>1. (z + 1) * T <= y * T
    BY <1>1, <1>2, OrderedProducts
  <2> QED  BY <1>1, <2>1
<1>3. CASE y + 1 <= z
  <2>1. (y + 1) * T <= z * T
    BY <1>1, <1>3, OrderedProducts
  <2> QED  BY <1>1, <2>1
<1>4. CASE y = z
  <2>1. y * T \in Nat
    BY <1>1
  <2> QED  BY <1>1, <1>4, <2>1
<1> QED  BY <1>2, <1>3, <1>4

-----------------------------------------------------------------------------
(***************************************************************************)
(* The inductive invariant.                                                *)
(***************************************************************************)
FetchStates == {"TILE", "DATA0", "DATA1", "SLEEP", "PUSH"}

(* The fetcher's steps since it pushed a tile. *)
StepOf(state) ==
    CASE state = "TILE"  -> 0
      [] state = "DATA0" -> 1
      [] state = "DATA1" -> 2
      [] state = "SLEEP" -> 3
      [] OTHER -> 4

(* A transfer that has pushed n tiles: its pixels are in the FIFO or have  *)
(* left it, of which all but the fine scroll's are in the picture.  While  *)
(* the FIFO holds more than a tile a pixel leaves it on every tick, so     *)
(* that it has room again when the next tile is there: the fetcher never   *)
(* waits, and has taken a step on every even tick.                         *)
Progress(n) ==
    /\ lineX + size = n * Tile
    /\ fetchX = (IF fetchState = "TILE" THEN n ELSE n + 1) * Tile
    /\ size <= Tile \/ size <= 2 * Tile - 1 - 2 * StepOf(fetchState) - Odd(lineTicks)
    /\ lineTicks <= OamTicks + 10 * n + 2 * StepOf(fetchState) + Odd(lineTicks)

Transfer ==
    /\ ly < YRes /\ lineTicks >= OamTicks
    /\ pushedX < XRes
    /\ pushedX <= lineX /\ lineX <= pushedX + Tile - 1
    /\ fetchState \in FetchStates
    /\ \E n \in 0..TicksPerLine : Progress(n)

(* The position in the frame is the time since it began. *)
Position ==
    /\ ly \in 0..(LinesPerFrame - 1)
    /\ lineTicks \in 0..(TicksPerLine - 1)
    /\ frameTicks = ly * TicksPerLine + lineTicks

(* The mode the position calls for. *)
InMode ==
    /\ mode \in {"OAM", "XFER", "HBLANK", "VBLANK"}
    /\ mode = "OAM" => ly < YRes /\ lineTicks < OamTicks
    /\ mode = "XFER" => Transfer
    /\ mode = "HBLANK" => ly < YRes /\ lineTicks >= OamTicks /\ pushedX = XRes
    /\ mode = "VBLANK" => ly >= YRes

(* With the LCD off. *)
Cleared == mode = "HBLANK" /\ ly = 0 /\ lineTicks = 0 /\ windowLine = 0

Queue ==
    /\ scrollX \in 0..(Tile - 1)
    /\ size \in Nat /\ lineX \in Nat /\ pushedX \in Nat /\ fetchX \in Nat
    /\ mode # "XFER" => size = 0

Window == windowLine \in Nat /\ windowLine <= ly /\ windowLine <= YRes

IInv ==
    /\ lcdWasEnabled \in BOOLEAN
    /\ Position
    /\ lcdWasEnabled => InMode
    /\ ~lcdWasEnabled => Cleared
    /\ Queue
    /\ Window

(* The powered-on PPU's state satisfies it. *)
LEMMA InvInit == SkipBoot /\ Init => IInv
<1> SUFFICES ASSUME SkipBoot, Init PROVE IInv
  OBVIOUS
<1>1. /\ ly = 0 /\ lineTicks = 0 /\ frameTicks = 0 /\ windowLine = 0 /\ mode = "OAM"
      /\ size = 0 /\ lineX = 0 /\ pushedX = 0 /\ fetchX = 0 /\ scrollX = 0
      /\ lcdWasEnabled = TRUE
  BY DEF Init
<1>2. Position
  BY <1>1, Constants DEF Position
<1> QED  BY <1>1, <1>2, Constants DEF IInv, InMode, Queue, Window

(* A write of the CPU touches none of it but the fine scroll. *)
LEMMA InvCore ==
    ASSUME IInv, UNCHANGED <<pipeline, raster, lcdWasEnabled>>, scrollX' \in 0..(Tile - 1)
    PROVE  IInv'
<1> USE DEF pipeline, raster
<1>1. Transfer => Transfer'
  BY DEF Transfer, Progress
<1>2. Position' /\ Queue' /\ Window'
  BY DEF IInv, Position, Queue, Window
<1>3. /\ InMode => InMode'
      /\ Cleared => Cleared'
  BY <1>1 DEF InMode, Cleared
<1> QED  BY <1>2, <1>3 DEF IInv

LEMMA InvWrite == ASSUME IInv, Write \/ ElseWhere PROVE IInv'
<1>1. UNCHANGED <<pipeline, raster, lcdWasEnabled>>
  BY DEF Write, WriteLCDC, WriteSTAT, WriteLYC, WriteSCX, WriteWindow, ElseWhere, Core
<1>2. scrollX' = scrollX \/ scrollX' \in ScrollValues
  BY DEF Write, WriteLCDC, WriteSTAT, WriteLYC, WriteSCX, WriteWindow, ElseWhere, registers
<1>3. scrollX' \in 0..(Tile - 1)
  BY <1>2, PpuAssumption DEF IInv, Queue
<1> QED  BY <1>1, <1>3, InvCore

LEMMA InvOff == ASSUME IInv, SwitchOff \/ StayOff PROVE IInv'
<1>1. scrollX' = scrollX
  BY DEF SwitchOff, StayOff, Tick, registers
<1>2. CASE SwitchOff
  <2>1. /\ ly' = 0 /\ lineTicks' = 0 /\ frameTicks' = 0 /\ windowLine' = 0
        /\ mode' = "HBLANK" /\ size' = 0
        /\ UNCHANGED <<lineX, fetchX, pushedX>>
    BY <1>2 DEF SwitchOff, FifoReset
  <2>2. ~lcdWasEnabled' /\ lcdWasEnabled' \in BOOLEAN
    BY <1>2, Zenon DEF SwitchOff
  <2>3. Position'
    BY <2>1, Constants DEF Position
  <2>4. Cleared' /\ Queue' /\ Window'
    BY <1>1, <2>1, Constants DEF IInv, Cleared, Queue, Window
  <2> QED  BY <2>2, <2>3, <2>4 DEF IInv
<1>3. CASE StayOff
  <2>1. UNCHANGED <<pipeline, raster, lcdWasEnabled>>
    BY <1>3 DEF StayOff
  <2> QED  BY <1>1, <2>1, InvCore DEF IInv, Queue
<1> QED  BY <1>2, <1>3

-----------------------------------------------------------------------------
(***************************************************************************)
(* A tick with the LCD on.  After it was off, it starts as if in the OAM   *)
(* scan of the first line.                                                 *)
(***************************************************************************)
LEMMA TickStarts ==
    ASSUME IInv, NEW m, TickIn(m)
    PROVE  /\ lcdWasEnabled' /\ lcdWasEnabled' \in BOOLEAN
           /\ scrollX' = scrollX
           /\ frameTicks' = (frameTicks + 1) % (TicksPerLine * LinesPerFrame)
           /\ Fresh(lineTicks, 0) = lineTicks /\ Fresh(ly, 0) = ly
           /\ Fresh(windowLine, 0) = windowLine
           /\ m = "OAM" => ly < YRes /\ lineTicks < OamTicks /\ size = 0
           /\ m # "OAM" => lcdWasEnabled /\ mode = m /\ InMode
<1>1. lcdWasEnabled' /\ lcdWasEnabled' \in BOOLEAN
  BY Zenon DEF TickIn
<1>2. scrollX' = scrollX /\ Fresh(mode, "OAM") = m
  BY DEF TickIn, Tick, registers
<1>3. CASE lcdWasEnabled
  <2>1. \A v, w : Fresh(v, w) = v
    BY <1>3 DEF Fresh
  <2>2. InMode /\ mode = m /\ frameTicks' = (frameTicks + 1) % (TicksPerLine * LinesPerFrame)
    BY <1>2, <1>3, <2>1 DEF IInv, TickIn
  <2> QED  BY <1>1, <1>2, <1>3, <2>1, <2>2 DEF IInv, InMode, Queue
<1>4. CASE ~lcdWasEnabled
  <2>1. \A v, w : Fresh(v, w) = w
    BY <1>4 DEF Fresh
  <2>2. Cleared
    BY <1>4 DEF IInv
  <2>3. frameTicks = 0
    BY <2>2, Constants DEF IInv, Position, Cleared
  <2>4. m = "OAM" /\ frameTicks' = (frameTicks + 1) % (TicksPerLine * LinesPerFrame)
    BY <1>2, <2>1, <2>3 DEF TickIn
  <2> QED  BY <1>1, <1>2, <2>1, <2>2, <2>4, Constants DEF IInv, Cleared, Queue
<1> QED  BY <1>3, <1>4 DEF IInv

(* A tick that does not end the line. *)
LEMMA WithinKept ==
    ASSUME Position, frameTicks' = (frameTicks + 1) % (TicksPerLine * LinesPerFrame),
           ly' = ly, lineTicks' = lineTicks + 1, lineTicks + 1 < TicksPerLine
    PROVE  Position'
<1>1. frameTicks' = ly * TicksPerLine + (lineTicks + 1)
  BY FrameTick DEF Position
<1>2. lineTicks + 1 \in 0..(TicksPerLine - 1)
  BY Constants DEF Position
<1> QED  BY <1>1, <1>2 DEF Position

LEMMA InvOam == ASSUME IInv, OamMode PROVE IInv'
<1>1. TickIn("OAM")
  BY DEF OamMode
<1>2. /\ lcdWasEnabled' /\ lcdWasEnabled' \in BOOLEAN
      /\ scrollX' = scrollX
      /\ frameTicks' = (frameTicks + 1) % (TicksPerLine * LinesPerFrame)
      /\ ly < YRes /\ lineTicks < OamTicks /\ size = 0
      /\ lineTicks' = lineTicks + 1 /\ ly' = ly /\ windowLine' = windowLine /\ size' = size
  BY <1>1, TickStarts DEF OamMode
<1>3. Position'
  <2>1. lineTicks + 1 < TicksPerLine
    BY <1>2, OamFits, Constants DEF IInv, Position
  <2> QED  BY <1>2, <2>1, WithinKept DEF IInv
<1>4. Window'
  BY <1>2 DEF IInv, Window
<1>5. CASE lineTicks' >= OamTicks
  <2>1. /\ mode' = "XFER" /\ fetchState' = "TILE"
        /\ lineX' = 0 /\ fetchX' = 0 /\ pushedX' = 0
    BY <1>5 DEF OamMode
  <2>2. lineTicks' <= OamTicks
    BY <1>2, Constants DEF IInv, Position
  <2>3. lineTicks' \in Nat /\ Odd(lineTicks') \in {0, 1}
    <3>1. lineTicks' \in Nat
      BY <1>2, Constants DEF IInv, Position
    <3> QED  BY <3>1, Parity
  <2>4. Progress(0)'
    <3>1. StepOf(fetchState') = 0
      BY <2>1 DEF StepOf
    <3>2. 0 * Tile = 0
      BY Constants
    <3>3. lineX' + size' = 0 * Tile /\ fetchX' = 0 * Tile /\ size' <= Tile
      BY <1>2, <2>1, <3>2, Constants
    <3>4. lineTicks' <= OamTicks + 10 * 0 + 2 * StepOf(fetchState') + Odd(lineTicks')
      BY <2>2, <2>3, <3>1, Constants
    <3> QED  BY <2>1, <3>3, <3>4 DEF Progress
  <2>5. Transfer'
    BY <1>2, <1>5, <2>1, <2>4, Constants DEF Transfer, FetchStates
  <2>6. InMode' /\ Queue'
    BY <1>2, <2>1, <2>5, Constants DEF InMode, IInv, Queue
  <2> QED  BY <1>2, <1>3, <1>4, <2>6 DEF IInv
<1>6. CASE ~(lineTicks' >= OamTicks)
  <2>1. mode' = "OAM" /\ UNCHANGED <<fetchState, lineX, fetchX, pushedX>>
    BY <1>6 DEF OamMode
  <2>2. lineTicks' < OamTicks
    BY <1>2, <1>6, Constants DEF IInv, Position
  <2>3. InMode' /\ Queue'
    BY <1>2, <2>1, <2>2 DEF InMode, IInv, Queue
  <2> QED  BY <1>2, <1>3, <1>4, <2>3 DEF IInv
<1> QED  BY <1>5, <1>6

(* The end of a line: the next one, or the first one of the next frame.    *)
LEMMA EndKept ==
    ASSUME Position, frameTicks' = (frameTicks + 1) % (TicksPerLine * LinesPerFrame),
           lineTicks' = 0, lineTicks + 1 >= TicksPerLine,
           IF ly + 1 < LinesPerFrame THEN ly' = ly + 1 ELSE ly' = 0
    PROVE  Position'
<1>1. frameTicks' = ly' * TicksPerLine + 0
  BY FrameTick, Constants DEF Position
<1>2. ly' \in 0..(LinesPerFrame - 1) /\ 0 \in 0..(TicksPerLine - 1)
  BY Constants DEF Position
<1> QED  BY <1>1, <1>2 DEF Position

LEMMA InvHblank == ASSUME IInv, HblankMode PROVE IInv'
<1>1. TickIn("HBLANK")
  BY DEF HblankMode
<1>2. /\ lcdWasEnabled' /\ lcdWasEnabled' \in BOOLEAN
      /\ scrollX' = scrollX
      /\ frameTicks' = (frameTicks + 1) % (TicksPerLine * LinesPerFrame)
      /\ mode = "HBLANK" /\ ly < YRes /\ lineTicks >= OamTicks /\ pushedX = XRes
      /\ size = 0
  BY <1>1, TickStarts DEF InMode, IInv, Queue
<1>3. CASE WithinLine
  <2>1. /\ lineTicks' = lineTicks + 1 /\ UNCHANGED <<mode, ly, windowLine, pipeline>>
        /\ ~(lineTicks + 1 >= TicksPerLine)
    BY <1>3 DEF WithinLine, LineOver
  <2>2. lineTicks + 1 < TicksPerLine /\ lineTicks + 1 >= OamTicks
    BY <1>2, <2>1, Constants DEF IInv, Position
  <2>3. Position'
    BY <1>2, <2>1, <2>2, WithinKept DEF IInv
  <2>4. InMode' /\ Queue' /\ Window'
    BY <1>2, <2>1, <2>2 DEF InMode, IInv, Queue, Window, pipeline
  <2> QED  BY <1>2, <2>3, <2>4 DEF IInv
<1>4. CASE EndLine /\ ly' = ly + 1 /\ windowLine' = windowLine + WindowStep
           /\ mode' = IF ly' >= YRes THEN "VBLANK" ELSE "OAM"
  <2>1. lineTicks' = 0 /\ lineTicks + 1 >= TicksPerLine /\ UNCHANGED pipeline
    BY <1>4 DEF EndLine, LineOver
  <2>2. ly \in Nat /\ ly + 1 <= YRes /\ ly + 1 < LinesPerFrame
    BY <1>2, Constants DEF IInv, Position
  <2>3. Position'
    BY <1>2, <1>4, <2>1, <2>2, EndKept DEF IInv
  <2>4. WindowStep \in {0, 1}
    BY DEF WindowStep
  <2>5. Window'
    BY <1>4, <2>2, <2>4, Constants DEF IInv, Window
  <2>6. InMode'
    <3>1. CASE ly' >= YRes
      BY <1>4, <3>1 DEF InMode
    <3>2. CASE ~(ly' >= YRes)
      BY <1>4, <2>1, <2>2, <3>2, Constants DEF InMode
    <3> QED  BY <3>1, <3>2
  <2>7. Queue'
    BY <1>2, <2>1 DEF IInv, Queue, pipeline
  <2> QED  BY <1>2, <2>3, <2>5, <2>6, <2>7 DEF IInv
<1> QED  BY <1>3, <1>4 DEF HblankMode

LEMMA InvVblank == ASSUME IInv, VblankMode PROVE IInv'
<1>1. TickIn("VBLANK")
  BY DEF VblankMode
<1>2. /\ lcdWasEnabled' /\ lcdWasEnabled' \in BOOLEAN
      /\ scrollX' = scrollX
      /\ frameTicks' = (frameTicks + 1) % (TicksPerLine * LinesPerFrame)
      /\ mode = "VBLANK" /\ ly >= YRes /\ size = 0
  BY <1>1, TickStarts DEF InMode, IInv, Queue
<1>3. CASE WithinLine
  <2>1. /\ lineTicks' = lineTicks + 1 /\ UNCHANGED <<mode, ly, windowLine, pipeline>>
        /\ ~(lineTicks + 1 >= TicksPerLine)
    BY <1>3 DEF WithinLine, LineOver
  <2>2. lineTicks + 1 < TicksPerLine
    BY <2>1, Constants DEF IInv, Position
  <2>3. Position'
    BY <1>2, <2>1, <2>2, WithinKept DEF IInv
  <2>4. InMode' /\ Queue' /\ Window'
    BY <1>2, <2>1 DEF InMode, IInv, Queue, Window, pipeline
  <2> QED  BY <1>2, <2>3, <2>4 DEF IInv
<1>4. CASE EndLine
  <2>1. lineTicks' = 0 /\ lineTicks + 1 >= TicksPerLine /\ UNCHANGED pipeline
        /\ ~WithinLine
    BY <1>4 DEF EndLine, LineOver, WithinLine
  <2>2. Queue'
    BY <1>2, <2>1 DEF IInv, Queue, pipeline
  <2>3. ly \in Nat /\ ly < LinesPerFrame
    BY Constants DEF IInv, Position
  <2>4. CASE FrameOver
    <3>1. ly' = 0 /\ windowLine' = 0 /\ mode' = "OAM"
      BY <2>1, <2>4 DEF VblankMode
    <3>2. ~(ly + 1 < LinesPerFrame)
      BY <2>3, <2>4, Constants DEF FrameOver
    <3>3. Position'
      BY <1>2, <2>1, <3>1, <3>2, EndKept DEF IInv
    <3>4. InMode' /\ Window'
      BY <2>1, <3>1, Constants DEF InMode, Window
    <3> QED  BY <1>2, <2>2, <3>3, <3>4 DEF IInv
  <2>5. CASE ~FrameOver
    <3>1. ly' = ly + 1 /\ windowLine' = windowLine + WindowStep /\ mode' = "VBLANK"
      BY <2>1, <2>5 DEF VblankMode
    <3>2. ly + 1 < LinesPerFrame
      BY <2>3, <2>5, Constants DEF FrameOver
    <3>3. Position'
      BY <1>2, <2>1, <3>1, <3>2, EndKept DEF IInv
    <3>4. WindowStep = 0
      BY <1>2, <2>3, Constants DEF WindowStep
    <3>5. InMode' /\ Window'
      BY <1>2, <2>3, <3>1, <3>4, Constants DEF IInv, InMode, Window
    <3> QED  BY <1>2, <2>2, <3>3, <3>5 DEF IInv
  <2> QED  BY <2>4, <2>5
<1> QED  BY <1>3, <1>4 DEF VblankMode

-----------------------------------------------------------------------------
(***************************************************************************)
(* A tick of the transfer.                                                 *)
(***************************************************************************)
LEMMA StepBounds ==
    /\ \A state : StepOf(state) \in 0..4
    /\ StepOf("TILE") = 0 /\ StepOf("PUSH") = 4
    /\ \A state \in FetchStates \ {"PUSH"} :
           /\ NextFetch[state] \in FetchStates \ {"TILE"}
           /\ StepOf(NextFetch[state]) = StepOf(state) + 1
    /\ NextFetch["PUSH"] = "TILE"
  BY DEF StepOf, NextFetch, FetchStates

(* The transfer is over before the line is, and the FIFO has room for what *)
(* the fetcher brings.                                                     *)
LEMMA TransferBounds ==
    ASSUME Transfer, Queue, Position, NEW n \in 0..TicksPerLine, Progress(n)
    PROVE  /\ lineTicks + 1 < TicksPerLine
           /\ n + 1 <= TicksPerLine
           /\ size <= 2 * Tile - 1
           /\ fetchState = "PUSH" /\ Odd(lineTicks + 1) = 0 => size <= Tile
<1> DEFINE step == StepOf(fetchState)
           odd == Odd(lineTicks)
<1>1. /\ lineTicks \in Nat /\ odd \in {0, 1} /\ Odd(lineTicks + 1) = 1 - odd
      /\ step \in 0..4
  BY Constants, Parity, StepBounds DEF Position
<1>2. /\ lineX + size = n * Tile
      /\ size <= Tile \/ size <= 2 * Tile - 1 - 2 * step - odd
      /\ lineTicks <= OamTicks + 10 * n + 2 * step + odd
  BY DEF Progress
<1> HIDE DEF step, odd
<1>3. size <= 2 * Tile - 1
  BY <1>1, <1>2, Constants DEF Queue
<1>4. n * Tile < XRes + 3 * Tile
  BY <1>2, <1>3, Constants DEF Transfer, Queue
<1>5. OamTicks + 10 * n + 10 < TicksPerLine
  BY <1>4, TransferFits
<1>6. lineTicks + 1 < TicksPerLine /\ n + 1 <= TicksPerLine
  BY <1>1, <1>2, <1>5, Constants
<1>7. ASSUME fetchState = "PUSH", Odd(lineTicks + 1) = 0 PROVE size <= Tile
  <2>1. step = 4
    BY <1>7, StepBounds DEF step
  <2>2. odd = 1
    BY <1>1, <1>7
  <2> QED  BY <1>2, <2>1, <2>2, Constants DEF Queue
<1> QED  BY <1>3, <1>6, <1>7

(* What the fetcher does with its tile, before a pixel leaves the FIFO:    *)
(* the FIFO then holds so many.                                            *)
Fetched(n, filled) ==
    /\ lineX + filled = n * Tile
    /\ fetchX' = (IF fetchState' = "TILE" THEN n ELSE n + 1) * Tile
    /\ fetchState' \in FetchStates
    /\ filled \in Nat
    /\ filled <= Tile \/ filled <= 2 * Tile - 2 * StepOf(fetchState') - Odd(lineTicks')
    /\ lineTicks' <= OamTicks + 10 * n + 2 * StepOf(fetchState') + Odd(lineTicks')

LEMMA FetcherSteps ==
    ASSUME Transfer, Queue, Position, XferMode, NEW n \in 0..TicksPerLine, Progress(n),
           NEW filled,
           filled = IF Odd(lineTicks') = 0 /\ fetchState = "PUSH" /\ HasRoom THEN Pushed ELSE size
    PROVE  Fetched(n, filled) \/ Fetched(n + 1, filled)
<1> DEFINE step == StepOf(fetchState)
           odd == Odd(lineTicks)
<1>1. /\ lineTicks' = lineTicks + 1 /\ lineTicks \in Nat
      /\ odd \in {0, 1} /\ Odd(lineTicks') = 1 - odd
      /\ step \in 0..4
  BY Constants, Parity, StepBounds DEF Position, XferMode
<1>2. /\ lineX + size = n * Tile
      /\ fetchX = (IF fetchState = "TILE" THEN n ELSE n + 1) * Tile
      /\ size <= Tile \/ size <= 2 * Tile - 1 - 2 * step - odd
      /\ lineTicks <= OamTicks + 10 * n + 2 * step + odd
  BY DEF Progress
<1>3. /\ fetchState \in FetchStates
      /\ size \in Nat /\ lineX \in Nat /\ fetchX \in Nat
      /\ Odd(lineTicks') = 0 /\ fetchState = "PUSH" => size <= Tile
  BY <1>1, TransferBounds DEF Transfer, Queue
<1>4. /\ fetchState' = IF Odd(lineTicks') = 0 THEN NextFetch[fetchState] ELSE fetchState
      /\ fetchX' = IF Odd(lineTicks') = 0 /\ fetchState = "TILE" THEN fetchX + Tile ELSE fetchX
  BY <1>3, Constants DEF XferMode, Odd, HasRoom
<1> HIDE DEF odd
<1>5. CASE Odd(lineTicks') # 0
  <2>1. fetchState' = fetchState /\ fetchX' = fetchX /\ filled = size
    BY <1>4, <1>5
  <2>2. odd = 0
    BY <1>1, <1>5
  <2> HIDE DEF step
  <2>3. /\ filled <= Tile \/ filled <= 2 * Tile - 2 * step - Odd(lineTicks')
        /\ lineTicks' <= OamTicks + 10 * n + 2 * step + Odd(lineTicks')
    BY <1>1, <1>2, <1>3, <2>1, <2>2, Constants
  <2> QED  BY <1>2, <1>3, <2>1, <2>3 DEF Fetched, step
<1>6. CASE Odd(lineTicks') = 0 /\ fetchState # "PUSH"
  <2>1. filled = size /\ fetchState' = NextFetch[fetchState]
    BY <1>4, <1>6
  <2>2. /\ fetchState' \in FetchStates \ {"TILE"}
        /\ StepOf(fetchState') = step + 1
    BY <1>3, <1>6, <2>1, StepBounds
  <2>3. fetchX' = (n + 1) * Tile
    <3>1. CASE fetchState = "TILE"
      <4>1. fetchX' = n * Tile + Tile
        BY <1>2, <1>4, <1>6, <3>1
      <4> QED  BY <4>1, Constants
    <3>2. CASE fetchState # "TILE"
      BY <1>2, <1>4, <3>2
    <3> QED  BY <3>1, <3>2
  <2>4. odd = 1
    BY <1>1, <1>6
  <2> HIDE DEF step
  <2>5. /\ filled <= Tile \/ filled <= 2 * Tile - 2 * (step + 1) - 0
        /\ lineTicks' <= OamTicks + 10 * n + 2 * (step + 1) + 0
    BY <1>1, <1>2, <1>3, <2>1, <2>4, Constants
  <2> QED  BY <1>2, <1>3, <1>6, <2>1, <2>2, <2>3, <2>5 DEF Fetched
<1>7. CASE Odd(lineTicks') = 0 /\ fetchState = "PUSH"
  <2>1. fetchState' = "TILE" /\ fetchX' = fetchX /\ step = 4 /\ StepOf(fetchState') = 0
    BY <1>4, <1>7, StepBounds
  <2>2. size <= Tile /\ filled = Pushed
    BY <1>3, <1>7 DEF HasRoom
  <2>3. fetchX = (n + 1) * Tile /\ (n + 1) * Tile = n * Tile + Tile /\ n * Tile \in Nat
    BY <1>2, <1>7, Constants
  <2>4. fetchX + scrollX >= Tile
    BY <2>3, Constants DEF Queue
  <2>5. Pushed = size + Tile
    BY <1>3, <2>2, <2>4, Constants DEF Pushed, Least
  <2>6. odd = 1
    BY <1>1, <1>7
  <2> HIDE DEF step
  <2>7. /\ lineX + filled = (n + 1) * Tile
        /\ filled \in Nat /\ filled <= 2 * Tile - 2 * 0 - 0
        /\ lineTicks' <= OamTicks + 10 * (n + 1) + 2 * 0 + 0
    BY <1>1, <1>2, <1>3, <2>1, <2>2, <2>3, <2>5, <2>6, Constants
  <2>8. "TILE" \in FetchStates
    BY DEF FetchStates
  <2> QED  BY <1>7, <2>1, <2>3, <2>7, <2>8 DEF Fetched
<1> QED  BY <1>5, <1>6, <1>7

(* A pixel leaves a FIFO that holds more than a tile, and is drawn unless  *)
(* the fine scroll drops it.                                               *)
LEMMA InvXfer == ASSUME IInv, XferMode PROVE IInv'
<1>1. TickIn("XFER")
  BY DEF XferMode
<1>2. /\ lcdWasEnabled' /\ lcdWasEnabled' \in BOOLEAN
      /\ scrollX' = scrollX
      /\ frameTicks' = (frameTicks + 1) % (TicksPerLine * LinesPerFrame)
      /\ mode = "XFER" /\ Transfer
  BY <1>1, TickStarts DEF InMode
<1>3. Position /\ Queue /\ Window
  BY DEF IInv
<1>4. PICK n \in 0..TicksPerLine : Progress(n)
  BY <1>2 DEF Transfer
<1>5. lineTicks + 1 < TicksPerLine /\ n + 1 <= TicksPerLine /\ size <= 2 * Tile - 1
  BY <1>2, <1>3, <1>4, TransferBounds
<1> DEFINE filled == IF Odd(lineTicks') = 0 /\ fetchState = "PUSH" /\ HasRoom THEN Pushed ELSE size
           pops == filled > Tile
           draws == pops /\ lineX >= scrollX
<1>6. PICK m \in 0..TicksPerLine : Fetched(m, filled)
  <2>1. Fetched(n, filled) \/ Fetched(n + 1, filled)
    BY <1>2, <1>3, <1>4, FetcherSteps
  <2>2. n + 1 \in 0..TicksPerLine
    BY <1>5, Constants
  <2> QED  BY <2>1, <2>2
<1>7. /\ lineTicks' = lineTicks + 1 /\ UNCHANGED <<ly, windowLine>>
      /\ pushedX' = IF draws THEN pushedX + 1 ELSE pushedX
      /\ lineX' = IF pops THEN lineX + 1 ELSE lineX
      /\ size' = IF LineDone THEN 0 ELSE IF pops THEN filled - 1 ELSE filled
      /\ mode' = IF LineDone THEN "HBLANK" ELSE "XFER"
  BY DEF XferMode, Odd, FifoReset
<1> HIDE DEF filled
<1>8. /\ scrollX \in 0..(Tile - 1) /\ lineX \in Nat /\ pushedX \in Nat /\ filled \in Nat
      /\ pushedX < XRes /\ pushedX <= lineX /\ lineX <= pushedX + Tile - 1
  BY <1>2, <1>6 DEF Queue, IInv, Transfer, Fetched
<1>9. /\ lineX' \in Nat /\ pushedX' \in Nat /\ pushedX' <= XRes
      /\ pushedX' <= lineX' /\ lineX' <= pushedX' + Tile - 1
  BY <1>7, <1>8, Constants
<1>10. Position' /\ Window'
  BY <1>2, <1>3, <1>5, <1>7, WithinKept DEF Window
<1>11. fetchX' \in Nat
  BY <1>6, Constants DEF Fetched
<1>12. ly < YRes /\ lineTicks' >= OamTicks
  BY <1>2, <1>3, <1>7, Constants DEF Transfer, Position
<1>13. CASE LineDone
  <2>1. pushedX' = XRes /\ size' = 0 /\ mode' = "HBLANK"
    BY <1>7, <1>9, <1>13, Constants DEF LineDone
  <2>2. InMode' /\ Queue'
    BY <1>2, <1>3, <1>7, <1>9, <1>11, <1>12, <2>1 DEF InMode, Queue
  <2> QED  BY <1>2, <1>10, <2>2 DEF IInv
<1>14. CASE ~LineDone
  <2>1. mode' = "XFER" /\ pushedX' < XRes /\ size' = IF pops THEN filled - 1 ELSE filled
    BY <1>7, <1>9, <1>14, Constants DEF LineDone
  <2>2. size' \in Nat /\ lineX' + size' = lineX + filled
    BY <1>7, <1>8, <2>1, Constants
  <2>3. StepOf(fetchState') \in 0..4 /\ Odd(lineTicks') \in {0, 1}
    BY <1>3, <1>7, StepBounds, Parity, Constants DEF Position
  <2>4. size' <= Tile \/ size' <= 2 * Tile - 1 - 2 * StepOf(fetchState') - Odd(lineTicks')
    BY <1>6, <1>8, <2>1, <2>3, Constants DEF Fetched
  <2>5. Progress(m)'
    BY <1>6, <2>2, <2>4 DEF Progress, Fetched
  <2>6. Transfer'
    BY <1>6, <1>7, <1>9, <1>12, <2>1, <2>5 DEF Transfer, Fetched
  <2>7. InMode' /\ Queue'
    BY <1>2, <1>3, <1>9, <1>11, <2>1, <2>2, <2>6 DEF InMode, Queue
  <2> QED  BY <1>2, <1>10, <2>7 DEF IInv
<1> QED  BY <1>13, <1>14

LEMMA InvStutter == ASSUME IInv, UNCHANGED vars PROVE IInv'
<1>1. UNCHANGED <<pipeline, raster, lcdWasEnabled, scrollX>>
  BY DEF vars, registers
<1> QED  BY <1>1, InvCore DEF IInv, Queue

LEMMA InvNext == IInv /\ [Next]_vars => IInv'
<1> SUFFICES ASSUME IInv, [Next]_vars PROVE IInv'
  OBVIOUS
<1>1. CASE SwitchOff \/ StayOff
  BY <1>1, InvOff
<1>2. CASE OamMode
  BY <1>2, InvOam
<1>3. CASE XferMode
  BY <1>3, InvXfer
<1>4. CASE HblankMode
  BY <1>4, InvHblank
<1>5. CASE VblankMode
  BY <1>5, InvVblank
<1>6. CASE Write \/ ElseWhere
  BY <1>6, InvWrite
<1>7. CASE UNCHANGED vars
  BY <1>7, InvStutter
<1> QED  BY <1>1, <1>2, <1>3, <1>4, <1>5, <1>6, <1>7 DEF Next, PpuTick

-----------------------------------------------------------------------------
(***************************************************************************)
(* The theorems, of a PPU whose registers are initialised: without         *)
(* SkipBoot it draws its first frame from an LY that nothing has set.      *)
(***************************************************************************)
(* The inductive invariant holds throughout. *)
THEOREM Invariance == SkipBoot => (Spec => []IInv)
<1> SUFFICES ASSUME SkipBoot PROVE Spec => []IInv
  OBVIOUS
<1>1. Init => IInv
  BY InvInit
<1> QED  BY <1>1, InvNext, PTL DEF Spec

(* Whatever the program writes, LY and the position in the line follow the *)
(* time since the LCD was switched on: no line is longer or shorter, since *)
(* every transfer ends before its line does.                               *)
THEOREM RasterIsTime == SkipBoot => (Spec => []RasterInStep)
<1>1. IInv => RasterInStep
  BY Constants DEF IInv, RasterInStep, Position, InMode, Transfer
<1> QED  BY <1>1, Invariance, PTL

(* Every line is drawn whole, the FIFO never drops a tile and starts every *)
(* line empty.                                                             *)
THEOREM LinesAreComplete == SkipBoot => (Spec => []LinesComplete)
<1>1. IInv => LinesComplete
  <2> SUFFICES ASSUME IInv PROVE LinesComplete
    OBVIOUS
  <2>1. mode = "XFER" => Transfer
    BY DEF IInv, InMode, Cleared
  <2>2. size <= 2 * Tile
    <3>1. CASE mode = "XFER"
      <4>1. PICK n \in 0..TicksPerLine : Progress(n)
        BY <2>1, <3>1 DEF Transfer
      <4>2. size <= 2 * Tile - 1
        BY <2>1, <3>1, <4>1, TransferBounds DEF IInv
      <4> QED  BY <4>2, Constants DEF IInv, Queue
    <3>2. CASE mode # "XFER"
      BY <3>2, Constants DEF IInv, Queue
    <3> QED  BY <3>1, <3>2
  <2> QED  BY <2>1, <2>2, Constants DEF IInv, InMode, Queue, Transfer, LinesComplete
<1> QED  BY <1>1, Invariance, PTL

(* The window's row is one of its map, not below the picture's. *)
THEOREM WindowStaysBehind == SkipBoot => (Spec => []WindowBehindPicture)
<1>1. IInv => WindowBehindPicture
  BY Constants DEF IInv, Window, WindowBehindPicture, Least
<1> QED  BY <1>1, Invariance, PTL

(* A VBlank interrupt is requested in the tick in which the last visible   *)
(* line ends, and in no other.                                             *)
THEOREM VBlanksAreOnTime == SkipBoot => (Spec => VBlankOnTime)
<1>1. ASSUME IInv, IInv', [Next]_vars
      PROVE  [pc = "ppu" => ("VBlank" \in requested' <=>
                          lcdc.enable /\ frameTicks' = YRes * TicksPerLine)]_vars
  <2> DEFINE Due == "VBlank" \in requested' <=> lcdc.enable /\ frameTicks' = YRes * TicksPerLine
  <2> SUFFICES ASSUME Next, pc = "ppu" PROVE Due
    BY <1>1
  <2>1. PpuTick
    BY DEF Next, Write, WriteLCDC, WriteSTAT, WriteLYC, WriteSCX, WriteWindow, ElseWhere, Core
  <2>2. frameTicks' = YRes * TicksPerLine <=> ly' = YRes /\ lineTicks' = 0
    <3>1. /\ frameTicks' = ly' * TicksPerLine + lineTicks'
          /\ ly' \in Nat /\ lineTicks' \in 0..(TicksPerLine - 1)
      BY <1>1, Constants DEF IInv, Position
    <3>2. YRes * TicksPerLine + 0 = YRes * TicksPerLine
      BY Constants
    <3> QED  BY <3>1, <3>2, LineStart, Constants
  <2>3. CASE SwitchOff \/ StayOff
    BY <2>3 DEF SwitchOff, StayOff
  <2>4. ASSUME NEW m, TickIn(m), UpdateStatLine({}), ~(ly' = YRes /\ lineTicks' = 0)
        PROVE  Due
    BY <2>2, <2>4 DEF UpdateStatLine
  <2>5. ly \in Nat /\ lineTicks \in Nat
    BY <1>1, Constants DEF IInv, Position
  <2>6. CASE OamMode
    <3>1. TickIn("OAM") /\ UpdateStatLine({}) /\ lineTicks' = Fresh(lineTicks, 0) + 1
      BY <2>6 DEF OamMode
    <3>2. Fresh(lineTicks, 0) = lineTicks
      BY <1>1, <3>1, TickStarts
    <3> QED  BY <2>4, <2>5, <3>1, <3>2
  <2>7. CASE XferMode
    BY <2>4, <2>5, <2>7 DEF XferMode
  <2>8. CASE HblankMode
    <3>1. TickIn("HBLANK") /\ lcdc.enable
      BY <2>8 DEF HblankMode, TickIn
    <3>2. ly < YRes
      BY <1>1, <3>1, TickStarts DEF InMode
    <3>3. CASE WithinLine /\ UpdateStatLine({})
      BY <2>4, <2>5, <3>1, <3>3 DEF WithinLine
    <3>4. CASE EndLine /\ ly' = ly + 1
               /\ UpdateStatLine(IF ly' >= YRes THEN {"VBlank"} ELSE {})
      <4>1. lineTicks' = 0 /\ (ly' >= YRes <=> ly' = YRes)
        BY <2>5, <3>2, <3>4, Constants DEF EndLine
      <4>2. "VBlank" \in requested' <=> ly' >= YRes
        BY <3>4 DEF UpdateStatLine
      <4> QED  BY <2>2, <3>1, <4>1, <4>2
    <3> QED  BY <2>8, <3>3, <3>4 DEF HblankMode
  <2>9. CASE VblankMode
    <3>1. TickIn("VBLANK") /\ UpdateStatLine({})
      BY <2>9 DEF VblankMode
    <3>2. ly >= YRes
      BY <1>1, <3>1, TickStarts DEF InMode
    <3>3. CASE WithinLine
      BY <2>4, <2>5, <3>1, <3>3 DEF WithinLine
    <3>4. CASE EndLine /\ (ly' = 0 \/ ly' = ly + 1)
      <4>1. ly' # YRes
        BY <2>5, <3>2, <3>4, Constants
      <4> QED  BY <2>4, <3>1, <4>1
    <3> QED  BY <2>9, <3>3, <3>4 DEF VblankMode
  <2> QED  BY <2>1, <2>3, <2>6, <2>7, <2>8, <2>9 DEF PpuTick
<1> QED  BY <1>1, Invariance, PTL DEF Spec, VBlankOnTime

(* The level of the STAT line is kept as it was last computed. *)
Edge == statLine \in BOOLEAN /\ (statLine <=> wasHigh)

LEMMA EdgeNext == Edge /\ [Next]_vars => Edge'
<1> SUFFICES ASSUME Edge, [Next]_vars PROVE Edge'
  OBVIOUS
<1>1. ASSUME NEW also, UpdateStatLine(also) PROVE Edge'
  BY <1>1, Zenon DEF UpdateStatLine, Level, Edge
<1>2. CASE UNCHANGED <<statLine, wasHigh>>
  BY <1>2 DEF Edge
<1>3. CASE SwitchOff
  BY <1>3, Zenon DEF SwitchOff, Edge
<1>4. CASE OamMode \/ XferMode \/ HblankMode \/ VblankMode
  BY <1>1, <1>4 DEF OamMode, XferMode, HblankMode, VblankMode
<1>5. CASE StayOff \/ Write \/ ElseWhere \/ UNCHANGED vars
  BY <1>2, <1>5 DEF StayOff, Write, WriteLCDC, WriteSTAT, WriteLYC, WriteSCX, WriteWindow,
                    ElseWhere, Core, vars
<1> QED  BY <1>3, <1>4, <1>5 DEF Next, PpuTick

(* A STAT interrupt is requested exactly when the line of all selected     *)
(* sources rises, also over the LCD being off in between.                  *)
THEOREM StatRises == Spec => StatOnRisingEdge
<1>1. Init => Edge
  BY Zenon DEF Init, Edge
<1>2. ASSUME Edge, [Next]_vars
      PROVE  [pc = "ppu" => ("LCD" \in requested' <=>
                          lcdc.enable /\ ~wasHigh /\ Level(mode', ly'))]_vars
  <2> DEFINE Due == "LCD" \in requested' <=> lcdc.enable /\ ~wasHigh /\ Level(mode', ly')
  <2> SUFFICES ASSUME Next, pc = "ppu" PROVE Due
    BY <1>2
  <2>1. PpuTick
    BY DEF Next, Write, WriteLCDC, WriteSTAT, WriteLYC, WriteSCX, WriteWindow, ElseWhere, Core
  <2>2. CASE SwitchOff \/ StayOff
    BY <2>2 DEF SwitchOff, StayOff
  <2>3. ASSUME lcdc.enable, NEW also, "LCD" \notin also, UpdateStatLine(also) PROVE Due
    BY <1>2, <2>3 DEF UpdateStatLine, Edge
  <2>4. CASE OamMode \/ XferMode \/ HblankMode \/ VblankMode
    <3>1. lcdc.enable
      BY <2>4 DEF OamMode, XferMode, HblankMode, VblankMode, TickIn
    <3>2. \/ UpdateStatLine({})
          \/ UpdateStatLine(IF ly' >= YRes THEN {"VBlank"} ELSE {})
      BY <2>4 DEF OamMode, XferMode, HblankMode, VblankMode
    <3> QED  BY <2>3, <3>1, <3>2
  <2> QED  BY <2>1, <2>2, <2>4 DEF PpuTick
<1> QED  BY <1>1, <1>2, EdgeNext, PTL DEF Spec, StatOnRisingEdge

-----------------------------------------------------------------------------
(* The list of sprites on a line. *)
LEMMA ListConstants ==
    /\ OamEntries \in Nat /\ MaxLineSprites \in Nat
    /\ \A e \in Entries : e.x \in Nat /\ e.y \in Nat
    /\ Lines \subseteq Nat /\ Heights \subseteq Nat
  BY SpritesAssumption

\* The sprites before n with a row on the line.
Picked(n) == {k \in 0..(n - 1) : OnLine(oam[k])}

Members == {lineSprites[n] : n \in DOMAIN lineSprites}

Drawn == \A m, n \in DOMAIN lineSprites : m < n => Before(lineSprites[m], lineSprites[n])

\* While there was a slot for all of them, the list is of all of them.
ListInv ==
    /\ oam \in [Index -> Entries] /\ curY \in Nat /\ spriteHeight \in Nat
    /\ i \in 0..OamEntries
    /\ lineSprites \in Seq(0..(i - 1))
    /\ Members = Picked(i)
    /\ Len(lineSprites) = Cardinality(Picked(i))
    /\ Len(lineSprites) <= MaxLineSprites
    /\ Drawn

LEMMA CoversIsOnLine ==
    ASSUME ListInv, NEW e \in Entries
    PROVE  Covers(e) <=> OnLine(e)
  <1>1. e.y \in Nat /\ curY \in Nat /\ spriteHeight \in Nat
    BY ListConstants DEF ListInv
  <1>2. ASSUME Covers(e) PROVE OnLine(e)
    <2>1. curY + 16 - e.y \in 0..(spriteHeight - 1) /\ e.y - 16 + (curY + 16 - e.y) = curY
      BY <1>1, <1>2 DEF Covers
    <2> QED  BY <2>1 DEF OnLine
  <1>3. ASSUME OnLine(e) PROVE Covers(e)
    BY <1>1, <1>3 DEF Covers, OnLine
  <1> QED  BY <1>2, <1>3

LEMMA PickedFinite == \A n \in Nat : IsFiniteSet(Picked(n))
  <1> SUFFICES ASSUME NEW n \in Nat PROVE IsFiniteSet(Picked(n))
    OBVIOUS
  <1>1. IsFiniteSet(0..(n - 1))
    BY FS_Interval
  <1>2. Picked(n) \subseteq 0..(n - 1)
    BY DEF Picked
  <1> QED  BY <1>1, <1>2, FS_Subset

LEMMA PickedNext ==
    ASSUME NEW n \in Nat
    PROVE  /\ n \notin Picked(n)
           /\ Picked(n + 1) = IF OnLine(oam[n]) THEN Picked(n) \cup {n} ELSE Picked(n)
  <1>1. 0..((n + 1) - 1) = (0..(n - 1)) \cup {n} /\ n \notin 0..(n - 1)
    OBVIOUS
  <1>2. Picked(n + 1) = {k \in (0..(n - 1)) \cup {n} : OnLine(oam[k])}
    BY <1>1 DEF Picked
  <1> HIDE DEF OnLine
  <1> QED  BY <1>1, <1>2 DEF Picked

\* A sprite on the list has fewer before it than the list is long.
LEMMA FewerBefore ==
    ASSUME NEW n \in Nat, NEW k \in Picked(n)
    PROVE  Cardinality(Picked(k)) < Cardinality(Picked(n))
  <1>1. k \in 0..(n - 1)
    BY DEF Picked
  <1>2. Picked(k) \subseteq Picked(n) /\ k \notin Picked(k)
    BY <1>1 DEF Picked
  <1>3. IsFiniteSet(Picked(k)) /\ IsFiniteSet(Picked(n))
    BY <1>1, PickedFinite
  <1>4. /\ Cardinality(Picked(k)) <= Cardinality(Picked(n))
        /\ Cardinality(Picked(k)) = Cardinality(Picked(n)) => Picked(k) = Picked(n)
    BY <1>2, <1>3, FS_Subset
  <1>5. Cardinality(Picked(k)) \in Nat /\ Cardinality(Picked(n)) \in Nat
    BY <1>3, FS_CardinalityType
  <1>6. Picked(k) # Picked(n)
    BY <1>2
  <1> QED  BY <1>4, <1>5, <1>6

LEMMA FirstTenPicked ==
    \A n : FirstTen(n) = {k \in Picked(n) : Cardinality(Picked(k)) < MaxLineSprites}
  BY DEF FirstTen, Picked

LEMMA ListShowsTheFirst == ListInv => ShowsTheFirst
  <1> SUFFICES ASSUME ListInv PROVE ShowsTheFirst
    OBVIOUS
  <1>1. i \in Nat /\ Cardinality(Picked(i)) <= MaxLineSprites /\ MaxLineSprites \in Nat
    BY ListConstants DEF ListInv
  <1>2. ASSUME NEW k \in Picked(i) PROVE Cardinality(Picked(k)) < MaxLineSprites
    <2>1. Cardinality(Picked(k)) < Cardinality(Picked(i))
      BY <1>1, FewerBefore
    <2>2. k \in Nat
      BY DEF Picked
    <2>3. Cardinality(Picked(k)) \in Nat /\ Cardinality(Picked(i)) \in Nat
      BY <1>1, <2>2, PickedFinite, FS_CardinalityType
    <2> QED  BY <1>1, <2>1, <2>3
  <1>3. FirstTen(i) = Picked(i)
    BY <1>2, FirstTenPicked
  <1> QED  BY <1>3 DEF ListInv, ShowsTheFirst, Members, Drawn

LEMMA ListInit == ScanInit => ListInv
  <1> SUFFICES ASSUME ScanInit PROVE ListInv
    OBVIOUS
  <1>1. /\ oam \in [Index -> Entries] /\ curY \in Nat /\ spriteHeight \in Nat
        /\ i = 0 /\ lineSprites = << >>
    BY ListConstants DEF ScanInit
  <1>2. 0 \in 0..OamEntries /\ 0 <= MaxLineSprites
    BY ListConstants
  <1>3. Picked(0) = {}
    BY DEF Picked
  <1>4. Members = {} /\ Drawn
    BY <1>1 DEF Members, Drawn
  <1>5. lineSprites \in Seq(0..(i - 1)) /\ Len(lineSprites) = 0
    BY <1>1
  <1>6. Cardinality({}) = 0
    BY FS_EmptySet
  <1> QED  BY <1>1, <1>2, <1>3, <1>4, <1>5, <1>6 DEF ListInv

\* An element put into a sequence.
LEMMA Inserted ==
    ASSUME NEW S, NEW s \in Seq(S), NEW p \in 1..(Len(s) + 1), NEW e \in S
    PROVE  /\ InsertAt(s, p, e) \in Seq(S)
           /\ Len(InsertAt(s, p, e)) = Len(s) + 1
           /\ \A n \in 1..(Len(s) + 1) :
                  InsertAt(s, p, e)[n] = IF n < p THEN s[n] ELSE IF n = p THEN e ELSE s[n - 1]
  <1> DEFINE a == SubSeq(s, 1, p - 1)
             b == SubSeq(s, p, Len(s))
  <1>0. Len(s) \in Nat /\ \A n \in 1..Len(s) : s[n] \in S
    OBVIOUS
  <1>1. a \in Seq(S) /\ Len(a) = p - 1 /\ \A n \in 1..(p - 1) : a[n] = s[n]
    BY <1>0
  <1>2. b \in Seq(S) /\ Len(b) = Len(s) - p + 1 /\ \A n \in 1..(Len(s) - p + 1) : b[n] = s[p + n - 1]
    BY <1>0
  <1>3. InsertAt(s, p, e) = a \o <<e>> \o b
    BY DEF InsertAt
  <1> HIDE DEF a, b
  <1> DEFINE c == a \o <<e>>
  <1>4. c \in Seq(S) /\ Len(c) = p /\ \A n \in 1..p : c[n] = IF n < p THEN s[n] ELSE e
    BY <1>1
  <1> HIDE DEF c
  <1> DEFINE d == c \o b
  <1>5. d \in Seq(S) /\ Len(d) = Len(s) + 1
        /\ \A n \in 1..(Len(s) + 1) : d[n] = IF n <= p THEN c[n] ELSE b[n - p]
    <2>1. /\ d \in Seq(S) /\ Len(d) = Len(c) + Len(b)
          /\ \A n \in 1..(Len(c) + Len(b)) : d[n] = IF n <= Len(c) THEN c[n] ELSE b[n - Len(c)]
      BY <1>2, <1>4, ConcatProperties
    <2>2. Len(c) = p /\ Len(c) + Len(b) = Len(s) + 1
      BY <1>0, <1>2, <1>4
    <2> QED  BY <2>1, <2>2
  <1> HIDE DEF d
  <1>6. \A n \in 1..(Len(s) + 1) : d[n] = IF n < p THEN s[n] ELSE IF n = p THEN e ELSE s[n - 1]
    <2> SUFFICES ASSUME NEW n \in 1..(Len(s) + 1)
                 PROVE  d[n] = IF n < p THEN s[n] ELSE IF n = p THEN e ELSE s[n - 1]
      OBVIOUS
    <2>1. CASE n <= p
      BY <2>1, <1>4, <1>5
    <2>2. CASE n > p
      <3>1. n - p \in 1..(Len(s) - p + 1) /\ p + (n - p) - 1 = n - 1
        BY <1>0, <2>2
      <3>2. d[n] = b[n - p] /\ b[n - p] = s[p + (n - p) - 1]
        BY <1>2, <1>5, <2>2, <3>1
      <3> QED  BY <2>2, <3>1, <3>2
    <2> QED  BY <2>1, <2>2
  <1>7. InsertAt(s, p, e) = d
    BY <1>3 DEF c, d
  <1> QED  BY <1>5, <1>6, <1>7

\* The least of a set of numbers.
LEMMA LeastOf ==
    ASSUME NEW S \in SUBSET Nat, S # {}
    PROVE  \E n \in S : \A m \in S : n <= m
  <1> DEFINE Less == {p \in Nat \X Nat : p[1] < p[2]}
  <1>1. IsWellFoundedOn(Less, Nat)
    BY NatLessThanWellFounded DEF OpToRel
  <1>2. PICK n \in S : \A m \in S : ~(<<m, n>> \in Less)
    BY <1>1, WFMin
  <1>3. \A a, b \in Nat : a < b => <<a, b>> \in Less
    OBVIOUS
  <1> HIDE DEF Less
  <1>4. ASSUME NEW m \in S PROVE n <= m
    <2>1. n \in Nat /\ m \in Nat
      BY <1>2, <1>4
    <2>2. ~(m < n)
      BY <1>2, <1>3, <1>4, <2>1
    <2> QED  BY <2>1, <2>2
  <1> QED  BY <1>2, <1>4

\* The walk passes the sprites that are not after x, and stops before one that is.
LEMMA PlaceFits ==
    ASSUME ListInv, NEW x \in Nat
    PROVE  /\ Place(x) \in 1..(Len(lineSprites) + 1)
           /\ \A n \in 1..Len(lineSprites) : n < Place(x) => ~(x < oam[lineSprites[n]].x)
           /\ Place(x) <= Len(lineSprites) => x < oam[lineSprites[Place(x)]].x
  <1> DEFINE stops == {n \in DOMAIN lineSprites : StopsAt(x, oam[lineSprites[n]].x)}
                          \cup {Len(lineSprites) + 1}
             least(n) == \A m \in stops : n <= m
             place == CHOOSE n \in stops : least(n)
  <1>0. Len(lineSprites) \in Nat /\ DOMAIN lineSprites = 1..Len(lineSprites)
    BY DEF ListInv
  <1>1. stops \in SUBSET Nat /\ stops # {} /\ stops \subseteq 1..(Len(lineSprites) + 1)
    BY <1>0
  <1>2. \E n \in stops : least(n)
    BY <1>1, LeastOf
  <1>3. place \in stops /\ least(place)
    BY <1>2, Zenon
  <1>4. Place(x) = place
    BY DEF Place
  <1> HIDE DEF place
  <1>5. ASSUME NEW n \in 1..Len(lineSprites), n < place PROVE ~(x < oam[lineSprites[n]].x)
    <2>1. SUFFICES ASSUME x < oam[lineSprites[n]].x PROVE FALSE
      OBVIOUS
    <2>2. n \in stops
      BY <1>0, <2>1 DEF StopsAt
    <2> QED  BY <1>0, <1>1, <1>3, <1>5, <2>2
  <1>6. ASSUME place <= Len(lineSprites) PROVE x < oam[lineSprites[place]].x
    BY <1>0, <1>3, <1>6 DEF StopsAt
  <1> QED  BY <1>1, <1>3, <1>4, <1>5, <1>6

LEMMA PickStep == ListInv /\ Pick => ListInv'
  <1> SUFFICES ASSUME ListInv, Pick PROVE ListInv'
    OBVIOUS
  <1> DEFINE l == lineSprites
             p == Place(oam[i].x)
             m == lineSprites'
  <1>1. /\ i \in Index /\ i' = i + 1 /\ oam' = oam /\ curY' = curY
        /\ spriteHeight' = spriteHeight /\ m = InsertAt(l, p, i)
        /\ Covers(oam[i]) /\ Len(l) < MaxLineSprites
    BY DEF Pick, HasSlot
  <1>2. i \in Nat /\ i \in 0..i /\ i' \in 0..OamEntries /\ 0..(i' - 1) = 0..i
    BY <1>1, ListConstants DEF Index
  <1>3. oam[i] \in Entries /\ oam[i].x \in Nat
    BY <1>1, ListConstants DEF ListInv
  <1>4. /\ l \in Seq(0..i) /\ Len(l) \in Nat /\ DOMAIN l = 1..Len(l)
        /\ \A n \in 1..Len(l) : l[n] \in 0..(i - 1)
    BY <1>2 DEF ListInv
  <1>5. /\ p \in 1..(Len(l) + 1)
        /\ \A n \in 1..Len(l) : n < p => ~(oam[i].x < oam[l[n]].x)
        /\ p <= Len(l) => oam[i].x < oam[l[p]].x
    BY <1>3, PlaceFits
  <1> HIDE DEF p
  <1>6. /\ m \in Seq(0..i) /\ Len(m) = Len(l) + 1
        /\ \A n \in 1..(Len(l) + 1) :
               m[n] = IF n < p THEN l[n] ELSE IF n = p THEN i ELSE l[n - 1]
    <2>1. /\ InsertAt(l, p, i) \in Seq(0..i) /\ Len(InsertAt(l, p, i)) = Len(l) + 1
          /\ \A n \in 1..(Len(l) + 1) :
                 InsertAt(l, p, i)[n] =
                     IF n < p THEN l[n] ELSE IF n = p THEN i ELSE l[n - 1]
      <3> DEFINE S == 0..i
      <3>1. l \in Seq(S) /\ i \in S /\ p \in 1..(Len(l) + 1)
        BY <1>2, <1>4, <1>5
      <3> HIDE DEF S, l
      <3>2. /\ InsertAt(l, p, i) \in Seq(S) /\ Len(InsertAt(l, p, i)) = Len(l) + 1
            /\ \A n \in 1..(Len(l) + 1) :
                   InsertAt(l, p, i)[n] =
                       IF n < p THEN l[n] ELSE IF n = p THEN i ELSE l[n - 1]
        BY <3>1, Inserted
      <3> QED  BY <3>2 DEF S
    <2> HIDE DEF l
    <2> QED  BY <1>1, <2>1
  <1>7. DOMAIN m = 1..(Len(l) + 1)
    BY <1>4, <1>6
  <1>8. Members' = Members \cup {i}
    <2>1. {m[n] : n \in 1..(Len(l) + 1)} \subseteq {l[n] : n \in 1..Len(l)} \cup {i}
      <3> SUFFICES ASSUME NEW n \in 1..(Len(l) + 1)
                   PROVE  m[n] \in {l[k] : k \in 1..Len(l)} \cup {i}
        OBVIOUS
      <3>1. CASE n < p
        BY <1>4, <1>5, <1>6, <3>1
      <3>2. CASE n = p
        BY <1>6, <3>2
      <3>3. CASE n > p
        <4>1. n - 1 \in 1..Len(l) /\ m[n] = l[n - 1]
          BY <1>4, <1>5, <1>6, <3>3
        <4> QED  BY <4>1
      <3> QED  BY <1>5, <3>1, <3>2, <3>3
    <2>2. \A n \in 1..Len(l) : l[n] \in {m[k] : k \in 1..(Len(l) + 1)}
      <3> SUFFICES ASSUME NEW n \in 1..Len(l)
                   PROVE  l[n] \in {m[k] : k \in 1..(Len(l) + 1)}
        OBVIOUS
      <3>1. CASE n < p
        BY <1>4, <1>6, <3>1
      <3>2. CASE ~(n < p)
        <4>1. /\ n + 1 \in 1..(Len(l) + 1) /\ ~(n + 1 < p) /\ n + 1 # p
              /\ (n + 1) - 1 = n
          BY <1>4, <1>5, <3>2
        <4>2. m[n + 1] = l[n]
          BY <1>6, <4>1
        <4> QED  BY <4>1, <4>2
      <3> QED  BY <3>1, <3>2
    <2>3. i \in {m[k] : k \in 1..(Len(l) + 1)}
      <3>1. m[p] = i
        BY <1>5, <1>6
      <3> QED  BY <1>5, <3>1
    <2> QED  BY <1>4, <1>7, <2>1, <2>2, <2>3 DEF Members
  <1>9. Picked(i)' = Picked(i + 1)
    BY <1>1 DEF Picked, OnLine
  <1>10. Picked(i + 1) = Picked(i) \cup {i} /\ i \notin Picked(i)
    BY <1>2, <1>1, <1>3, PickedNext, CoversIsOnLine
  <1>11. Cardinality(Picked(i + 1)) = Cardinality(Picked(i)) + 1
    BY <1>2, <1>10, PickedFinite, FS_AddElement
  <1>12. \A a, b \in DOMAIN m : a < b => Before(m[a], m[b])
    <2> SUFFICES ASSUME NEW a \in 1..(Len(l) + 1), NEW b \in 1..(Len(l) + 1), a < b
                 PROVE  Before(m[a], m[b])
      BY <1>7
    <2>0. \A n \in 1..Len(l) : oam[l[n]].x \in Nat /\ l[n] \in Nat /\ l[n] < i
      <3> SUFFICES ASSUME NEW n \in 1..Len(l)
                   PROVE  oam[l[n]].x \in Nat /\ l[n] \in Nat /\ l[n] < i
        OBVIOUS
      <3>1. l[n] \in Index /\ l[n] < i /\ l[n] \in Nat
        BY <1>1, <1>2, <1>4, ListConstants DEF Index
      <3>2. oam[l[n]] \in Entries
        BY <3>1 DEF ListInv
      <3> QED  BY <3>1, <3>2, ListConstants
    <2>1. \A c, d \in 1..Len(l) : c < d => Before(l[c], l[d])
      BY <1>4 DEF ListInv, Drawn
    <2>2. CASE a = p
      <3>1. /\ m[a] = i /\ m[b] = l[b - 1] /\ b - 1 \in 1..Len(l) /\ p \in 1..Len(l)
            /\ p <= b - 1
        BY <1>4, <1>5, <1>6, <2>2
      <3>2. oam[i].x < oam[l[p]].x
        BY <1>4, <1>5, <3>1
      <3>3. p = b - 1 \/ Before(l[p], l[b - 1])
        BY <1>4, <2>1, <3>1
      <3>4. oam[l[p]].x <= oam[l[b - 1]].x
        BY <2>0, <3>1, <3>3 DEF Before
      <3>5. oam[l[p]].x \in Nat /\ oam[l[b - 1]].x \in Nat
        BY <2>0, <3>1
      <3>6. oam[i].x < oam[l[b - 1]].x
        BY <1>3, <3>2, <3>4, <3>5
      <3> QED  BY <3>1, <3>6 DEF Before
    <2>3. CASE b = p
      <3>1. m[b] = i /\ m[a] = l[a] /\ a \in 1..Len(l)
        BY <1>4, <1>5, <1>6, <2>3
      <3>2. ~(oam[i].x < oam[l[a]].x) /\ oam[l[a]].x \in Nat /\ l[a] < i
        BY <1>5, <2>0, <2>3, <3>1
      <3>3. oam[l[a]].x < oam[i].x \/ oam[l[a]].x = oam[i].x
        BY <1>3, <3>2
      <3> QED  BY <3>1, <3>2, <3>3 DEF Before
    <2>4. CASE a # p /\ b # p
      <3> DEFINE c == IF a < p THEN a ELSE a - 1
                 d == IF b < p THEN b ELSE b - 1
      <3>1. c \in 1..Len(l) /\ d \in 1..Len(l) /\ c < d
        BY <1>4, <1>5, <2>4
      <3>2. m[a] = l[c] /\ m[b] = l[d]
        BY <1>6, <2>4
      <3> HIDE DEF c, d
      <3> QED  BY <2>1, <3>1, <3>2
    <2> QED  BY <2>2, <2>3, <2>4
  <1>13. Drawn'
    <2>1. \A a, b : Before(a, b)' <=> Before(a, b)
      BY <1>1 DEF Before
    <2> QED  BY <1>1, <1>12 DEF Drawn, Before
  <1>14. Members = Picked(i) /\ Len(l) = Cardinality(Picked(i))
    BY DEF ListInv
  <1>15. (Members = Picked(i))'
    BY <1>8, <1>9, <1>10, <1>14
  <1>16. /\ Len(m) = Cardinality(Picked(i)') /\ Len(m) <= MaxLineSprites
    <2>1. Len(m) = Cardinality(Picked(i + 1))
      BY <1>6, <1>11, <1>14
    <2>2. Len(m) <= MaxLineSprites
      BY <1>1, <1>4, <1>6, ListConstants
    <2> QED  BY <1>9, <2>1, <2>2
  <1>17. m \in Seq(0..(i' - 1))
    BY <1>2, <1>6
  <1>18. (oam \in [Index -> Entries] /\ curY \in Nat /\ spriteHeight \in Nat)'
    BY <1>1 DEF ListInv, Index
  <1> QED  BY <1>2, <1>13, <1>15, <1>16, <1>17, <1>18 DEF ListInv

LEMMA SkipStep == ListInv /\ Skip => ListInv'
  <1> SUFFICES ASSUME ListInv, Skip PROVE ListInv'
    OBVIOUS
  <1>1. /\ i \in Index /\ i' = i + 1 /\ oam' = oam /\ curY' = curY
        /\ spriteHeight' = spriteHeight /\ lineSprites' = lineSprites
        /\ ~Covers(oam[i])
    BY DEF Skip
  <1>2. i \in Nat /\ i' \in 0..OamEntries /\ 0..(i - 1) \subseteq 0..(i' - 1)
    BY <1>1, ListConstants DEF Index
  <1>3. oam[i] \in Entries
    BY <1>1 DEF ListInv
  <1>4. Picked(i + 1) = Picked(i)
    BY <1>2, <1>1, <1>3, PickedNext, CoversIsOnLine
  <1>5. Picked(i)' = Picked(i + 1)
    BY <1>1 DEF Picked, OnLine
  <1>6. Members' = Members /\ Drawn' = Drawn
    BY <1>1 DEF Members, Drawn, Before
  <1>7. lineSprites' \in Seq(0..(i' - 1))
    BY <1>1, <1>2 DEF ListInv
  <1>8. (Members = Picked(i))' /\ Len(lineSprites)' = Cardinality(Picked(i)')
    BY <1>1, <1>4, <1>5, <1>6 DEF ListInv
  <1>9. (oam \in [Index -> Entries] /\ curY \in Nat /\ spriteHeight \in Nat)'
    BY <1>1 DEF ListInv, Index
  <1>10. (Len(lineSprites) <= MaxLineSprites)' /\ Drawn'
    BY <1>1, <1>6 DEF ListInv
  <1> QED  BY <1>2, <1>7, <1>8, <1>9, <1>10 DEF ListInv

LEMMA ListStep == ListInv /\ [ScanNext]_scanVars => ListInv'
  <1> SUFFICES ASSUME ListInv, [ScanNext]_scanVars PROVE ListInv'
    OBVIOUS
  <1>1. CASE Pick
    BY <1>1, PickStep
  <1>2. CASE Skip
    BY <1>2, SkipStep
  <1>3. CASE UNCHANGED scanVars
    <2>1. /\ oam' = oam /\ curY' = curY /\ spriteHeight' = spriteHeight
          /\ i' = i /\ lineSprites' = lineSprites
      BY <1>3 DEF scanVars
    <2>2. Members' = Members /\ Picked(i)' = Picked(i) /\ Drawn' = Drawn
      BY <2>1 DEF Members, Picked, OnLine, Drawn, Before
    <2> QED  BY <2>1, <2>2 DEF ListInv, Index
  <1> QED  BY <1>1, <1>2, <1>3 DEF ScanNext

LEMMA ListInvariance == ScanSpec => []ListInv
  BY ListInit, ListStep, PTL DEF ScanSpec

(* The list of a line (PPU::loadLineSpites) holds the first sprites with a *)
(* row on the line, each once, at most ten, in the order they cover each   *)
(* other: for every OAM, every line and after every turn of the loop.      *)
THEOREM SpritesAreTheFirst == ScanSpec => []ShowsTheFirst
  BY ListInvariance, ListShowsTheFirst, PTL

\* A full line shows none of the sprites that are left.
LEMMA NoMoreShow ==
    ASSUME ListInv, ~HasSlot
    PROVE  FirstTen(OamEntries) = FirstTen(i)
  <1>1. i \in 0..OamEntries /\ OamEntries \in Nat /\ MaxLineSprites \in Nat
    BY ListConstants DEF ListInv
  <1>2. Cardinality(Picked(i)) = MaxLineSprites
    BY <1>1, PickedFinite, FS_CardinalityType DEF ListInv, HasSlot
  <1>3. Picked(i) \subseteq Picked(OamEntries)
    BY <1>1 DEF Picked
  <1>4. ASSUME NEW k \in Picked(OamEntries), k \notin Picked(i)
        PROVE  ~(Cardinality(Picked(k)) < MaxLineSprites)
    <2>1. k \in Nat /\ i <= k
      BY <1>1, <1>4 DEF Picked
    <2>2. Picked(i) \subseteq Picked(k)
      BY <1>1, <2>1 DEF Picked
    <2>3. Cardinality(Picked(i)) <= Cardinality(Picked(k)) /\ Cardinality(Picked(k)) \in Nat
      BY <2>1, <2>2, PickedFinite, FS_Subset, FS_CardinalityType
    <2> QED  BY <1>1, <1>2, <2>3
  <1> HIDE DEF Picked
  <1> QED  BY <1>3, <1>4, FirstTenPicked

\* What the loop leaves behind, when OAM is at its end or the line full, are
\* the first ten of the whole of OAM.
LEMMA WholeList ==
    ASSUME ListInv, ~(i \in Index /\ HasSlot)
    PROVE  Members = FirstTen(OamEntries)
  <1>1. Members = FirstTen(i)
    BY ListShowsTheFirst DEF ShowsTheFirst, Members
  <1>2. CASE ~HasSlot
    BY <1>1, <1>2, NoMoreShow
  <1>3. CASE i \notin Index
    <2>1. i = OamEntries
      BY <1>3, ListConstants DEF ListInv, Index
    <2> QED  BY <1>1, <2>1
  <1> QED  BY <1>2, <1>3

(* The list the fetcher takes its sprites from is that of the whole of     *)
(* OAM, though the loop may have stopped before its end.                   *)
THEOREM ScanIsComplete ==
    ScanSpec => [](~(i \in Index /\ HasSlot) => Members = FirstTen(OamEntries))
  <1>1. ListInv => (~(i \in Index /\ HasSlot) => Members = FirstTen(OamEntries))
    BY WholeList
  <1> QED  BY <1>1, ListInvariance, PTL

-----------------------------------------------------------------------------
(* The pixels of a tile. *)

\* What is true of the fetcher when it has the list of the line.
TileFetched ==
    /\ fetchedEntries \subseteq DOMAIN lineSprites
    /\ fetchState = "PUSH" \/ pushed # << >> => ListMade
    /\ fetchState = "PUSH" =>
           /\ fetchX = fifoX + Tile
           /\ pushed = << >>
           /\ objKept => \A n \in DOMAIN lineSprites :
                  n \in fetchedEntries <=>
                      \/ SpX(lineSprites[n]) \in fifoX..(fifoX + Tile - 1)
                      \/ SpX(lineSprites[n]) + Tile \in fifoX..(fifoX + Tile - 1)
    /\ fetchState = "TILE" => fetchX = fifoX

PixelInv ==
    /\ ListInv
    /\ scrollX \in Nat /\ fifoX \in Nat /\ fetchX \in Nat
    /\ fetchState \in {"TILE", "PUSH"}
    /\ TileFetched

LEMMA PixelConstants == Tile \in Nat \ {0} /\ XRes \in Nat /\ FineScrolls \subseteq Nat
  BY PixelsAssumption

LEMMA SpriteColumns ==
    ASSUME ListInv, scrollX \in Nat
    PROVE  \A n \in DOMAIN lineSprites :
               /\ lineSprites[n] \in Index
               /\ oam[lineSprites[n]].x \in Nat
               /\ SpX(lineSprites[n]) \in Int
  <1> SUFFICES ASSUME NEW n \in DOMAIN lineSprites
               PROVE  /\ lineSprites[n] \in Index
                      /\ oam[lineSprites[n]].x \in Nat
                      /\ SpX(lineSprites[n]) \in Int
    OBVIOUS
  <1>1. i \in 0..OamEntries /\ OamEntries \in Nat /\ lineSprites \in Seq(0..(i - 1))
    BY ListConstants DEF ListInv
  <1>2. lineSprites[n] \in 0..(i - 1)
    BY <1>1, ElementOfSeq
  <1>3. lineSprites[n] \in Index
    BY <1>1, <1>2 DEF Index
  <1>4. oam[lineSprites[n]].x \in Nat
    BY <1>3, ListConstants DEF ListInv
  <1> QED  BY <1>3, <1>4, PixelConstants DEF SpX

LEMMA PixelStart == PixelInit => PixelInv
  <1> SUFFICES ASSUME PixelInit PROVE PixelInv
    OBVIOUS
  <1>1. ListInv
    BY ListInit DEF PixelInit
  <1>2. scrollX \in Nat
    BY PixelConstants DEF PixelInit
  <1>3. /\ fetchState = "TILE" /\ fetchX = 0 /\ fifoX = 0
        /\ fetchedEntries = {} /\ pushed = << >>
    BY DEF PixelInit
  <1> QED  BY <1>1, <1>2, <1>3 DEF PixelInv, TileFetched


LEMMA MakeListStep == PixelInv /\ MakeList => PixelInv'
  <1> SUFFICES ASSUME PixelInv, MakeList PROVE PixelInv'
    OBVIOUS
  <1>1. ListInv'
    BY ListStep DEF PixelInv, MakeList
  <1>2. UNCHANGED pixelVars /\ i \in Index /\ HasSlot
    BY DEF MakeList, ScanNext, Pick, Skip
  <1>3. fetchState = "TILE" /\ pushed = << >>
    BY <1>2 DEF PixelInv, TileFetched, ListMade
  <1>4. fetchedEntries' = fetchedEntries /\ fetchState' = "TILE" /\ pushed' = << >>
    BY <1>2, <1>3 DEF pixelVars
  <1>5. scrollX' = scrollX /\ fetchX' = fetchX /\ fifoX' = fifoX
    BY <1>2 DEF pixelVars
  <1>6. DOMAIN lineSprites \subseteq (DOMAIN lineSprites)'
    <2>1. CASE Skip
      BY <2>1 DEF Skip
    <2>2. CASE Pick
      <3>1. lineSprites \in Seq(0..(i - 1)) /\ lineSprites' \in Seq((0..(i - 1))')
        BY <1>1 DEF PixelInv, ListInv
      <3>2. i \in Nat /\ Len(lineSprites) = Cardinality(Picked(i)) /\ Picked(i) \subseteq Picked(i + 1)
        <4>1. i \in Nat
          BY <1>2, ListConstants DEF Index
        <4> QED  BY <4>1, PickedNext DEF PixelInv, ListInv
      <3>3. i' = i + 1 /\ UNCHANGED <<oam, curY, spriteHeight>>
        BY <2>2 DEF Pick
      <3>4. Len(lineSprites') = Cardinality(Picked(i + 1))
        <4>1. Picked(i)' = Picked(i + 1)
          BY <3>3 DEF Picked, OnLine
        <4> QED  BY <1>1, <4>1 DEF ListInv
      <3>5. Len(lineSprites) <= Len(lineSprites')
        BY <3>2, <3>4, PickedFinite, FS_Subset
      <3> QED  BY <3>1, <3>5
    <2> QED  BY <1>2, <2>1, <2>2 DEF MakeList, ScanNext
  <1> QED  BY <1>1, <1>3, <1>4, <1>5, <1>6 DEF PixelInv, TileFetched

LEMMA FetchTileStep ==
    ASSUME PixelInv, NEW objEnable \in BOOLEAN, FetchTile(objEnable)
    PROVE  PixelInv'
  <1>1. /\ ListMade /\ fetchState = "TILE"
        /\ fetchedEntries' = {n \in DOMAIN lineSprites : objEnable /\ Touches(lineSprites[n])}
        /\ objKept' = objEnable
        /\ fetchX' = fetchX + Tile /\ fetchState' = "PUSH" /\ pushed' = << >>
        /\ UNCHANGED <<oam, curY, spriteHeight, i, lineSprites, scrollX, fifoX>>
    BY DEF FetchTile, scanVars
  <1>2. ListInv'
    BY <1>1, ListStep DEF PixelInv, scanVars
  <1>3. ListMade'
    BY <1>1 DEF ListMade, Index, HasSlot
  <1>4. fetchX = fifoX
    BY <1>1 DEF PixelInv, TileFetched
  <1>5. \A n \in DOMAIN lineSprites : SpX(lineSprites[n])' = SpX(lineSprites[n])
    BY <1>1 DEF SpX
  <1>6. (objKept => \A n \in DOMAIN lineSprites :
                        n \in fetchedEntries <=>
                            \/ SpX(lineSprites[n]) \in fifoX..(fifoX + Tile - 1)
                            \/ SpX(lineSprites[n]) + Tile \in fifoX..(fifoX + Tile - 1))'
    <2>1. \A n \in DOMAIN lineSprites :
              objEnable => (n \in fetchedEntries' <=>
                                \/ SpX(lineSprites[n]) \in fifoX..(fifoX + Tile - 1)
                                \/ SpX(lineSprites[n]) + Tile \in fifoX..(fifoX + Tile - 1))
      BY <1>1, <1>4 DEF Touches
    <2> QED  BY <1>1, <1>5, <2>1
  <1>7. fetchX' = fifoX' + Tile
    BY <1>1, <1>4
  <1>8. fetchedEntries' \subseteq DOMAIN lineSprites'
    BY <1>1
  <1>9. TileFetched'
    BY <1>1, <1>3, <1>6, <1>7, <1>8 DEF TileFetched
  <1> QED  BY <1>1, <1>2, <1>9, PixelConstants DEF PixelInv

LEMMA AddStep ==
    ASSUME PixelInv, NEW objEnable \in BOOLEAN, NEW bgwEnable \in BOOLEAN,
           PipelineFifoAdd(objEnable, bgwEnable)
    PROVE  PixelInv'
  <1>1. /\ fetchState = "PUSH" /\ fetchState' = "TILE" /\ fifoX' = fifoX + Tile
        /\ UNCHANGED <<oam, curY, spriteHeight, i, lineSprites, scrollX, fetchX, fetchedEntries>>
    BY DEF PipelineFifoAdd, scanVars
  <1>2. ListInv'
    BY <1>1, ListStep DEF PixelInv, scanVars
  <1>3. ListMade /\ fetchX = fifoX + Tile
    BY <1>1 DEF PixelInv, TileFetched
  <1>4. ListMade'
    BY <1>1, <1>3 DEF ListMade, Index, HasSlot
  <1>5. TileFetched'
    BY <1>1, <1>3, <1>4 DEF TileFetched, PixelInv
  <1> QED  BY <1>1, <1>2, <1>5, PixelConstants DEF PixelInv


\* In a column of the tile that is added, the fetched sprites with an opaque
\* pixel are those of the first ten that have something to show there.
LEMMA OpaqueShows ==
    ASSUME PixelInv, fetchState = "PUSH", objKept, NEW p \in 0..(Tile - 1)
    PROVE  /\ Opaque(fifoX + p) \subseteq DOMAIN lineSprites
           /\ Shows((fifoX + p) - scrollX) = {lineSprites[n] : n \in Opaque(fifoX + p)}
  <1> DEFINE x == fifoX + p
             column == x - scrollX
             Into(k) == LET offset == column - (oam[k].x - Tile)
                        IN  offset \in 0..(Tile - 1) /\ Column(k, offset) # 0
  <1>1. fifoX \in Nat /\ scrollX \in Nat /\ x \in Nat /\ Tile \in Nat \ {0}
    BY PixelConstants DEF PixelInv
  <1>2. Members = FirstTen(OamEntries)
    BY WholeList DEF PixelInv, TileFetched, ListMade
  <1>3. \A n \in DOMAIN lineSprites :
            /\ lineSprites[n] \in Index /\ oam[lineSprites[n]].x \in Nat
            /\ SpX(lineSprites[n]) \in Int
    BY SpriteColumns DEF PixelInv
  <1>4. ASSUME NEW n \in DOMAIN lineSprites
        PROVE  n \in Opaque(x) <=> Into(lineSprites[n])
    <2> DEFINE k == lineSprites[n]
               offset == x - SpX(k)
    <2>1. offset = column - (oam[k].x - Tile) /\ offset \in Int
      BY <1>1, <1>3 DEF SpX
    <2>2. n \in fetchedEntries <=> \/ SpX(k) \in fifoX..(fifoX + Tile - 1)
                                  \/ SpX(k) + Tile \in fifoX..(fifoX + Tile - 1)
      BY DEF PixelInv, TileFetched
    <2>3. offset \in 0..(Tile - 1) => n \in fetchedEntries
      <3>1. SpX(k) \in Int
        BY <1>3
      <3> HIDE DEF k
      <3> QED  BY <1>1, <2>2, <3>1
    <2>4. n \in Opaque(x) <=>
              n \in fetchedEntries /\ offset \in 0..(Tile - 1) /\ Column(k, offset) # 0
      BY DEF Opaque
    <2>5. Into(k) <=> offset \in 0..(Tile - 1) /\ Column(k, offset) # 0
      BY <2>1
    <2> QED  BY <2>3, <2>4, <2>5
  <1>5. Opaque(x) \subseteq DOMAIN lineSprites
    BY DEF Opaque, PixelInv, TileFetched
  <1>6. Shows(column) = {k \in Members : Into(k)}
    BY <1>2 DEF Shows
  <1> HIDE DEF Into
  <1>7. {k \in Members : Into(k)} = {lineSprites[n] : n \in Opaque(x)}
    BY <1>4, <1>5 DEF Members
  <1> QED  BY <1>5, <1>6, <1>7, Zenon

\* The first sprite of a set of places covers all others of the set, and it
\* is the only one that does.
LEMMA FirstCovers ==
    ASSUME ListInv, scrollX \in Nat, NEW S \in SUBSET DOMAIN lineSprites, S # {},
           NEW column, Shows(column) = {lineSprites[n] : n \in S}
    PROVE  {k \in Shows(column) : Covering(k, column)} = {lineSprites[Min(S)]}
  <1>1. Len(lineSprites) \in Nat /\ DOMAIN lineSprites = 1..Len(lineSprites)
    BY DEF ListInv
  <1>2. S \in SUBSET Nat
    BY <1>1
  <1>3. \E n \in S : \A m \in S : n <= m
    BY <1>2, LeastOf
  <1>4. Min(S) \in S /\ \A m \in S : Min(S) <= m
    BY <1>3 DEF Min
  <1> DEFINE first == Min(S)
             owner == lineSprites[first]
  <1> HIDE DEF first
  <1>5. \A m \in S \ {first} : first < m
    BY <1>2, <1>4 DEF first
  <1>6. \A m \in S \ {first} : Before(owner, lineSprites[m])
    BY <1>4, <1>5 DEF first, ListInv, Drawn
  <1>7. \A n \in S : lineSprites[n] \in Index /\ oam[lineSprites[n]].x \in Nat
    BY SpriteColumns
  <1>8. \A a, b \in Index : oam[a].x \in Nat /\ oam[b].x \in Nat /\ Before(a, b) => ~Before(b, a)
    BY ListConstants DEF Before, Index
  <1>9. owner \in Shows(column)
    BY <1>4 DEF first
  <1>10. Covering(owner, column)
    BY <1>6, <1>9 DEF Covering
  <1>11. ASSUME NEW k \in Shows(column), Covering(k, column) PROVE k = owner
    <2>1. PICK n \in S : k = lineSprites[n]
      BY <1>11
    <2>2. CASE n = first
      BY <2>1, <2>2
    <2>3. CASE n # first
      <3>1. Before(owner, k)
        BY <1>6, <2>1, <2>3
      <3>2. k # owner => Before(k, owner)
        BY <1>9, <1>11 DEF Covering
      <3>3. first \in S
        BY <1>4 DEF first
      <3> HIDE DEF Before, Covering
      <3> QED  BY <1>7, <1>8, <2>1, <3>1, <3>2, <3>3
    <2> QED  BY <2>2, <2>3
  <1> QED  BY <1>9, <1>10, <1>11 DEF first


\* The one sprite that a pixel of a column may show.
Nearest(column, background) ==
    {k \in Shows(column) : Covering(k, column) /\ InFront(k, background)}

Right(shows, column, background) ==
    IF Nearest(column, background) = {} THEN shows = Background
    ELSE Nearest(column, background) = {shows}

LEMMA NearestRestated ==
    NearestSpriteShows <=>
        (pushed # << >> /\ objKept =>
            \A n \in 1..Tile :
                Right(pushed[n].shows, fifoX - Tile + n - 1 - scrollX, pushed[n].background))
  BY Zenon DEF NearestSpriteShows, Right, Nearest

\* FetchSpritePixels in a column: the sprite that covers the others there, if
\* it is in front.
LEMMA PixelIsNearest ==
    ASSUME PixelInv, fetchState = "PUSH", objKept, NEW p \in 0..(Tile - 1), NEW background
    PROVE  Right(FetchSpritePixels(fifoX + p, background), (fifoX + p) - scrollX, background)
  <1> DEFINE x == fifoX + p
             column == x - scrollX
             S == Opaque(x)
             shows == FetchSpritePixels(x, background)
  <1>1. S \subseteq DOMAIN lineSprites /\ Shows(column) = {lineSprites[n] : n \in S}
    BY OpaqueShows
  <1>2. shows = IF S = {} THEN Background
                ELSE IF InFront(lineSprites[Min(S)], background) THEN lineSprites[Min(S)]
                ELSE Background
    BY DEF FetchSpritePixels
  <1>3. ListInv /\ scrollX \in Nat
    BY DEF PixelInv
  <1> HIDE DEF S, column, shows
  <1> SUFFICES Right(shows, column, background)
    BY DEF column, shows
  <1>4. CASE S = {}
    <2>1. Nearest(column, background) = {}
      BY <1>1, <1>4 DEF Nearest
    <2> QED  BY <1>2, <1>4, <2>1 DEF Right
  <1>5. CASE S # {}
    <2> DEFINE owner == lineSprites[Min(S)]
    <2>1. {k \in Shows(column) : Covering(k, column)} = {owner}
      BY <1>1, <1>3, <1>5, FirstCovers
    <2>2. shows = IF InFront(owner, background) THEN owner ELSE Background
      BY <1>2, <1>5
    <2> HIDE DEF owner
    <2>3. Nearest(column, background) = IF InFront(owner, background) THEN {owner} ELSE {}
      BY <2>1 DEF Nearest
    <2> QED  BY <2>2, <2>3 DEF Right
  <1> QED  BY <1>4, <1>5

\* Of what a pixel is made from, nothing changes when it is added.
LEMMA NearestUnchanged ==
    ASSUME UNCHANGED <<oam, curY, spriteHeight, fetchEntryData>>
    PROVE  \A shows, column, background :
               Right(shows, column, background)' <=> Right(shows, column, background)
  <1> SUFFICES ASSUME NEW column, NEW background
               PROVE  Nearest(column, background)' = Nearest(column, background)
    BY DEF Right
  <1>1. FirstTen(OamEntries)' = FirstTen(OamEntries)
    BY DEF FirstTen, OnLine
  <1>2. \A k, offset : Column(k, offset)' = Column(k, offset)
    BY DEF Column
  <1>3. Shows(column)' = Shows(column)
    BY <1>1, <1>2 DEF Shows
  <1>4. \A k : /\ Covering(k, column)' <=> Covering(k, column)
               /\ InFront(k, background)' <=> InFront(k, background)
    BY <1>3 DEF Covering, InFront, Before
  <1> QED  BY <1>3, <1>4 DEF Nearest

LEMMA AddedRight ==
    ASSUME PixelInv, NEW objEnable \in BOOLEAN, NEW bgwEnable \in BOOLEAN,
           PipelineFifoAdd(objEnable, bgwEnable)
    PROVE  NearestSpriteShows'
  <1>1. PICK tile \in [1..Tile -> IF bgwEnable THEN Backgrounds ELSE {0}] :
            pushed' = [n \in 1..Tile |->
                          [background |-> tile[n],
                           shows |-> IF objEnable THEN FetchSpritePixels(fifoX + n - 1, tile[n])
                                    ELSE Background]]
    BY DEF PipelineFifoAdd
  <1>2. /\ fetchState = "PUSH" /\ fifoX' = fifoX + Tile /\ objKept' = (objKept /\ objEnable)
        /\ UNCHANGED <<oam, curY, spriteHeight, scrollX, fetchEntryData>>
    BY DEF PipelineFifoAdd, scanVars
  <1>3. ASSUME NEW n \in 1..Tile, objKept'
        PROVE  Right(pushed'[n].shows, fifoX' - Tile + n - 1 - scrollX', pushed'[n].background)
    <2> DEFINE p == n - 1
               column == (fifoX + p) - scrollX
    <2>1. objKept /\ objEnable
      BY <1>2, <1>3, Zenon
    <2>2. /\ pushed'[n].background = tile[n]
          /\ pushed'[n].shows = FetchSpritePixels(fifoX + n - 1, tile[n])
      BY <1>1, <2>1
    <2>3. Tile \in Nat /\ fifoX \in Nat /\ scrollX \in Nat
      BY PixelConstants DEF PixelInv
    <2>4. p \in 0..(Tile - 1) /\ fifoX + n - 1 = fifoX + p
      BY <2>3
    <2>5. Right(FetchSpritePixels(fifoX + p, tile[n]), column, tile[n])
      <3> HIDE DEF p
      <3> QED  BY <1>2, <2>1, <2>4, PixelIsNearest
    <2>6. fifoX' - Tile + n - 1 - scrollX' = column
      BY <1>2, <2>3
    <2> QED  BY <2>2, <2>4, <2>5, <2>6
  <1>4. (pushed # << >> /\ objKept =>
            \A n \in 1..Tile :
                Right(pushed[n].shows, fifoX - Tile + n - 1 - scrollX, pushed[n].background))'
    BY <1>2, <1>3, NearestUnchanged
  <1> QED  BY <1>4, NearestRestated, PTL

\* Once a tile is added, nothing it was made from changes until the next.
LEMMA PixelStep ==
    PixelInv /\ NearestSpriteShows /\ [PixelNext]_<<scanVars, pixelVars>>
        => PixelInv' /\ NearestSpriteShows'
  <1> SUFFICES ASSUME PixelInv, NearestSpriteShows, [PixelNext]_<<scanVars, pixelVars>>
               PROVE  PixelInv' /\ NearestSpriteShows'
    OBVIOUS
  <1>1. CASE MakeList
    <2>1. i \in Index /\ HasSlot /\ pushed' = pushed
      BY <1>1 DEF MakeList, ScanNext, Pick, Skip, pixelVars
    <2>2. pushed' = << >>
      BY <2>1 DEF PixelInv, TileFetched, ListMade
    <2> QED  BY <1>1, <2>2, MakeListStep DEF NearestSpriteShows
  <1>2. ASSUME NEW objEnable \in BOOLEAN, FetchTile(objEnable)
        PROVE  PixelInv' /\ NearestSpriteShows'
    <2>1. pushed' = << >>
      BY <1>2 DEF FetchTile
    <2> QED  BY <1>2, <2>1, FetchTileStep DEF NearestSpriteShows
  <1>3. ASSUME NEW objEnable \in BOOLEAN, NEW bgwEnable \in BOOLEAN,
               PipelineFifoAdd(objEnable, bgwEnable)
        PROVE  PixelInv' /\ NearestSpriteShows'
    BY <1>3, AddStep, AddedRight
  <1>4. CASE UNCHANGED <<scanVars, pixelVars>>
    <2>1. ListInv'
      BY <1>4, ListStep DEF PixelInv
    <2>2. UNCHANGED <<oam, curY, spriteHeight, i, lineSprites, scrollX, fetchState, fetchX,
                      fifoX, fetchedEntries, fetchEntryData, objKept, pushed>>
      BY <1>4 DEF scanVars, pixelVars
    <2>3. TileFetched'
      BY <2>2 DEF PixelInv, TileFetched, ListMade, Index, HasSlot, SpX
    <2>4. PixelInv'
      BY <2>1, <2>2, <2>3 DEF PixelInv
    <2>5. (pushed # << >> /\ objKept =>
              \A n \in 1..Tile :
                  Right(pushed[n].shows, fifoX - Tile + n - 1 - scrollX, pushed[n].background))'
      BY <2>2, NearestRestated, NearestUnchanged
    <2> QED  BY <2>4, <2>5, NearestRestated, PTL
  <1> QED  BY <1>1, <1>2, <1>3, <1>4 DEF PixelNext

(* Every pixel that the fetcher adds shows the sprite that covers all      *)
(* others in its column, in front of the background, and else the          *)
(* background (pipelineLoadSpriteTile, fetchSpritePixels): for every OAM,  *)
(* every row of a sprite, every fine scroll and width of the line.         *)
THEOREM SpritesAreMixedRight == PixelSpec => []NearestSpriteShows
  <1>1. PixelInit => NearestSpriteShows
    BY DEF PixelInit, NearestSpriteShows
  <1> QED  BY <1>1, PixelStart, PixelStep, PTL DEF PixelSpec

=============================================================================
