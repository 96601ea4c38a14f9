------------------------------- MODULE Pixels -------------------------------
(***************************************************************************)
(* The sprites of a line become pixels (src/src/video/ppu.cpp): once the   *)
(* list is made (module Sprites) the fetcher takes from it, tile by tile,  *)
(* the sprites that touch the tile (pipelineLoadSpriteTile), reads their   *)
(* rows and mixes them with the background (fetchSpritePixels) as it adds  *)
(* the tile to the FIFO.  The program may switch LCDC's bits and write     *)
(* VRAM between any two steps; the fine scroll is that of the whole line.  *)
(***************************************************************************)
EXTENDS Sprites, Fifo

CONSTANTS
    Rows,           \* rows of sprites: colours, left to right, 0 transparent
    Backgrounds,    \* colours of the background
    FineScrolls     \* SCX modulo Tile

ASSUME PixelsAssumption ==
    /\ Tile \in Nat \ {0} /\ XRes \in Nat
    /\ FineScrolls \subseteq 0..(Tile - 1)
    /\ \A row \in Rows : row \in Seq(Nat) /\ Len(row) = Tile
    /\ 0 \in Backgrounds

VARIABLES
    fifoX,              \* the first pixel of the tile that is added next
    fetchedEntries,     \* the sprites of this tile, as places in lineSprites
    fetchEntryData,     \* the row of each sprite, as VRAM held it
    objKept,            \* History: LCDC bit 1 was set in all steps of the tile
    pushed              \* the tile added last: what each pixel shows, and
                        \* the background it is in front of or behind

pixelVars == <<scrollX, fetchState, fetchX, fifoX, fetchedEntries,
               fetchEntryData, objKept, pushed>>

PixelInit ==
    /\ ScanInit
    /\ scrollX \in FineScrolls
    /\ fetchState = "TILE" /\ fetchX = 0 /\ fifoX = 0
    /\ fetchedEntries = {} /\ fetchEntryData = << >>
    /\ objKept = FALSE /\ pushed = << >>

-----------------------------------------------------------------------------
\* What a pixel shows: the OAM index of a sprite, or none of them.
Background == OamEntries

\* The first pixel of a sprite, counted in the FIFO.
SpX(k) == oam[k].x - Tile + scrollX

Touches(k) ==
    \/ SpX(k) \in fetchX..(fetchX + Tile - 1)
    \/ SpX(k) + Tile \in fetchX..(fetchX + Tile - 1)

ListMade == i \notin Index \/ ~HasSlot

FetchTile(objEnable) ==
    /\ ListMade /\ fetchState = "TILE" /\ fifoX < XRes + scrollX
    /\ fetchedEntries' = {n \in DOMAIN lineSprites : objEnable /\ Touches(lineSprites[n])}
    /\ fetchEntryData' \in [Range(lineSprites) -> Rows]
    /\ objKept' = objEnable
    /\ fetchX' = fetchX + Tile
    /\ fetchState' = "PUSH" /\ pushed' = << >>
    /\ UNCHANGED <<scanVars, scrollX, fifoX>>

\* The colour a sprite has in one of its columns.
Column(k, offset) ==
    fetchEntryData[k][IF oam[k].xFlip THEN Tile - offset ELSE offset + 1]

\* The fetched sprites with an opaque pixel there.
Opaque(x) ==
    {n \in fetchedEntries :
        LET offset == x - SpX(lineSprites[n])
        IN  offset \in 0..(Tile - 1) /\ Column(lineSprites[n], offset) # 0}

InFront(k, background) == ~oam[k].priority \/ background = 0

\* Mutant: a sprite behind the background lets the next one through.
FetchSpritePixelsThrough(x, background) ==
    LET shown == {n \in Opaque(x) : InFront(lineSprites[n], background)}
    IN  IF shown = {} THEN Background ELSE lineSprites[Min(shown)]

\* The first opaque sprite has the pixel to itself, in front or behind.
FetchSpritePixels(x, background) ==
    IF Opaque(x) = {} THEN Background
    ELSE LET owner == lineSprites[Min(Opaque(x))]
         IN  IF InFront(owner, background) THEN owner ELSE Background

\* Without LCDC bit 0 the background is colour 0.
PipelineFifoAdd(objEnable, bgwEnable) ==
    /\ fetchState = "PUSH"
    /\ \E tile \in [1..Tile -> IF bgwEnable THEN Backgrounds ELSE {0}] :
           pushed' = [n \in 1..Tile |->
                         [background |-> tile[n],
                          shows |-> IF objEnable THEN FetchSpritePixels(fifoX + n - 1, tile[n])
                                   ELSE Background]]
    /\ fifoX' = fifoX + Tile
    /\ objKept' = (objKept /\ objEnable)
    /\ fetchState' = "TILE"
    /\ UNCHANGED <<scanVars, scrollX, fetchX, fetchedEntries, fetchEntryData>>

MakeList == ScanNext /\ UNCHANGED pixelVars

PixelNext ==
    \/ MakeList
    \/ \E objEnable \in BOOLEAN :
           \/ FetchTile(objEnable)
           \/ \E bgwEnable \in BOOLEAN : PipelineFifoAdd(objEnable, bgwEnable)

PixelSpec == PixelInit /\ [][PixelNext]_<<scanVars, pixelVars>>

-----------------------------------------------------------------------------
\* The sprites of the line with something to show in a column of the
\* picture, whichever tile the column is in.
Shows(column) ==
    {k \in FirstTen(OamEntries) :
        LET offset == column - (oam[k].x - Tile)
        IN  offset \in 0..(Tile - 1) /\ Column(k, offset) # 0}

\* Of those, the one that covers the others.
Covering(k, column) == k \in Shows(column) /\ \A j \in Shows(column) \ {k} : Before(k, j)

(* Every pixel is that of the sprite that covers all others there, if one  *)
(* has an opaque pixel and is in front of the background, and else the     *)
(* background: no sprite is lost at the edge of a tile or of the screen,   *)
(* and none shines through one that the background hides.                  *)
NearestSpriteShows ==
    pushed # << >> /\ objKept =>
        \A n \in 1..Tile :
            LET pixel  == pushed[n]
                column == fifoX - Tile + n - 1 - scrollX
                shown  == {k \in Shows(column) :
                              Covering(k, column) /\ InFront(k, pixel.background)}
            IN  IF shown = {} THEN pixel.shows = Background ELSE shown = {pixel.shows}
=============================================================================
