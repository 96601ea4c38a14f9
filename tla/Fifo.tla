-------------------------------- MODULE Fifo --------------------------------
(***************************************************************************)
(* What the raster (module Ppu) and the pixels it draws (module Pixels)    *)
(* both speak of: the picture, its tiles and where the fetcher of the      *)
(* pixel FIFO is (src/src/video/fifo.h).                                   *)
(***************************************************************************)
CONSTANTS
    Tile,           \* 8: the pixels fetched at a time, and a sprite's width
    XRes            \* 160: the pixels of a line

VARIABLES
    scrollX,        \* SCX % Tile: the rest of it chooses tiles
    fetchState,     \* "TILE", ..., "PUSH"
    fetchX          \* the first pixel of the next tile
=============================================================================
