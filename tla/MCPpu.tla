------------------------------- MODULE MCPpu -------------------------------
(* Constants for TLC: frames of four short lines, two of them visible and  *)
(* one tile wide, with the tiles, the FIFO and the fine scroll of the real *)
(* machine.  The registers start at zero, which the values written add to. *)
EXTENDS Ppu

AllControl == LcdControl

\* Each source together with one that may be asserted just before or after.
SomeSources == {{"HBLANK", "LYC"}, {"OAM", "VBLANK"}, {"HBLANK", "OAM"}}
=============================================================================
