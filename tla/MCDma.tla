------------------------------- MODULE MCDma -------------------------------
(* Constants for TLC: an OAM of three bytes; pages of the boot ROM, of the   *)
(* first bank of work RAM, and of the echo of the second; addresses of     *)
(* both, their mirrors, and the ends of the other regions.                 *)
EXTENDS Dma

MCPages == {0, 192, 240}
MCRom == [dmgBoot |-> 0, cartridge |-> 255]

MCAddresses ==
    {0, 255, 256, 40959, 49152, 49153, 49154, 53248,
     57344, 57345, 61440, 61441, 61442, 65023, 65024, 65535}
=============================================================================
