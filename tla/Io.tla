--------------------------------- MODULE Io ---------------------------------
(***************************************************************************)
(* The I/O registers that the program and the host share: the joypad       *)
(* (module Joypad), the serial port and the boot latch (module MemoryIO),  *)
(* reached through one decoder (MemoryIO::read and write) and raising      *)
(* their requests in one register, IF (src/src/system/interrupts.cpp).  A  *)
(* write of IF may take back both requests, or the one and not the other.  *)
(***************************************************************************)
EXTENDS MemoryIO

CONSTANTS Buttons, Directions, Line

VARIABLES state, buttonSelected, dirSelected, ifJoypad, held, fallen

Pad == INSTANCE Joypad

ASSUME PadAssumption == Pad!JoypadConstants

padVars == <<state, buttonSelected, dirSelected, ifJoypad, held, fallen>>
ioVars == <<serialVars, padVars>>

IoInit == SerialInit /\ Pad!Init

\* A dispatch takes back one request; a write of IF any of them.  (It may
\* also make one, which is no request of the hardware's.)
WriteIF ==
    \/ ClearRequest /\ UNCHANGED padVars
    \/ Pad!ClearRequest /\ UNCHANGED serialVars
    \/ ClearRequest /\ Pad!ClearRequest

\* The host's keys and the program's write of P1 leave the port alone, ...
Keys == Pad!Play /\ UNCHANGED serialVars

\* ... and the program's writes of SB, SC and 0xFF50 the keys.
Port == (WriteSB \/ Transfer \/ WriteSC \/ WriteBoot) /\ UNCHANGED padVars

IoNext == Keys \/ Port \/ WriteIF

IoSpec == IoInit /\ [][IoNext]_ioVars

-----------------------------------------------------------------------------
(* No key that pulls a line low goes unnoticed and none is made up (module *)
(* Joypad), whatever the serial port raises and the program takes back     *)
(* meanwhile.                                                              *)
RequestedByFalls == Pad!RequestedByFalls
=============================================================================
