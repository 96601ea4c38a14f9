------------------------------- MODULE MCCpu -------------------------------
(* Constants for TLC: all packed decimal bytes; bytes and words around the *)
(* carries of each nibble; memory full of HALT.                            *)
EXTENDS CpuPrograms

MCDigits   == {16 * t + u : t \in 0..9, u \in 0..9}
MCBytes    == {0, 1, 15, 127, 128, 240, 255}
MCPointers == {0, 1, 15, 255, 256, 32767, 43981, 61440, 65280, 65535}
=============================================================================
