------------------------------ MODULE MCTimer ------------------------------
(* Constants for TLC: the clock bits of CLOCK_BIT and the APU bit as they  *)
(* are, with the divider cut to the ten bits that TAC can select and TIMA  *)
(* to three values.                                                        *)
EXTENDS Timer

RealClockBit == [sel \in 0..3 |-> CASE sel = 0 -> 9 [] sel = 1 -> 3
                                    [] sel = 2 -> 5 [] sel = 3 -> 7]

\* 0 at power on, the low bits of 0xABCC when the boot ROM is skipped.
RealInitDiv  == {0, 972}
=============================================================================
