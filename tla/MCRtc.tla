------------------------------- MODULE MCRtc -------------------------------
(* TLC: a calendar of four days of two hours of two minutes of two         *)
(* seconds.  The game may leave the clock alone for ten seconds.           *)
EXTENDS Rtc
=============================================================================
