------------------------------ MODULE MCAudio ------------------------------
(* TLC: frequencies of three bits, lengths of three steps (four for the     *)
(* wave, whose counter goes to three), volumes up to three, noise from a    *)
(* register of four bits, two when short, with periods of two bits.         *)
(* What a run writes to channel 1 exercises its sweep; to channel 2, its    *)
(* length and envelope; to channel 3, its length; to channel 4, its noise.  *)
EXTENDS NoiseChannel, TLC

NoSweep == [pace |-> 0, down |-> FALSE, step |-> 0]
Fixed(v) == [volume |-> v, up |-> FALSE, period |-> 0]

MCMaxLength == 3 :> 4 @@ [c \in {1, 2, 4} |-> 3]
MCSweeps    == 1 :> [pace : {0, 1, 2}, down : BOOLEAN, step : {0, 1, 2}]
               @@ [c \in 2..4 |-> {NoSweep}]
MCLengths   == 1 :> {0} @@ 2 :> {0, 1, 2} @@ 3 :> 0..3 @@ 4 :> {1}
MCEnvelopes == 1 :> {Fixed(MaxVolume)}
               @@ 2 :> [volume : 0..MaxVolume, up : BOOLEAN, period : 0..2]
               @@ 3 :> {Fixed(0), Fixed(2)}
               @@ 4 :> {Fixed(1)}
MCLows      == 1 :> {0, 3} @@ [c \in 2..4 |-> {0}]
MCEnables   == 1 :> {FALSE} @@ 2 :> BOOLEAN @@ 3 :> BOOLEAN @@ 4 :> {FALSE}
MCNoises    == [short : BOOLEAN, divider : {0, 1}, shift : {1}]
=============================================================================
