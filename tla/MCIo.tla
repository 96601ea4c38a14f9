-------------------------------- MODULE MCIo --------------------------------
(* Constants for TLC: three keys of each column on four lines, two of which *)
(* the columns share, and a log of two characters into which up to three   *)
(* are sent.                                                               *)
EXTENDS Io

MCButtons == {"START", "B", "A"}
MCDirections == {"DOWN", "UP", "RIGHT"}
MCLine == [b \in MCButtons \cup MCDirections |->
               CASE b \in {"START", "DOWN"} -> 3
                 [] b = "UP" -> 2
                 [] b = "B"  -> 1
                 [] b \in {"A", "RIGHT"} -> 0]
=============================================================================
