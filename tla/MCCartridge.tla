---------------------------- MODULE MCCartridge ----------------------------
(* TLC: a game with two banks of RAM and a battery, one with RAM and a      *)
(* clock, games with neither for every mapper and every size its few        *)
(* register bits can address and one they cannot, and a file longer than    *)
(* any that does not load.                                                  *)
EXTENDS Cartridge
CONSTANTS saga, diary, puzzle, torn

Game(stem, kind, banks) ==
    [stem |-> stem, kind |-> kind, banks |-> banks, size |-> 0, battery |-> FALSE,
     clock |-> FALSE, rumble |-> FALSE, good |-> TRUE]

MCRoms ==
    {[Game(saga, "MBC1", 4) EXCEPT !.size = 2, !.battery = TRUE],
     [Game(diary, "MBC3", 2) EXCEPT !.size = 1, !.battery = TRUE, !.clock = TRUE],
     [Game(puzzle, "MBC5", 3) EXCEPT !.size = 2, !.rumble = TRUE],
     [Game(torn, "ROM", 8) EXCEPT !.good = FALSE]}
        \cup {Game(puzzle, kind, banks) : kind \in Kinds, banks \in {1, 2, 8}}

MCMaxBanks == [kind \in Kinds |-> IF kind = "ROM" THEN 2 ELSE 4]
MCMaxRam   == [kind \in Kinds |-> CASE kind = "ROM" -> 0 [] kind = "MBC2" -> 1 [] OTHER -> 2]
=============================================================================
