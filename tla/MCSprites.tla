----------------------------- MODULE MCSprites -----------------------------
(* TLC: four sprites on three slots of a line, at the ends of the rows it  *)
(* can show and just beyond; tiles two pixels wide, sprites cut by the     *)
(* left edge, within a tile and across two.                                *)
EXTENDS Pixels

Entry(x, y, priority, xFlip) ==
    [x |-> x, y |-> y, priority |-> priority, xFlip |-> xFlip]

MCEntries ==
    {Entry(x, 9, priority, FALSE) : x \in {2, 3}, priority \in BOOLEAN}
        \cup {Entry(1, 16, FALSE, TRUE), Entry(3, 8, FALSE, FALSE), Entry(2, 17, FALSE, FALSE)}

MCRows == {<<0, 1>>, <<1, 1>>}
=============================================================================
