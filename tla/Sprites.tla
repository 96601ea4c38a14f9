------------------------------ MODULE Sprites ------------------------------
(***************************************************************************)
(* The list of sprites on a line (PPU::loadLineSpites, src/src/video/      *)
(* ppu.cpp line 90): one pass over OAM that picks at most ten by their Y   *)
(* and inserts each into a linked list kept in drawing order.  One step is *)
(* one turn of the loop; the list is its sequence of OAM indices.          *)
(***************************************************************************)
EXTENDS Integers, Sequences, FiniteSets, SequencesExt

CONSTANTS
    OamEntries,     \* 40
    MaxLineSprites, \* 10
    Entries,        \* what an entry may hold: x, y and attributes
    Lines, Heights  \* values of LY, and 8 and 16

ASSUME SpritesAssumption ==
    /\ OamEntries \in Nat /\ MaxLineSprites \in Nat
    /\ \A e \in Entries : e.x \in Nat /\ e.y \in Nat
    /\ Lines \cup Heights \subseteq Nat

Index == 0..(OamEntries - 1)

VARIABLES
    oam, curY, spriteHeight,
    i,              \* the loop's counter
    lineSprites     \* the list, and its length lineSpriteCount

scanVars == <<oam, curY, spriteHeight, i, lineSprites>>

ScanInit ==
    /\ oam \in [Index -> Entries]
    /\ curY \in Lines /\ spriteHeight \in Heights
    /\ i = 0
    /\ lineSprites = << >>

-----------------------------------------------------------------------------
\* Only Y counts: a sprite hidden at X = 0 takes its slot.
Covers(e) == e.y <= curY + 16 /\ e.y + spriteHeight > curY + 16

HasSlot == Len(lineSprites) < MaxLineSprites

\* Mutant: a later sprite goes before one at the same X.
StopsAtEqual(x, other) == x <= other

StopsAt(x, other) == x < other

\* Where the walk along the list stops.
Place(x) ==
    LET stops == {n \in DOMAIN lineSprites : StopsAt(x, oam[lineSprites[n]].x)}
                     \cup {Len(lineSprites) + 1}
    IN  CHOOSE n \in stops : \A m \in stops : n <= m

Pick ==
    /\ i \in Index /\ HasSlot
    /\ Covers(oam[i])
    /\ lineSprites' = InsertAt(lineSprites, Place(oam[i].x), i)
    /\ i' = i + 1
    /\ UNCHANGED <<oam, curY, spriteHeight>>

Skip ==
    /\ i \in Index /\ HasSlot
    /\ ~Covers(oam[i])
    /\ i' = i + 1
    /\ UNCHANGED <<oam, curY, spriteHeight, lineSprites>>

ScanNext == Pick \/ Skip

ScanSpec == ScanInit /\ [][ScanNext]_scanVars

-----------------------------------------------------------------------------
(* What the hardware shows: the first ten entries of OAM that have a row   *)
(* on the line, ...                                                        *)
OnLine(e) == \E row \in 0..(spriteHeight - 1) : e.y - 16 + row = curY

FirstTen(n) ==
    {k \in 0..(n - 1) :
        /\ OnLine(oam[k])
        /\ Cardinality({j \in 0..(k - 1) : OnLine(oam[j])}) < MaxLineSprites}

\* ... in the order they cover each other: by X, and by their place in OAM
\* at the same X.
Before(a, b) == oam[a].x < oam[b].x \/ (oam[a].x = oam[b].x /\ a < b)

(* The list of a line holds the sprites it should, each once and none      *)
(* besides, in the order in which they are drawn.                          *)
ShowsTheFirst ==
    /\ {lineSprites[n] : n \in DOMAIN lineSprites} = FirstTen(i)
    /\ Len(lineSprites) <= MaxLineSprites
    /\ \A m, n \in DOMAIN lineSprites : m < n => Before(lineSprites[m], lineSprites[n])
=============================================================================
