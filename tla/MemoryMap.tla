------------------------------ MODULE MemoryMap ------------------------------
(***************************************************************************)
(* The address decoding of Memory::read and Memory::write                  *)
(* (src/src/memory/memory.cpp) and the arrays they keep: where an address  *)
(* of the CPU lands, in which array and at which index.  Addresses of the  *)
(* cartridge and of the I/O registers go to components of their own.  The  *)
(* other user of this memory is the DMA unit: module Dma puts the two and  *)
(* OAM together.                                                           *)
(***************************************************************************)
EXTENDS Integers

CONSTANTS
    Addresses,      \* the addresses programs use
    Values          \* values of a byte

Address == 0..65535

ASSUME MapAssumption == Addresses \subseteq Address

Array == [dmgBoot |-> 256, vram |-> 8192, wram0 |-> 4096, wramN |-> 4096,
          hram |-> 128, ie |-> 1, oam |-> 160]

\* Mutant: all of echo RAM is folded onto the first bank.
EchoFolded(a) == [array |-> "wram0", index |-> (a - 57344) % 4096]

\* Work RAM from 0xC000 and 0xD000, and the echo of 0xC000..0xDDFF at 0xE000.
WorkRam(a) ==
    IF a <= 53247 THEN [array |-> "wram0", index |-> a - 49152]
                  ELSE [array |-> "wramN", index |-> a - 53248]

Echo(a) == WorkRam(a - 8192)

Elsewhere(component) == [array |-> component, index |-> 0]

\* Memory::write: the first region that does not end before the address.
Target(a) ==
    IF a <= 32767 THEN Elsewhere("cartridge") ELSE
    IF a <= 40959 THEN [array |-> "vram", index |-> (a - 32768) % 8192] ELSE
    IF a <= 49151 THEN Elsewhere("cartridge") ELSE
    IF a <= 57343 THEN WorkRam(a) ELSE
    IF a <= 65023 THEN Echo(a) ELSE
    IF a <= 65183 THEN [array |-> "oam", index |-> a - 65024] ELSE
    IF a <= 65279 THEN Elsewhere("nothing") ELSE
    IF a <= 65407 THEN Elsewhere("io") ELSE
    IF a <= 65534 THEN [array |-> "hram", index |-> a - 65408] ELSE
    [array |-> "ie", index |-> 0]

Ram == {a \in Addresses : Target(a).array \in {"vram", "wram0", "wramN", "hram", "ie"}}
Cells == {Target(a) : a \in Ram}

VARIABLES
    booted,     \* the boot ROM is latched off
    contents,   \* of the cells programs reach
    written     \* history: what was last written at an address or its mirror

ram == <<booted, contents, written>>

\* Memory::read: until it is latched off the boot ROM hides the cartridge.
Source(a) == IF ~booted /\ a <= 255 THEN [array |-> "dmgBoot", index |-> a] ELSE Target(a)

RamInit ==
    /\ booted \in BOOLEAN
    /\ contents \in [Cells -> Values]
    /\ written = [a \in Ram |-> contents[Target(a)]]

\* What the Game Boy's memory map says: 0xE000..0xFDFF mirrors 0xC000..0xDDFF.
Mirrors(a, b) ==
    \/ a = b
    \/ a \in 49152..56831 /\ b = a + 8192
    \/ b \in 49152..56831 /\ a = b + 8192

Write(a, value) ==
    /\ a \in Ram
    /\ contents' = [contents EXCEPT ![Target(a)] = value]
    /\ written' = [b \in Ram |-> IF Mirrors(a, b) THEN value ELSE written[b]]
    /\ UNCHANGED booted

\* A write to another component; one of them may be the boot ROM's latch.
WriteElsewhere ==
    /\ booted' \in {booted, TRUE}
    /\ UNCHANGED <<contents, written>>

-----------------------------------------------------------------------------
\* An access at a place stays within the array.
Inside(place) == place.array \in DOMAIN Array => place.index \in 0..(Array[place.array] - 1)

(* No access runs off the end of the array it lands in, at either end of   *)
(* any region (memory.cpp:78, "runs off the end of a 4 KiB array"), and a  *)
(* read returns what was last written at the address or at its mirror: no  *)
(* write disturbs any other address.                                       *)
InBounds == \A a \in Address : Inside(Target(a))

ReadsLastWrite == InBounds /\ \A a \in Ram : contents[Source(a)] = written[a]
=============================================================================
