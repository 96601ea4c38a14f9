------------------------------ MODULE MemoryIO ------------------------------
(***************************************************************************)
(* The registers MemoryIO keeps itself (src/src/memory/memory_io.cpp): the *)
(* serial port, with the log of what was sent that a front end or a test   *)
(* harness reads, and the latch that hides the boot ROM.  Nothing is       *)
(* plugged into the port, so that a transfer this side drives ends at once *)
(* and receives ones; one that waits for the other side never ends.        *)
(***************************************************************************)
EXTENDS Integers, Sequences

CONSTANTS
    Bytes,          \* values of a byte
    NoDevice,       \* 0xFF: what an open serial line reads as
    Terminator,     \* '\0'
    LogCapacity,    \* 4096
    SkipBoot,       \* Emu's argument
    MaxSent         \* bound on the bytes a behaviour sends

ASSUME MemoryIOAssumption ==
    /\ NoDevice \in Bytes /\ Terminator \in Bytes
    /\ LogCapacity \in Nat /\ LogCapacity > 1
    /\ SkipBoot \in BOOLEAN
    /\ MaxSent \in Nat

Cells == 0..(LogCapacity - 1)

VARIABLES
    data,                       \* SB, serial[0]
    transferring, internal,     \* bits 7 and 0 of SC, serial[1]
    serialLog, serialLogSize,
    ifSerial,                   \* the Serial bit of IF
    booted,
    sent                        \* history: the bytes sent, in order

port == <<data, transferring, internal>>
serialVars == <<port, serialLog, serialLogSize, ifSerial, booted, sent>>

SerialInit ==
    /\ data = 0 /\ transferring = FALSE /\ internal = FALSE
    /\ serialLog = [i \in Cells |-> Terminator] /\ serialLogSize = 0
    /\ ifSerial = FALSE
    /\ booted = SkipBoot
    /\ sent = << >>

WriteSB ==
    /\ data' \in Bytes
    /\ UNCHANGED <<transferring, internal, serialLog, serialLogSize, ifSerial, booted, sent>>

\* Mutant: no cell is left for the terminator.
LogHasRoomFor(n) == n < LogCapacity

LogHasRoom(n) == n < LogCapacity - 1

\* MemoryIO::transferSerial, the byte going out being data.
Log ==
    IF LogHasRoom(serialLogSize)
    THEN /\ serialLog' = [serialLog EXCEPT ![serialLogSize] = data,
                                           ![serialLogSize + 1] = Terminator]
         /\ serialLogSize' = serialLogSize + 1
    ELSE UNCHANGED <<serialLog, serialLogSize>>

Transfer ==
    /\ Len(sent) < MaxSent
    /\ Log
    /\ data' = NoDevice
    /\ transferring' = FALSE /\ internal' = TRUE
    /\ ifSerial' = TRUE
    /\ sent' = Append(sent, data)
    /\ UNCHANGED booted

\* A write of SC that does not start a transfer of this side's.
WriteSC ==
    /\ transferring' \in BOOLEAN /\ internal' \in BOOLEAN
    /\ ~(transferring' /\ internal')
    /\ UNCHANGED <<data, serialLog, serialLogSize, ifSerial, booted, sent>>

\* A dispatch, or a write of IF.
ClearRequest ==
    /\ ifSerial' = FALSE
    /\ UNCHANGED <<port, serialLog, serialLogSize, booted, sent>>

\* A write of 0xFF50 turns the boot ROM off and never on again.
WriteBoot ==
    /\ \E nonZero \in BOOLEAN : booted' = (booted \/ nonZero)
    /\ UNCHANGED <<port, serialLog, serialLogSize, ifSerial, sent>>

SerialNext == WriteSB \/ Transfer \/ WriteSC \/ ClearRequest \/ WriteBoot

SerialSpec == SerialInit /\ [][SerialNext]_serialVars

-----------------------------------------------------------------------------
Least(a, b) == IF a <= b THEN a ELSE b

(* The log is a C string inside its buffer that holds what was sent, up to *)
(* the room it has: the terminator is in the buffer also when it is full,  *)
(* and what comes later is dropped without disturbing it.                  *)
LogHoldsWhatWasSent ==
    /\ serialLogSize = Least(Len(sent), LogCapacity - 1)
    /\ \A i \in 1..serialLogSize : serialLog[i - 1] = sent[i]
    /\ DOMAIN serialLog = Cells /\ serialLog[serialLogSize] = Terminator
=============================================================================
