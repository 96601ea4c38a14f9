--------------------------- MODULE MCControlUnit ---------------------------
(* Constants for TLC: four addresses, so that every operand, push and pop  *)
(* of one instruction lands elsewhere, and all kinds of instructions or    *)
(* the few it takes to split a CB prefix from its operand.                 *)
EXTENDS ControlUnit

\* Distinct handlers, at addresses programs also run from.
MCVector == [i \in 0..(IrqCount - 1) |-> i + 1]

AllKinds == DOMAIN Microcode

PrefixKinds == {"OneCycle", "Write", "EI", "CB"}
=============================================================================
