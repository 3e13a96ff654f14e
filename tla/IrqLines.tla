------------------------------ MODULE IrqLines ------------------------------
(***************************************************************************)
(* The interrupt lines that the core, the generator and the test share,    *)
(* named by their number.  A 32-bit word of lines is a set of numbers.     *)
(***************************************************************************)
EXTENDS Naturals

CONSTANT Lines   \* the line numbers that are represented

ASSUME LinesAssumption == Lines \subseteq 0 .. 31

\* IRQ_MASK = 32'hFFFF0888: the other lines do not exist.
Implemented == Lines \cap ((16 .. 31) \cup {3, 7, 11})

=============================================================================
