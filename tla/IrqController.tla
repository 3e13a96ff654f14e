--------------------------- MODULE IrqController ---------------------------
(***************************************************************************)
(* Taking an interrupt in the core: cv32e40p_int_controller.sv, which      *)
(* registers the lines, masks them and picks one, and the mstatus and mie  *)
(* bits of cv32e40p_cs_registers.sv that trap entry, mret and CSR writes   *)
(* change.                                                                 *)
(***************************************************************************)
EXTENDS IrqLines

VARIABLES
  irq_q,    \* the registered lines, which are also the mip CSR
  mie_q,    \* the mie CSR
  mstatus   \* the mie and mpie bits of mstatus

cpuIrqVars == <<irq_q, mie_q, mstatus>>

\* The chain of the encoder as a rank, lowest first: lines 31 down to 12, then
\* external, software and timer, then the reserved ones.
BugRank(l) == 32 - l     \* the machine timer before the software interrupt
Rank(l) ==
  CASE l >= 12 -> 32 - l
    [] l = 11 -> 21 [] l = 3 -> 22 [] l = 7 -> 23
    [] l = 10 -> 24 [] l = 2 -> 25 [] l = 6 -> 26
    [] l = 9 -> 27 [] l = 1 -> 28 [] l = 5 -> 29
    [] l = 8 -> 30 [] l = 0 -> 31 [] l = 4 -> 32

\* irq_local_qual, irq_req_ctrl_o and irq_id_ctrl_o.
irq_local_qual == irq_q \cap mie_q
irq_req_ctrl == irq_local_qual # {} /\ mstatus.mie
irq_id_ctrl ==
  CHOOSE l \in irq_local_qual : \A k \in irq_local_qual : Rank(l) <= Rank(k)

CpuIrqInit ==
  /\ irq_q = {}
  /\ mie_q = {}
  /\ mstatus = [mie |-> FALSE, mpie |-> FALSE]

\* irq_q <= irq_i & IRQ_MASK, every cycle.
SampleLines(irq_i) == irq_q' = irq_i \cap Implemented

\* Trap entry and mret.
OnTrap == [mie |-> FALSE, mpie |-> mstatus.mie]
OnMret == [mie |-> mstatus.mpie, mpie |-> TRUE]

\* A write of the mie CSR.
BugWriteMie(word) == mie_q' = word   \* not masked
WriteMie(word) == mie_q' = word \cap Implemented

CpuIrqTypeOK ==
  /\ irq_q \subseteq Implemented
  /\ mie_q \subseteq Implemented
  /\ mstatus \in [mie : BOOLEAN, mpie : BOOLEAN]

=============================================================================
