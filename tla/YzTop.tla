------------------------------- MODULE YzTop -------------------------------
(***************************************************************************)
(* rtl/yz_top.sv: CSR, datapath and the data port that writes the          *)
(* datapath's memories one cycle after it has taken an access, with the    *)
(* software of YzDriver on its bus.                                        *)
(***************************************************************************)
EXTENDS YzDriver

VARIABLE mem_we      \* the write in the data port's registers, or Idle

vars == <<accelVars, csrVars, driverVars, mem_we>>

Init ==
  /\ AccelInit /\ MemoriesInit /\ CsrInit /\ DriverInit
  /\ mem_we = Idle

\* mem_we, mem_region, mem_addr and mem_wdata.
BugDataPort(op) ==                               \* a pulse that is not cleared
  mem_we' = IF op.what = "write" THEN op ELSE mem_we

DataPort(op) == mem_we' = IF op.what = "write" THEN op ELSE Idle

Edge(op) ==
  /\ DriverStep(op)
  /\ CsrStep(op)
  /\ DataPort(op)
  /\ MemoriesWith(mem_we)
  /\ AccelStep(start_q, swrst_q)

Tick == \E op \in Accesses : Edge(op)

\* The memories keep their contents.
Reset ==
  /\ AccelReset /\ CsrReset /\ DriverReset
  /\ mem_we' = Idle
  /\ UNCHANGED inputVars

Next == Tick \/ Reset
Spec == Init /\ [][Next]_vars

\* The clock never stops, and a driver that polls goes on polling; a core
\* that could take the interrupt for ever takes it.
Fairness ==
  /\ WF_vars(Tick)
  /\ WF_vars(Poll(ReadStatus) /\ Edge(ReadStatus))
  /\ WF_vars(TakeInterrupt(Idle) /\ Edge(Idle))
FairSpec == Spec /\ Fairness

-----------------------------------------------------------------------------
\* The port holds a write for one cycle only, and CYCLE_CNT is read while no
\* more than one inference long.
WrapperOK ==
  /\ StatusOK /\ LoopsOK /\ DataOK
  /\ start_q \in BOOLEAN /\ swrst_q \in BOOLEAN /\ irq_q \in BOOLEAN
  /\ mem_we # Idle => response # Idle
  /\ cycle_cnt_q \in Nat
  /\ sw \in {"prepare", "await", "collect", "cancel"}

\* CYCLE_CNT of a finished inference is its length in cycles, although the
\* CSR counts by itself, apart from the datapath.
PerfCounter == done_o => cycle_cnt_q = InferenceCycles

=============================================================================
