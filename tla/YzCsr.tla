------------------------------- MODULE YzCsr -------------------------------
(***************************************************************************)
(* The register side of the accelerator: rtl/yz_csr.sv, the logit window   *)
(* and the AXI response mux that yz_top.sv and yz_top_sram.sv share.       *)
(*                                                                         *)
(* The two slave ports (CSR and data) are one here, because the bridge has *)
(* one access in flight: an access is taken in S_IDLE and answered in the  *)
(* next cycle (AxiLitePort, with the bridge's constant bready and rready). *)
(* INPUT_ADDR, OUTPUT_ADDR, WEIGHT_ADDR, CFG and LEN drive nothing in the  *)
(* wrappers and are left out.                                              *)
(***************************************************************************)
EXTENDS YzAccel

VARIABLES
  start_q, swrst_q,   \* ctrl_q[0] and ctrl_q[1]
  cycle_cnt_q,        \* CYCLE_CNT
  response            \* what the slave answers in this cycle

csrVars == <<start_q, swrst_q, cycle_cnt_q, response>>

(***************************************************************************)
(* An access of the bus, in the cycle the slave takes it.                  *)
(***************************************************************************)
Idle == [what |-> "none"]
Ctrl(start, reset) == [what |-> "ctrl", start |-> start, reset |-> reset]
ReadStatus == [what |-> "status"]
ReadLogit(k) == [what |-> "logit", index |-> k]
Write(region, addr, data) ==
  [what |-> "write", region |-> region, addr |-> addr, data |-> data]

Answer(op) ==
  CASE op.what = "status" -> [what |-> "status", busy |-> busy_o, done |-> done_o]
    [] op.what = "logit" -> [what |-> "logit", value |-> logitm[op.index]]
    [] op.what \in {"ctrl", "write"} -> [what |-> "written"]
    [] OTHER -> Idle

CsrInit ==
  /\ start_q = FALSE
  /\ swrst_q = FALSE
  /\ cycle_cnt_q = 0
  /\ response = Idle

\* START is a pulse of one cycle; RESET stands until software clears it.
BugStartBit(op) == IF op.what = "ctrl" THEN op.start ELSE start_q
BugResetBit(op) == swrst_q \/ (op.what = "ctrl" /\ op.reset)
BugCount == IF busy_o THEN cycle_cnt_q + 1 ELSE cycle_cnt_q

StartBit(op) == op.what = "ctrl" /\ op.start
ResetBit(op) == IF op.what = "ctrl" THEN op.reset ELSE swrst_q

\* CYCLE_CNT: counts while busy, else restarts from 0 with START.
Count ==
  IF busy_o THEN cycle_cnt_q + 1 ELSE IF start_q THEN 0 ELSE cycle_cnt_q

CsrStep(op) ==
  /\ start_q' = StartBit(op)
  /\ swrst_q' = ResetBit(op)
  /\ cycle_cnt_q' = Count
  /\ response' = Answer(op)

CsrReset ==
  /\ start_q' = FALSE
  /\ swrst_q' = FALSE
  /\ cycle_cnt_q' = 0
  /\ response' = Idle

\* The synchronous write port of yz_accel: the five memories after w.
MemoriesWith(w) ==
  /\ imem' = IF w.what = "write" /\ w.region = 0
               THEN [imem EXCEPT ![w.addr] = w.data] ELSE imem
  /\ wconv' = IF w.what = "write" /\ w.region = 1
                THEN [wconv EXCEPT ![w.addr] = w.data] ELSE wconv
  /\ bconv' = IF w.what = "write" /\ w.region = 2
                THEN [bconv EXCEPT ![w.addr] = w.data] ELSE bconv
  /\ wfc' = IF w.what = "write" /\ w.region = 3
              THEN [wfc EXCEPT ![w.addr] = w.data] ELSE wfc
  /\ bfc' = IF w.what = "write" /\ w.region = 4
              THEN [bfc EXCEPT ![w.addr] = w.data] ELSE bfc

\* Uninitialised memories.
MemoriesInit ==
  /\ imem \in {[i \in 0 .. IN_H * IN_W - 1 |-> v] : v \in PowerUp}
  /\ wconv = [i \in 0 .. (N_FILT * K_H) * K_W - 1 |-> imem[0]]
  /\ bconv = [k \in 0 .. N_FILT - 1 |-> imem[0]]
  /\ wfc = [i \in 0 .. FC_OUT * FEAT - 1 |-> imem[0]]
  /\ bfc = [k \in 0 .. FC_OUT - 1 |-> imem[0]]

=============================================================================
