------------------------------ MODULE UartTek ------------------------------
(***************************************************************************)
(* dtr_demo/rtl/uart_tek_axi.sv: the UART of the jury test.                *)
(*                                                                         *)
(* The receiver, and the transmitter once it runs, are those of uart_axi.  *)
(* A frame is started by a one written to CFG[0], which always reads zero; *)
(* the byte is what TDR held, and TX_DONE comes a cycle later.             *)
(***************************************************************************)
EXTENDS UartAxi

VARIABLE tx_done_set      \* the frame ended in the last cycle

tekVars == <<uartVars, tx_done_set>>

start_pulse(op) == op.what = "cfg" /\ op.tx_en /\ tx_state_q = "TX_IDLE"

\* CFG[0] is cleared in every cycle, and with this all of CFG is.
BugFlags(op) ==
  [tx_en |-> FALSE, rx_done |-> rx_done_pulse, tx_done |-> tx_done_set]

Flags(op) ==
  [tx_en |-> FALSE,
   rx_done |-> Flag(cfg_q.rx_done, rx_done_pulse, op.what = "cfg" /\ ~op.rx_done),
   tx_done |-> Flag(cfg_q.tx_done, tx_done_set, op.what = "cfg" /\ ~op.tx_done)]

\* A byte written to TDR while a frame is sent is dropped.
TekRegisters(op) ==
  /\ cpb_q' = IF op.what = "cpb" THEN op.value ELSE cpb_q
  /\ tdr_q' = IF op.what = "tdr" /\ tx_state_q = "TX_IDLE" THEN op.byte ELSE tdr_q
  /\ rdr_q' = IF rx_done_pulse THEN rx_shift_q ELSE rdr_q
  /\ cfg_q' = Flags(op)
  /\ response' = Answer(op)

TekIdle(op) ==
  /\ tx_state_q = "TX_IDLE"
  /\ tx_o' = 1
  /\ tx_baud_cnt_q' = 0 /\ tx_bit_cnt_q' = 0
  /\ tx_state_q' = IF start_pulse(op) THEN "TX_START" ELSE tx_state_q
  /\ tx_shift_q' = IF start_pulse(op) THEN tdr_q ELSE tx_shift_q

\* TX_DONE already when the stop bit begins.
BugDone == tx_state_q = "TX_DATA" /\ BitEnd(tx_baud_cnt_q) /\ LastTxBit
Done == tx_done_pulse

TekEdge(op, rx_i) ==
  /\ TekRegisters(op)
  /\ TekIdle(op) \/ TxStart \/ TxData \/ TxStop
  /\ tx_done_set' = Done
  /\ Receiver(rx_i)

TekInit(cpb) == UartInit(cpb, FALSE) /\ tx_done_set = FALSE

=============================================================================
