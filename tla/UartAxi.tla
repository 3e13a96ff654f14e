------------------------------ MODULE UartAxi ------------------------------
(***************************************************************************)
(* rtl/uart_axi.sv: registers, transmitter and receiver of one UART.       *)
(*                                                                         *)
(* One step is one clock edge, given the access op the port takes in the   *)
(* cycle (Idle if none; AxiLitePort answers it in the next cycle) and the  *)
(* level of rx_i.  A byte is the sequence of its bits, least significant   *)
(* first.  STP is storage that drives nothing and is left out; of CPB only *)
(* the low 16 bits count, and only they are kept.                          *)
(***************************************************************************)
EXTENDS Integers, Sequences

CONSTANTS
  DataBits,     \* bits of a byte, 8
  BaudMod       \* counters count modulo this, 2^16

ASSUME UartAssumption == DataBits \in Nat \ {0} /\ BaudMod \in Nat \ {0}

VARIABLES
  cpb_q, rdr_q, tdr_q, cfg_q,                               \* registers
  tx_state_q, tx_baud_cnt_q, tx_bit_cnt_q, tx_shift_q, tx_o,
  rx_state_q, rx_baud_cnt_q, rx_bit_cnt_q, rx_shift_q, rx_sync1_q, rx_sync2_q,
  response                                                  \* of the port

regVars == <<cpb_q, rdr_q, tdr_q, cfg_q, response>>
txVars == <<tx_state_q, tx_baud_cnt_q, tx_bit_cnt_q, tx_shift_q, tx_o>>
rxVars == <<rx_state_q, rx_baud_cnt_q, rx_bit_cnt_q, rx_shift_q,
            rx_sync1_q, rx_sync2_q>>
uartVars == <<regVars, txVars, rxVars>>

Bytes == [1 .. DataBits -> {0, 1}]
Zero == [i \in 1 .. DataBits |-> 0]
Count(cnt) == (cnt + 1) % BaudMod

(***************************************************************************)
(* Accesses.                                                               *)
(***************************************************************************)
Idle == [what |-> "none"]
WriteCpb(value) == [what |-> "cpb", value |-> value]
WriteTdr(byte) == [what |-> "tdr", byte |-> byte]
WriteCfg(en, rx, tx) ==
  [what |-> "cfg", tx_en |-> en, rx_done |-> rx, tx_done |-> tx]
ReadCfg == [what |-> "read_cfg"]
ReadRdr == [what |-> "read_rdr"]

Answer(op) ==
  CASE op.what = "read_cfg" -> [what |-> "cfg", value |-> cfg_q]
    [] op.what = "read_rdr" -> [what |-> "rdr", value |-> rdr_q]
    [] op.what \in {"cpb", "tdr", "cfg"} -> [what |-> "written"]
    [] OTHER -> Idle

\* The end of a bit, and the middle of the start bit.  The comparison is made
\* in 32 bits, so that CPB = 0 (for the middle also CPB = 1) never ends one.
BitEnd(cnt) == cnt = cpb_q - 1
BugMiddle(cnt) == BitEnd(cnt)              \* samples at the edges of the bits
Middle(cnt) == cnt = (cpb_q \div 2) - 1

tx_start_pulse(op) ==
  op.what = "tdr" /\ cfg_q.tx_en /\ tx_state_q = "TX_IDLE"
tx_done_pulse == tx_state_q = "TX_STOP" /\ BitEnd(tx_baud_cnt_q)
rx_done_pulse == rx_state_q = "RX_STOP" /\ BitEnd(rx_baud_cnt_q)

-----------------------------------------------------------------------------
(***************************************************************************)
(* Registers.                                                              *)
(***************************************************************************)
BugFlag(now, set, clear) == set \/ (now /\ clear)   \* cleared by a one
\* A done flag is set by its event, else cleared by a zero written to CFG.
Flag(now, set, clear) == set \/ (now /\ ~clear)

Registers(op) ==
  /\ cpb_q' = IF op.what = "cpb" THEN op.value ELSE cpb_q
  /\ tdr_q' = IF tx_start_pulse(op) THEN op.byte ELSE tdr_q
  /\ rdr_q' = IF rx_done_pulse THEN rx_shift_q ELSE rdr_q
  /\ cfg_q' =
       [tx_en |-> IF op.what = "cfg" THEN op.tx_en ELSE cfg_q.tx_en,
        rx_done |-> Flag(cfg_q.rx_done, rx_done_pulse,
                         op.what = "cfg" /\ ~op.rx_done),
        tx_done |-> Flag(cfg_q.tx_done, tx_done_pulse,
                         op.what = "cfg" /\ ~op.tx_done)]
  /\ response' = Answer(op)

-----------------------------------------------------------------------------
(***************************************************************************)
(* Transmitter.                                                            *)
(***************************************************************************)
TxIdle(op) ==
  /\ tx_state_q = "TX_IDLE"
  /\ tx_o' = 1
  /\ tx_baud_cnt_q' = 0 /\ tx_bit_cnt_q' = 0
  /\ tx_state_q' = IF tx_start_pulse(op) THEN "TX_START" ELSE tx_state_q
  /\ tx_shift_q' = IF tx_start_pulse(op) THEN op.byte ELSE tx_shift_q

TxStart ==
  /\ tx_state_q = "TX_START"
  /\ tx_o' = 0
  /\ IF BitEnd(tx_baud_cnt_q)
       THEN tx_baud_cnt_q' = 0 /\ tx_state_q' = "TX_DATA"
       ELSE tx_baud_cnt_q' = Count(tx_baud_cnt_q) /\ UNCHANGED tx_state_q
  /\ UNCHANGED <<tx_bit_cnt_q, tx_shift_q>>

BugLastTxBit == tx_bit_cnt_q = DataBits      \* one bit too many
LastTxBit == tx_bit_cnt_q = DataBits - 1

TxData ==
  /\ tx_state_q = "TX_DATA"
  /\ tx_o' = tx_shift_q[1]
  /\ IF BitEnd(tx_baud_cnt_q)
       THEN /\ tx_baud_cnt_q' = 0
            /\ tx_shift_q' = Append(Tail(tx_shift_q), 0)
            /\ tx_bit_cnt_q' = IF LastTxBit THEN 0 ELSE tx_bit_cnt_q + 1
            /\ tx_state_q' = IF LastTxBit THEN "TX_STOP" ELSE tx_state_q
       ELSE /\ tx_baud_cnt_q' = Count(tx_baud_cnt_q)
            /\ UNCHANGED <<tx_state_q, tx_bit_cnt_q, tx_shift_q>>

TxStop ==
  /\ tx_state_q = "TX_STOP"
  /\ tx_o' = 1
  /\ IF BitEnd(tx_baud_cnt_q)
       THEN tx_baud_cnt_q' = 0 /\ tx_state_q' = "TX_IDLE"
       ELSE tx_baud_cnt_q' = Count(tx_baud_cnt_q) /\ UNCHANGED tx_state_q
  /\ UNCHANGED <<tx_bit_cnt_q, tx_shift_q>>

Transmitter(op) == TxIdle(op) \/ TxStart \/ TxData \/ TxStop

-----------------------------------------------------------------------------
(***************************************************************************)
(* Receiver.                                                               *)
(***************************************************************************)
RxIdle ==
  /\ rx_state_q = "RX_IDLE"
  /\ rx_baud_cnt_q' = 0 /\ rx_bit_cnt_q' = 0
  /\ rx_state_q' = IF rx_sync2_q = 0 THEN "RX_START" ELSE rx_state_q
  /\ UNCHANGED rx_shift_q

\* A start bit that is gone in its middle was a glitch.
RxStart ==
  /\ rx_state_q = "RX_START"
  /\ IF Middle(rx_baud_cnt_q)
       THEN IF rx_sync2_q = 0
              THEN rx_baud_cnt_q' = 0 /\ rx_state_q' = "RX_DATA"
              ELSE rx_state_q' = "RX_IDLE" /\ UNCHANGED rx_baud_cnt_q
       ELSE rx_baud_cnt_q' = Count(rx_baud_cnt_q) /\ UNCHANGED rx_state_q
  /\ UNCHANGED <<rx_bit_cnt_q, rx_shift_q>>

LastRxBit == rx_bit_cnt_q = DataBits - 1

RxData ==
  /\ rx_state_q = "RX_DATA"
  /\ IF BitEnd(rx_baud_cnt_q)
       THEN /\ rx_baud_cnt_q' = 0
            /\ rx_shift_q' = Append(Tail(rx_shift_q), rx_sync2_q)
            /\ rx_bit_cnt_q' = IF LastRxBit THEN 0 ELSE rx_bit_cnt_q + 1
            /\ rx_state_q' = IF LastRxBit THEN "RX_STOP" ELSE rx_state_q
       ELSE /\ rx_baud_cnt_q' = Count(rx_baud_cnt_q)
            /\ UNCHANGED <<rx_state_q, rx_bit_cnt_q, rx_shift_q>>

\* The stop bit is timed and not looked at.
RxStop ==
  /\ rx_state_q = "RX_STOP"
  /\ IF BitEnd(rx_baud_cnt_q)
       THEN rx_baud_cnt_q' = 0 /\ rx_state_q' = "RX_IDLE"
       ELSE rx_baud_cnt_q' = Count(rx_baud_cnt_q) /\ UNCHANGED rx_state_q
  /\ UNCHANGED <<rx_bit_cnt_q, rx_shift_q>>

Receiver(rx_i) ==
  /\ rx_sync1_q' = rx_i
  /\ rx_sync2_q' = rx_sync1_q
  /\ RxIdle \/ RxStart \/ RxData \/ RxStop

UartEdge(op, rx_i) == Registers(op) /\ Transmitter(op) /\ Receiver(rx_i)

UartInit(cpb, en) ==
  /\ cpb_q = cpb
  /\ rdr_q = Zero /\ tdr_q = Zero
  /\ cfg_q = [tx_en |-> en, rx_done |-> FALSE, tx_done |-> FALSE]
  /\ response = Idle
  /\ tx_state_q = "TX_IDLE"
  /\ tx_baud_cnt_q = 0 /\ tx_bit_cnt_q = 0 /\ tx_shift_q = Zero
  /\ tx_o = 1
  /\ rx_state_q = "RX_IDLE"
  /\ rx_baud_cnt_q = 0 /\ rx_bit_cnt_q = 0 /\ rx_shift_q = Zero
  /\ rx_sync1_q = 1 /\ rx_sync2_q = 1

=============================================================================
