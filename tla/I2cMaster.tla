----------------------------- MODULE I2cMaster -----------------------------
(***************************************************************************)
(* rtl/i2c_master_axi.sv: registers, clock divider and state machine of    *)
(* the I2C master.                                                         *)
(*                                                                         *)
(* One step is one clock edge, given the access op the port takes in the   *)
(* cycle (Idle if none; the port answers it in the next cycle) and the     *)
(* level of sda_i.  A byte is a function from the numbers of its bits, a   *)
(* word of RDR or TDR a function from the numbers of its bytes.            *)
(***************************************************************************)
EXTENDS Naturals

CONSTANTS
  PRESCALE,   \* clock cycles of a quarter of an SCL period, 25
  ByteBits,   \* 8
  MaxBytes,   \* bytes of RDR and TDR, 4
  PowerUp     \* what RDR may hold before the first read: nothing resets it

ASSUME I2cAssumption ==
  PRESCALE \in Nat \ {0} /\ ByteBits \in Nat \ {0, 1} /\ MaxBytes \in Nat \ {0}

VARIABLES
  nby_q, adr_q, rdr_q, tdr_q, cfg_q,               \* registers
  response,                                        \* of the port
  i2c_state_q, scl_cnt_q, scl_phase_q,
  bit_cnt_q, byte_cnt_q,
  is_read_q, shift_tx_q, shift_rx_q, rx_buf_q,
  sda_drive_q, sda_value_q, scl_value_q            \* the pins

regVars == <<nby_q, adr_q, rdr_q, tdr_q, cfg_q, response>>
sclVars == <<scl_cnt_q, scl_phase_q, scl_value_q>>
fsmVars == <<i2c_state_q, bit_cnt_q, byte_cnt_q, is_read_q,
             shift_tx_q, shift_rx_q, rx_buf_q, sda_drive_q, sda_value_q>>
i2cVars == <<regVars, sclVars, fsmVars>>

Bit == 0 .. ByteBits - 1
Byte == [Bit -> {0, 1}]
Word == [0 .. MaxBytes - 1 -> Byte]
Address == [1 .. ByteBits - 1 -> {0, 1}]     \* ADR, above the R/W bit
ZeroByte == [b \in Bit |-> 0]
ZeroWord == [k \in 0 .. MaxBytes - 1 |-> ZeroByte]

(***************************************************************************)
(* Accesses.                                                               *)
(***************************************************************************)
Idle == [what |-> "none"]
WriteNby(value) == [what |-> "nby", value |-> value]
WriteAdr(value) == [what |-> "adr", value |-> value]
WriteTdr(word) == [what |-> "tdr", value |-> word]
WriteCfg(tx, rx) == [what |-> "cfg", tx_en |-> tx, rx_en |-> rx,
                     tx_done |-> FALSE, rx_done |-> FALSE]
ReadCfg == [what |-> "read_cfg"]
ReadRdr == [what |-> "read_rdr"]

Answer(op) ==
  CASE op.what = "read_cfg" -> [what |-> "cfg", value |-> cfg_q]
    [] op.what = "read_rdr" -> [what |-> "rdr", value |-> rdr_q]
    [] op.what \in {"nby", "adr", "tdr", "cfg"} -> [what |-> "written"]
    [] OTHER -> Idle

sda_oe == sda_drive_q /\ sda_value_q = 0
phase_tick == scl_cnt_q = PRESCALE - 1
BugPeriodEnd == phase_tick /\ scl_phase_q = 2
PeriodEnd == phase_tick /\ scl_phase_q = 3

tx_trigger(op) == op.what = "cfg" /\ op.tx_en /\ i2c_state_q = "I_IDLE"
rx_trigger(op) ==
  op.what = "cfg" /\ op.rx_en /\ ~op.tx_en /\ i2c_state_q = "I_IDLE"

-----------------------------------------------------------------------------
(***************************************************************************)
(* Registers.  A number of bytes out of range becomes the nearest one; a   *)
(* done flag is set by its event, else cleared by a zero.                  *)
(***************************************************************************)
BugRounded(value) == IF value >= 1 THEN value ELSE 1
Rounded(value) ==
  IF value >= MaxBytes THEN MaxBytes ELSE IF value >= 1 THEN value ELSE 1

Registers(op) ==
  LET done == i2c_state_q = "I_DONE"
      Flag(now, set, clear) == set \/ (now /\ ~clear)
  IN
  /\ nby_q' = IF op.what = "nby" THEN Rounded(op.value) ELSE nby_q
  /\ adr_q' = IF op.what = "adr" THEN op.value ELSE adr_q
  /\ tdr_q' = IF op.what = "tdr" THEN op.value ELSE tdr_q
  /\ cfg_q' =
       [tx_en |-> IF op.what = "cfg" THEN op.tx_en ELSE cfg_q.tx_en,
        rx_en |-> IF op.what = "cfg" THEN op.rx_en ELSE cfg_q.rx_en,
        tx_done |-> Flag(cfg_q.tx_done, done /\ ~is_read_q,
                         op.what = "cfg" /\ ~op.tx_done),
        rx_done |-> Flag(cfg_q.rx_done, done /\ is_read_q,
                         op.what = "cfg" /\ ~op.rx_done)]
  /\ rdr_q' = IF done /\ is_read_q THEN rx_buf_q ELSE rdr_q
  /\ response' = Answer(op)

(***************************************************************************)
(* SCL: four phases to a period, low in the first two of a bit; high in    *)
(* START and STOP.                                                         *)
(***************************************************************************)
Divider ==
  /\ scl_cnt_q' = IF i2c_state_q = "I_IDLE" \/ phase_tick THEN 0 ELSE scl_cnt_q + 1
  /\ scl_phase_q' = IF i2c_state_q = "I_IDLE" THEN 0
                    ELSE IF phase_tick THEN (scl_phase_q + 1) % 4 ELSE scl_phase_q
  /\ scl_value_q' =
       IF i2c_state_q \in {"I_IDLE", "I_START", "I_STOP", "I_DONE"} THEN 1
       ELSE scl_phase_q \div 2

-----------------------------------------------------------------------------
(***************************************************************************)
(* The state machine.                                                      *)
(***************************************************************************)
Drive(value) == sda_drive_q' = TRUE /\ sda_value_q' = value
Release == sda_drive_q' = FALSE /\ UNCHANGED sda_value_q

\* Stay until the SCL period ends, then go to state next.
AtPeriodEnd(next) == i2c_state_q' = IF PeriodEnd THEN next ELSE i2c_state_q

Wait(op) ==
  /\ i2c_state_q = "I_IDLE"
  /\ sda_drive_q' = FALSE /\ sda_value_q' = 1
  /\ IF tx_trigger(op) \/ rx_trigger(op)
       THEN /\ is_read_q' = rx_trigger(op)
            /\ shift_tx_q' = [b \in Bit |->
                 IF b > 0 THEN adr_q[b] ELSE IF rx_trigger(op) THEN 1 ELSE 0]
            /\ bit_cnt_q' = ByteBits - 1 /\ byte_cnt_q' = 0
            /\ i2c_state_q' = "I_START"
       ELSE UNCHANGED <<is_read_q, shift_tx_q, bit_cnt_q, byte_cnt_q, i2c_state_q>>
  /\ UNCHANGED <<shift_rx_q, rx_buf_q>>

Start ==
  /\ i2c_state_q = "I_START"
  /\ Drive(0)
  /\ AtPeriodEnd("I_ADDR")
  /\ UNCHANGED <<bit_cnt_q, byte_cnt_q, is_read_q, shift_tx_q, shift_rx_q, rx_buf_q>>

\* A bit of the address or of the data.
SendBits(state, next) ==
  /\ i2c_state_q = state
  /\ Drive(shift_tx_q[bit_cnt_q])
  /\ AtPeriodEnd(IF bit_cnt_q = 0 THEN next ELSE state)
  /\ bit_cnt_q' = IF PeriodEnd /\ bit_cnt_q > 0 THEN bit_cnt_q - 1 ELSE bit_cnt_q
  /\ UNCHANGED <<byte_cnt_q, is_read_q, shift_tx_q, shift_rx_q, rx_buf_q>>

\* The acknowledgement is given time and not looked at.
AckAddr ==
  /\ i2c_state_q = "I_ACK_ADDR"
  /\ Release
  /\ AtPeriodEnd(IF is_read_q THEN "I_RX_DATA" ELSE "I_TX_DATA")
  /\ bit_cnt_q' = IF PeriodEnd THEN ByteBits - 1 ELSE bit_cnt_q
  /\ shift_tx_q' = IF PeriodEnd /\ ~is_read_q THEN tdr_q[0] ELSE shift_tx_q
  /\ UNCHANGED <<byte_cnt_q, is_read_q, shift_rx_q, rx_buf_q>>

LastByte == byte_cnt_q = nby_q - 1

\* byte_cnt_q has a bit more than the number of bytes needs.
BugFollowing(count) == IF count < MaxBytes THEN count + 1 ELSE count
Following(count) == (count + 1) % (2 * MaxBytes)

NextByte(more) ==
  /\ AtPeriodEnd(IF LastByte THEN "I_STOP" ELSE more)
  /\ byte_cnt_q' = IF PeriodEnd /\ ~LastByte THEN Following(byte_cnt_q) ELSE byte_cnt_q
  /\ bit_cnt_q' = IF PeriodEnd /\ ~LastByte THEN ByteBits - 1 ELSE bit_cnt_q

AckTx ==
  /\ i2c_state_q = "I_ACK_TX"
  /\ Release
  /\ NextByte("I_TX_DATA")
  /\ shift_tx_q' =
       IF PeriodEnd /\ ~LastByte
         THEN IF byte_cnt_q + 1 < MaxBytes THEN tdr_q[byte_cnt_q + 1] ELSE ZeroByte
         ELSE shift_tx_q
  /\ UNCHANGED <<is_read_q, shift_rx_q, rx_buf_q>>

BugSample == phase_tick /\ scl_phase_q = 3   \* while the slave may change SDA
SampleTime == phase_tick /\ scl_phase_q = 1

RxData(sda_i) ==
  /\ i2c_state_q = "I_RX_DATA"
  /\ Release
  /\ shift_rx_q' = IF SampleTime
                     THEN [b \in Bit |-> IF b = 0 THEN sda_i ELSE shift_rx_q[b - 1]]
                     ELSE shift_rx_q
  /\ AtPeriodEnd(IF bit_cnt_q = 0 THEN "I_ACK_RX" ELSE "I_RX_DATA")
  /\ bit_cnt_q' = IF PeriodEnd /\ bit_cnt_q > 0 THEN bit_cnt_q - 1 ELSE bit_cnt_q
  /\ rx_buf_q' = IF PeriodEnd /\ bit_cnt_q = 0 /\ byte_cnt_q < MaxBytes
                   THEN [rx_buf_q EXCEPT ![byte_cnt_q] = shift_rx_q] ELSE rx_buf_q
  /\ UNCHANGED <<byte_cnt_q, is_read_q, shift_tx_q>>

\* ACK, or NACK after the last byte.
AckRx ==
  /\ i2c_state_q = "I_ACK_RX"
  /\ Drive(IF LastByte THEN 1 ELSE 0)
  /\ NextByte("I_RX_DATA")
  /\ UNCHANGED <<is_read_q, shift_tx_q, shift_rx_q, rx_buf_q>>

BugStop ==
  /\ i2c_state_q = "I_STOP"
  /\ Release
  /\ AtPeriodEnd("I_DONE")
  /\ UNCHANGED <<bit_cnt_q, byte_cnt_q, is_read_q, shift_tx_q, shift_rx_q, rx_buf_q>>

\* SDA low, then released, while SCL stays as high as the last bit left it.
Stop ==
  /\ i2c_state_q = "I_STOP"
  /\ sda_drive_q' = ~PeriodEnd /\ sda_value_q' = 0
  /\ AtPeriodEnd("I_DONE")
  /\ UNCHANGED <<bit_cnt_q, byte_cnt_q, is_read_q, shift_tx_q, shift_rx_q, rx_buf_q>>

Finish ==
  /\ i2c_state_q = "I_DONE"
  /\ i2c_state_q' = "I_IDLE"
  /\ UNCHANGED <<bit_cnt_q, byte_cnt_q, is_read_q, shift_tx_q, shift_rx_q, rx_buf_q,
                 sda_drive_q, sda_value_q>>

I2cEdge(op, sda_i) ==
  /\ Registers(op)
  /\ Divider
  /\ \/ Wait(op) \/ Start
     \/ SendBits("I_ADDR", "I_ACK_ADDR") \/ AckAddr
     \/ SendBits("I_TX_DATA", "I_ACK_TX") \/ AckTx
     \/ RxData(sda_i) \/ AckRx
     \/ Stop \/ Finish

I2cInit ==
  /\ nby_q = 1
  /\ adr_q = [b \in 1 .. ByteBits - 1 |-> 0]
  /\ rdr_q \in PowerUp /\ tdr_q = ZeroWord
  /\ cfg_q = [tx_en |-> FALSE, rx_en |-> FALSE, tx_done |-> FALSE, rx_done |-> FALSE]
  /\ response = Idle
  /\ i2c_state_q = "I_IDLE"
  /\ scl_cnt_q = 0 /\ scl_phase_q = 0 /\ scl_value_q = 1
  /\ bit_cnt_q = 0 /\ byte_cnt_q = 0 /\ is_read_q = FALSE
  /\ shift_tx_q = ZeroByte /\ shift_rx_q = ZeroByte /\ rx_buf_q = ZeroWord
  /\ sda_drive_q = FALSE /\ sda_value_q = 1

=============================================================================
