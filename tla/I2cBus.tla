------------------------------- MODULE I2cBus -------------------------------
(***************************************************************************)
(* The I2C master on its bus, with a slave and the software.               *)
(*                                                                         *)
(* The slave is an external device that keeps to the I2C rules: it samples *)
(* SDA when SCL rises, changes it when SCL falls, and takes SDA moving     *)
(* under a high SCL for START or STOP.  It may refuse any data byte.  The  *)
(* software does what tb/i2c_master_axi_tb.sv does: NBY, ADR, TDR, CFG,    *)
(* poll CFG, read RDR, clear CFG, with any time between accesses; while it *)
(* waits it may also write the next transfer's length to NBY.              *)
(***************************************************************************)
EXTENDS I2cMaster, Sequences

CONSTANTS
  Devices,      \* addresses the slave answers
  Addresses,    \* addresses, numbers of bytes and words the software uses
  Counts, Words,
  MaxMeddles    \* writes of NBY while a transfer runs

ASSUME BusAssumption ==
  /\ Devices \subseteq Addresses /\ Addresses \subseteq Address
  /\ Counts \subseteq Nat /\ Words \subseteq Word
  /\ MaxMeddles \in Nat /\ PowerUp \subseteq Word

VARIABLES
  slave,           \* where it is, bits clocked in this byte, the bits, SDA held
  scl_was, sda_was,\* the lines a cycle ago
  heard, told,     \* bytes the slave took and gave in the master's transfer
  sw,              \* where the software is
  meddles,         \* writes it made while the transfer ran
  fresh            \* the bus was free when the transfer began

busVars == <<slave, scl_was, sda_was, heard, told, sw, meddles, fresh>>
vars == <<i2cVars, busVars>>

scl == scl_value_q
sda == IF sda_oe \/ slave.low THEN 0 ELSE 1

-----------------------------------------------------------------------------
(***************************************************************************)
(* The slave.                                                              *)
(***************************************************************************)
StartSeen == scl_was = 1 /\ scl = 1 /\ sda_was = 1 /\ sda = 0
StopSeen == scl_was = 1 /\ scl = 1 /\ sda_was = 0 /\ sda = 1
Rises == scl_was = 0 /\ scl = 1
Falls == scl_was = 1 /\ scl = 0

Resting == [at |-> "idle", n |-> 0, bits |-> <<>>, low |-> FALSE]
ByteOf(bits) == [b \in Bit |-> bits[ByteBits - b]]
AddressOf(bits) == [b \in 1 .. ByteBits - 1 |-> bits[ByteBits - b]]
\* A transfer that is left alone has no more than MaxBytes bytes.
Log(bytes) == IF Len(bytes) < MaxBytes THEN Append(bytes, ByteOf(slave.bits)) ELSE bytes

OnStart == slave' = [Resting EXCEPT !.at = "addr"] /\ UNCHANGED <<heard, told>>
OnStop == slave' = Resting /\ UNCHANGED <<heard, told>>

\* The bit on the line; the one after the byte is the acknowledgement.
OnRise ==
  /\ slave' = [slave EXCEPT !.n = @ + 1,
                            !.bits = IF slave.n < ByteBits THEN Append(@, sda)
                                     ELSE @,
                            !.at = IF slave.at = "read" /\ slave.n = ByteBits /\ sda = 1
                                     THEN "ignore" ELSE @]
  /\ UNCHANGED <<heard, told>>

\* The end of the byte: acknowledge it or not.
TakeByte ==
  /\ slave.at \in {"addr", "write"} /\ slave.n = ByteBits
  /\ IF slave.at = "addr"
       THEN /\ slave' = IF AddressOf(slave.bits) \in Devices
                          THEN [slave EXCEPT !.low = TRUE]
                          ELSE [slave EXCEPT !.at = "ignore"]
            /\ UNCHANGED heard
       ELSE \/ slave' = [slave EXCEPT !.low = TRUE]
               /\ heard' = Log(heard)
            \/ slave' = [slave EXCEPT !.at = "ignore"] /\ UNCHANGED heard
  /\ UNCHANGED told

\* Any bit of the slave's data.
GiveBit(at, n, bits) ==
  /\ \E low \in BOOLEAN :
       slave' = [at |-> at, n |-> n, bits |-> bits, low |-> low]
  /\ UNCHANGED <<heard, told>>

\* The end of an acknowledgement: the next byte.
AfterAck ==
  /\ slave.at \in {"addr", "write", "read"} /\ slave.n = ByteBits + 1
  /\ IF slave.at = "write" \/ (slave.at = "addr" /\ slave.bits[ByteBits] = 0)
       THEN slave' = [Resting EXCEPT !.at = "write"] /\ UNCHANGED <<heard, told>>
       ELSE GiveBit("read", 0, <<>>)

\* The slave has seen its own bits on the line.
DuringRead ==
  /\ slave.at = "read" /\ slave.n \in 1 .. ByteBits
  /\ IF slave.n < ByteBits
       THEN GiveBit("read", slave.n, slave.bits)
       ELSE /\ slave' = [slave EXCEPT !.low = FALSE]
            /\ told' = Log(told)
            /\ UNCHANGED heard

OnFall ==
  \/ TakeByte \/ AfterAck \/ DuringRead
  \/ /\ slave.at \in {"addr", "write"} /\ slave.n < ByteBits
     /\ UNCHANGED <<slave, heard, told>>

Ignores == UNCHANGED <<slave, heard, told>>

Slave ==
  CASE StartSeen -> OnStart
    [] StopSeen -> OnStop
    [] Rises /\ slave.at \notin {"idle", "ignore"} -> OnRise
    [] Falls /\ slave.at \notin {"idle", "ignore"} -> OnFall
    [] OTHER -> Ignores

-----------------------------------------------------------------------------
(***************************************************************************)
(* The software.                                                           *)
(***************************************************************************)
SetUp(op) ==
  \/ /\ sw = "nby" /\ \E count \in Counts : op = WriteNby(count)
     /\ sw' = "adr"
  \/ /\ sw = "adr" /\ \E adr \in Addresses : op = WriteAdr(adr)
     /\ sw' = "tdr"
  \/ /\ sw = "tdr" /\ \E word \in Words : op = WriteTdr(word)
     /\ sw' = "start"

StartIt(op) ==
  /\ sw = "start"
  /\ \/ op = WriteCfg(TRUE, FALSE) /\ sw' = "poll_tx"
     \/ op = WriteCfg(FALSE, TRUE) /\ sw' = "poll_rx"

Poll(op) == sw \in {"poll_tx", "poll_rx"} /\ op = ReadCfg /\ UNCHANGED sw
Fetch(op) == sw = "fetch" /\ op = ReadRdr /\ UNCHANGED sw
ClearDone(op) == sw = "clear" /\ op = WriteCfg(FALSE, FALSE) /\ sw' = "nby"

\* The next transfer's length, while this one runs.
Meddle(op) ==
  /\ sw \in {"poll_tx", "poll_rx"} /\ meddles < MaxMeddles
  /\ \E count \in Counts : Rounded(count) # nby_q /\ op = WriteNby(count)
  /\ UNCHANGED sw

Receive(op) ==
  /\ op = Idle
  /\ sw' = CASE response.what = "cfg" /\ sw = "poll_tx" /\ response.value.tx_done -> "clear"
             [] response.what = "cfg" /\ sw = "poll_rx" /\ response.value.rx_done -> "fetch"
             [] response.what = "rdr" -> "clear"
             [] OTHER -> sw

Software(op) ==
  IF response # Idle THEN Receive(op)
  ELSE \/ SetUp(op) \/ StartIt(op) \/ Poll(op) \/ Fetch(op) \/ ClearDone(op)
       \/ Meddle(op) \/ (op = Idle /\ UNCHANGED sw)

Accesses ==
  {Idle, ReadCfg, ReadRdr}
    \cup {WriteCfg(tx, rx) : tx \in BOOLEAN, rx \in BOOLEAN}
    \cup {WriteNby(count) : count \in Counts}
    \cup {WriteAdr(adr) : adr \in Addresses} \cup {WriteTdr(word) : word \in Words}

-----------------------------------------------------------------------------
Begins(op) == tx_trigger(op) \/ rx_trigger(op)
Tampers(op) == sw \in {"poll_tx", "poll_rx"} /\ op.what = "nby"

Edge(op) ==
  /\ Software(op)
  /\ I2cEdge(op, sda)
  /\ scl_was' = scl /\ sda_was' = sda
  /\ meddles' = IF Begins(op) THEN 0 ELSE IF Tampers(op) THEN meddles + 1 ELSE meddles
  /\ fresh' = IF Begins(op) THEN slave = Resting /\ sda = 1 ELSE fresh
  /\ IF Begins(op) THEN UNCHANGED slave /\ heard' = <<>> /\ told' = <<>> ELSE Slave

Tick == \E op \in Accesses : Edge(op)

Init ==
  /\ I2cInit
  /\ slave = Resting
  /\ scl_was = 1 /\ sda_was = 1
  /\ heard = <<>> /\ told = <<>>
  /\ sw = "nby" /\ meddles = 0 /\ fresh = TRUE

\* The clock never stops, and software that polls goes on polling.
Polls == \E op \in {ReadCfg} : Poll(op) /\ Edge(op)
Spec == Init /\ [][Tick]_vars
FairSpec == Spec /\ WF_vars(Tick) /\ WF_vars(Polls)

-----------------------------------------------------------------------------
\* Every register keeps its range; the count of bytes has a bit to spare, which
\* an NBY lowered during a transfer makes it use.
TypeOK ==
  /\ nby_q \in 1 .. MaxBytes /\ adr_q \in Address
  /\ rdr_q \in Word /\ tdr_q \in Word
  /\ cfg_q \in [tx_en : BOOLEAN, rx_en : BOOLEAN, tx_done : BOOLEAN, rx_done : BOOLEAN]
  /\ i2c_state_q \in {"I_IDLE", "I_START", "I_ADDR", "I_ACK_ADDR", "I_TX_DATA",
                      "I_ACK_TX", "I_RX_DATA", "I_ACK_RX", "I_STOP", "I_DONE"}
  /\ scl_cnt_q \in 0 .. PRESCALE - 1 /\ scl_phase_q \in 0 .. 3
  /\ bit_cnt_q \in 0 .. ByteBits - 1 /\ byte_cnt_q \in 0 .. 2 * MaxBytes - 1
  /\ is_read_q \in BOOLEAN
  /\ shift_tx_q \in Byte /\ shift_rx_q \in Byte /\ rx_buf_q \in Word
  /\ sda_drive_q \in BOOLEAN /\ {sda_value_q, scl_value_q} \subseteq {0, 1}
  /\ slave.n \in 0 .. ByteBits + 1 /\ Len(slave.bits) <= ByteBits

Undisturbed == fresh /\ meddles = 0
Written == sw = "clear" /\ ~is_read_q      \* TX_DONE has been seen
Present == adr_q \in Devices

\* A transfer that began on a free bus and whose registers are left alone does
\* what software asked for.  Once TX_DONE is read, the slave has taken the first
\* bytes of TDR in order, and all NBY of them if it refused none; the RDR that
\* software reads after RX_DONE holds the bytes the slave gave, or ones if no
\* device answered.
Faithful ==
  Undisturbed =>
    /\ Written =>
         /\ Len(heard) <= nby_q
         /\ \A k \in 1 .. Len(heard) : heard[k] = tdr_q[k - 1]
         /\ slave.low => Len(heard) = nby_q
         /\ ~Present => heard = <<>>
    /\ response.what = "rdr" =>
         /\ Present => Len(told) = nby_q
         /\ \A k \in 1 .. nby_q :
              response.value[k - 1] =
                IF Present THEN told[k] ELSE [b \in Bit |-> 1]

\* A read, and a write whose last byte the slave refused, leave the bus free:
\* the slave has seen STOP and nobody holds SDA.
LeavesBusFree ==
  /\ Undisturbed /\ i2c_state_q = "I_IDLE"
  /\ \/ sw \in {"fetch", "clear"} /\ is_read_q
     \/ Written /\ Len(heard) < nby_q
  => slave = Resting /\ sda = 1

\* header of i2c_master_axi.sv: a transmission is START, address, bytes, STOP.
EveryWriteStops == Undisturbed /\ Written => slave = Resting

\* SDA moves while SCL is high only as START or STOP, so no bit of an address,
\* of data or of an acknowledgement is taken for either of them.
SdaStable ==
  [][Undisturbed /\ scl = 1 /\ scl' = 1 /\ sda' # sda =>
       i2c_state_q \in {"I_START", "I_STOP"}]_vars

\* Software that waits for a done flag sees it, even if it has set NBY below
\* the number of bytes already sent: the count of bytes goes round and meets it.
RequestServed == sw \in {"poll_tx", "poll_rx"} ~> sw \in {"fetch", "clear"}

=============================================================================
