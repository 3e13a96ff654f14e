---------------------------- MODULE I2cBus_proofs ----------------------------
(***************************************************************************)
(* Proofs about I2cBus, for every prescaler, width of a byte, number of    *)
(* bytes, device, word, and pace of the software.                          *)
(***************************************************************************)
EXTENDS I2cBus, SequenceTheorems, TLAPS

States ==
  {"I_IDLE", "I_START", "I_ADDR", "I_ACK_ADDR", "I_TX_DATA", "I_ACK_TX",
   "I_RX_DATA", "I_ACK_RX", "I_STOP", "I_DONE"}
Polling == {"poll_tx", "poll_rx"}

\* The divider, the counters of accesses, and the shape of the slave's record.
Ranges ==
  /\ i2c_state_q \in States
  /\ scl_cnt_q \in Nat /\ scl_phase_q \in 0 .. 3
  /\ meddles \in Nat

SlaveShape == \E at, n, bits : \E low \in BOOLEAN :
  slave = [at |-> at, n |-> n, bits |-> bits, low |-> low]

\* While the state machine runs the software polls, so that nobody but a
\* meddler writes NBY, and a done flag, or the answer of a poll that shows one,
\* means that it has stopped.
CfgDone == cfg_q.tx_done \/ cfg_q.rx_done
SeenDone ==
  response.what = "cfg" /\ (response.value.tx_done \/ response.value.rx_done)
DoneMeansIdle ==
  CfgDone \/ SeenDone \/ response.what = "rdr" => i2c_state_q = "I_IDLE"
BusyMeansPolling == i2c_state_q # "I_IDLE" => sw \in Polling

\* From the second cycle of a bit on, SDA is driven as the state wants it.
FirstCycle == scl_phase_q = 0 /\ scl_cnt_q = 0
Settled ==
  ~FirstCycle =>
    /\ i2c_state_q \in {"I_ADDR", "I_TX_DATA"} =>
         sda_drive_q /\ sda_value_q = shift_tx_q[bit_cnt_q]
    /\ i2c_state_q \in {"I_ACK_ADDR", "I_ACK_TX", "I_RX_DATA"} => ~sda_drive_q
    /\ i2c_state_q = "I_ACK_RX" /\ meddles = 0 =>
         sda_drive_q /\ sda_value_q = IF LastByte THEN 1 ELSE 0
Released == i2c_state_q \in {"I_IDLE", "I_DONE"} => ~sda_drive_q

\* The slave pulls SDA low only after SCL has fallen.
SlaveInTime == scl_was = 1 /\ slave.low => sda_was = 0

BusInv ==
  /\ Ranges /\ SlaveShape /\ DoneMeansIdle /\ BusyMeansPolling
  /\ Settled /\ Released /\ SlaveInTime

-----------------------------------------------------------------------------
\* What the software's accesses can do to the master.
LEMMA SoftwareMoves ==
  ASSUME NEW op, Software(op)
  PROVE  /\ op.what = "cfg" => ~op.tx_done /\ ~op.rx_done
         /\ op.what = "cfg" /\ (op.tx_en \/ op.rx_en) => sw' \in Polling
         /\ op.what = "nby" => sw \notin Polling \/ Tampers(op)
         /\ op.what \in {"adr", "tdr"} => sw \notin Polling
         /\ op.what = "read_rdr" => sw \notin Polling
         /\ sw \in Polling => sw' \in Polling \/ SeenDone \/ response.what = "rdr"
<1>1. CASE response # Idle
  <2>1. op = Idle /\ op.what = "none"
    BY <1>1 DEF Software, Receive, Idle
  <2>2. sw \in Polling => sw' \in Polling \/ SeenDone \/ response.what = "rdr"
    BY <1>1 DEF Software, Receive, SeenDone, Polling
  <2> QED BY <2>1, <2>2
<1>2. ASSUME response = Idle, SetUp(op)
      PROVE  op.what \in {"nby", "adr", "tdr"} /\ sw \notin Polling
  BY <1>2 DEF SetUp, WriteNby, WriteAdr, WriteTdr, Polling
<1>3. ASSUME response = Idle, StartIt(op)
      PROVE  op.what = "cfg" /\ ~op.tx_done /\ ~op.rx_done /\ sw' \in Polling
  BY <1>3 DEF StartIt, WriteCfg, Polling
<1>4. ASSUME response = Idle, Poll(op)
      PROVE  op.what = "read_cfg" /\ UNCHANGED sw
  BY <1>4 DEF Poll, ReadCfg
<1>5. ASSUME response = Idle, Fetch(op)
      PROVE  op.what = "read_rdr" /\ sw \notin Polling
  BY <1>5 DEF Fetch, ReadRdr, Polling
<1>6. ASSUME response = Idle, ClearDone(op)
      PROVE  /\ op.what = "cfg" /\ ~op.tx_done /\ ~op.rx_done
             /\ ~op.tx_en /\ ~op.rx_en /\ sw \notin Polling
  BY <1>6 DEF ClearDone, WriteCfg, Polling
<1>7. ASSUME response = Idle, Meddle(op)
      PROVE  op.what = "nby" /\ Tampers(op) /\ UNCHANGED sw
  BY <1>7 DEF Meddle, WriteNby, Tampers
<1>8. ASSUME response = Idle, op = Idle, UNCHANGED sw
      PROVE  op.what = "none" /\ UNCHANGED sw
  BY <1>8 DEF Idle
<1>9. CASE response = Idle
  BY <1>2, <1>3, <1>4, <1>5, <1>6, <1>7, <1>8, <1>9 DEF Software
<1> QED BY <1>1, <1>9

\* Only a trigger starts the machine, and it ends through I_DONE.
LEMMA MachineMoves ==
  ASSUME Ranges, NEW op, NEW sda_i, I2cEdge(op, sda_i)
  PROVE  /\ i2c_state_q' \in States
         /\ i2c_state_q = "I_IDLE" /\ ~Begins(op) => i2c_state_q' = "I_IDLE"
         /\ i2c_state_q' # "I_IDLE" => i2c_state_q # "I_DONE"
<1>1. CASE Wait(op)
  BY <1>1 DEF Wait, Begins, States
<1>2. CASE Start
  BY <1>2 DEF Start, AtPeriodEnd, States
<1>3. CASE SendBits("I_ADDR", "I_ACK_ADDR") \/ SendBits("I_TX_DATA", "I_ACK_TX")
  BY <1>3 DEF SendBits, AtPeriodEnd, States
<1>4. CASE AckAddr \/ AckTx \/ AckRx
  BY <1>4 DEF AckAddr, AckTx, AckRx, NextByte, AtPeriodEnd, States
<1>5. CASE RxData(sda_i)
  BY <1>5 DEF RxData, AtPeriodEnd, States
<1>6. CASE Stop \/ Finish
  BY <1>6 DEF Stop, Finish, AtPeriodEnd, States
<1> QED BY <1>1, <1>2, <1>3, <1>4, <1>5, <1>6 DEF I2cEdge

\* The flags and the software.
LEMMA FlagsStep ==
  ASSUME Ranges, DoneMeansIdle, BusyMeansPolling,
         NEW op, NEW sda_i, Software(op), I2cEdge(op, sda_i)
  PROVE  DoneMeansIdle' /\ BusyMeansPolling'
<1>1. /\ op.what = "cfg" => ~op.tx_done /\ ~op.rx_done
      /\ op.what = "cfg" /\ (op.tx_en \/ op.rx_en) => sw' \in Polling
      /\ op.what = "read_rdr" => sw \notin Polling
      /\ sw \in Polling => sw' \in Polling \/ SeenDone \/ response.what = "rdr"
  BY SoftwareMoves
<1>2. /\ i2c_state_q = "I_IDLE" /\ ~Begins(op) => i2c_state_q' = "I_IDLE"
      /\ i2c_state_q' # "I_IDLE" => i2c_state_q # "I_DONE"
  BY MachineMoves
<1>3. Begins(op) =>
        op.what = "cfg" /\ (op.tx_en \/ op.rx_en) /\ i2c_state_q = "I_IDLE"
  BY DEF Begins, tx_trigger, rx_trigger
<1>4. BusyMeansPolling'
  BY <1>1, <1>2, <1>3 DEF BusyMeansPolling, DoneMeansIdle
<1>5. i2c_state_q # "I_DONE" =>
        (CfgDone' => CfgDone /\ (op.what = "cfg" => op.tx_done \/ op.rx_done))
  BY DEF I2cEdge, Registers, CfgDone
<1>6. SeenDone' => CfgDone /\ op.what = "read_cfg"
  BY DEF I2cEdge, Registers, Answer, SeenDone, CfgDone, Idle
<1>7. response'.what = "rdr" => op.what = "read_rdr"
  BY DEF I2cEdge, Registers, Answer, Idle
<1>8. DoneMeansIdle'
  BY <1>1, <1>2, <1>3, <1>5, <1>6, <1>7 DEF DoneMeansIdle, BusyMeansPolling
<1> QED BY <1>4, <1>8

-----------------------------------------------------------------------------
\* A period ends in the first cycle of the next one, and nowhere else does one
\* begin while the machine runs.
LEMMA DividerMoves ==
  ASSUME Ranges, Divider
  PROVE  /\ scl_cnt_q' \in Nat /\ scl_phase_q' \in 0 .. 3
         /\ PeriodEnd => FirstCycle'
         /\ i2c_state_q # "I_IDLE" /\ ~PeriodEnd => ~FirstCycle'
         /\ FirstCycle /\ i2c_state_q \notin {"I_IDLE", "I_START", "I_STOP", "I_DONE"}
              => scl_value_q' = 0
<1>1. scl_cnt_q' = IF i2c_state_q = "I_IDLE" \/ phase_tick THEN 0 ELSE scl_cnt_q + 1
  BY DEF Divider
<1>2. scl_phase_q' = IF i2c_state_q = "I_IDLE" THEN 0
                     ELSE IF phase_tick THEN (scl_phase_q + 1) % 4 ELSE scl_phase_q
  BY DEF Divider
<1>3. scl_cnt_q \in Nat /\ scl_phase_q \in {0, 1, 2, 3}
  BY DEF Ranges
<1>4. scl_cnt_q' \in Nat /\ scl_phase_q' \in 0 .. 3
  BY <1>1, <1>2, <1>3
<1>5. PeriodEnd => FirstCycle'
  BY <1>1, <1>2 DEF PeriodEnd, FirstCycle
<1>6. i2c_state_q # "I_IDLE" /\ ~PeriodEnd => ~FirstCycle'
  <2>1. CASE phase_tick /\ scl_phase_q # 3 /\ i2c_state_q # "I_IDLE"
    <3>1. scl_phase_q' # 0
      BY <1>2, <1>3, <2>1
    <3> QED BY <3>1 DEF FirstCycle
  <2>2. CASE ~phase_tick /\ i2c_state_q # "I_IDLE"
    BY <1>1, <1>3, <2>2 DEF FirstCycle
  <2> QED BY <2>1, <2>2 DEF PeriodEnd
<1>7. FirstCycle /\ i2c_state_q \notin {"I_IDLE", "I_START", "I_STOP", "I_DONE"}
        => scl_value_q' = 0
  BY DEF Divider, FirstCycle
<1> QED BY <1>4, <1>5, <1>6, <1>7

\* NBY is written to a busy master by a meddler only.
LEMMA CountHeld ==
  ASSUME Ranges, BusyMeansPolling, i2c_state_q # "I_IDLE", meddles' = 0,
         NEW op, Software(op), Edge(op)
  PROVE  meddles = 0 /\ nby_q' = nby_q
<1>1. op.what = "nby" => Tampers(op)
  BY SoftwareMoves DEF BusyMeansPolling
<1>2. ~Begins(op)
  BY DEF Begins, tx_trigger, rx_trigger
<1>3. ~Tampers(op) /\ meddles = 0
  BY <1>2 DEF Edge, Ranges
<1> QED BY <1>1, <1>3 DEF Edge, I2cEdge, Registers

\* The pins in a cycle that does not end the SCL period.
LEMMA PinsStep ==
  ASSUME BusInv, NEW op, Edge(op)
  PROVE  Settled' /\ Released'
<1>1. /\ Software(op) /\ I2cEdge(op, sda) /\ Divider
      /\ Ranges /\ BusyMeansPolling /\ Released
  BY DEF Edge, I2cEdge, BusInv
<1>2. /\ PeriodEnd => FirstCycle'
      /\ i2c_state_q # "I_IDLE" /\ ~PeriodEnd => ~FirstCycle'
  BY <1>1, DividerMoves
<1>3. i2c_state_q # "I_IDLE" /\ meddles' = 0 => meddles = 0 /\ nby_q' = nby_q
  BY <1>1, CountHeld
<1>4. CASE Wait(op)
  BY <1>4 DEF Wait, Settled, Released
<1>5. CASE Start
  BY <1>2, <1>5 DEF Start, AtPeriodEnd, Settled, Released
<1>6. CASE SendBits("I_ADDR", "I_ACK_ADDR") \/ SendBits("I_TX_DATA", "I_ACK_TX")
  BY <1>2, <1>6 DEF SendBits, Drive, AtPeriodEnd, Settled, Released
<1>7. CASE AckAddr
  BY <1>2, <1>7 DEF AckAddr, Release, AtPeriodEnd, Settled, Released
<1>8. CASE AckTx
  BY <1>2, <1>8 DEF AckTx, Release, NextByte, AtPeriodEnd, Settled, Released
<1>9. CASE RxData(sda)
  BY <1>2, <1>9 DEF RxData, Release, AtPeriodEnd, Settled, Released
<1>10. CASE AckRx
  <2>1. CASE PeriodEnd
    BY <1>2, <1>10, <2>1 DEF AckRx, NextByte, AtPeriodEnd, Settled, Released
  <2>2. CASE ~PeriodEnd
    <3>1. /\ i2c_state_q' = "I_ACK_RX" /\ byte_cnt_q' = byte_cnt_q
          /\ sda_drive_q' /\ sda_value_q' = IF LastByte THEN 1 ELSE 0
          /\ i2c_state_q # "I_IDLE"
      BY <1>10, <2>2 DEF AckRx, NextByte, AtPeriodEnd, Drive
    <3>2. meddles' = 0 => (LastByte' <=> LastByte)
      BY <1>3, <3>1 DEF LastByte
    <3> QED BY <3>1, <3>2 DEF Settled, Released
  <2> QED BY <2>1, <2>2
<1>11. CASE Stop
  BY <1>2, <1>11 DEF Stop, AtPeriodEnd, Settled, Released
<1>12. CASE Finish
  BY <1>1, <1>12 DEF Finish, Settled, Released
<1> QED BY <1>1, <1>4, <1>5, <1>6, <1>7, <1>8, <1>9, <1>10, <1>11, <1>12 DEF I2cEdge

\* The slave's record keeps its shape, and under a high SCL the slave goes on
\* with SDA as it did.
LEMMA SlaveStep ==
  ASSUME SlaveShape, SlaveInTime, NEW op, Edge(op)
  PROVE  /\ SlaveShape'
         /\ scl = 1 => slave'.low = slave.low
<1>1. PICK at, n, bits : \E low \in BOOLEAN :
        slave = [at |-> at, n |-> n, bits |-> bits, low |-> low]
  BY DEF SlaveShape
<1>2. PICK low \in BOOLEAN : slave = [at |-> at, n |-> n, bits |-> bits, low |-> low]
  BY <1>1
<1>3. /\ slave.low = low
      /\ sda = 1 => ~low
  BY <1>2 DEF sda
<1>4. CASE UNCHANGED slave
  BY <1>4 DEF SlaveShape
<1>shape. ASSUME NEW a2, NEW n2, NEW b2, NEW l2 \in BOOLEAN,
              slave' = [at |-> a2, n |-> n2, bits |-> b2, low |-> l2]
       PROVE  SlaveShape'
  BY <1>shape DEF SlaveShape
<1>5. CASE StartSeen /\ OnStart
  <2>1. ~low /\ slave' = [at |-> "addr", n |-> 0, bits |-> <<>>, low |-> FALSE]
    BY <1>3, <1>5 DEF StartSeen, SlaveInTime, OnStart, Resting
  <2> QED BY <1>3, <2>1 DEF SlaveShape
<1>6. CASE StopSeen /\ OnStop
  <2>1. ~low /\ slave' = [at |-> "idle", n |-> 0, bits |-> <<>>, low |-> FALSE]
    BY <1>3, <1>6 DEF StopSeen, OnStop, Resting
  <2> QED BY <1>3, <2>1 DEF SlaveShape
<1>7. CASE OnRise
  <2>1. PICK a2, n2, b2 : slave' = [at |-> a2, n |-> n2, bits |-> b2, low |-> low]
    BY <1>2, <1>7 DEF OnRise
  <2> QED BY <1>3, <2>1 DEF SlaveShape
<1>8. CASE Falls /\ OnFall
  <2>1. scl = 0
    BY <1>8 DEF Falls
  <2>2. CASE TakeByte
    <3>1. \/ slave' = [at |-> at, n |-> n, bits |-> bits, low |-> TRUE]
          \/ slave' = [at |-> "ignore", n |-> n, bits |-> bits, low |-> low]
      BY <1>2, <2>2 DEF TakeByte
    <3>2. SlaveShape'
      BY <3>1, <1>shape
    <3> QED BY <2>1, <3>2
  <2>3. ASSUME NEW a2, NEW n2, NEW b2, GiveBit(a2, n2, b2) PROVE SlaveShape'
    BY <2>3 DEF GiveBit, SlaveShape
  <2>4. CASE AfterAck
    <3>1. CASE slave' = [Resting EXCEPT !.at = "write"]
      <4>1. slave' = [at |-> "write", n |-> 0, bits |-> <<>>, low |-> FALSE]
        BY <3>1 DEF Resting
      <4>2. SlaveShape'
        BY <4>1, <1>shape
      <4> QED BY <2>1, <4>2
    <3> QED BY <2>1, <2>3, <2>4, <3>1 DEF AfterAck
  <2>5. CASE DuringRead
    <3>1. CASE slave' = [slave EXCEPT !.low = FALSE]
      <4>1. slave' = [at |-> at, n |-> n, bits |-> bits, low |-> FALSE]
        BY <1>2, <3>1
      <4>2. SlaveShape'
        BY <4>1, <1>shape
      <4> QED BY <2>1, <4>2
    <3> QED BY <2>1, <2>3, <2>5, <3>1 DEF DuringRead
  <2> QED BY <1>4, <1>8, <2>1, <2>2, <2>4, <2>5 DEF OnFall
<1>9. UNCHANGED slave \/ Slave
  BY DEF Edge
<1>10. CASE Slave
  BY <1>4, <1>5, <1>6, <1>7, <1>8, <1>10 DEF Slave, Ignores
<1> QED BY <1>4, <1>9, <1>10

\* One clock edge.
LEMMA BusStep ==
  ASSUME BusInv, NEW op, Edge(op)
  PROVE  BusInv'
<1>1. /\ Software(op) /\ I2cEdge(op, sda) /\ Divider /\ Ranges /\ SlaveShape
      /\ DoneMeansIdle /\ BusyMeansPolling /\ SlaveInTime
  BY DEF Edge, I2cEdge, BusInv
<1>2. Ranges'
  <2>1. i2c_state_q' \in States
    BY <1>1, MachineMoves
  <2>2. scl_cnt_q' \in Nat /\ scl_phase_q' \in 0 .. 3
    BY <1>1, DividerMoves
  <2>3. meddles' \in Nat
    BY <1>1 DEF Edge, Ranges
  <2> QED BY <2>1, <2>2, <2>3 DEF Ranges
<1>3. DoneMeansIdle' /\ BusyMeansPolling'
  BY <1>1, FlagsStep
<1>4. Settled' /\ Released'
  BY PinsStep
<1>5. SlaveShape' /\ (scl = 1 => slave'.low = slave.low)
  BY <1>1, SlaveStep
<1>6. SlaveInTime'
  BY <1>5 DEF Edge, SlaveInTime, sda
<1> QED BY <1>2, <1>3, <1>4, <1>5, <1>6 DEF BusInv

\* The invariant holds from the start.
LEMMA BusInvAlways == Spec => []BusInv
<1>1. Init => BusInv
  <2>1. ASSUME Init PROVE Ranges /\ Settled /\ Released /\ BusyMeansPolling
    BY <2>1 DEF Init, I2cInit, Ranges, States, Settled, Released,
                BusyMeansPolling
  <2>2. ASSUME Init PROVE SlaveShape /\ SlaveInTime
    BY <2>2 DEF Init, Resting, SlaveShape, SlaveInTime
  <2>3. ASSUME Init PROVE DoneMeansIdle
    BY <2>3 DEF Init, I2cInit, DoneMeansIdle
  <2> QED BY <2>1, <2>2, <2>3 DEF BusInv
<1>2. BusInv /\ [Tick]_vars => BusInv'
  <2>1. ASSUME BusInv, UNCHANGED vars PROVE BusInv'
    BY <2>1 DEF vars, i2cVars, regVars, sclVars, fsmVars, busVars, BusInv,
         Ranges, SlaveShape, DoneMeansIdle, CfgDone, SeenDone, BusyMeansPolling,
         Settled, FirstCycle, LastByte, Released, SlaveInTime
  <2> QED BY <2>1, BusStep DEF Tick
<1> QED BY <1>1, <1>2, PTL DEF Spec

-----------------------------------------------------------------------------
\* Under a SCL that is high and stays so the master leaves SDA alone, but for
\* START and STOP.
LEMMA MasterStable ==
  ASSUME BusInv, NEW op, Edge(op), meddles = 0, scl = 1, scl' = 1,
         i2c_state_q \notin {"I_START", "I_STOP"}
  PROVE  sda_oe' = sda_oe
<1>1. /\ Software(op) /\ I2cEdge(op, sda) /\ Divider /\ Ranges
      /\ Settled /\ Released
  BY DEF Edge, I2cEdge, BusInv
<1>2. i2c_state_q \notin {"I_IDLE", "I_DONE"} => ~FirstCycle
  BY <1>1, DividerMoves DEF scl
<1>3. CASE Wait(op)
  BY <1>1, <1>3 DEF Wait, Released, sda_oe
<1>4. CASE SendBits("I_ADDR", "I_ACK_ADDR") \/ SendBits("I_TX_DATA", "I_ACK_TX")
  BY <1>1, <1>2, <1>4 DEF SendBits, Drive, Settled, sda_oe
<1>5. CASE AckAddr \/ AckTx \/ RxData(sda)
  BY <1>1, <1>2, <1>5 DEF AckAddr, AckTx, RxData, Release, Settled, sda_oe
<1>6. CASE AckRx
  BY <1>1, <1>2, <1>6 DEF AckRx, Drive, Settled, sda_oe
<1>7. CASE Finish
  BY <1>7 DEF Finish, sda_oe
<1> QED BY <1>1, <1>3, <1>4, <1>5, <1>6, <1>7 DEF I2cEdge, Start, Stop

\* For every prescaler, width and data: while nobody rewrites NBY, SDA moves
\* under a high SCL only as START or STOP, so that no bit is taken for either
\* of them (i2c_master_axi.sv's phases of SCL against its drive of SDA).
THEOREM SdaStableAlways == Spec => SdaStable
<1>1. ASSUME BusInv, [Tick]_vars
      PROVE  [Undisturbed /\ scl = 1 /\ scl' = 1 /\ sda' # sda =>
                i2c_state_q \in {"I_START", "I_STOP"}]_vars
  <2>1. ASSUME NEW op, Edge(op), Undisturbed, scl = 1, scl' = 1,
               i2c_state_q \notin {"I_START", "I_STOP"}
        PROVE  sda' = sda
    <3>1. sda_oe' = sda_oe
      BY <1>1, <2>1, MasterStable DEF Undisturbed
    <3>2. slave'.low = slave.low
      BY <1>1, <2>1, SlaveStep DEF BusInv
    <3> QED BY <3>1, <3>2 DEF sda
  <2> QED BY <1>1, <2>1 DEF Tick
<1> QED BY <1>1, BusInvAlways, PTL DEF Spec, SdaStable

-----------------------------------------------------------------------------
(***************************************************************************)
(* The registers and the record of the slave.                              *)
(***************************************************************************)
MasterTyped ==
  /\ nby_q \in 1 .. MaxBytes /\ adr_q \in Address /\ tdr_q \in Word
  /\ rdr_q \in Word
  /\ bit_cnt_q \in Bit /\ byte_cnt_q \in Nat /\ is_read_q \in BOOLEAN
  /\ shift_tx_q \in Byte /\ shift_rx_q \in Byte /\ rx_buf_q \in Word
  /\ sda_drive_q \in BOOLEAN /\ sda_value_q \in {0, 1} /\ scl_value_q \in {0, 1}

\* The bits the slave has clocked in since START, or since the last byte.
SlaveTyped ==
  /\ slave.n \in Nat /\ slave.bits \in Seq({0, 1})
  /\ Len(slave.bits) = IF slave.n < ByteBits THEN slave.n ELSE ByteBits
  /\ heard \in Seq(Byte) /\ told \in Seq(Byte)

\* What software writes has the width of the register.
LEMMA ValuesFit ==
  ASSUME NEW op \in Accesses
  PROVE  /\ op.what = "nby" => op.value \in Nat
         /\ op.what = "adr" => op.value \in Address
         /\ op.what = "tdr" => op.value \in Word
<1>1. CASE op \in {Idle, ReadCfg, ReadRdr}
  BY <1>1 DEF Idle, ReadCfg, ReadRdr
<1>2. CASE op \in {WriteCfg(tx, rx) : tx \in BOOLEAN, rx \in BOOLEAN}
  BY <1>2 DEF WriteCfg
<1>3. CASE op \in {WriteNby(count) : count \in Counts}
  BY <1>3, BusAssumption DEF WriteNby
<1>4. CASE op \in {WriteAdr(adr) : adr \in Addresses}
  BY <1>4, BusAssumption DEF WriteAdr
<1>5. CASE op \in {WriteTdr(word) : word \in Words}
  BY <1>5, BusAssumption DEF WriteTdr
<1> QED BY <1>1, <1>2, <1>3, <1>4, <1>5 DEF Accesses

\* The registers.
LEMMA RegistersTyped ==
  ASSUME MasterTyped, NEW op \in Accesses, Registers(op)
  PROVE  /\ nby_q' \in 1 .. MaxBytes /\ adr_q' \in Address
         /\ tdr_q' \in Word /\ rdr_q' \in Word
<1>1. ASSUME NEW v \in Nat PROVE Rounded(v) \in 1 .. MaxBytes
  BY I2cAssumption DEF Rounded
<1>2. /\ op.what = "nby" => op.value \in Nat
      /\ op.what = "adr" => op.value \in Address
      /\ op.what = "tdr" => op.value \in Word
  BY ValuesFit
<1>3. nby_q' \in 1 .. MaxBytes
  BY <1>1, <1>2 DEF Registers, MasterTyped
<1>4. adr_q' \in Address
  BY <1>2 DEF Registers, MasterTyped
<1>5. tdr_q' \in Word
  BY <1>2 DEF Registers, MasterTyped
<1>6. rdr_q' \in Word
  BY DEF Registers, MasterTyped
<1> QED BY <1>3, <1>4, <1>5, <1>6

\* The shift register takes the line in.
LEMMA ShiftTyped ==
  ASSUME NEW byte \in Byte, NEW bit \in {0, 1}
  PROVE  [b \in Bit |-> IF b = 0 THEN bit ELSE byte[b - 1]] \in Byte
<1>1. ASSUME NEW b \in Bit, b # 0 PROVE b - 1 \in Bit
  BY <1>1, I2cAssumption DEF Bit
<1> QED BY <1>1 DEF Byte

\* The state machine's own registers.
LEMMA MachineTyped ==
  ASSUME MasterTyped, Ranges, NEW op, NEW sda_i \in {0, 1}, I2cEdge(op, sda_i)
  PROVE  /\ bit_cnt_q' \in Bit /\ byte_cnt_q' \in Nat /\ is_read_q' \in BOOLEAN
         /\ shift_tx_q' \in Byte /\ shift_rx_q' \in Byte /\ rx_buf_q' \in Word
         /\ sda_drive_q' \in BOOLEAN /\ sda_value_q' \in {0, 1}
<1> USE I2cAssumption DEF MasterTyped
<1>1. CASE Wait(op)
  <2>1. is_read_q' \in BOOLEAN
    BY <1>1 DEF Wait, rx_trigger
  <2>2. [b \in Bit |-> IF b > 0 THEN adr_q[b]
                       ELSE IF rx_trigger(op) THEN 1 ELSE 0] \in Byte
    BY DEF Bit, Byte, Address
  <2>3. shift_tx_q' \in Byte
    BY <1>1, <2>2 DEF Wait
  <2>4. bit_cnt_q' \in Bit /\ byte_cnt_q' \in Nat
    BY <1>1 DEF Wait, Bit
  <2> QED BY <1>1, <2>1, <2>3, <2>4 DEF Wait
<1>2. CASE Start \/ Stop \/ Finish
  BY <1>2 DEF Start, Stop, Finish, Drive
<1>3. ASSUME NEW st, NEW nx, SendBits(st, nx)
      PROVE  /\ bit_cnt_q' \in Bit /\ sda_value_q' \in {0, 1}
             /\ sda_drive_q' \in BOOLEAN
             /\ UNCHANGED <<byte_cnt_q, is_read_q, shift_tx_q, shift_rx_q, rx_buf_q>>
  <2>1. shift_tx_q[bit_cnt_q] \in {0, 1}
    BY DEF Byte
  <2>2. bit_cnt_q' \in Bit
    BY <1>3 DEF SendBits, Bit
  <2> QED BY <1>3, <2>1, <2>2 DEF SendBits, Drive
<1>4. CASE SendBits("I_ADDR", "I_ACK_ADDR") \/ SendBits("I_TX_DATA", "I_ACK_TX")
  BY <1>3, <1>4
<1>5. CASE AckAddr
  <2>1. tdr_q[0] \in Byte
    BY DEF Word
  <2>2. bit_cnt_q' \in Bit
    BY <1>5 DEF AckAddr, Bit
  <2> QED BY <1>5, <2>1, <2>2 DEF AckAddr, Release
<1>6. ASSUME NEW more, NextByte(more) PROVE bit_cnt_q' \in Bit /\ byte_cnt_q' \in Nat
  BY <1>6 DEF NextByte, Following, Bit
<1>7. CASE AckTx
  <2>1. ZeroByte \in Byte
    BY DEF ZeroByte, Byte
  <2>2. byte_cnt_q + 1 < MaxBytes => tdr_q[byte_cnt_q + 1] \in Byte
    BY DEF Word
  <2>3. shift_tx_q' \in Byte
    BY <1>7, <2>1, <2>2 DEF AckTx
  <2> QED BY <1>6, <1>7, <2>3 DEF AckTx, Release
<1>8. CASE RxData(sda_i)
  <2>1. shift_rx_q' \in Byte
    BY <1>8, ShiftTyped DEF RxData
  <2>2. rx_buf_q' \in Word
    BY <1>8 DEF RxData, Word
  <2>3. bit_cnt_q' \in Bit
    BY <1>8 DEF RxData, Bit
  <2> QED BY <1>8, <2>1, <2>2, <2>3 DEF RxData, Release
<1>9. CASE AckRx
  BY <1>6, <1>9 DEF AckRx, Drive
<1> QED BY <1>1, <1>2, <1>4, <1>5, <1>7, <1>8, <1>9 DEF I2cEdge


-----------------------------------------------------------------------------
(***************************************************************************)
(* What the slave does, field by field.                                    *)
(***************************************************************************)
\* A bit comes in; a master's NACK ends the slave's part.
LEMMA OnRiseFields ==
  ASSUME SlaveShape, SlaveTyped, OnRise
  PROVE  /\ slave'.n = slave.n + 1 /\ slave'.low = slave.low
         /\ slave'.bits = IF slave.n < ByteBits THEN Append(slave.bits, sda)
                          ELSE slave.bits
         /\ slave'.at = IF slave.at = "read" /\ slave.n = ByteBits /\ sda = 1
                          THEN "ignore" ELSE slave.at
         /\ heard' = heard /\ told' = told
  BY DEF OnRise, SlaveShape

\* A bit that is appended comes after the others.
LEMMA NextBit ==
  ASSUME SlaveTyped, slave.n < ByteBits, NEW bit \in {0, 1}
  PROVE  /\ Append(slave.bits, bit) \in Seq({0, 1})
         /\ Len(slave.bits) = slave.n
         /\ Len(Append(slave.bits, bit)) = slave.n + 1
         /\ \A j \in 1 .. slave.n : Append(slave.bits, bit)[j] = slave.bits[j]
         /\ Append(slave.bits, bit)[slave.n + 1] = bit
  BY AppendProperties DEF SlaveTyped

\* The slave acknowledges a byte or stops listening.
LEMMA TakeByteFields ==
  ASSUME SlaveShape, TakeByte
  PROVE  /\ slave.at \in {"addr", "write"} /\ slave.n = ByteBits
         /\ slave'.n = slave.n /\ slave'.bits = slave.bits /\ told' = told
         /\ \/ /\ slave'.at = slave.at /\ slave'.low
               /\ slave.at = "addr" => AddressOf(slave.bits) \in Devices
               /\ heard' = IF slave.at = "write" THEN Log(heard) ELSE heard
            \/ /\ slave'.at = "ignore" /\ slave'.low = slave.low
               /\ heard' = heard
               /\ slave.at = "addr" => AddressOf(slave.bits) \notin Devices
  BY DEF TakeByte, SlaveShape

\* The next byte begins, in the direction the address asked for.
LEMMA AfterAckFields ==
  ASSUME SlaveShape, AfterAck
  PROVE  /\ slave.at \in {"addr", "write", "read"} /\ slave.n = ByteBits + 1
         /\ slave'.n = 0 /\ slave'.bits = <<>> /\ heard' = heard /\ told' = told
         /\ slave'.low \in BOOLEAN
         /\ IF slave.at = "write" \/ (slave.at = "addr" /\ slave.bits[ByteBits] = 0)
              THEN slave'.at = "write" /\ ~slave'.low
              ELSE slave'.at = "read"
<1> DEFINE Writes == slave.at = "write"
                      \/ (slave.at = "addr" /\ slave.bits[ByteBits] = 0)
<1>1. CASE Writes
  <2>1. slave' = [Resting EXCEPT !.at = "write"] /\ UNCHANGED <<heard, told>>
    BY <1>1 DEF AfterAck
  <2>2. slave' = [at |-> "write", n |-> 0, bits |-> <<>>, low |-> FALSE]
    BY <2>1 DEF Resting
  <2>3. /\ slave'.n = 0 /\ slave'.bits = <<>> /\ slave'.at = "write"
        /\ slave'.low = FALSE
    BY <2>2
  <2>4. slave.at \in {"addr", "write", "read"} /\ slave.n = ByteBits + 1
    BY DEF AfterAck
  <2> QED BY <1>1, <2>1, <2>3, <2>4
<1>2. CASE ~Writes
  BY <1>2 DEF AfterAck, GiveBit
<1> QED BY <1>1, <1>2

\* The slave puts out its next bit, or lets go for the acknowledgement.
LEMMA DuringReadFields ==
  ASSUME SlaveShape, DuringRead
  PROVE  /\ slave.at = "read" /\ slave.n \in 1 .. ByteBits
         /\ slave'.at = "read" /\ slave'.n = slave.n /\ slave'.bits = slave.bits
         /\ slave'.low \in BOOLEAN /\ heard' = heard
         /\ slave.n < ByteBits => told' = told
         /\ slave.n = ByteBits => ~slave'.low /\ told' = Log(told)
<1>1. CASE slave.n < ByteBits
  BY <1>1 DEF DuringRead, GiveBit
<1>2. CASE slave.n >= ByteBits
  <2>1. /\ slave.at = "read" /\ slave.n = ByteBits
        /\ slave' = [slave EXCEPT !.low = FALSE] /\ heard' = heard
        /\ told' = Log(told)
    BY <1>2, I2cAssumption DEF DuringRead
  <2> QED BY <1>2, <2>1, I2cAssumption DEF SlaveShape
<1> QED BY <1>1, <1>2, I2cAssumption DEF DuringRead

\* A byte is logged when all of it has been clocked.
LEMMA LogTyped ==
  ASSUME SlaveTyped, slave.n = ByteBits, NEW bytes \in Seq(Byte)
  PROVE  /\ ByteOf(slave.bits) \in Byte
         /\ Log(bytes) \in Seq(Byte)
         /\ Len(bytes) < MaxBytes =>
              /\ Len(Log(bytes)) = Len(bytes) + 1
              /\ \A k \in 1 .. Len(bytes) : Log(bytes)[k] = bytes[k]
              /\ Log(bytes)[Len(bytes) + 1] = ByteOf(slave.bits)
<1>1. Len(slave.bits) = ByteBits /\ slave.bits \in Seq({0, 1})
  BY I2cAssumption DEF SlaveTyped
<1>2. ASSUME NEW b \in Bit PROVE slave.bits[ByteBits - b] \in {0, 1}
  <2>1. ByteBits - b \in 1 .. ByteBits
    BY I2cAssumption DEF Bit
  <2> QED BY <1>1, <2>1
<1>3. ByteOf(slave.bits) \in Byte
  BY <1>2 DEF ByteOf, Byte
<1> QED BY <1>3, AppendProperties DEF Log

\* The slave's record.
LEMMA SlaveTypedStep ==
  ASSUME SlaveShape, SlaveTyped, NEW op, Edge(op)
  PROVE  SlaveTyped'
<1>1. sda \in {0, 1} /\ ByteBits \in Nat \ {0, 1}
  BY I2cAssumption DEF sda
<1>2. ASSUME slave'.n = 0, slave'.bits = <<>>, heard' \in Seq(Byte),
             told' \in Seq(Byte)
      PROVE  SlaveTyped'
  BY <1>1, <1>2 DEF SlaveTyped
<1>3. ASSUME slave'.n = slave.n, slave'.bits = slave.bits,
             heard' \in Seq(Byte), told' \in Seq(Byte)
      PROVE  SlaveTyped'
  BY <1>1, <1>3 DEF SlaveTyped
<1>4. heard \in Seq(Byte) /\ told \in Seq(Byte) /\ <<>> \in Seq(Byte)
  BY DEF SlaveTyped
<1>5. CASE Begins(op)
  BY <1>3, <1>4, <1>5 DEF Edge
<1>6. CASE OnStart \/ OnStop
  <2>1. slave'.n = 0 /\ slave'.bits = <<>>
    BY <1>6 DEF OnStart, OnStop, Resting
  <2> QED BY <1>2, <1>4, <1>6, <2>1 DEF OnStart, OnStop
<1>7. CASE OnRise
  <2>1. /\ slave'.n = slave.n + 1 /\ heard' = heard /\ told' = told
        /\ slave'.bits = IF slave.n < ByteBits THEN Append(slave.bits, sda)
                         ELSE slave.bits
    BY <1>7, OnRiseFields
  <2>2. CASE slave.n < ByteBits
    <3>1. /\ Append(slave.bits, sda) \in Seq({0, 1})
          /\ Len(Append(slave.bits, sda)) = slave.n + 1
      BY <1>1, <2>2, NextBit
    <3>2. slave'.bits = Append(slave.bits, sda)
      BY <2>1, <2>2
    <3>3. slave'.bits \in Seq({0, 1}) /\ Len(slave'.bits) = slave'.n
      BY <2>1, <3>1, <3>2
    <3>4. slave'.n \in Nat /\ slave'.n <= ByteBits
      BY <1>1, <2>1, <2>2 DEF SlaveTyped
    <3> QED BY <1>1, <1>4, <2>1, <3>3, <3>4 DEF SlaveTyped
  <2>3. CASE slave.n >= ByteBits
    BY <1>1, <1>4, <2>1, <2>3 DEF SlaveTyped
  <2> QED BY <1>1, <2>2, <2>3 DEF SlaveTyped
<1>8. CASE TakeByte
  <2>1. /\ slave.n = ByteBits /\ told' = told
        /\ slave'.n = slave.n /\ slave'.bits = slave.bits
    BY <1>8, TakeByteFields
  <2>2. heard' = heard \/ heard' = Log(heard)
    BY <1>8 DEF TakeByte
  <2> QED BY <1>3, <1>4, <2>1, <2>2, LogTyped
<1>9. CASE AfterAck
  BY <1>2, <1>4, <1>9, AfterAckFields
<1>10. CASE DuringRead
  <2>1. /\ slave'.n = slave.n /\ slave'.bits = slave.bits /\ heard' = heard
        /\ told' = told \/ (slave.n = ByteBits /\ told' = Log(told))
    BY <1>1, <1>10, DuringReadFields
  <2> QED BY <1>3, <1>4, <2>1, LogTyped
<1>11. CASE UNCHANGED <<slave, heard, told>>
  BY <1>3, <1>4, <1>11
<1> QED
  BY <1>5, <1>6, <1>7, <1>8, <1>9, <1>10, <1>11 DEF Edge, Slave, OnFall, Ignores

-----------------------------------------------------------------------------
(***************************************************************************)
(* Where in a period of SCL the lines move.                                *)
(***************************************************************************)
BitStates == States \ {"I_IDLE", "I_START", "I_STOP", "I_DONE"}

\* In the second cycle the slave sees SCL fall, in the cycle AtRise it sees it
\* rise; SCL and its history are a cycle and two behind the phase.
BeforeFall == scl_phase_q = 0 /\ scl_cnt_q <= 1
AtFall == BeforeFall /\ ~FirstCycle
AtRise == scl_phase_q = 2 /\ scl_cnt_q = 1
AfterRise == scl_phase_q = 3 \/ (scl_phase_q = 2 /\ scl_cnt_q >= 2)
Sampled == scl_phase_q >= 2

Clock ==
  /\ scl_cnt_q \in 0 .. PRESCALE - 1
  /\ i2c_state_q \in BitStates =>
       /\ scl = 1 <=> FirstCycle \/ AtRise \/ AfterRise
       /\ scl_was = 1 <=> BeforeFall \/ AfterRise
  /\ i2c_state_q \notin BitStates => scl = 1 /\ scl_was = 1
  /\ i2c_state_q = "I_DONE" => FirstCycle

\* The order of these moments, for a prescaler of at least two.
LEMMA Moments ==
  ASSUME PRESCALE > 1, Ranges, Clock
  PROVE  /\ FirstCycle => BeforeFall /\ ~Sampled
         /\ BeforeFall => ~AtRise /\ ~AfterRise /\ ~Sampled
         /\ AtRise => ~AfterRise /\ Sampled
         /\ AfterRise => Sampled
         /\ PeriodEnd => AfterRise
         /\ SampleTime => ~BeforeFall /\ ~Sampled
BY I2cAssumption DEF Ranges, Clock, FirstCycle, BeforeFall, AtRise, AfterRise,
     Sampled, PeriodEnd, SampleTime, phase_tick

\* One cycle later.
LEMMA MomentsPass ==
  ASSUME PRESCALE > 1, Ranges, Clock, Divider, i2c_state_q # "I_IDLE"
  PROVE  /\ scl_cnt_q' \in 0 .. PRESCALE - 1
         /\ PeriodEnd => FirstCycle'
         /\ ~PeriodEnd =>
              /\ ~FirstCycle'
              /\ BeforeFall' <=> FirstCycle
              /\ AtFall' <=> FirstCycle
              /\ AfterRise' <=> AtRise \/ AfterRise
              /\ Sampled' <=> Sampled \/ SampleTime
         /\ scl_phase_q \div 2 = IF Sampled THEN 1 ELSE 0
         /\ Sampled /\ ~PeriodEnd => AtRise' \/ AfterRise'
         /\ ~Sampled => ~AtRise' /\ ~AfterRise'
<1>1. scl_cnt_q' = IF phase_tick THEN 0 ELSE scl_cnt_q + 1
  BY DEF Divider
<1>2. scl_phase_q' = IF phase_tick THEN (scl_phase_q + 1) % 4 ELSE scl_phase_q
  BY DEF Divider
<1>3. /\ scl_cnt_q \in 0 .. PRESCALE - 1 /\ scl_phase_q \in {0, 1, 2, 3}
      /\ PRESCALE \in Nat /\ (phase_tick <=> scl_cnt_q = PRESCALE - 1)
  BY I2cAssumption DEF Clock, Ranges, phase_tick
<1>4. phase_tick => scl_phase_q' = IF scl_phase_q = 3 THEN 0 ELSE scl_phase_q + 1
  BY <1>2, <1>3
<1>5. scl_phase_q \div 2 = IF scl_phase_q >= 2 THEN 1 ELSE 0
  BY <1>3
<1>6. CASE phase_tick
  BY <1>1, <1>3, <1>4, <1>5, <1>6 DEF FirstCycle, BeforeFall, AtFall, AtRise,
     AfterRise, Sampled, PeriodEnd, SampleTime
<1>7. CASE ~phase_tick
  BY <1>1, <1>2, <1>3, <1>5, <1>7 DEF FirstCycle, BeforeFall, AtFall, AtRise,
     AfterRise, Sampled, PeriodEnd, SampleTime
<1> QED BY <1>6, <1>7

\* The machine enters the bits from I_START, leaves them for I_STOP, and does
\* either at the end of a period only.
LEMMA BitsEnterAndLeave ==
  ASSUME Ranges, NEW op, NEW sda_i, I2cEdge(op, sda_i)
  PROVE  /\ ~PeriodEnd /\ i2c_state_q \notin {"I_IDLE", "I_DONE"} =>
              i2c_state_q' = i2c_state_q
         /\ i2c_state_q = "I_IDLE" => i2c_state_q' \in {"I_IDLE", "I_START"}
         /\ i2c_state_q = "I_START" => i2c_state_q' \in {"I_START", "I_ADDR"}
         /\ i2c_state_q \in BitStates => i2c_state_q' \in BitStates \cup {"I_STOP"}
         /\ i2c_state_q = "I_STOP" => i2c_state_q' \in {"I_STOP", "I_DONE"}
         /\ i2c_state_q = "I_DONE" => i2c_state_q' = "I_IDLE"
<1>1. CASE Wait(op)
  BY <1>1 DEF Wait, BitStates, States
<1>2. CASE Start
  BY <1>2 DEF Start, AtPeriodEnd, BitStates, States
<1>3. CASE SendBits("I_ADDR", "I_ACK_ADDR") \/ SendBits("I_TX_DATA", "I_ACK_TX")
  BY <1>3 DEF SendBits, AtPeriodEnd, BitStates, States
<1>4. CASE AckAddr \/ AckTx \/ AckRx
  BY <1>4 DEF AckAddr, AckTx, AckRx, NextByte, AtPeriodEnd, BitStates, States
<1>5. CASE RxData(sda_i)
  BY <1>5 DEF RxData, AtPeriodEnd, BitStates, States
<1>6. CASE Stop \/ Finish
  BY <1>6 DEF Stop, Finish, AtPeriodEnd, BitStates, States
<1> QED BY <1>1, <1>2, <1>3, <1>4, <1>5, <1>6 DEF I2cEdge

\* SCL and the slave's memory of it follow the phase.
LEMMA ClockStep ==
  ASSUME PRESCALE > 1, Ranges, Ranges', MasterTyped, Clock, NEW op, Edge(op)
  PROVE  Clock'
<1> DEFINE B == i2c_state_q \in BitStates
<1>1. /\ I2cEdge(op, sda) /\ Divider /\ scl_was' = scl
  BY DEF Edge, I2cEdge
<1>2. /\ ~PeriodEnd /\ i2c_state_q \notin {"I_IDLE", "I_DONE"} =>
            i2c_state_q' = i2c_state_q
      /\ i2c_state_q = "I_IDLE" => i2c_state_q' \in {"I_IDLE", "I_START"}
      /\ i2c_state_q = "I_START" => i2c_state_q' \in {"I_START", "I_ADDR"}
      /\ i2c_state_q \in BitStates => i2c_state_q' \in BitStates \cup {"I_STOP"}
      /\ i2c_state_q = "I_STOP" => i2c_state_q' \in {"I_STOP", "I_DONE"}
      /\ i2c_state_q = "I_DONE" => i2c_state_q' = "I_IDLE"
  BY <1>1, BitsEnterAndLeave
<1>3. scl' = IF B THEN scl_phase_q \div 2 ELSE 1
  BY <1>1 DEF Divider, BitStates, Ranges, scl
<1>4. CASE i2c_state_q = "I_IDLE"
  <2>1. scl_cnt_q' = 0 /\ i2c_state_q' \notin BitStates /\ i2c_state_q' # "I_DONE"
    BY <1>1, <1>2, <1>4 DEF Divider, BitStates, States
  <2> QED BY <1>1, <1>3, <1>4, <2>1, I2cAssumption DEF Clock, BitStates
<1>5. CASE i2c_state_q = "I_DONE"
  <2>1. scl_cnt_q' \in 0 .. PRESCALE - 1
    BY <1>1, <1>5, MomentsPass
  <2> QED BY <1>1, <1>2, <1>3, <1>5, <2>1 DEF Clock, BitStates
<1>6. ASSUME i2c_state_q \notin {"I_IDLE", "I_DONE"}
      PROVE  /\ scl_cnt_q' \in 0 .. PRESCALE - 1
             /\ PeriodEnd => FirstCycle'
             /\ ~PeriodEnd =>
                  /\ ~FirstCycle'
                  /\ BeforeFall' <=> FirstCycle
                  /\ AfterRise' <=> AtRise \/ AfterRise
             /\ scl_phase_q \div 2 = IF Sampled THEN 1 ELSE 0
             /\ Sampled /\ ~PeriodEnd => AtRise' \/ AfterRise'
             /\ ~Sampled => ~AtRise' /\ ~AfterRise'
  BY <1>1, <1>6, MomentsPass
<1>7. CASE i2c_state_q \in {"I_START", "I_STOP"}
  <2>1. scl' = 1 /\ scl_was' = 1
    BY <1>1, <1>3, <1>7 DEF Clock, BitStates
  <2>2. i2c_state_q' \in BitStates \cup {"I_DONE"} => FirstCycle'
    BY <1>2, <1>6, <1>7 DEF BitStates
  <2>3. FirstCycle' => BeforeFall'
    BY DEF FirstCycle, BeforeFall
  <2> QED BY <1>6, <1>7, <2>1, <2>2, <2>3 DEF Clock
<1>8. CASE i2c_state_q \in BitStates
  <2>1. /\ scl' = IF Sampled THEN 1 ELSE 0
        /\ scl_was' = 1 <=> FirstCycle \/ AtRise \/ AfterRise
        /\ i2c_state_q' # "I_DONE"
    BY <1>1, <1>2, <1>3, <1>6, <1>8 DEF Clock, BitStates
  <2>2. /\ FirstCycle => BeforeFall /\ ~Sampled
        /\ AtRise => ~AfterRise /\ Sampled
        /\ AfterRise => Sampled
        /\ PeriodEnd => AfterRise
    BY Moments
  <2>3. CASE PeriodEnd
    <3>1. FirstCycle' /\ scl' = 1 /\ scl_was' = 1
      BY <1>6, <1>8, <2>1, <2>2, <2>3 DEF BitStates
    <3>2. FirstCycle' => BeforeFall'
      BY DEF FirstCycle, BeforeFall
    <3> QED BY <1>6, <1>8, <2>1, <3>1, <3>2 DEF Clock, BitStates
  <2>4. CASE ~PeriodEnd
    <3>1. i2c_state_q' = i2c_state_q
      BY <1>2, <1>8, <2>4 DEF BitStates
    <3>2. /\ scl_cnt_q' \in 0 .. PRESCALE - 1
          /\ scl' = 1 <=> FirstCycle' \/ AtRise' \/ AfterRise'
          /\ scl_was' = 1 <=> BeforeFall' \/ AfterRise'
      BY <1>6, <1>8, <2>1, <2>2, <2>4 DEF BitStates
    <3> QED BY <1>8, <2>1, <3>1, <3>2 DEF Clock
  <2> QED BY <2>3, <2>4
<1> QED BY <1>4, <1>5, <1>7, <1>8 DEF Ranges, BitStates


-----------------------------------------------------------------------------
(***************************************************************************)
(* Bits on the line.                                                       *)
(***************************************************************************)
\* The first n bits of a byte, the highest first, have been clocked in.
BitsSent(bits, byte, n) ==
  Len(bits) = n /\ \A j \in 1 .. n : bits[j] = byte[ByteBits - j]

\* The n bits of the slave are the lowest of the shift register; between the
\* sample and the rise that the slave sees, the register is a bit ahead.
BitsIn(byte, bits, n) == \A b \in 0 .. n - 1 : byte[b] = bits[n - b]
BitAhead(byte, bits, n, bit) ==
  byte[0] = bit /\ \A b \in 1 .. n : byte[b] = bits[n + 1 - b]
OnesIn(byte, n) == \A b \in 0 .. n - 1 : byte[b] = 1
ShiftedIn(byte, bit) == [b \in Bit |-> IF b = 0 THEN bit ELSE byte[b - 1]]
AllOnes == [b \in Bit |-> 1]

\* The first n bytes of a word are those of a list.
Agree(word, bytes, n) == \A k \in 1 .. n : word[k - 1] = bytes[k]
OnesKept(word, n) == \A k \in 1 .. n : word[k - 1] = AllOnes

\* The next lower bit of a byte that is being sent.
LEMMA SentGrows ==
  ASSUME NEW bits \in Seq({0, 1}), NEW byte, NEW n \in Nat,
         BitsSent(bits, byte, n), NEW bit \in {0, 1},
         bit = byte[ByteBits - (n + 1)]
  PROVE  BitsSent(Append(bits, bit), byte, n + 1)
<1>1. /\ Len(Append(bits, bit)) = n + 1
      /\ \A j \in 1 .. n : Append(bits, bit)[j] = bits[j]
      /\ Append(bits, bit)[n + 1] = bit
  BY AppendProperties DEF BitsSent
<1>2. ASSUME NEW j \in 1 .. n + 1
      PROVE  Append(bits, bit)[j] = byte[ByteBits - j]
  <2>1. j \in 1 .. n \/ j = n + 1
    OBVIOUS
  <2> QED BY <1>1, <2>1 DEF BitsSent
<1> QED BY <1>1, <1>2 DEF BitsSent

\* The shift register takes a bit in.
LEMMA ShiftTakesBit ==
  ASSUME NEW byte \in Byte, NEW bits, NEW n \in Nat, n < ByteBits, NEW bit
  PROVE  /\ BitsIn(byte, bits, n) => BitAhead(ShiftedIn(byte, bit), bits, n, bit)
         /\ OnesIn(byte, n) /\ bit = 1 => OnesIn(ShiftedIn(byte, bit), n + 1)
<1> DEFINE new == ShiftedIn(byte, bit)
<1>1. /\ new[0] = bit
      /\ \A b \in Bit : b # 0 => new[b] = byte[b - 1]
  BY I2cAssumption DEF ShiftedIn, Bit
<1>2. \A b \in 1 .. n : new[b] = byte[b - 1]
  BY <1>1, I2cAssumption DEF Bit
<1> HIDE DEF new
<1>3. BitsIn(byte, bits, n) => BitAhead(new, bits, n, bit)
  <2>1. ASSUME BitsIn(byte, bits, n), NEW b \in 1 .. n
        PROVE  new[b] = bits[n + 1 - b]
    <3>1. b - 1 \in 0 .. n - 1 /\ n - (b - 1) = n + 1 - b
      OBVIOUS
    <3>2. byte[b - 1] = bits[n - (b - 1)]
      BY <2>1, <3>1 DEF BitsIn
    <3> QED BY <1>2, <3>1, <3>2
  <2> QED BY <1>1, <2>1 DEF BitAhead
<1>4. ASSUME OnesIn(byte, n), bit = 1, NEW b \in 0 .. n PROVE new[b] = 1
  <2>1. b = 0 \/ (b \in 1 .. n /\ b - 1 \in 0 .. n - 1)
    OBVIOUS
  <2> QED BY <1>1, <1>2, <1>4, <2>1 DEF OnesIn
<1>5. OnesIn(byte, n) /\ bit = 1 => OnesIn(new, n + 1)
  BY <1>4 DEF OnesIn
<1> QED BY <1>3, <1>5 DEF new

\* The slave sees the bit that the register already holds.
LEMMA BitCaught ==
  ASSUME NEW byte, NEW bits \in Seq({0, 1}), NEW bit \in {0, 1},
         NEW n \in Nat, Len(bits) = n, BitAhead(byte, bits, n, bit)
  PROVE  BitsIn(byte, Append(bits, bit), n + 1)
<1>1. /\ \A j \in 1 .. n : Append(bits, bit)[j] = bits[j]
      /\ Append(bits, bit)[n + 1] = bit
  BY AppendProperties
<1>2. ASSUME NEW b \in 0 .. n PROVE byte[b] = Append(bits, bit)[n + 1 - b]
  <2>1. b = 0 \/ (b \in 1 .. n /\ n + 1 - b \in 1 .. n)
    OBVIOUS
  <2> QED BY <1>1, <2>1 DEF BitAhead
<1> QED BY <1>2 DEF BitsIn

\* A byte that is wholly in is the slave's byte, or all ones.
LEMMA ByteIn ==
  ASSUME NEW byte \in Byte, NEW bits
  PROVE  /\ BitsIn(byte, bits, ByteBits) => byte = ByteOf(bits)
         /\ OnesIn(byte, ByteBits) => byte = AllOnes
         /\ BitsSent(bits, byte, ByteBits) => ByteOf(bits) = byte
<1>1. ASSUME NEW b \in Bit
      PROVE  b \in 0 .. ByteBits - 1 /\ ByteBits - b \in 1 .. ByteBits
             /\ ByteBits - (ByteBits - b) = b
  BY I2cAssumption DEF Bit
<1>2. BitsIn(byte, bits, ByteBits) => \A b \in Bit : byte[b] = bits[ByteBits - b]
  BY <1>1 DEF BitsIn
<1>3. OnesIn(byte, ByteBits) => \A b \in Bit : byte[b] = 1
  BY <1>1 DEF OnesIn
<1>4. ASSUME BitsSent(bits, byte, ByteBits), NEW b \in Bit
      PROVE  bits[ByteBits - b] = byte[b]
  BY <1>1, <1>4 DEF BitsSent
<1>5. BitsSent(bits, byte, ByteBits) => \A b \in Bit : bits[ByteBits - b] = byte[b]
  BY <1>4
<1>6. byte = [b \in Bit |-> byte[b]]
  BY DEF Byte
<1> QED BY <1>2, <1>3, <1>5, <1>6 DEF ByteOf, AllOnes

\* The next byte of a word.
LEMMA AgreeGrows ==
  ASSUME NEW word, NEW bytes \in Seq(Byte), NEW n \in Nat, Len(bytes) = n,
         Agree(word, bytes, n), NEW byte \in Byte, word[n] = byte
  PROVE  Agree(word, Append(bytes, byte), n + 1)
<1>1. /\ \A k \in 1 .. n : Append(bytes, byte)[k] = bytes[k]
      /\ Append(bytes, byte)[n + 1] = byte
  BY AppendProperties
<1>2. ASSUME NEW k \in 1 .. n + 1 PROVE word[k - 1] = Append(bytes, byte)[k]
  <2>1. k \in 1 .. n \/ (k = n + 1 /\ k - 1 = n)
    OBVIOUS
  <2> QED BY <1>1, <2>1 DEF Agree
<1> QED BY <1>2 DEF Agree

\* A word that changes beyond its first n bytes still agrees.
LEMMA AgreeKept ==
  ASSUME NEW word \in Word, NEW bytes, NEW n \in 0 .. MaxBytes - 1, NEW byte
  PROVE  /\ Agree(word, bytes, n) => Agree([word EXCEPT ![n] = byte], bytes, n)
         /\ OnesKept(word, n) /\ byte = AllOnes
              => OnesKept([word EXCEPT ![n] = byte], n + 1)
         /\ [word EXCEPT ![n] = byte][n] = byte
<1> DEFINE new == [word EXCEPT ![n] = byte]
<1>1. new[n] = byte /\ \A k \in 0 .. MaxBytes - 1 : k # n => new[k] = word[k]
  BY DEF Word
<1>2. ASSUME NEW k \in 1 .. n PROVE new[k - 1] = word[k - 1]
  BY <1>1, I2cAssumption
<1> HIDE DEF new
<1>3. Agree(word, bytes, n) => Agree(new, bytes, n)
  BY <1>2 DEF Agree
<1>4. ASSUME OnesKept(word, n), byte = AllOnes, NEW k \in 1 .. n + 1
      PROVE  new[k - 1] = AllOnes
  <2>1. k \in 1 .. n \/ (k = n + 1 /\ k - 1 = n)
    OBVIOUS
  <2> QED BY <1>1, <1>2, <1>4, <2>1 DEF OnesKept
<1> QED BY <1>1, <1>3, <1>4 DEF new, OnesKept

-----------------------------------------------------------------------------
(***************************************************************************)
(* The conversation: how far the slave is with the byte on the line, state *)
(* by state of the machine.                                                *)
(***************************************************************************)
First == bit_cnt_q = ByteBits - 1
Clocked == IF AfterRise THEN ByteBits - bit_cnt_q ELSE ByteBits - 1 - bit_cnt_q
Received == IF Sampled THEN ByteBits - bit_cnt_q ELSE ByteBits - 1 - bit_cnt_q
Active == slave.at \notin {"idle", "ignore"}
Deaf == slave.at = "ignore" /\ ~slave.low

\* The slave clocks a byte in, has all of it, acknowledges it.
Listening(at) ==
  /\ slave.at = at /\ ~slave.low /\ slave.n = Clocked
  /\ BitsSent(slave.bits, shift_tx_q, Clocked)
Whole(at) ==
  /\ slave.at = at /\ ~slave.low /\ slave.n = ByteBits
  /\ BitsSent(slave.bits, shift_tx_q, ByteBits)
AckGiven(at) ==
  /\ slave.at = at /\ slave.low
  /\ slave.n = IF AfterRise THEN ByteBits + 1 ELSE ByteBits

AddressByte ==
  /\ \A b \in 1 .. ByteBits - 1 : shift_tx_q[b] = adr_q[b]
  /\ shift_tx_q[0] = IF is_read_q THEN 1 ELSE 0
NoBytes == byte_cnt_q = 0 /\ heard = <<>> /\ told = <<>>
HeardOK == Agree(tdr_q, heard, Len(heard)) /\ (~Present => heard = <<>>)
ToldKept(n) ==
  IF Present THEN Len(told) = n /\ Agree(rx_buf_q, told, n) ELSE OnesKept(rx_buf_q, n)

InStart ==
  /\ NoBytes /\ AddressByte /\ First
  /\ IF BeforeFall THEN slave = Resting /\ sda_was = 1 /\ (sda_oe <=> ~FirstCycle)
     ELSE slave = [Resting EXCEPT !.at = "addr"] /\ sda_oe /\ sda_was = 0
InAddr == NoBytes /\ AddressByte /\ Listening("addr")
InAckAddr ==
  /\ NoBytes /\ AddressByte
  /\ IF BeforeFall THEN Whole("addr")
     ELSE IF Present
       THEN AckGiven("addr") /\ BitsSent(slave.bits, shift_tx_q, ByteBits)
       ELSE Deaf
InTxData ==
  /\ ~is_read_q /\ HeardOK /\ shift_tx_q = tdr_q[byte_cnt_q]
  /\ \/ Deaf /\ Len(heard) <= byte_cnt_q
     \/ /\ Present /\ Len(heard) = byte_cnt_q
        /\ IF First /\ BeforeFall
             THEN /\ slave.n = ByteBits + 1
                  /\ \/ slave.at = "write"
                     \/ slave.at = "addr" /\ slave.bits[ByteBits] = 0
             ELSE Listening("write")
InAckTx ==
  /\ ~is_read_q /\ HeardOK /\ shift_tx_q = tdr_q[byte_cnt_q]
  /\ \/ Deaf /\ Len(heard) <= byte_cnt_q
     \/ /\ Present
        /\ IF BeforeFall THEN Whole("write") /\ Len(heard) = byte_cnt_q
           ELSE AckGiven("write") /\ Len(heard) = byte_cnt_q + 1
InRxData ==
  /\ is_read_q /\ ToldKept(byte_cnt_q)
  /\ IF ~Present THEN Deaf /\ OnesIn(shift_rx_q, Received)
     ELSE IF First /\ BeforeFall
       THEN /\ slave.n = ByteBits + 1
            /\ \/ slave.at = "read"
               \/ slave.at = "addr" /\ slave.bits[ByteBits] = 1
     ELSE /\ slave.at = "read" /\ slave.n = Clocked
          /\ IF Sampled /\ ~AfterRise
               THEN BitAhead(shift_rx_q, slave.bits, Clocked,
                             IF slave.low THEN 0 ELSE 1)
               ELSE BitsIn(shift_rx_q, slave.bits, Clocked)
InAckRx ==
  /\ is_read_q
  /\ IF ~Present THEN Deaf /\ ToldKept(byte_cnt_q + 1)
     ELSE IF BeforeFall
       THEN /\ slave.at = "read" /\ slave.n = ByteBits
            /\ rx_buf_q[byte_cnt_q] = ByteOf(slave.bits) /\ ToldKept(byte_cnt_q)
     ELSE /\ ToldKept(byte_cnt_q + 1) /\ ~slave.low
          /\ IF AfterRise /\ LastByte THEN slave.at = "ignore"
             ELSE /\ slave.at = "read"
                  /\ slave.n = IF AfterRise THEN ByteBits + 1 ELSE ByteBits

\* What the transfer has come to, when all of its bytes are over.
Result ==
  IF is_read_q THEN ToldKept(nby_q) /\ ~slave.low
  ELSE /\ HeardOK /\ Len(heard) <= nby_q
       /\ IF slave.low
            THEN /\ Len(heard) = nby_q
                 /\ slave.at = "write" /\ slave.n = ByteBits + 1
            ELSE Len(heard) < nby_q
InStop ==
  /\ Result /\ (sda_oe <=> ~FirstCycle)
  /\ FirstCycle => sda = sda_was
  /\ IF slave.low THEN sda_was = 0
     ELSE IF BeforeFall THEN slave.at = "ignore" /\ sda_was = 1
     ELSE slave = [Resting EXCEPT !.at = "addr"] /\ sda_was = 0
InDone ==
  /\ Result /\ sda_was = 0
  /\ ~slave.low => slave = [Resting EXCEPT !.at = "addr"]
InIdle ==
  /\ Result /\ sda_was = sda
  /\ is_read_q => rdr_q = rx_buf_q
  /\ ~slave.low => slave = Resting
  /\ response.what = "rdr" => response.value = rdr_q

Talk ==
  /\ i2c_state_q = "I_START" => InStart
  /\ i2c_state_q = "I_ADDR" => InAddr
  /\ i2c_state_q = "I_ACK_ADDR" => InAckAddr
  /\ i2c_state_q = "I_TX_DATA" => InTxData
  /\ i2c_state_q = "I_ACK_TX" => InAckTx
  /\ i2c_state_q = "I_RX_DATA" => InRxData
  /\ i2c_state_q = "I_ACK_RX" => InAckRx
  /\ i2c_state_q = "I_STOP" => InStop
  /\ i2c_state_q = "I_DONE" => InDone
  /\ i2c_state_q = "I_IDLE" /\ sw \in Polling \cup {"fetch", "clear"} => InIdle

\* Within a bit SDA is still while the slave could take its move for START or
\* STOP.
Steady == i2c_state_q \in BitStates /\ scl = 1 /\ scl_was = 1 => sda = sda_was

\* What software waits for is what the machine is doing; a byte is left to do.
Kinds ==
  /\ sw = "poll_tx" => ~is_read_q
  /\ sw \in {"poll_rx", "fetch"} => is_read_q
  /\ response.what = "rdr" => sw = "fetch"
Counted == i2c_state_q # "I_IDLE" => byte_cnt_q < nby_q

Sound ==
  BusInv /\ MasterTyped /\ SlaveTyped /\ Clock /\ scl_was \in {0, 1}
TalkInv == Sound /\ Kinds /\ (Undisturbed => Counted /\ Steady /\ Talk)

-----------------------------------------------------------------------------
\* While the machine runs, a transfer that is left alone keeps its registers.
LEMMA RunHeld ==
  ASSUME BusInv, i2c_state_q # "I_IDLE", Undisturbed', NEW op, Edge(op)
  PROVE  /\ Undisturbed /\ meddles = 0 /\ nby_q' = nby_q
         /\ adr_q' = adr_q /\ tdr_q' = tdr_q /\ (Present' <=> Present)
         /\ Slave /\ Software(op) /\ I2cEdge(op, sda) /\ Divider
         /\ scl_was' = scl /\ sda_was' = sda /\ sda \in {0, 1}
<1>1. /\ Software(op) /\ I2cEdge(op, sda) /\ Divider
      /\ scl_was' = scl /\ sda_was' = sda
      /\ Ranges /\ BusyMeansPolling
  BY DEF Edge, I2cEdge, BusInv
<1>2. ~Begins(op)
  BY DEF Begins, tx_trigger, rx_trigger
<1>3. meddles' = 0
  BY DEF Undisturbed
<1>4. meddles = 0 /\ nby_q' = nby_q
  BY <1>1, <1>3, CountHeld
<1>5. op.what \in {"adr", "tdr"} => sw \notin Polling
  BY <1>1, SoftwareMoves
<1>6. adr_q' = adr_q /\ tdr_q' = tdr_q
  BY <1>1, <1>5 DEF BusyMeansPolling, I2cEdge, Registers
<1>7. Slave /\ fresh' = fresh
  BY <1>2 DEF Edge
<1>8. sda \in {0, 1}
  BY DEF sda
<1> QED BY <1>1, <1>4, <1>6, <1>7, <1>8 DEF Undisturbed, Present

\* A cycle of a bit is one of four: the slave sees SCL fall, it sees SCL rise,
\* nothing happens to it, or the period ends.
LEMMA BitCycle ==
  ASSUME PRESCALE > 1, Sound, Steady, i2c_state_q \in BitStates,
         Undisturbed', NEW op, Edge(op)
  PROVE  /\ BeforeFall \/ AtRise \/ PeriodEnd => ~SampleTime
         /\ ~BeforeFall => ~FirstCycle
         /\ AtFall =>
              /\ BeforeFall /\ ~AfterRise /\ ~Sampled /\ ~PeriodEnd /\ ~FirstCycle
              /\ ~BeforeFall' /\ ~AfterRise' /\ ~Sampled'
              /\ IF Active THEN OnFall ELSE UNCHANGED <<slave, heard, told>>
         /\ AtRise =>
              /\ ~BeforeFall /\ ~AfterRise /\ Sampled /\ ~PeriodEnd
              /\ ~BeforeFall' /\ AfterRise' /\ Sampled'
              /\ IF Active THEN OnRise ELSE UNCHANGED <<slave, heard, told>>
         /\ ~AtFall /\ ~AtRise => UNCHANGED <<slave, heard, told>>
         /\ ~AtFall /\ ~AtRise /\ ~PeriodEnd =>
              /\ BeforeFall' <=> BeforeFall
              /\ AfterRise' <=> AfterRise
              /\ Sampled' <=> Sampled \/ SampleTime
         /\ PeriodEnd =>
              /\ ~AtFall /\ ~AtRise /\ AfterRise /\ Sampled /\ ~BeforeFall
              /\ FirstCycle' /\ BeforeFall' /\ ~AfterRise' /\ ~Sampled'
         /\ SampleTime => ~BeforeFall /\ ~AfterRise /\ ~Sampled
<1>1. /\ Ranges /\ Clock /\ MasterTyped /\ Divider /\ Slave
      /\ scl \in {0, 1} /\ BusInv
  BY RunHeld DEF Sound, BusInv, MasterTyped, BitStates, scl
<1>2. /\ FirstCycle => BeforeFall /\ ~Sampled
      /\ BeforeFall => ~AtRise /\ ~AfterRise /\ ~Sampled
      /\ AtRise => ~AfterRise /\ Sampled
      /\ AfterRise => Sampled
      /\ PeriodEnd => AfterRise
      /\ SampleTime => ~BeforeFall /\ ~Sampled
  BY <1>1, Moments
<1>3. /\ PeriodEnd => FirstCycle'
      /\ ~PeriodEnd =>
           /\ ~FirstCycle'
           /\ BeforeFall' <=> FirstCycle
           /\ AfterRise' <=> AtRise \/ AfterRise
           /\ Sampled' <=> Sampled \/ SampleTime
  BY <1>1, MomentsPass DEF BitStates
<1>4. FirstCycle' => BeforeFall' /\ ~AfterRise' /\ ~Sampled'
  BY DEF FirstCycle, BeforeFall, AfterRise, Sampled
<1>5. /\ scl = 1 <=> FirstCycle \/ AtRise \/ AfterRise
      /\ scl_was = 1 <=> BeforeFall \/ AfterRise
      /\ scl_was \in {0, 1}
  BY <1>1 DEF Clock, Sound
<1>6. ~StartSeen /\ ~StopSeen
  BY DEF Steady, StartSeen, StopSeen
<1>7. AtFall <=> BeforeFall /\ ~FirstCycle
  BY DEF AtFall
<1>8. Falls <=> AtFall
  BY <1>1, <1>2, <1>5, <1>7 DEF Falls
<1>9. Rises <=> AtRise
  BY <1>1, <1>2, <1>5, <1>7 DEF Rises
<1>10. /\ AtFall => IF Active THEN OnFall ELSE UNCHANGED <<slave, heard, told>>
       /\ AtRise => IF Active THEN OnRise ELSE UNCHANGED <<slave, heard, told>>
       /\ ~AtFall /\ ~AtRise => UNCHANGED <<slave, heard, told>>
  BY <1>1, <1>2, <1>6, <1>7, <1>8, <1>9 DEF Slave, Active, Ignores
<1> QED BY <1>2, <1>3, <1>4, <1>7, <1>10

\* What is on SDA once the bit has settled.
LEMMA LineLevel ==
  ASSUME Sound, meddles = 0, ~FirstCycle
  PROVE  /\ i2c_state_q \in {"I_ADDR", "I_TX_DATA"} /\ ~slave.low =>
              sda = shift_tx_q[bit_cnt_q]
         /\ i2c_state_q \in {"I_ACK_ADDR", "I_ACK_TX", "I_RX_DATA"} =>
              sda = IF slave.low THEN 0 ELSE 1
         /\ i2c_state_q = "I_ACK_RX" /\ ~slave.low =>
              sda = IF LastByte THEN 1 ELSE 0
<1>1. Settled /\ shift_tx_q[bit_cnt_q] \in {0, 1}
  BY DEF Sound, BusInv, MasterTyped, Byte
<1> QED BY <1>1 DEF Settled, sda, sda_oe

\* A byte that is being sent to a slave that listens.
LEMMA SendStep ==
  ASSUME PRESCALE > 1, Sound, Steady, Undisturbed', NEW op, Edge(op),
         NEW at \in {"addr", "write"}, Listening(at),
         NEW state \in {"I_ADDR", "I_TX_DATA"}, NEW next, SendBits(state, next)
  PROVE  /\ heard' = heard /\ told' = told /\ shift_tx_q' = shift_tx_q
         /\ byte_cnt_q' = byte_cnt_q /\ is_read_q' = is_read_q
         /\ PeriodEnd /\ bit_cnt_q = 0 =>
              i2c_state_q' = next /\ BeforeFall' /\ Whole(at)'
         /\ ~(PeriodEnd /\ bit_cnt_q = 0) =>
              /\ i2c_state_q' = state /\ Listening(at)'
              /\ First' /\ BeforeFall' => First /\ BeforeFall
<1>1. /\ i2c_state_q = state /\ state \in BitStates
      /\ i2c_state_q' = IF PeriodEnd
                          THEN IF bit_cnt_q = 0 THEN next ELSE state ELSE state
      /\ bit_cnt_q' = IF PeriodEnd /\ bit_cnt_q > 0 THEN bit_cnt_q - 1
                      ELSE bit_cnt_q
      /\ UNCHANGED <<shift_tx_q, byte_cnt_q, is_read_q>>
  BY DEF SendBits, AtPeriodEnd, BitStates, States
<1>2. /\ bit_cnt_q \in 0 .. ByteBits - 1 /\ ByteBits \in Nat \ {0, 1}
      /\ slave.bits \in Seq({0, 1}) /\ SlaveShape /\ SlaveTyped
      /\ meddles = 0 /\ sda \in {0, 1}
  BY <1>1, I2cAssumption, RunHeld
     DEF Sound, BusInv, MasterTyped, SlaveTyped, Bit, BitStates
<1>3. /\ slave.at = at /\ ~slave.low /\ slave.n = Clocked
      /\ BitsSent(slave.bits, shift_tx_q, Clocked) /\ Active
  BY DEF Listening, Active
<1>4. /\ AtFall =>
           /\ BeforeFall /\ ~AfterRise /\ ~PeriodEnd
           /\ ~BeforeFall' /\ ~AfterRise' /\ OnFall
      /\ AtRise =>
           /\ ~BeforeFall /\ ~AfterRise /\ ~PeriodEnd /\ ~FirstCycle
           /\ ~BeforeFall' /\ AfterRise' /\ OnRise
      /\ ~AtFall /\ ~AtRise => UNCHANGED <<slave, heard, told>>
      /\ ~AtFall /\ ~AtRise /\ ~PeriodEnd =>
           (BeforeFall' <=> BeforeFall) /\ (AfterRise' <=> AfterRise)
      /\ PeriodEnd =>
           ~AtFall /\ ~AtRise /\ AfterRise /\ BeforeFall' /\ ~AfterRise'
  BY <1>1, <1>3, BitCycle
<1>5. /\ Clocked = IF AfterRise THEN ByteBits - bit_cnt_q
                   ELSE ByteBits - 1 - bit_cnt_q
      /\ Clocked' = IF AfterRise' THEN ByteBits - bit_cnt_q'
                    ELSE ByteBits - 1 - bit_cnt_q'
  BY DEF Clocked
<1>6. CASE AtFall
  <2>1. slave.n < ByteBits
    BY <1>2, <1>3, <1>4, <1>5, <1>6
  <2>2. UNCHANGED <<slave, heard, told>>
    BY <1>2, <1>3, <1>4, <1>6, <2>1 DEF OnFall, TakeByte, AfterAck, DuringRead
  <2>3. Clocked' = Clocked
    BY <1>1, <1>4, <1>5, <1>6
  <2> QED BY <1>1, <1>3, <1>4, <1>6, <2>2, <2>3 DEF Listening
<1>7. CASE AtRise
  <2>1. /\ slave.n < ByteBits /\ Clocked \in Nat /\ Clocked' = Clocked + 1
        /\ Clocked = ByteBits - 1 - bit_cnt_q
    BY <1>1, <1>2, <1>3, <1>4, <1>5, <1>7
  <2>2. /\ slave'.n = slave.n + 1 /\ slave'.low = slave.low
        /\ slave'.bits = Append(slave.bits, sda) /\ slave'.at = slave.at
        /\ heard' = heard /\ told' = told
    BY <1>2, <1>3, <1>4, <1>7, <2>1, OnRiseFields
  <2>3. sda = shift_tx_q[bit_cnt_q]
    BY <1>1, <1>2, <1>3, <1>4, <1>7, LineLevel
  <2>4. sda = shift_tx_q[ByteBits - (Clocked + 1)]
    <3>1. ByteBits - (Clocked + 1) = bit_cnt_q
      BY <1>2, <2>1
    <3> QED BY <2>3, <3>1
  <2>5. BitsSent(Append(slave.bits, sda), shift_tx_q, Clocked + 1)
    BY <1>2, <1>3, <2>1, <2>4, SentGrows
  <2> QED BY <1>1, <1>3, <1>4, <1>7, <2>1, <2>2, <2>5 DEF Listening
<1>8. CASE ~AtFall /\ ~AtRise /\ ~PeriodEnd
  <2>1. Clocked' = Clocked /\ bit_cnt_q' = bit_cnt_q
    BY <1>1, <1>4, <1>5, <1>8
  <2>2. UNCHANGED <<slave, heard, told>>
    BY <1>4, <1>8
  <2>3. First' /\ BeforeFall' => First /\ BeforeFall
    BY <1>4, <1>8, <2>1 DEF First
  <2> QED BY <1>1, <1>3, <1>8, <2>1, <2>2, <2>3 DEF Listening
<1>9. CASE PeriodEnd
  <2>1. Clocked = ByteBits - bit_cnt_q /\ UNCHANGED <<slave, heard, told>>
    BY <1>4, <1>5, <1>9
  <2>2. CASE bit_cnt_q = 0
    <3>1. Clocked = ByteBits
      BY <1>2, <2>1, <2>2
    <3> QED BY <1>1, <1>3, <1>4, <1>9, <2>1, <2>2, <3>1 DEF Whole
  <2>3. CASE bit_cnt_q # 0
    <3>1. Clocked' = Clocked /\ ~First'
      BY <1>1, <1>2, <1>4, <1>5, <1>9, <2>1, <2>3 DEF First
    <3> QED BY <1>1, <1>3, <1>9, <2>1, <2>3, <3>1 DEF Listening
  <2> QED BY <2>2, <2>3
<1> QED BY <1>6, <1>7, <1>8, <1>9

\* The address goes out.
LEMMA AddrStep ==
  ASSUME PRESCALE > 1, Sound, Steady, Undisturbed', NEW op, Edge(op),
         i2c_state_q = "I_ADDR", InAddr
  PROVE  Talk'
<1>1. SendBits("I_ADDR", "I_ACK_ADDR") /\ adr_q' = adr_q
  BY RunHeld DEF Sound, I2cEdge, Wait, Start, SendBits, AckAddr, AckTx, RxData,
     AckRx, Stop, Finish
<1>2. NoBytes /\ AddressByte /\ Listening("addr")
  BY DEF InAddr
<1>3. /\ heard' = heard /\ told' = told /\ shift_tx_q' = shift_tx_q
      /\ byte_cnt_q' = byte_cnt_q /\ is_read_q' = is_read_q
      /\ \/ i2c_state_q' = "I_ACK_ADDR" /\ BeforeFall' /\ Whole("addr")'
         \/ i2c_state_q' = "I_ADDR" /\ Listening("addr")'
  BY <1>1, <1>2, SendStep
<1>4. NoBytes' /\ AddressByte'
  BY <1>1, <1>2, <1>3 DEF NoBytes, AddressByte
<1>5. \/ i2c_state_q' = "I_ACK_ADDR" /\ InAckAddr'
      \/ i2c_state_q' = "I_ADDR" /\ InAddr'
  BY <1>3, <1>4 DEF InAckAddr, InAddr
<1> QED BY <1>5 DEF Talk

\* The slave knows its address.
LEMMA AddressKnown ==
  ASSUME MasterTyped, AddressByte, BitsSent(slave.bits, shift_tx_q, ByteBits)
  PROVE  AddressOf(slave.bits) = adr_q
<1>1. ASSUME NEW b \in 1 .. ByteBits - 1 PROVE slave.bits[ByteBits - b] = adr_q[b]
  <2>1. ByteBits - b \in 1 .. ByteBits /\ ByteBits - (ByteBits - b) = b
    BY I2cAssumption
  <2> QED BY <2>1 DEF BitsSent, AddressByte
<1>2. adr_q = [b \in 1 .. ByteBits - 1 |-> adr_q[b]]
  BY DEF MasterTyped, Address
<1> QED BY <1>1, <1>2 DEF AddressOf

\* The acknowledgement of a byte that has been sent: what the four kinds of
\* cycle do to the slave.
LEMMA AckStep ==
  ASSUME PRESCALE > 1, Sound, Steady, Undisturbed', NEW op, Edge(op),
         i2c_state_q \in {"I_ACK_ADDR", "I_ACK_TX"},
         NEW at \in {"addr", "write"}
  PROVE  /\ BeforeFall /\ Whole(at) =>
              \/ BeforeFall' /\ Whole(at)' /\ UNCHANGED <<heard, told>>
                 /\ ~PeriodEnd
              \/ /\ ~BeforeFall' /\ ~PeriodEnd /\ told' = told
                 /\ \/ /\ AckGiven(at)' /\ slave'.bits = slave.bits
                       /\ at = "addr" => AddressOf(slave.bits) \in Devices
                       /\ heard' = IF at = "write" THEN Log(heard) ELSE heard
                    \/ /\ Deaf' /\ heard' = heard
                       /\ at = "addr" => AddressOf(slave.bits) \notin Devices
         /\ ~BeforeFall /\ AckGiven(at) =>
              /\ slave'.bits = slave.bits /\ UNCHANGED <<heard, told>>
              /\ PeriodEnd =>
                   slave' = slave /\ slave.n = ByteBits + 1
              /\ ~PeriodEnd => AckGiven(at)' /\ ~BeforeFall'
         /\ Deaf => Deaf' /\ UNCHANGED <<slave, heard, told>>
         /\ PeriodEnd => BeforeFall' /\ ~AfterRise' /\ ~BeforeFall
         /\ ~BeforeFall /\ ~PeriodEnd => ~BeforeFall'
<1>1. /\ i2c_state_q \in BitStates /\ SlaveShape /\ SlaveTyped
      /\ ByteBits \in Nat \ {0, 1}
  BY I2cAssumption DEF Sound, BusInv, BitStates, States
<1>2. /\ AtFall =>
           /\ BeforeFall /\ ~AfterRise /\ ~PeriodEnd
           /\ ~BeforeFall' /\ ~AfterRise'
           /\ IF Active THEN OnFall ELSE UNCHANGED <<slave, heard, told>>
      /\ AtRise =>
           /\ ~BeforeFall /\ ~AfterRise /\ ~PeriodEnd
           /\ ~BeforeFall' /\ AfterRise'
           /\ IF Active THEN OnRise ELSE UNCHANGED <<slave, heard, told>>
      /\ ~AtFall /\ ~AtRise => UNCHANGED <<slave, heard, told>>
      /\ ~AtFall /\ ~AtRise /\ ~PeriodEnd =>
           (BeforeFall' <=> BeforeFall) /\ (AfterRise' <=> AfterRise)
      /\ PeriodEnd =>
           /\ ~AtFall /\ ~AtRise /\ AfterRise /\ ~BeforeFall
           /\ BeforeFall' /\ ~AfterRise'
  BY <1>1, BitCycle
<1>3. UNCHANGED shift_tx_q \/ PeriodEnd
  BY RunHeld DEF Sound, I2cEdge, Wait, Start, SendBits, AckAddr, AckTx, RxData,
     AckRx, Stop, Finish
<1>4. Deaf => Deaf' /\ UNCHANGED <<slave, heard, told>>
  BY <1>2 DEF Deaf, Active
<1>5. ASSUME BeforeFall, Whole(at)
      PROVE  \/ BeforeFall' /\ Whole(at)' /\ UNCHANGED <<heard, told>>
                 /\ ~PeriodEnd
             \/ /\ ~BeforeFall' /\ ~PeriodEnd /\ told' = told
                /\ \/ /\ AckGiven(at)' /\ slave'.bits = slave.bits
                      /\ at = "addr" => AddressOf(slave.bits) \in Devices
                      /\ heard' = IF at = "write" THEN Log(heard) ELSE heard
                   \/ /\ Deaf' /\ heard' = heard
                      /\ at = "addr" => AddressOf(slave.bits) \notin Devices
  <2>1. slave.at = at /\ ~slave.low /\ slave.n = ByteBits /\ Active
    BY <1>5 DEF Whole, Active
  <2>2. CASE AtFall
    <3>1. TakeByte
      BY <1>1, <1>2, <2>1, <2>2 DEF OnFall, AfterAck, DuringRead
    <3>2. /\ slave.at \in {"addr", "write"} /\ slave.n = ByteBits
          /\ slave'.n = slave.n /\ slave'.bits = slave.bits /\ told' = told
          /\ \/ /\ slave'.at = slave.at /\ slave'.low
                /\ slave.at = "addr" => AddressOf(slave.bits) \in Devices
                /\ heard' = IF slave.at = "write" THEN Log(heard) ELSE heard
             \/ /\ slave'.at = "ignore" /\ slave'.low = slave.low
                /\ heard' = heard
                /\ slave.at = "addr" => AddressOf(slave.bits) \notin Devices
      BY <1>1, <3>1, TakeByteFields, Zenon
    <3>3. CASE slave'.low
      <4>1. AckGiven(at)'
        BY <1>2, <2>1, <2>2, <3>2, <3>3 DEF AckGiven
      <4> QED BY <1>2, <2>1, <2>2, <3>2, <3>3, <4>1
    <3>4. CASE ~slave'.low
      <4>1. Deaf'
        BY <2>1, <3>2, <3>4 DEF Deaf
      <4> QED BY <1>2, <2>1, <2>2, <3>2, <3>4, <4>1
    <3> QED BY <3>3, <3>4
  <2>3. CASE ~AtFall
    <3>1. /\ UNCHANGED <<slave, heard, told>> /\ BeforeFall' /\ ~PeriodEnd
          /\ shift_tx_q' = shift_tx_q
      BY <1>2, <1>3, <1>5, <2>3
    <3>2. Whole(at)'
      BY <1>5, <3>1 DEF Whole
    <3> QED BY <3>1, <3>2
  <2> QED BY <2>2, <2>3
<1>6. ASSUME ~BeforeFall, AckGiven(at)
      PROVE  /\ slave'.bits = slave.bits /\ UNCHANGED <<heard, told>>
             /\ PeriodEnd => slave' = slave /\ slave.n = ByteBits + 1
             /\ ~PeriodEnd => AckGiven(at)' /\ ~BeforeFall'
  <2>1. /\ slave.at = at /\ slave.low /\ Active
        /\ slave.n = IF AfterRise THEN ByteBits + 1 ELSE ByteBits
    BY <1>6 DEF AckGiven, Active
  <2>2. CASE AtRise
    <3>0. OnRise /\ slave.n = ByteBits
      BY <1>2, <2>1, <2>2
    <3>1. /\ slave'.n = slave.n + 1 /\ slave'.low = slave.low
          /\ slave'.bits = slave.bits /\ slave'.at = slave.at
          /\ heard' = heard /\ told' = told
      <4>1. /\ slave'.n = slave.n + 1 /\ slave'.low = slave.low
            /\ slave'.bits = IF slave.n < ByteBits THEN Append(slave.bits, sda)
                             ELSE slave.bits
            /\ slave'.at = IF slave.at = "read" /\ slave.n = ByteBits /\ sda = 1
                             THEN "ignore" ELSE slave.at
            /\ heard' = heard /\ told' = told
        BY <1>1, <3>0, OnRiseFields, Zenon
      <4> QED BY <1>1, <2>1, <3>0, <4>1
    <3> QED BY <1>2, <2>1, <2>2, <3>1 DEF AckGiven
  <2>3. CASE ~AtRise
    <3>1. UNCHANGED <<slave, heard, told>>
      BY <1>2, <1>6, <2>3
    <3> QED BY <1>2, <1>6, <2>1, <2>3, <3>1 DEF AckGiven
  <2> QED BY <2>2, <2>3
<1>7. /\ PeriodEnd => BeforeFall' /\ ~AfterRise' /\ ~BeforeFall
      /\ ~BeforeFall /\ ~PeriodEnd => ~BeforeFall'
  BY <1>2
<1> QED BY <1>4, <1>5, <1>6, <1>7

\* The acknowledgement of the address, and on to the data.
LEMMA AckAddrStep ==
  ASSUME PRESCALE > 1, Sound, Steady, Undisturbed', NEW op, Edge(op),
         i2c_state_q = "I_ACK_ADDR", InAckAddr
  PROVE  Talk'
<1>1. /\ AckAddr /\ adr_q' = adr_q /\ tdr_q' = tdr_q /\ (Present' <=> Present)
      /\ i2c_state_q \in BitStates
  BY RunHeld DEF Sound, BitStates, States, I2cEdge, Wait, Start, SendBits,
     AckAddr, AckTx, RxData, AckRx, Stop, Finish
<1>2. /\ MasterTyped /\ ByteBits \in Nat \ {0, 1}
      /\ NoBytes /\ AddressByte
      /\ IF BeforeFall THEN Whole("addr")
         ELSE IF Present
           THEN AckGiven("addr") /\ BitsSent(slave.bits, shift_tx_q, ByteBits)
           ELSE Deaf
  BY I2cAssumption DEF Sound, InAckAddr
<1>3. /\ BeforeFall /\ Whole("addr") =>
           \/ BeforeFall' /\ Whole("addr")' /\ UNCHANGED <<heard, told>>
              /\ ~PeriodEnd
           \/ /\ ~BeforeFall' /\ ~PeriodEnd /\ told' = told
              /\ \/ /\ AckGiven("addr")' /\ slave'.bits = slave.bits
                    /\ AddressOf(slave.bits) \in Devices /\ heard' = heard
                 \/ /\ Deaf' /\ heard' = heard
                    /\ AddressOf(slave.bits) \notin Devices
      /\ ~BeforeFall /\ AckGiven("addr") =>
           /\ slave'.bits = slave.bits /\ UNCHANGED <<heard, told>>
           /\ PeriodEnd => slave' = slave /\ slave.n = ByteBits + 1
           /\ ~PeriodEnd => AckGiven("addr")' /\ ~BeforeFall'
      /\ Deaf => Deaf' /\ UNCHANGED <<slave, heard, told>>
      /\ PeriodEnd => BeforeFall' /\ ~AfterRise' /\ ~BeforeFall
      /\ ~BeforeFall /\ ~PeriodEnd => ~BeforeFall'
  BY AckStep
<1>4. ~PeriodEnd =>
        /\ i2c_state_q' = "I_ACK_ADDR"
        /\ UNCHANGED <<shift_tx_q, byte_cnt_q, is_read_q>>
  BY <1>1 DEF AckAddr, AtPeriodEnd
<1>5. heard' = heard /\ told' = told
  BY <1>2, <1>3
<1>6. Whole("addr") => (AddressOf(slave.bits) \in Devices <=> Present)
  <2>1. ASSUME Whole("addr") PROVE AddressOf(slave.bits) = adr_q
    BY <1>2, <2>1, AddressKnown DEF Whole
  <2> QED BY <2>1 DEF Present
<1>7. CASE ~PeriodEnd
  <2>1. NoBytes' /\ AddressByte'
    BY <1>1, <1>2, <1>4, <1>5, <1>7 DEF NoBytes, AddressByte
  <2>2. InAckAddr'
    <3>1. CASE BeforeFall
      <4>1. BitsSent(slave.bits, shift_tx_q, ByteBits)
        BY <1>2, <3>1 DEF Whole
      <4>2. slave'.bits = slave.bits =>
              BitsSent(slave'.bits, shift_tx_q', ByteBits)
        BY <1>4, <1>7, <4>1
      <4> QED BY <1>1, <1>2, <1>3, <1>6, <2>1, <3>1, <4>2 DEF InAckAddr
    <3>2. CASE ~BeforeFall /\ Present
      <4>1. BitsSent(slave'.bits, shift_tx_q', ByteBits)
        BY <1>2, <1>3, <1>4, <1>7, <3>2
      <4> QED BY <1>1, <1>2, <1>3, <1>7, <2>1, <3>2, <4>1 DEF InAckAddr
    <3>3. CASE ~BeforeFall /\ ~Present
      BY <1>1, <1>2, <1>3, <1>7, <2>1, <3>3 DEF InAckAddr
    <3> QED BY <3>1, <3>2, <3>3
  <2> QED BY <1>4, <1>7, <2>2 DEF Talk
<1>8. CASE PeriodEnd
  <2>1. /\ bit_cnt_q' = ByteBits - 1 /\ byte_cnt_q' = 0
        /\ is_read_q' = is_read_q /\ BeforeFall' /\ First' /\ ~BeforeFall
        /\ i2c_state_q' = IF is_read_q THEN "I_RX_DATA" ELSE "I_TX_DATA"
        /\ shift_tx_q' = IF ~is_read_q THEN tdr_q[0] ELSE shift_tx_q
    BY <1>1, <1>2, <1>3, <1>8 DEF AckAddr, AtPeriodEnd, First, NoBytes
  <2>2. heard' = <<>> /\ told' = <<>> /\ Len(<<>>) = 0
    BY <1>2, <1>5 DEF NoBytes
  <2>3. Present => /\ slave' = slave /\ slave.n = ByteBits + 1
                   /\ slave.at = "addr"
                   /\ slave.bits[ByteBits] = IF is_read_q THEN 1 ELSE 0
    <3>1. Present => /\ AckGiven("addr") /\ slave.at = "addr"
                     /\ BitsSent(slave.bits, shift_tx_q, ByteBits)
      BY <1>2, <2>1 DEF AckGiven
    <3>2. ByteBits \in 1 .. ByteBits /\ ByteBits - ByteBits = 0
      BY <1>2
    <3>3. Present => slave.bits[ByteBits] = shift_tx_q[0]
      BY <3>1, <3>2 DEF BitsSent
    <3> QED BY <1>2, <1>3, <1>8, <2>1, <3>1, <3>3 DEF AddressByte
  <2>4. ~Present => Deaf'
    BY <1>2, <1>3, <2>1
  <2>5. CASE ~is_read_q
    <3>1. HeardOK'
      BY <2>2 DEF HeardOK, Agree
    <3>2. shift_tx_q' = tdr_q'[byte_cnt_q'] /\ Len(heard') = byte_cnt_q'
      BY <1>1, <2>1, <2>2, <2>5
    <3>3. InTxData'
      <4>1. CASE Present
        BY <1>1, <2>1, <2>3, <2>5, <3>1, <3>2, <4>1 DEF InTxData
      <4>2. CASE ~Present
        BY <1>1, <2>1, <2>2, <2>4, <2>5, <3>1, <3>2, <4>2 DEF InTxData
      <4> QED BY <4>1, <4>2
    <3> QED BY <2>1, <2>5, <3>3 DEF Talk
  <2>6. CASE is_read_q
    <3>1. ToldKept(byte_cnt_q)'
      BY <2>1, <2>2 DEF ToldKept, Agree, OnesKept
    <3>2. OnesIn(shift_rx_q, Received)'
      <4>1. ~Sampled'
        BY <2>1 DEF BeforeFall, Sampled
      <4>2. Received' = 0
        BY <1>2, <2>1, <4>1 DEF Received
      <4> QED BY <4>2 DEF OnesIn
    <3>3. InRxData'
      <4>1. CASE Present
        BY <1>1, <2>1, <2>3, <2>6, <3>1, <4>1 DEF InRxData
      <4>2. CASE ~Present
        BY <1>1, <2>1, <2>4, <2>6, <3>1, <3>2, <4>2 DEF InRxData
      <4> QED BY <4>1, <4>2
    <3> QED BY <2>1, <2>6, <3>3 DEF Talk
  <2> QED BY <2>5, <2>6
<1> QED BY <1>7, <1>8

\* A byte of data goes out, if the slave still listens.
LEMMA TxDataStep ==
  ASSUME PRESCALE > 1, Sound, Steady, Undisturbed', NEW op, Edge(op),
         i2c_state_q = "I_TX_DATA", InTxData
  PROVE  Talk'
<1>1. /\ SendBits("I_TX_DATA", "I_ACK_TX") /\ (Present' <=> Present)
      /\ adr_q' = adr_q /\ tdr_q' = tdr_q
      /\ i2c_state_q \in BitStates /\ ByteBits \in Nat \ {0, 1}
      /\ SlaveShape /\ SlaveTyped /\ bit_cnt_q \in 0 .. ByteBits - 1
  BY RunHeld, I2cAssumption DEF Sound, BusInv, MasterTyped, Bit, BitStates, States,
     I2cEdge, Wait, Start, SendBits, AckAddr, AckTx, RxData, AckRx, Stop, Finish
<1>2. /\ UNCHANGED <<shift_tx_q, byte_cnt_q, is_read_q>>
      /\ i2c_state_q' = IF PeriodEnd
                          THEN IF bit_cnt_q = 0 THEN "I_ACK_TX" ELSE "I_TX_DATA"
                          ELSE "I_TX_DATA"
      /\ ~PeriodEnd => bit_cnt_q' = bit_cnt_q
  BY <1>1 DEF SendBits, AtPeriodEnd
<1>3. ~is_read_q /\ HeardOK /\ shift_tx_q = tdr_q[byte_cnt_q]
  BY DEF InTxData
<1>4. heard' = heard => HeardOK'
  BY <1>1, <1>3 DEF HeardOK
<1>5. ~is_read_q' /\ shift_tx_q' = tdr_q'[byte_cnt_q']
  BY <1>1, <1>2, <1>3
<1>6. CASE Deaf /\ Len(heard) <= byte_cnt_q
  <2>1. UNCHANGED <<slave, heard, told>>
    BY <1>1, <1>6, BitCycle DEF Deaf, Active
  <2>2. Deaf' /\ Len(heard') <= byte_cnt_q'
    BY <1>2, <1>6, <2>1 DEF Deaf
  <2>3. InTxData' /\ InAckTx'
    BY <1>4, <1>5, <2>1, <2>2 DEF InTxData, InAckTx
  <2> QED BY <1>2, <2>3 DEF Talk
<1>7. CASE /\ First /\ BeforeFall /\ Present /\ Len(heard) = byte_cnt_q
           /\ slave.n = ByteBits + 1
           /\ slave.at = "write" \/ (slave.at = "addr" /\ slave.bits[ByteBits] = 0)
  <2>1. /\ AtFall =>
             ~PeriodEnd /\ ~BeforeFall' /\ ~AfterRise' /\ OnFall
        /\ ~AtFall => /\ UNCHANGED <<slave, heard, told>> /\ ~PeriodEnd
                      /\ BeforeFall'
    <3>1. /\ AtFall =>
               /\ ~PeriodEnd /\ ~BeforeFall' /\ ~AfterRise'
               /\ IF Active THEN OnFall ELSE UNCHANGED <<slave, heard, told>>
          /\ AtRise => ~BeforeFall
          /\ ~AtFall /\ ~AtRise => UNCHANGED <<slave, heard, told>>
          /\ ~AtFall /\ ~AtRise /\ ~PeriodEnd => (BeforeFall' <=> BeforeFall)
          /\ PeriodEnd => ~BeforeFall
      BY <1>1, BitCycle
    <3>2. Active
      BY <1>7 DEF Active
    <3> QED BY <1>7, <3>1, <3>2
  <2>2. CASE AtFall
    <3>1. AfterAck
      BY <1>1, <1>7, <2>1, <2>2 DEF OnFall, TakeByte, DuringRead
    <3>2. /\ slave'.n = 0 /\ slave'.bits = <<>> /\ heard' = heard
          /\ slave'.at = "write" /\ ~slave'.low
      BY <1>1, <1>7, <3>1, AfterAckFields
    <3>3. Clocked' = 0
      BY <1>1, <1>2, <1>7, <2>1, <2>2 DEF Clocked, First
    <3>4. BitsSent(<<>>, shift_tx_q', 0)
      BY DEF BitsSent
    <3>5. Listening("write")'
      BY <3>2, <3>3, <3>4 DEF Listening
    <3>6. InTxData'
      BY <1>1, <1>2, <1>4, <1>5, <1>7, <2>1, <2>2, <3>2, <3>5 DEF InTxData
    <3> QED BY <1>2, <2>1, <2>2, <3>6 DEF Talk
  <2>3. CASE ~AtFall
    <3>1. First'
      BY <1>2, <1>7, <2>1, <2>3 DEF First
    <3>2. InTxData'
      BY <1>1, <1>2, <1>4, <1>5, <1>7, <2>1, <2>3, <3>1 DEF InTxData
    <3> QED BY <1>2, <2>1, <2>3, <3>2 DEF Talk
  <2> QED BY <2>2, <2>3
<1>8. CASE /\ ~(First /\ BeforeFall) /\ Present /\ Len(heard) = byte_cnt_q
           /\ Listening("write")
  <2>1. /\ heard' = heard
        /\ PeriodEnd /\ bit_cnt_q = 0 =>
             i2c_state_q' = "I_ACK_TX" /\ BeforeFall' /\ Whole("write")'
        /\ ~(PeriodEnd /\ bit_cnt_q = 0) =>
             /\ i2c_state_q' = "I_TX_DATA" /\ Listening("write")'
             /\ First' /\ BeforeFall' => First /\ BeforeFall
    BY <1>1, <1>8, SendStep
  <2>2. CASE PeriodEnd /\ bit_cnt_q = 0
    <3>1. InAckTx'
      BY <1>1, <1>2, <1>4, <1>5, <1>8, <2>1, <2>2 DEF InAckTx
    <3> QED BY <2>1, <2>2, <3>1 DEF Talk
  <2>3. CASE ~(PeriodEnd /\ bit_cnt_q = 0)
    <3>1. InTxData'
      BY <1>1, <1>2, <1>4, <1>5, <1>8, <2>1, <2>3 DEF InTxData
    <3> QED BY <2>1, <2>3, <3>1 DEF Talk
  <2> QED BY <2>2, <2>3
<1> QED BY <1>6, <1>7, <1>8 DEF InTxData

\* A byte that the slave takes is the one of TDR.
LEMMA TakenInOrder ==
  ASSUME MasterTyped, SlaveTyped, HeardOK, Present, Whole("write"),
         Len(heard) = byte_cnt_q, byte_cnt_q < MaxBytes,
         shift_tx_q = tdr_q[byte_cnt_q]
  PROVE  /\ Len(Log(heard)) = byte_cnt_q + 1
         /\ Agree(tdr_q, Log(heard), Len(Log(heard)))
<1>1. /\ ByteOf(slave.bits) = shift_tx_q /\ shift_tx_q \in Byte
      /\ heard \in Seq(Byte) /\ byte_cnt_q \in Nat
      /\ Agree(tdr_q, heard, byte_cnt_q)
  BY ByteIn DEF Whole, MasterTyped, SlaveTyped, HeardOK
<1>2. Log(heard) = Append(heard, shift_tx_q)
  BY <1>1 DEF Log
<1>3. Len(Append(heard, shift_tx_q)) = byte_cnt_q + 1
  BY <1>1, AppendProperties
<1>4. Agree(tdr_q, Append(heard, shift_tx_q), byte_cnt_q + 1)
  BY <1>1, AgreeGrows
<1> QED BY <1>2, <1>3, <1>4

\* The acknowledgement of a byte, and on to the next one or to STOP.
LEMMA AckTxStep ==
  ASSUME PRESCALE > 1, Sound, Steady, Counted, Undisturbed', NEW op, Edge(op),
         i2c_state_q = "I_ACK_TX", InAckTx
  PROVE  Talk'
<1>1. /\ AckTx /\ adr_q' = adr_q /\ tdr_q' = tdr_q /\ (Present' <=> Present)
      /\ nby_q' = nby_q /\ meddles = 0 /\ sda_was' = sda
      /\ i2c_state_q \in BitStates
  BY RunHeld DEF Sound, BitStates, States, I2cEdge, Wait, Start, SendBits,
     AckAddr, AckTx, RxData, AckRx, Stop, Finish
<1>2. /\ MasterTyped /\ SlaveTyped /\ ByteBits \in Nat \ {0, 1}
      /\ byte_cnt_q \in Nat /\ nby_q \in 1 .. MaxBytes /\ byte_cnt_q < nby_q
      /\ MaxBytes \in Nat \ {0} /\ heard \in Seq(Byte) /\ SlaveShape
  BY I2cAssumption DEF Sound, BusInv, Counted, MasterTyped, SlaveTyped
<1>3. ~is_read_q /\ HeardOK /\ shift_tx_q = tdr_q[byte_cnt_q]
  BY DEF InAckTx
<1>4. /\ BeforeFall /\ Whole("write") =>
           \/ BeforeFall' /\ Whole("write")' /\ UNCHANGED <<heard, told>>
              /\ ~PeriodEnd
           \/ /\ ~BeforeFall' /\ ~PeriodEnd /\ told' = told
              /\ \/ AckGiven("write")' /\ heard' = Log(heard)
                 \/ Deaf' /\ heard' = heard
      /\ ~BeforeFall /\ AckGiven("write") =>
           /\ heard' = heard
           /\ PeriodEnd => slave' = slave /\ slave.n = ByteBits + 1
           /\ ~PeriodEnd => AckGiven("write")' /\ ~BeforeFall'
      /\ Deaf => Deaf' /\ UNCHANGED <<slave, heard, told>>
      /\ PeriodEnd => BeforeFall' /\ ~AfterRise' /\ ~BeforeFall
  BY AckStep
<1>5. heard' = heard => HeardOK'
  BY <1>1, <1>3 DEF HeardOK
<1>6. is_read_q' = is_read_q
  BY <1>1 DEF AckTx
<1>7. CASE ~PeriodEnd
  <2>1. /\ i2c_state_q' = "I_ACK_TX" /\ byte_cnt_q' = byte_cnt_q
        /\ shift_tx_q' = shift_tx_q
    BY <1>1, <1>7 DEF AckTx, NextByte, AtPeriodEnd
  <2>2. ~is_read_q' /\ shift_tx_q' = tdr_q'[byte_cnt_q']
    BY <1>1, <1>3, <1>6, <2>1
  <2>3. CASE Deaf /\ Len(heard) <= byte_cnt_q
    <3>1. InAckTx'
      BY <1>4, <1>5, <2>1, <2>2, <2>3 DEF InAckTx
    <3> QED BY <2>1, <3>1 DEF Talk
  <2>4. CASE Present /\ BeforeFall /\ Whole("write") /\ Len(heard) = byte_cnt_q
    <3>1. /\ Len(Log(heard)) = byte_cnt_q + 1
          /\ Agree(tdr_q, Log(heard), Len(Log(heard)))
      BY <1>2, <1>3, <2>4, TakenInOrder
    <3>2. heard' = Log(heard) => HeardOK'
      BY <1>1, <2>4, <3>1 DEF HeardOK
    <3>3. InAckTx'
      BY <1>1, <1>2, <1>4, <1>5, <2>1, <2>2, <2>4, <3>1, <3>2 DEF InAckTx
    <3> QED BY <2>1, <3>3 DEF Talk
  <2>5. CASE /\ Present /\ ~BeforeFall /\ AckGiven("write")
             /\ Len(heard) = byte_cnt_q + 1
    <3>1. InAckTx'
      BY <1>1, <1>4, <1>5, <1>7, <2>1, <2>2, <2>5 DEF InAckTx
    <3> QED BY <2>1, <3>1 DEF Talk
  <2> QED BY <2>3, <2>4, <2>5 DEF InAckTx
<1>8. CASE PeriodEnd
  <2>1. /\ i2c_state_q' = IF LastByte THEN "I_STOP" ELSE "I_TX_DATA"
        /\ ~LastByte => /\ byte_cnt_q' = byte_cnt_q + 1
                        /\ bit_cnt_q' = ByteBits - 1
                        /\ shift_tx_q' = tdr_q[byte_cnt_q + 1]
        /\ LastByte <=> byte_cnt_q + 1 = nby_q
        /\ ~LastByte => byte_cnt_q + 1 < nby_q
        /\ ~sda_drive_q'
    <3>1. LastByte <=> byte_cnt_q + 1 = nby_q
      BY <1>2 DEF LastByte
    <3>2. ~LastByte => byte_cnt_q + 1 < nby_q
      BY <1>2, <3>1
    <3>3. ~LastByte => Following(byte_cnt_q) = byte_cnt_q + 1
      BY <1>2, <3>2 DEF Following
    <3>4. ~LastByte => byte_cnt_q + 1 < MaxBytes
      BY <1>2, <3>2
    <3> QED BY <1>1, <1>8, <3>1, <3>2, <3>3, <3>4
            DEF AckTx, NextByte, AtPeriodEnd, Release
  <2>2. \/ Deaf /\ Len(heard) <= byte_cnt_q /\ slave' = slave
        \/ /\ Present /\ slave.at = "write" /\ slave.low
           /\ slave.n = ByteBits + 1 /\ Len(heard) = byte_cnt_q + 1
           /\ slave' = slave
    BY <1>4, <1>8 DEF InAckTx, AckGiven
  <2>3. heard' = heard /\ HeardOK' /\ ~is_read_q'
    BY <1>3, <1>4, <1>5, <1>6, <1>8 DEF InAckTx
  <2>4. CASE ~LastByte
    <3>1. shift_tx_q' = tdr_q'[byte_cnt_q'] /\ First' /\ BeforeFall'
      BY <1>1, <1>4, <1>8, <2>1, <2>4 DEF First
    <3>2. CASE Deaf /\ Len(heard) <= byte_cnt_q /\ slave' = slave
      <4>1. Deaf' /\ Len(heard') <= byte_cnt_q'
        BY <1>2, <2>1, <2>3, <2>4, <3>2 DEF Deaf
      <4>2. InTxData'
        BY <2>3, <3>1, <4>1 DEF InTxData
      <4> QED BY <2>1, <2>4, <4>2 DEF Talk
    <3>3. CASE /\ Present /\ slave.at = "write" /\ slave.n = ByteBits + 1
               /\ Len(heard) = byte_cnt_q + 1 /\ slave' = slave
      <4>1. InTxData'
        BY <1>1, <2>1, <2>3, <2>4, <3>1, <3>3 DEF InTxData
      <4> QED BY <2>1, <2>4, <4>1 DEF Talk
    <3> QED BY <2>2, <3>2, <3>3
  <2>5. CASE LastByte
    <3>1. Result'
      <4>1. Deaf => ~slave.low
        BY DEF Deaf
      <4>2. Len(heard') <= nby_q'
        BY <1>1, <1>2, <2>1, <2>2, <2>3, <2>5
      <4>3. slave'.low => /\ Len(heard') = nby_q' /\ slave'.at = "write"
                          /\ slave'.n = ByteBits + 1
        BY <1>1, <2>1, <2>2, <2>3, <2>5, <4>1
      <4>4. ~slave'.low => Len(heard') < nby_q'
        BY <1>1, <1>2, <2>2, <2>3, <4>1
      <4> QED BY <2>3, <4>2, <4>3, <4>4 DEF Result
    <3>2. FirstCycle' /\ ~sda_oe' /\ ~FirstCycle
      <4>1. PeriodEnd => FirstCycle' /\ ~BeforeFall
        BY <1>1, BitCycle
      <4>2. ~BeforeFall => ~FirstCycle
        BY <1>1, BitCycle
      <4> QED BY <1>8, <2>1, <4>1, <4>2 DEF sda_oe
    <3>3. sda = IF slave.low THEN 0 ELSE 1
      BY <1>1, <3>2, LineLevel
    <3>4. sda' = sda /\ sda_was' = sda
      BY <1>1, <2>2, <3>2, <3>3 DEF sda
    <3>5. IF slave'.low THEN sda_was' = 0
          ELSE BeforeFall' /\ slave'.at = "ignore" /\ sda_was' = 1
      BY <1>4, <1>8, <2>2, <3>3, <3>4 DEF Deaf
    <3>6. InStop'
      BY <3>1, <3>2, <3>4, <3>5 DEF InStop
    <3> QED BY <2>1, <2>5, <3>6 DEF Talk
  <2> QED BY <2>4, <2>5
<1> QED BY <1>7, <1>8

\* A byte of the slave comes in, or ones if no slave is there.
LEMMA RxDataStep ==
  ASSUME PRESCALE > 1, Sound, Steady, Counted, Undisturbed', NEW op, Edge(op),
         i2c_state_q = "I_RX_DATA", InRxData
  PROVE  Talk'
<1>1. /\ RxData(sda) /\ (Present' <=> Present) /\ sda \in {0, 1}
      /\ nby_q' = nby_q /\ meddles = 0
      /\ i2c_state_q \in BitStates
  BY RunHeld DEF Sound, BitStates, States, I2cEdge, Wait, Start, SendBits,
     AckAddr, AckTx, RxData, AckRx, Stop, Finish
<1>2. /\ MasterTyped /\ SlaveTyped /\ SlaveShape /\ ByteBits \in Nat \ {0, 1}
      /\ byte_cnt_q \in 0 .. MaxBytes - 1 /\ bit_cnt_q \in 0 .. ByteBits - 1
      /\ shift_rx_q \in Byte /\ rx_buf_q \in Word /\ slave.bits \in Seq({0, 1})
  BY <1>1, I2cAssumption
     DEF Sound, BusInv, Counted, MasterTyped, SlaveTyped, Bit, BitStates
<1>3. /\ shift_rx_q' = IF SampleTime THEN ShiftedIn(shift_rx_q, sda)
                       ELSE shift_rx_q
      /\ i2c_state_q' = IF PeriodEnd
                          THEN IF bit_cnt_q = 0 THEN "I_ACK_RX" ELSE "I_RX_DATA"
                          ELSE "I_RX_DATA"
      /\ bit_cnt_q' = IF PeriodEnd /\ bit_cnt_q > 0 THEN bit_cnt_q - 1
                      ELSE bit_cnt_q
      /\ rx_buf_q' = IF PeriodEnd /\ bit_cnt_q = 0
                       THEN [rx_buf_q EXCEPT ![byte_cnt_q] = shift_rx_q]
                       ELSE rx_buf_q
      /\ byte_cnt_q' = byte_cnt_q /\ is_read_q' = is_read_q
  BY <1>1, <1>2, I2cAssumption DEF RxData, AtPeriodEnd, ShiftedIn
<1>4. is_read_q /\ is_read_q' /\ ToldKept(byte_cnt_q)
  BY <1>3 DEF InRxData
<1>5. /\ SampleTime => ~BeforeFall /\ ~AfterRise /\ ~Sampled
      /\ BeforeFall \/ AtRise \/ PeriodEnd => ~SampleTime
      /\ ~BeforeFall => ~FirstCycle
      /\ AtFall =>
           /\ BeforeFall /\ ~AfterRise /\ ~Sampled /\ ~PeriodEnd
           /\ ~BeforeFall' /\ ~AfterRise' /\ ~Sampled'
           /\ IF Active THEN OnFall ELSE UNCHANGED <<slave, heard, told>>
      /\ AtRise =>
           /\ ~BeforeFall /\ ~AfterRise /\ Sampled /\ ~PeriodEnd
           /\ ~BeforeFall' /\ AfterRise' /\ Sampled'
           /\ IF Active THEN OnRise ELSE UNCHANGED <<slave, heard, told>>
      /\ ~AtFall /\ ~AtRise => UNCHANGED <<slave, heard, told>>
      /\ ~AtFall /\ ~AtRise /\ ~PeriodEnd =>
           /\ BeforeFall' <=> BeforeFall
           /\ AfterRise' <=> AfterRise
           /\ Sampled' <=> Sampled \/ SampleTime
      /\ PeriodEnd =>
           /\ ~AtFall /\ ~AtRise /\ AfterRise /\ Sampled /\ ~BeforeFall
           /\ BeforeFall' /\ ~AfterRise' /\ ~Sampled'
  BY <1>1, BitCycle
<1>6. ~FirstCycle => sda = IF slave.low THEN 0 ELSE 1
  BY <1>1, LineLevel
<1>7. /\ Received = IF Sampled THEN ByteBits - bit_cnt_q
                    ELSE ByteBits - 1 - bit_cnt_q
      /\ Received' = IF Sampled' THEN ByteBits - bit_cnt_q'
                     ELSE ByteBits - 1 - bit_cnt_q'
      /\ Clocked = IF AfterRise THEN ByteBits - bit_cnt_q
                   ELSE ByteBits - 1 - bit_cnt_q
      /\ Clocked' = IF AfterRise' THEN ByteBits - bit_cnt_q'
                    ELSE ByteBits - 1 - bit_cnt_q'
  BY DEF Received, Clocked
<1>8. told' = told /\ rx_buf_q' = rx_buf_q => ToldKept(byte_cnt_q)'
  BY <1>1, <1>3, <1>4 DEF ToldKept
<1>9. CASE ~Present
  <2>1. Deaf /\ OnesIn(shift_rx_q, Received)
    BY <1>9 DEF InRxData
  <2>2. UNCHANGED <<slave, heard, told>> /\ Deaf'
    BY <1>5, <2>1 DEF Deaf, Active
  <2>3. CASE ~PeriodEnd
    <3>1. OnesIn(shift_rx_q', Received')
      <4>1. CASE SampleTime
        <5>1. /\ Received = ByteBits - 1 - bit_cnt_q /\ Received' = Received + 1
              /\ Received \in Nat /\ Received < ByteBits /\ sda = 1
          BY <1>2, <1>3, <1>5, <1>6, <1>7, <2>1, <2>3, <4>1 DEF Deaf
        <5>2. OnesIn(ShiftedIn(shift_rx_q, sda), Received + 1)
          BY <1>2, <2>1, <5>1, ShiftTakesBit
        <5> QED BY <1>3, <4>1, <5>1, <5>2
      <4>2. CASE ~SampleTime
        <5>1. Received' = Received
          BY <1>3, <1>5, <1>7, <2>3, <4>2
        <5> QED BY <1>3, <2>1, <4>2, <5>1
      <4> QED BY <4>1, <4>2
    <3>2. InRxData'
      BY <1>1, <1>3, <1>4, <1>8, <1>9, <2>2, <2>3, <3>1 DEF InRxData
    <3> QED BY <1>3, <2>3, <3>2 DEF Talk
  <2>4. CASE PeriodEnd /\ bit_cnt_q # 0
    <3>1. Received' = Received /\ shift_rx_q' = shift_rx_q
      BY <1>2, <1>3, <1>5, <1>7, <2>4
    <3>2. InRxData'
      BY <1>1, <1>3, <1>4, <1>8, <1>9, <2>1, <2>2, <2>4, <3>1 DEF InRxData
    <3> QED BY <1>3, <2>4, <3>2 DEF Talk
  <2>5. CASE PeriodEnd /\ bit_cnt_q = 0
    <3>1. Received = ByteBits
      BY <1>2, <1>5, <1>7, <2>5
    <3>2. shift_rx_q = AllOnes
      BY <1>2, <2>1, <3>1, ByteIn
    <3>3. OnesKept(rx_buf_q', byte_cnt_q + 1)
      BY <1>2, <1>3, <1>4, <1>9, <2>5, <3>2, AgreeKept DEF ToldKept
    <3>4. ToldKept(byte_cnt_q + 1)'
      BY <1>1, <1>3, <1>9, <3>3 DEF ToldKept
    <3>5. InAckRx'
      BY <1>1, <1>4, <1>9, <2>2, <3>4 DEF InAckRx
    <3> QED BY <1>3, <2>5, <3>5 DEF Talk
  <2> QED BY <2>3, <2>4, <2>5
<1>10. CASE /\ Present /\ First /\ BeforeFall /\ slave.n = ByteBits + 1
            /\ slave.at = "read" \/ (slave.at = "addr" /\ slave.bits[ByteBits] = 1)
  <2>1. Active /\ ~PeriodEnd /\ ~AtRise
    BY <1>5, <1>10 DEF Active
  <2>2. CASE AtFall
    <3>1. AfterAck
      BY <1>2, <1>5, <1>10, <2>1, <2>2 DEF OnFall, TakeByte, DuringRead
    <3>2. /\ slave'.n = 0 /\ slave'.bits = <<>> /\ told' = told
          /\ slave'.at = "read"
      BY <1>2, <1>10, <3>1, AfterAckFields
    <3>3. Clocked' = 0
      BY <1>2, <1>3, <1>5, <1>7, <1>10, <2>1, <2>2 DEF First
    <3>4. BitsIn(shift_rx_q', <<>>, 0)
      BY DEF BitsIn
    <3>5. ~BeforeFall' /\ ~Sampled' /\ ToldKept(byte_cnt_q)'
      BY <1>3, <1>5, <1>8, <2>1, <2>2, <3>2
    <3>6. InRxData'
      BY <1>1, <1>4, <1>10, <3>2, <3>3, <3>4, <3>5 DEF InRxData
    <3> QED BY <1>3, <2>1, <3>6 DEF Talk
  <2>3. CASE ~AtFall
    <3>1. /\ UNCHANGED <<slave, heard, told>> /\ BeforeFall' /\ First'
          /\ ToldKept(byte_cnt_q)'
      BY <1>3, <1>5, <1>8, <1>10, <2>1, <2>3 DEF First
    <3>2. InRxData'
      BY <1>1, <1>4, <1>10, <3>1 DEF InRxData
    <3> QED BY <1>3, <2>1, <3>2 DEF Talk
  <2> QED BY <2>2, <2>3
<1>11. CASE /\ Present /\ ~(First /\ BeforeFall)
            /\ slave.at = "read" /\ slave.n = Clocked
            /\ IF Sampled /\ ~AfterRise
                 THEN BitAhead(shift_rx_q, slave.bits, Clocked,
                               IF slave.low THEN 0 ELSE 1)
                 ELSE BitsIn(shift_rx_q, slave.bits, Clocked)
  <2>1. Active
    BY <1>11 DEF Active
  <2>2. CASE AtFall
    <3>1. OnFall /\ ~First /\ slave.n \in 1 .. ByteBits - 1
      BY <1>2, <1>5, <1>7, <1>11, <2>1, <2>2 DEF First
    <3>2. DuringRead
      BY <1>2, <1>11, <3>1 DEF OnFall, TakeByte, AfterAck
    <3>3. /\ slave'.at = "read" /\ slave'.n = slave.n /\ slave'.bits = slave.bits
          /\ told' = told
      BY <1>2, <3>1, <3>2, DuringReadFields
    <3>4. /\ Clocked' = Clocked /\ ~PeriodEnd /\ ~Sampled /\ ~Sampled'
          /\ ~BeforeFall' /\ shift_rx_q' = shift_rx_q
          /\ ToldKept(byte_cnt_q)'
      BY <1>3, <1>5, <1>7, <1>8, <2>2, <3>3
    <3>5. BitsIn(shift_rx_q', slave'.bits, Clocked')
      BY <1>11, <3>3, <3>4
    <3>6. InRxData'
      BY <1>1, <1>4, <1>11, <3>3, <3>4, <3>5 DEF InRxData
    <3> QED BY <1>3, <3>4, <3>6 DEF Talk
  <2>3. CASE AtRise
    <3>1. /\ OnRise /\ ~PeriodEnd /\ Clocked = ByteBits - 1 - bit_cnt_q
          /\ Clocked' = Clocked + 1 /\ Clocked \in Nat /\ slave.n < ByteBits
          /\ Len(slave.bits) = Clocked /\ shift_rx_q' = shift_rx_q
      BY <1>2, <1>3, <1>5, <1>7, <1>11, <2>1, <2>3 DEF SlaveTyped
    <3>2. /\ slave'.n = slave.n + 1 /\ slave'.low = slave.low
          /\ slave'.bits = Append(slave.bits, sda) /\ slave'.at = slave.at
          /\ told' = told
      BY <1>2, <3>1, OnRiseFields
    <3>3. BitAhead(shift_rx_q, slave.bits, Clocked, sda)
      BY <1>5, <1>6, <1>11, <2>3
    <3>4. BitsIn(shift_rx_q, Append(slave.bits, sda), Clocked + 1)
      BY <1>1, <1>2, <3>1, <3>3, BitCaught
    <3>5. BitsIn(shift_rx_q', slave'.bits, Clocked')
      BY <3>1, <3>2, <3>4
    <3>6. /\ ~BeforeFall' /\ AfterRise' /\ ToldKept(byte_cnt_q)'
          /\ slave'.at = "read" /\ slave'.n = Clocked'
      BY <1>3, <1>5, <1>8, <1>11, <2>3, <3>1, <3>2
    <3>7. InRxData'
      BY <1>1, <1>4, <1>11, <3>5, <3>6 DEF InRxData
    <3> QED BY <1>3, <3>1, <3>7 DEF Talk
  <2>4. CASE ~AtFall /\ ~AtRise /\ ~PeriodEnd
    <3>1. /\ UNCHANGED <<slave, heard, told>> /\ Clocked' = Clocked
          /\ ToldKept(byte_cnt_q)' /\ ~(First' /\ BeforeFall')
          /\ slave'.at = "read" /\ slave'.n = Clocked'
      BY <1>3, <1>5, <1>7, <1>8, <1>11, <2>4 DEF First
    <3>2. CASE SampleTime
      <4>1. /\ Sampled' /\ ~AfterRise' /\ ~Sampled /\ ~FirstCycle
            /\ Clocked \in Nat /\ Clocked < ByteBits
        BY <1>2, <1>5, <1>7, <2>4, <3>2
      <4>2. BitAhead(ShiftedIn(shift_rx_q, sda), slave.bits, Clocked, sda)
        BY <1>1, <1>2, <1>11, <4>1, ShiftTakesBit
      <4>3. sda = IF slave'.low THEN 0 ELSE 1
        BY <1>6, <3>1, <4>1
      <4>4. BitAhead(shift_rx_q', slave'.bits, Clocked',
                     IF slave'.low THEN 0 ELSE 1)
        BY <1>3, <3>1, <3>2, <4>2, <4>3
      <4> QED BY <1>1, <1>3, <1>4, <1>11, <2>4, <3>1, <4>1, <4>4
              DEF InRxData, Talk
    <3>3. CASE ~SampleTime
      <4>1. /\ shift_rx_q' = shift_rx_q
            /\ (Sampled' <=> Sampled) /\ (AfterRise' <=> AfterRise)
        BY <1>3, <1>5, <2>4, <3>3
      <4>2. IF Sampled' /\ ~AfterRise'
              THEN BitAhead(shift_rx_q', slave'.bits, Clocked',
                            IF slave'.low THEN 0 ELSE 1)
              ELSE BitsIn(shift_rx_q', slave'.bits, Clocked')
        BY <1>11, <3>1, <4>1
      <4> QED BY <1>1, <1>3, <1>4, <1>11, <2>4, <3>1, <4>2 DEF InRxData, Talk
    <3> QED BY <3>2, <3>3
  <2>5. CASE PeriodEnd /\ bit_cnt_q # 0
    <3>1. /\ UNCHANGED <<slave, heard, told>> /\ Clocked' = Clocked
          /\ ToldKept(byte_cnt_q)' /\ ~First' /\ ~Sampled' /\ AfterRise
          /\ slave'.at = "read" /\ slave'.n = Clocked'
          /\ shift_rx_q' = shift_rx_q
      BY <1>2, <1>3, <1>5, <1>7, <1>8, <1>11, <2>5 DEF First
    <3>2. BitsIn(shift_rx_q', slave'.bits, Clocked')
      BY <1>11, <3>1
    <3> QED BY <1>1, <1>3, <1>4, <1>11, <2>5, <3>1, <3>2 DEF InRxData, Talk
  <2>6. CASE PeriodEnd /\ bit_cnt_q = 0
    <3>1. /\ UNCHANGED <<slave, heard, told>> /\ Clocked = ByteBits
          /\ BeforeFall' /\ AfterRise
      BY <1>2, <1>5, <1>7, <2>6
    <3>2. shift_rx_q = ByteOf(slave.bits)
      BY <1>2, <1>11, <3>1, ByteIn
    <3>3. Len(told) = byte_cnt_q /\ Agree(rx_buf_q, told, byte_cnt_q)
      BY <1>4, <1>11 DEF ToldKept
    <3>4. /\ Agree(rx_buf_q', told, byte_cnt_q)
          /\ rx_buf_q'[byte_cnt_q] = shift_rx_q
      BY <1>2, <1>3, <2>6, <3>3, AgreeKept
    <3>5. ToldKept(byte_cnt_q)'
      BY <1>1, <1>3, <1>11, <3>1, <3>3, <3>4 DEF ToldKept
    <3>6. ByteOf(slave.bits)' = ByteOf(slave.bits)
      BY <3>1 DEF ByteOf
    <3>7. InAckRx'
      BY <1>1, <1>3, <1>4, <1>11, <3>1, <3>2, <3>4, <3>5, <3>6 DEF InAckRx
    <3> QED BY <1>3, <2>6, <3>7 DEF Talk
  <2> QED BY <2>2, <2>3, <2>4, <2>5, <2>6
<1> QED BY <1>9, <1>10, <1>11 DEF InRxData

\* The master acknowledges a byte, or not after the last one.
LEMMA AckRxStep ==
  ASSUME PRESCALE > 1, Sound, Steady, Counted, Undisturbed', NEW op, Edge(op),
         i2c_state_q = "I_ACK_RX", InAckRx
  PROVE  Talk'
<1>1. /\ AckRx /\ (Present' <=> Present) /\ nby_q' = nby_q /\ meddles = 0
      /\ sda_was' = sda /\ i2c_state_q \in BitStates
  BY RunHeld DEF Sound, BitStates, States, I2cEdge, Wait, Start, SendBits,
     AckAddr, AckTx, RxData, AckRx, Stop, Finish
<1>2. /\ MasterTyped /\ SlaveTyped /\ SlaveShape /\ ByteBits \in Nat \ {0, 1}
      /\ byte_cnt_q \in Nat /\ nby_q \in 1 .. MaxBytes /\ byte_cnt_q < nby_q
      /\ MaxBytes \in Nat \ {0} /\ told \in Seq(Byte)
  BY I2cAssumption DEF Sound, BusInv, Counted, MasterTyped, SlaveTyped
<1>3. /\ sda_drive_q' /\ sda_value_q' = IF LastByte THEN 1 ELSE 0
      /\ UNCHANGED <<is_read_q, shift_rx_q, rx_buf_q>>
      /\ ~PeriodEnd => i2c_state_q' = "I_ACK_RX" /\ byte_cnt_q' = byte_cnt_q
  BY <1>1 DEF AckRx, Drive, NextByte, AtPeriodEnd
<1>4. is_read_q /\ is_read_q'
  BY <1>3 DEF InAckRx
<1>5. /\ ~BeforeFall => ~FirstCycle
      /\ AtFall =>
           /\ BeforeFall /\ ~PeriodEnd /\ ~BeforeFall' /\ ~AfterRise'
           /\ IF Active THEN OnFall ELSE UNCHANGED <<slave, heard, told>>
      /\ AtRise =>
           /\ ~BeforeFall /\ ~AfterRise /\ ~PeriodEnd
           /\ ~BeforeFall' /\ AfterRise'
           /\ IF Active THEN OnRise ELSE UNCHANGED <<slave, heard, told>>
      /\ ~AtFall /\ ~AtRise => UNCHANGED <<slave, heard, told>>
      /\ ~AtFall /\ ~AtRise /\ ~PeriodEnd =>
           (BeforeFall' <=> BeforeFall) /\ (AfterRise' <=> AfterRise)
      /\ PeriodEnd =>
           /\ ~AtFall /\ ~AtRise /\ AfterRise /\ ~BeforeFall
           /\ FirstCycle' /\ BeforeFall' /\ ~AfterRise' /\ ~Sampled'
  BY <1>1, BitCycle
<1>6. ~FirstCycle /\ ~slave.low => sda = IF LastByte THEN 1 ELSE 0
  BY <1>1, LineLevel
<1>7. /\ LastByte <=> byte_cnt_q + 1 = nby_q
      /\ ~LastByte => byte_cnt_q + 1 < nby_q
      /\ ~PeriodEnd => (LastByte' <=> LastByte)
  BY <1>1, <1>2, <1>3 DEF LastByte
<1>8. CASE ~PeriodEnd
  <2>1. CASE ~Present
    <3>1. Deaf /\ ToldKept(byte_cnt_q + 1)
      BY <2>1 DEF InAckRx
    <3>2. Deaf' /\ UNCHANGED <<slave, heard, told>>
      BY <1>5, <3>1 DEF Deaf, Active
    <3>3. ToldKept(byte_cnt_q + 1)'
      BY <1>1, <1>3, <1>8, <3>1, <3>2 DEF ToldKept
    <3>4. InAckRx'
      BY <1>1, <1>4, <2>1, <3>2, <3>3 DEF InAckRx
    <3> QED BY <1>3, <1>8, <3>4 DEF Talk
  <2>2. CASE Present /\ BeforeFall
    <3>1. /\ slave.at = "read" /\ slave.n = ByteBits /\ Active
          /\ rx_buf_q[byte_cnt_q] = ByteOf(slave.bits) /\ ToldKept(byte_cnt_q)
          /\ ~AtRise
      BY <1>5, <2>2 DEF InAckRx, Active
    <3>2. CASE AtFall
      <4>1. DuringRead
        BY <1>2, <1>5, <3>1, <3>2 DEF OnFall, TakeByte, AfterAck
      <4>2. /\ slave'.at = "read" /\ slave'.n = slave.n /\ ~slave'.low
            /\ told' = Log(told)
        BY <1>2, <3>1, <4>1, DuringReadFields
      <4>3. Len(told) = byte_cnt_q /\ Agree(rx_buf_q, told, byte_cnt_q)
        BY <2>2, <3>1 DEF ToldKept
      <4>4. ByteOf(slave.bits) \in Byte /\ byte_cnt_q < MaxBytes
        BY <1>2, <3>1, LogTyped
      <4>5. Log(told) = Append(told, ByteOf(slave.bits))
        BY <4>3, <4>4 DEF Log
      <4>6. /\ Len(Append(told, ByteOf(slave.bits))) = byte_cnt_q + 1
            /\ Agree(rx_buf_q, Append(told, ByteOf(slave.bits)), byte_cnt_q + 1)
        BY <1>2, <3>1, <4>3, <4>4, AgreeGrows, AppendProperties
      <4>7. ToldKept(byte_cnt_q + 1)'
        BY <1>1, <1>3, <1>8, <2>2, <4>2, <4>5, <4>6 DEF ToldKept
      <4>8. InAckRx'
        BY <1>1, <1>4, <1>5, <2>2, <3>1, <3>2, <4>2, <4>7 DEF InAckRx
      <4> QED BY <1>3, <1>8, <4>8 DEF Talk
    <3>3. CASE ~AtFall
      <4>1. UNCHANGED <<slave, heard, told>> /\ BeforeFall'
        BY <1>5, <1>8, <2>2, <3>1, <3>3
      <4>2. ByteOf(slave.bits)' = ByteOf(slave.bits)
        BY <4>1 DEF ByteOf
      <4>3. ToldKept(byte_cnt_q)'
        BY <1>1, <1>3, <1>8, <3>1, <4>1 DEF ToldKept
      <4>4. rx_buf_q'[byte_cnt_q'] = ByteOf(slave.bits)'
        BY <1>3, <1>8, <3>1, <4>2
      <4>5. InAckRx'
        BY <1>1, <1>4, <2>2, <3>1, <4>1, <4>3, <4>4 DEF InAckRx
      <4> QED BY <1>3, <1>8, <4>5 DEF Talk
    <3> QED BY <3>2, <3>3
  <2>3. CASE Present /\ ~BeforeFall
    <3>1. /\ ToldKept(byte_cnt_q + 1) /\ ~slave.low /\ ~AtFall
          /\ IF AfterRise /\ LastByte THEN slave.at = "ignore"
             ELSE /\ slave.at = "read"
                  /\ slave.n = IF AfterRise THEN ByteBits + 1 ELSE ByteBits
      BY <1>5, <2>3 DEF InAckRx
    <3>2. told' = told => ToldKept(byte_cnt_q + 1)'
      BY <1>1, <1>3, <1>8, <3>1 DEF ToldKept
    <3>3. CASE AtRise
      <4>1. OnRise /\ slave.at = "read" /\ slave.n = ByteBits
        BY <1>5, <3>1, <3>3 DEF Active
      <4>2. /\ slave'.n = slave.n + 1 /\ slave'.low = slave.low
            /\ slave'.at = IF sda = 1 THEN "ignore" ELSE slave.at
            /\ told' = told
        BY <1>2, <4>1, OnRiseFields
      <4>3. sda = IF LastByte THEN 1 ELSE 0
        BY <1>5, <1>6, <2>3, <3>1
      <4>4. /\ ~slave'.low /\ ~BeforeFall' /\ AfterRise'
            /\ IF LastByte' THEN slave'.at = "ignore"
               ELSE slave'.at = "read" /\ slave'.n = ByteBits + 1
        BY <1>5, <1>7, <1>8, <3>1, <3>3, <4>1, <4>2, <4>3
      <4>5. InAckRx'
        BY <1>1, <1>4, <2>3, <3>2, <4>2, <4>4 DEF InAckRx
      <4> QED BY <1>3, <1>8, <4>5 DEF Talk
    <3>4. CASE ~AtRise
      <4>1. /\ UNCHANGED <<slave, heard, told>> /\ ~BeforeFall'
            /\ (AfterRise' <=> AfterRise)
        BY <1>5, <1>8, <2>3, <3>1, <3>4
      <4>2. InAckRx'
        BY <1>1, <1>4, <1>7, <1>8, <2>3, <3>1, <3>2, <4>1 DEF InAckRx
      <4> QED BY <1>3, <1>8, <4>2 DEF Talk
    <3> QED BY <3>3, <3>4
  <2> QED BY <2>1, <2>2, <2>3
<1>9. CASE PeriodEnd
  <2>1. /\ i2c_state_q' = IF LastByte THEN "I_STOP" ELSE "I_RX_DATA"
        /\ ~LastByte => byte_cnt_q' = byte_cnt_q + 1 /\ bit_cnt_q' = ByteBits - 1
    <3>1. ~LastByte => Following(byte_cnt_q) = byte_cnt_q + 1
      BY <1>2, <1>7 DEF Following
    <3> QED BY <1>1, <1>9, <3>1 DEF AckRx, NextByte, AtPeriodEnd
  <2>2. UNCHANGED <<slave, heard, told>> /\ AfterRise /\ ~BeforeFall
    BY <1>5, <1>9
  <2>3. /\ ToldKept(byte_cnt_q + 1) /\ ~slave.low
        /\ ~Present => Deaf
        /\ Present /\ ~LastByte => slave.at = "read" /\ slave.n = ByteBits + 1
        /\ LastByte => slave.at = "ignore"
    BY <2>2 DEF InAckRx, Deaf
  <2>4. CASE LastByte
    <3>1. ToldKept(nby_q)'
      BY <1>1, <1>2, <1>3, <1>7, <2>2, <2>3, <2>4 DEF ToldKept
    <3>2. Result'
      BY <1>4, <2>2, <2>3, <3>1 DEF Result
    <3>3. ~sda_oe' /\ FirstCycle' /\ BeforeFall' /\ ~FirstCycle
      BY <1>3, <1>5, <1>9, <2>2, <2>4 DEF sda_oe
    <3>4. sda = 1 /\ sda' = 1
      BY <1>6, <2>2, <2>3, <2>4, <3>3 DEF sda
    <3>5. InStop'
      BY <1>1, <2>2, <2>3, <2>4, <3>2, <3>3, <3>4 DEF InStop
    <3> QED BY <2>1, <2>4, <3>5 DEF Talk
  <2>5. CASE ~LastByte
    <3>1. First' /\ BeforeFall'
      BY <1>5, <1>9, <2>1, <2>5 DEF First
    <3>2. ToldKept(byte_cnt_q)'
      BY <1>1, <1>3, <2>1, <2>2, <2>3, <2>5 DEF ToldKept
    <3>3. OnesIn(shift_rx_q, Received)'
      <4>1. Received' = 0
        BY <1>2, <1>5, <1>9, <2>1, <2>5 DEF Received
      <4> QED BY <4>1 DEF OnesIn
    <3>4. CASE Present
      <4>1. InRxData'
        BY <1>1, <1>4, <2>2, <2>3, <2>5, <3>1, <3>2, <3>4 DEF InRxData
      <4> QED BY <2>1, <2>5, <4>1 DEF Talk
    <3>5. CASE ~Present
      <4>1. Deaf'
        BY <2>2, <2>3, <3>5 DEF Deaf
      <4>2. InRxData'
        BY <1>1, <1>4, <3>2, <3>3, <3>5, <4>1 DEF InRxData
      <4> QED BY <2>1, <2>5, <4>2 DEF Talk
    <3> QED BY <3>4, <3>5
  <2> QED BY <2>4, <2>5
<1> QED BY <1>8, <1>9

\* Outside the bits SCL is high: the slave can only see START or STOP.
LEMMA HighLine ==
  ASSUME Sound, i2c_state_q \notin BitStates, Slave
  PROVE  /\ sda_was = 1 /\ sda = 0 => OnStart
         /\ sda_was = 0 /\ sda = 1 => OnStop
         /\ sda_was = sda => UNCHANGED <<slave, heard, told>>
<1>1. scl = 1 /\ scl_was = 1
  BY DEF Sound, Clock
<1> QED BY <1>1 DEF Slave, StartSeen, StopSeen, Rises, Falls, Ignores

\* In a state that runs for a period, the cycles one by one.
LEMMA PeriodCycle ==
  ASSUME PRESCALE > 1, Sound, Divider, i2c_state_q # "I_IDLE"
  PROVE  /\ PeriodEnd => FirstCycle' /\ BeforeFall' /\ ~AfterRise' /\ ~BeforeFall
         /\ ~PeriodEnd => ~FirstCycle' /\ (BeforeFall' <=> FirstCycle)
         /\ FirstCycle => BeforeFall
<1>1. Ranges /\ Clock
  BY DEF Sound, BusInv
<1>2. /\ FirstCycle => BeforeFall /\ ~Sampled
      /\ BeforeFall => ~AtRise /\ ~AfterRise /\ ~Sampled
      /\ PeriodEnd => AfterRise
  BY <1>1, Moments
<1>3. /\ PeriodEnd => FirstCycle'
      /\ ~PeriodEnd => ~FirstCycle' /\ (BeforeFall' <=> FirstCycle)
  BY <1>1, MomentsPass
<1>4. FirstCycle' => BeforeFall' /\ ~AfterRise'
  BY DEF FirstCycle, BeforeFall, AfterRise
<1> QED BY <1>2, <1>3, <1>4

\* START, a cycle after the machine pulls SDA low.
LEMMA StartStep ==
  ASSUME PRESCALE > 1, Sound, Undisturbed', NEW op, Edge(op),
         i2c_state_q = "I_START", InStart
  PROVE  Talk'
<1>1. /\ Start /\ adr_q' = adr_q /\ Slave /\ Divider /\ sda_was' = sda
      /\ i2c_state_q \notin BitStates
  BY RunHeld DEF Sound, BitStates, States, I2cEdge, Wait, Start, SendBits,
     AckAddr, AckTx, RxData, AckRx, Stop, Finish
<1>2. /\ i2c_state_q' = IF PeriodEnd THEN "I_ADDR" ELSE "I_START"
      /\ UNCHANGED <<bit_cnt_q, byte_cnt_q, is_read_q, shift_tx_q>>
      /\ sda_oe'
  BY <1>1 DEF Start, Drive, AtPeriodEnd, sda_oe
<1>3. /\ sda_was = 1 /\ sda = 0 => OnStart
      /\ sda_was = sda => UNCHANGED <<slave, heard, told>>
  BY <1>1, HighLine
<1>4. /\ PeriodEnd => FirstCycle' /\ BeforeFall' /\ ~AfterRise' /\ ~BeforeFall
      /\ ~PeriodEnd => ~FirstCycle' /\ (BeforeFall' <=> FirstCycle)
      /\ FirstCycle => BeforeFall
  BY <1>1, PeriodCycle
<1>5. /\ NoBytes /\ AddressByte /\ First
      /\ BeforeFall => slave = Resting /\ sda_was = 1 /\ (sda_oe <=> ~FirstCycle)
      /\ ~BeforeFall =>
           slave = [Resting EXCEPT !.at = "addr"] /\ sda_oe /\ sda_was = 0
  BY DEF InStart
<1>6. heard' = heard /\ told' = told => NoBytes' /\ AddressByte' /\ First'
  BY <1>1, <1>2, <1>5 DEF NoBytes, AddressByte, First
<1>7. CASE FirstCycle
  <2>1. sda = 1
    BY <1>4, <1>5, <1>7 DEF sda, Resting
  <2>2. UNCHANGED <<slave, heard, told>> /\ ~PeriodEnd /\ BeforeFall'
        /\ ~FirstCycle' /\ sda_was' = 1
    BY <1>1, <1>3, <1>4, <1>5, <1>7, <2>1
  <2>3. InStart'
    BY <1>2, <1>4, <1>5, <1>6, <1>7, <2>2 DEF InStart
  <2> QED BY <1>2, <2>2, <2>3 DEF Talk
<1>8. CASE BeforeFall /\ ~FirstCycle
  <2>1. sda = 0
    BY <1>5, <1>8 DEF sda
  <2>2. OnStart /\ ~PeriodEnd /\ ~BeforeFall' /\ sda_was' = 0
    BY <1>1, <1>3, <1>4, <1>5, <1>8, <2>1
  <2>3. /\ slave' = [Resting EXCEPT !.at = "addr"]
        /\ heard' = heard /\ told' = told
    BY <2>2 DEF OnStart
  <2>4. InStart'
    BY <1>2, <1>6, <2>2, <2>3 DEF InStart, Resting
  <2> QED BY <1>2, <2>2, <2>4 DEF Talk
<1>9. CASE ~BeforeFall
  <2>1. sda = 0
    BY <1>5, <1>9 DEF sda
  <2>2. UNCHANGED <<slave, heard, told>> /\ sda_was' = 0
    BY <1>1, <1>3, <1>5, <1>9, <2>1
  <2>3. CASE ~PeriodEnd
    <3>1. InStart'
      BY <1>2, <1>4, <1>5, <1>6, <1>9, <2>2, <2>3 DEF InStart, Resting
    <3> QED BY <1>2, <2>3, <3>1 DEF Talk
  <2>4. CASE PeriodEnd
    <3>1. /\ slave'.at = "addr" /\ slave'.n = 0 /\ slave'.bits = <<>>
          /\ ~slave'.low
      BY <1>5, <1>9, <2>2 DEF Resting
    <3>2. Clocked' = 0
      BY <1>2, <1>4, <1>5, <2>4, I2cAssumption DEF Clocked, First
    <3>3. BitsSent(<<>>, shift_tx_q', 0)
      BY DEF BitsSent
    <3>4. Listening("addr")'
      BY <3>1, <3>2, <3>3 DEF Listening
    <3>5. InAddr'
      BY <1>6, <2>2, <3>4 DEF InAddr
    <3> QED BY <1>2, <2>4, <3>5 DEF Talk
  <2> QED BY <2>3, <2>4
<1> QED BY <1>4, <1>7, <1>8, <1>9

\* What the transfer has come to stays.
LEMMA ResultHeld ==
  ASSUME Result, UNCHANGED <<is_read_q, nby_q, tdr_q, rx_buf_q, heard, told>>,
         Present' <=> Present,
         slave' = slave \/ (~slave.low /\ ~slave'.low)
  PROVE  Result'
<1>1. HeardOK => HeardOK'
  BY DEF HeardOK
<1>2. ToldKept(nby_q) => ToldKept(nby_q)'
  BY DEF ToldKept
<1>3. CASE is_read_q
  BY <1>2, <1>3 DEF Result
<1>4. CASE ~is_read_q
  BY <1>1, <1>4 DEF Result
<1> QED BY <1>3, <1>4

\* STOP, unless the slave still holds SDA.
LEMMA StopStep ==
  ASSUME PRESCALE > 1, Sound, Undisturbed', NEW op, Edge(op),
         i2c_state_q = "I_STOP", InStop
  PROVE  Talk'
<1>1. /\ Stop /\ Slave /\ Divider /\ sda_was' = sda /\ (Present' <=> Present)
      /\ nby_q' = nby_q /\ tdr_q' = tdr_q /\ i2c_state_q \notin BitStates
  BY RunHeld DEF Sound, BitStates, States, I2cEdge, Wait, Start, SendBits,
     AckAddr, AckTx, RxData, AckRx, Stop, Finish
<1>2. /\ i2c_state_q' = IF PeriodEnd THEN "I_DONE" ELSE "I_STOP"
      /\ UNCHANGED <<is_read_q, rx_buf_q>>
      /\ sda_oe' <=> ~PeriodEnd
  BY <1>1 DEF Stop, AtPeriodEnd, sda_oe
<1>3. /\ sda_was = 1 /\ sda = 0 => OnStart
      /\ sda_was = sda => UNCHANGED <<slave, heard, told>>
  BY <1>1, HighLine
<1>4. /\ PeriodEnd => FirstCycle' /\ BeforeFall' /\ ~AfterRise' /\ ~BeforeFall
      /\ ~PeriodEnd => ~FirstCycle' /\ (BeforeFall' <=> FirstCycle)
      /\ FirstCycle => BeforeFall
  BY <1>1, PeriodCycle
<1>5. /\ Result /\ (sda_oe <=> ~FirstCycle)
      /\ FirstCycle => sda = sda_was
      /\ slave.low => sda_was = 0
      /\ ~slave.low /\ BeforeFall => slave.at = "ignore" /\ sda_was = 1
      /\ ~slave.low /\ ~BeforeFall =>
           slave = [Resting EXCEPT !.at = "addr"] /\ sda_was = 0
  BY DEF InStop
<1>6. UNCHANGED <<heard, told>> /\ (slave' = slave \/ (~slave.low /\ ~slave'.low))
        => Result'
  BY <1>1, <1>2, <1>5, ResultHeld
<1>7. CASE slave.low
  <2>1. sda = 0
    BY <1>7 DEF sda
  <2>2. UNCHANGED <<slave, heard, told>> /\ sda_was' = 0 /\ Result'
    BY <1>1, <1>3, <1>5, <1>6, <1>7, <2>1
  <2>3. ~PeriodEnd => InStop'
    BY <1>2, <1>4, <1>7, <2>2 DEF InStop
  <2>4. InDone'
    BY <1>7, <2>2 DEF InDone
  <2> QED BY <1>2, <2>3, <2>4 DEF Talk
<1>8. CASE ~slave.low /\ FirstCycle
  <2>1. /\ UNCHANGED <<slave, heard, told>> /\ Result' /\ ~PeriodEnd
        /\ BeforeFall' /\ ~FirstCycle' /\ sda_was' = 1
    BY <1>1, <1>3, <1>4, <1>5, <1>6, <1>8
  <2>2. InStop'
    BY <1>2, <1>4, <1>5, <1>8, <2>1 DEF InStop
  <2> QED BY <1>2, <2>1, <2>2 DEF Talk
<1>9. CASE ~slave.low /\ BeforeFall /\ ~FirstCycle
  <2>1. sda = 0
    BY <1>5, <1>9 DEF sda
  <2>2. OnStart /\ ~PeriodEnd /\ ~BeforeFall' /\ ~FirstCycle' /\ sda_was' = 0
    BY <1>1, <1>3, <1>4, <1>5, <1>9, <2>1
  <2>3. /\ slave' = [Resting EXCEPT !.at = "addr"] /\ ~slave'.low
        /\ heard' = heard /\ told' = told
    BY <2>2 DEF OnStart, Resting
  <2>4. Result'
    BY <1>6, <1>9, <2>3
  <2>5. InStop'
    BY <1>2, <2>2, <2>3, <2>4 DEF InStop, Resting
  <2> QED BY <1>2, <2>2, <2>5 DEF Talk
<1>10. CASE ~slave.low /\ ~BeforeFall
  <2>1. sda = 0
    BY <1>4, <1>5, <1>10 DEF sda
  <2>2. UNCHANGED <<slave, heard, told>> /\ sda_was' = 0 /\ Result'
    BY <1>1, <1>3, <1>5, <1>6, <1>10, <2>1
  <2>3. ~PeriodEnd => InStop'
    BY <1>2, <1>4, <1>5, <1>10, <2>2 DEF InStop, Resting
  <2>4. InDone'
    BY <1>5, <1>10, <2>2 DEF InDone, Resting
  <2> QED BY <1>2, <2>3, <2>4 DEF Talk
<1> QED BY <1>7, <1>8, <1>9, <1>10

\* The machine is done; the slave sees the STOP.
LEMMA DoneStep ==
  ASSUME PRESCALE > 1, Sound, Undisturbed', NEW op, Edge(op),
         i2c_state_q = "I_DONE", InDone
  PROVE  Talk'
<1>1. /\ Finish /\ Slave /\ sda_was' = sda /\ (Present' <=> Present)
      /\ Registers(op) /\ Software(op)
      /\ nby_q' = nby_q /\ tdr_q' = tdr_q /\ i2c_state_q \notin BitStates
  BY RunHeld DEF Sound, BitStates, States, I2cEdge, Wait, Start, SendBits,
     AckAddr, AckTx, RxData, AckRx, Stop, Finish
<1>2. /\ i2c_state_q' = "I_IDLE" /\ UNCHANGED <<is_read_q, rx_buf_q>>
      /\ ~sda_oe /\ ~sda_oe'
  BY <1>1 DEF Finish, Sound, BusInv, Released, sda_oe
<1>3. /\ sda_was = 0 /\ sda = 1 => OnStop
      /\ sda_was = sda => UNCHANGED <<slave, heard, told>>
  BY <1>1, HighLine
<1>4. Result /\ sda_was = 0 /\ sda = IF slave.low THEN 0 ELSE 1
  BY <1>2 DEF InDone, sda
<1>5. /\ heard' = heard /\ told' = told /\ (slave'.low <=> slave.low)
      /\ ~slave'.low => slave' = Resting
      /\ slave' = slave \/ (~slave.low /\ ~slave'.low)
  <2>1. CASE slave.low
    BY <1>3, <1>4, <2>1
  <2>2. CASE ~slave.low
    BY <1>3, <1>4, <2>2 DEF OnStop, Resting
  <2> QED BY <2>1, <2>2
<1>6. Result'
  BY <1>1, <1>2, <1>4, <1>5, ResultHeld
<1>7. sda_was' = sda'
  BY <1>1, <1>2, <1>4, <1>5 DEF sda
<1>8. is_read_q' => rdr_q' = rx_buf_q'
  BY <1>1, <1>2 DEF Registers
<1>9. response'.what # "rdr"
  <2>1. sw \in Polling
    BY DEF Sound, BusInv, BusyMeansPolling
  <2>2. op.what # "read_rdr"
    BY <1>1, <2>1, SoftwareMoves
  <2> QED BY <1>1, <2>2 DEF Registers, Answer, Idle
<1>10. InIdle'
  BY <1>5, <1>6, <1>7, <1>8, <1>9 DEF InIdle
<1> QED BY <1>2, <1>10 DEF Talk

\* From the start of a transfer until software has cleared its flag.
Waiting == Polling \cup {"fetch", "clear"}

\* While the master is idle, software that waits writes no register of it.
LEMMA IdleMoves ==
  ASSUME Kinds, BusyMeansPolling, NEW op, Software(op), ~Begins(op),
         i2c_state_q = "I_IDLE", sw' \in Waiting
  PROVE  /\ sw \in Waiting
         /\ op.what = "nby" => Tampers(op)
         /\ op.what \notin {"adr", "tdr"}
<1>1. CASE response # Idle
  BY <1>1 DEF Software, Receive, Idle, Kinds, Waiting, Polling
<1>2. CASE response = Idle
  <2>1. ~SetUp(op)
    BY DEF SetUp, Waiting, Polling
  <2>2. ~StartIt(op)
    BY DEF StartIt, WriteCfg, Begins, tx_trigger, rx_trigger
  <2>3. CASE Poll(op) \/ Fetch(op) \/ (op = Idle /\ UNCHANGED sw)
    BY <2>3 DEF Poll, Fetch, ReadCfg, ReadRdr, Idle, Waiting, Polling
  <2>4. ~ClearDone(op)
    BY DEF ClearDone, Waiting, Polling
  <2>5. CASE Meddle(op)
    BY <2>5 DEF Meddle, WriteNby, Tampers, Waiting, Polling
  <2> QED BY <1>2, <2>1, <2>2, <2>3, <2>4, <2>5 DEF Software
<1> QED BY <1>1, <1>2

\* A transfer begins, or its result waits for the software.
LEMMA IdleStep ==
  ASSUME PRESCALE > 1, Sound, Kinds, Undisturbed => Talk, Undisturbed',
         NEW op, Edge(op), i2c_state_q = "I_IDLE"
  PROVE  Talk'
<1>1. /\ Wait(op) /\ Divider /\ Registers(op) /\ Software(op)
      /\ sda_was' = sda /\ sda_drive_q' = FALSE /\ ~sda_oe' /\ ~sda_oe
      /\ BusyMeansPolling /\ meddles \in Nat
  BY DEF Edge, Sound, BusInv, Ranges, Released, I2cEdge, Wait, Start, SendBits,
     AckAddr, AckTx, RxData, AckRx, Stop, Finish, sda_oe
<1>2. CASE Begins(op)
  <2>1. /\ i2c_state_q' = "I_START" /\ is_read_q' = rx_trigger(op)
        /\ shift_tx_q' = [b \in Bit |->
             IF b > 0 THEN adr_q[b] ELSE IF rx_trigger(op) THEN 1 ELSE 0]
        /\ bit_cnt_q' = ByteBits - 1 /\ byte_cnt_q' = 0
    BY <1>1, <1>2 DEF Begins, Wait
  <2>2. fresh' /\ slave' = slave /\ heard' = <<>> /\ told' = <<>>
        /\ (fresh' <=> slave = Resting /\ sda = 1)
    BY <1>2 DEF Edge, Undisturbed
  <2>3. FirstCycle' /\ BeforeFall'
    BY <1>1 DEF Divider, FirstCycle, BeforeFall
  <2>4. adr_q' = adr_q
    BY <1>1, <1>2 DEF Begins, tx_trigger, rx_trigger, Registers
  <2>5. AddressByte'
    <3>1. ASSUME NEW b \in 1 .. ByteBits - 1 PROVE shift_tx_q'[b] = adr_q'[b]
      BY <2>1, <2>4, I2cAssumption DEF Bit
    <3>2. shift_tx_q'[0] = IF is_read_q' THEN 1 ELSE 0
      BY <2>1, I2cAssumption DEF Bit
    <3> QED BY <3>1, <3>2 DEF AddressByte
  <2>6. InStart'
    BY <1>1, <2>1, <2>2, <2>3, <2>5 DEF InStart, NoBytes, First
  <2> QED BY <2>1, <2>6 DEF Talk
<1>3. CASE ~Begins(op)
  <2>1. i2c_state_q' = "I_IDLE" /\ UNCHANGED <<is_read_q, rx_buf_q, rdr_q>>
    BY <1>1, <1>3 DEF Begins, Wait, Registers
  <2>2. /\ Slave /\ fresh' = fresh /\ meddles' = 0
        /\ meddles' = IF Tampers(op) THEN meddles + 1 ELSE meddles
    BY <1>3 DEF Edge, Undisturbed
  <2>3. ~Tampers(op) /\ Undisturbed
    BY <1>1, <2>2 DEF Undisturbed
  <2>4. ASSUME sw' \in Waiting PROVE InIdle'
    <3>1. sw \in Waiting /\ op.what \notin {"nby", "adr", "tdr"}
      BY <1>1, <1>3, <2>3, <2>4, IdleMoves
    <3>2. InIdle
      BY <2>3, <3>1 DEF Talk, Waiting
    <3>3. nby_q' = nby_q /\ adr_q' = adr_q /\ tdr_q' = tdr_q
      BY <1>1, <3>1 DEF Registers
    <3>4. UNCHANGED <<slave, heard, told>>
      BY <2>2, <3>2, HighLine DEF InIdle, BitStates
    <3>5. Result'
      <4>1. Present' <=> Present
        BY <3>3 DEF Present
      <4> QED BY <2>1, <3>2, <3>3, <3>4, <4>1, ResultHeld DEF InIdle
    <3>6. sda' = sda
      BY <1>1, <3>4 DEF sda
    <3>7. response'.what = "rdr" => response'.value = rdr_q'
      BY <1>1, <2>1 DEF Registers, Answer, Idle
    <3> QED BY <1>1, <2>1, <3>2, <3>4, <3>5, <3>6, <3>7 DEF InIdle
  <2> QED BY <2>1, <2>4 DEF Talk, Waiting
<1> QED BY <1>2, <1>3

-----------------------------------------------------------------------------
\* The software and the direction of the transfer.
LEMMA KindsStep ==
  ASSUME Sound, Kinds, NEW op, Edge(op)
  PROVE  Kinds'
<1>1. /\ Software(op) /\ I2cEdge(op, sda) /\ Registers(op)
      /\ BusyMeansPolling
  BY DEF Edge, I2cEdge, Sound, BusInv
<1>2. is_read_q' = IF Begins(op) THEN rx_trigger(op) ELSE is_read_q
  BY <1>1 DEF I2cEdge, Wait, Start, SendBits, AckAddr, AckTx, RxData, AckRx,
     Stop, Finish, NextByte, Begins, tx_trigger, rx_trigger
<1>3. response'.what = "rdr" => op.what = "read_rdr"
  BY <1>1 DEF Registers, Answer, Idle
<1>4. Begins(op) => op.what = "cfg" /\ (op.tx_en \/ op.rx_en)
  BY DEF Begins, tx_trigger, rx_trigger
<1>5. CASE response # Idle
  <2>1. ~Begins(op) /\ op.what # "read_rdr"
    BY <1>1, <1>4, <1>5 DEF Software, Receive, Idle
  <2>2. /\ sw' = "poll_tx" => sw = "poll_tx"
        /\ sw' = "poll_rx" => sw = "poll_rx"
        /\ sw' = "fetch" => sw \in {"poll_rx", "fetch"}
    BY <1>1, <1>5 DEF Software, Receive
  <2> QED BY <1>2, <1>3, <2>1, <2>2 DEF Kinds
<1>6. CASE response = Idle
  <2>1. CASE SetUp(op)
    BY <1>3, <2>1 DEF SetUp, WriteNby, WriteAdr, WriteTdr, Kinds
  <2>2. CASE StartIt(op)
    <3>1. i2c_state_q = "I_IDLE"
      BY <1>1, <2>2 DEF StartIt, BusyMeansPolling, Polling
    <3>2. \/ op = WriteCfg(TRUE, FALSE) /\ sw' = "poll_tx"
          \/ op = WriteCfg(FALSE, TRUE) /\ sw' = "poll_rx"
      BY <2>2 DEF StartIt
    <3>3. op.what = "cfg" /\ Begins(op)
          /\ (rx_trigger(op) <=> sw' = "poll_rx") /\ sw' # "fetch"
      BY <3>1, <3>2 DEF WriteCfg, Begins, tx_trigger, rx_trigger
    <3> QED BY <1>2, <1>3, <3>2, <3>3 DEF Kinds
  <2>3. CASE Poll(op) \/ Meddle(op) \/ (op = Idle /\ UNCHANGED sw)
    BY <1>2, <1>3, <1>4, <2>3 DEF Poll, Meddle, ReadCfg, WriteNby, Idle, Kinds
  <2>4. CASE Fetch(op)
    BY <1>2, <1>3, <1>4, <2>4 DEF Fetch, ReadRdr, Kinds
  <2>5. CASE ClearDone(op)
    BY <1>3, <2>5 DEF ClearDone, WriteCfg, Kinds
  <2> QED BY <1>1, <1>6, <2>1, <2>2, <2>3, <2>4, <2>5 DEF Software
<1> QED BY <1>5, <1>6

\* The count of bytes.
LEMMA CountedStep ==
  ASSUME Sound, Undisturbed => Counted, MasterTyped', Undisturbed',
         NEW op, Edge(op)
  PROVE  Counted'
<1>1. /\ I2cEdge(op, sda) /\ nby_q' \in 1 .. MaxBytes /\ MaxBytes \in Nat \ {0}
      /\ byte_cnt_q \in Nat /\ nby_q \in 1 .. MaxBytes
  BY I2cAssumption DEF Edge, Sound, MasterTyped
<1>2. CASE i2c_state_q = "I_IDLE"
  <2>1. i2c_state_q' # "I_IDLE" => byte_cnt_q' = 0
    BY <1>1, <1>2 DEF I2cEdge, Wait, Start, SendBits, AckAddr, AckTx, RxData,
       AckRx, Stop, Finish
  <2> QED BY <1>1, <2>1 DEF Counted
<1>3. CASE i2c_state_q # "I_IDLE"
  <2>1. nby_q' = nby_q /\ Undisturbed
    BY <1>3, RunHeld DEF Sound
  <2>2. byte_cnt_q < nby_q
    BY <1>3, <2>1 DEF Counted
  <2>3. byte_cnt_q' = byte_cnt_q
        \/ (~LastByte /\ byte_cnt_q' = Following(byte_cnt_q))
    BY <1>1, <1>3 DEF I2cEdge, Wait, Start, SendBits, AckAddr, AckTx, RxData,
       AckRx, Stop, Finish, NextByte
  <2>4. ~LastByte => Following(byte_cnt_q) = byte_cnt_q + 1 /\ byte_cnt_q + 1 < nby_q
    BY <1>1, <2>2 DEF LastByte, Following
  <2> QED BY <2>1, <2>2, <2>3, <2>4 DEF Counted
<1> QED BY <1>2, <1>3

\* SDA within a bit.
LEMMA SteadyStep ==
  ASSUME PRESCALE > 1, Sound, Undisturbed => Talk, Undisturbed', NEW op, Edge(op)
  PROVE  Steady'
<1>1. SUFFICES ASSUME i2c_state_q' \in BitStates, scl' = 1, scl_was' = 1
               PROVE  sda' = sda_was'
  BY DEF Steady
<1>2. i2c_state_q # "I_IDLE"
  <2>1. I2cEdge(op, sda) /\ Ranges
    BY DEF Edge, Sound, BusInv
  <2> QED BY <1>1, <2>1, BitsEnterAndLeave DEF BitStates
<1>3. /\ I2cEdge(op, sda) /\ Ranges /\ Divider /\ Undisturbed /\ meddles = 0
      /\ BusInv /\ scl_was' = scl /\ sda_was' = sda
  BY <1>2, RunHeld DEF Sound, BusInv
<1>4. /\ i2c_state_q = "I_START" \/ i2c_state_q \in BitStates
      /\ i2c_state_q = "I_START" => PeriodEnd
  <2>1. i2c_state_q \in States
    BY <1>3 DEF Ranges
  <2> QED BY <1>1, <1>2, <1>3, <2>1, BitsEnterAndLeave DEF BitStates, States
<1>5. CASE i2c_state_q \in BitStates
  <2>1. scl = 1 /\ i2c_state_q \notin {"I_START", "I_STOP"}
    BY <1>1, <1>3, <1>5 DEF BitStates
  <2>2. sda_oe' = sda_oe
    BY <1>1, <1>3, <2>1, MasterStable
  <2>3. slave'.low = slave.low
    BY <1>3, <2>1, SlaveStep DEF BusInv
  <2> QED BY <1>3, <2>2, <2>3 DEF sda
<1>6. CASE i2c_state_q = "I_START"
  <2>1. ~BeforeFall
    BY <1>3, <1>4, <1>6, PeriodCycle
  <2>2. sda_oe
    BY <1>3, <1>6, <2>1 DEF Talk, InStart
  <2>3. sda_oe'
    BY <1>3, <1>6 DEF I2cEdge, Wait, Start, SendBits, AckAddr, AckTx, RxData,
       AckRx, Stop, Finish, Drive, sda_oe
  <2> QED BY <1>3, <2>2, <2>3 DEF sda
<1> QED BY <1>4, <1>5, <1>6

\* One clock edge.
LEMMA TalkStep ==
  ASSUME PRESCALE > 1, TalkInv, NEW op \in Accesses, Edge(op)
  PROVE  TalkInv'
<1>1. /\ Sound /\ Kinds /\ BusInv /\ MasterTyped /\ SlaveTyped /\ Clock
      /\ Ranges /\ SlaveShape /\ scl \in {0, 1} /\ sda \in {0, 1}
      /\ Registers(op) /\ I2cEdge(op, sda) /\ Divider
      /\ Undisturbed => Counted /\ Steady /\ Talk
  BY DEF TalkInv, Sound, BusInv, MasterTyped, Edge, I2cEdge, scl, sda
<1>2. BusInv' /\ Ranges'
  BY <1>1, BusStep DEF BusInv
<1>3. MasterTyped'
  <2>1. /\ nby_q' \in 1 .. MaxBytes /\ adr_q' \in Address
        /\ tdr_q' \in Word /\ rdr_q' \in Word
    BY <1>1, RegistersTyped
  <2>2. /\ bit_cnt_q' \in Bit /\ byte_cnt_q' \in Nat /\ is_read_q' \in BOOLEAN
        /\ shift_tx_q' \in Byte /\ shift_rx_q' \in Byte /\ rx_buf_q' \in Word
        /\ sda_drive_q' \in BOOLEAN /\ sda_value_q' \in {0, 1}
    BY <1>1, MachineTyped
  <2>3. scl_value_q' \in {0, 1}
    <3>1. scl_phase_q \in {0, 1, 2, 3}
      BY <1>1 DEF Ranges
    <3>2. scl_phase_q \div 2 \in {0, 1}
      BY <3>1
    <3> QED BY <1>1, <3>2 DEF Divider
  <2> QED BY <2>1, <2>2, <2>3 DEF MasterTyped
<1>4. SlaveTyped' /\ Clock' /\ scl_was' \in {0, 1}
  BY <1>1, <1>2, SlaveTypedStep, ClockStep DEF Edge
<1>5. Kinds'
  BY <1>1, KindsStep
<1>6. ASSUME Undisturbed' PROVE Counted' /\ Steady' /\ Talk'
  <2>1. Counted' /\ Steady'
    BY <1>1, <1>3, <1>6, CountedStep, SteadyStep
  <2>2. Talk'
    <3>1. CASE i2c_state_q = "I_IDLE"
      <4>1. Undisturbed => Talk
        BY <1>1
      <4> QED BY <1>1, <1>6, <3>1, <4>1, IdleStep
    <3>2. CASE i2c_state_q # "I_IDLE"
      <4>1. Counted /\ Steady /\ Talk
        BY <1>1, <1>6, <3>2, RunHeld
      <4>2. PRESCALE > 1 /\ Sound /\ Counted /\ Steady /\ Undisturbed' /\ Edge(op)
        BY <1>1, <1>6, <4>1
      <4>3. CASE i2c_state_q = "I_START"
        <5>1. InStart
          BY <4>1, <4>3 DEF Talk
        <5> QED BY <4>2, <4>3, <5>1, StartStep
      <4>4. CASE i2c_state_q = "I_ADDR"
        <5>1. InAddr
          BY <4>1, <4>4 DEF Talk
        <5> QED BY <4>2, <4>4, <5>1, AddrStep
      <4>5. CASE i2c_state_q = "I_ACK_ADDR"
        <5>1. InAckAddr
          BY <4>1, <4>5 DEF Talk
        <5> QED BY <4>2, <4>5, <5>1, AckAddrStep
      <4>6. CASE i2c_state_q = "I_TX_DATA"
        <5>1. InTxData
          BY <4>1, <4>6 DEF Talk
        <5> QED BY <4>2, <4>6, <5>1, TxDataStep
      <4>7. CASE i2c_state_q = "I_ACK_TX"
        <5>1. InAckTx
          BY <4>1, <4>7 DEF Talk
        <5> QED BY <4>2, <4>7, <5>1, AckTxStep
      <4>8. CASE i2c_state_q = "I_RX_DATA"
        <5>1. InRxData
          BY <4>1, <4>8 DEF Talk
        <5> QED BY <4>2, <4>8, <5>1, RxDataStep
      <4>9. CASE i2c_state_q = "I_ACK_RX"
        <5>1. InAckRx
          BY <4>1, <4>9 DEF Talk
        <5> QED BY <4>2, <4>9, <5>1, AckRxStep
      <4>10. CASE i2c_state_q = "I_STOP"
        <5>1. InStop
          BY <4>1, <4>10 DEF Talk
        <5> QED BY <4>2, <4>10, <5>1, StopStep
      <4>11. CASE i2c_state_q = "I_DONE"
        <5>1. InDone
          BY <4>1, <4>11 DEF Talk
        <5> QED BY <4>2, <4>11, <5>1, DoneStep
      <4> QED BY <1>1, <3>2, <4>3, <4>4, <4>5, <4>6, <4>7,
                 <4>8, <4>9, <4>10, <4>11 DEF Ranges, States
    <3> QED BY <3>1, <3>2
  <2> QED BY <2>1, <2>2
<1> QED BY <1>2, <1>3, <1>4, <1>5, <1>6 DEF TalkInv, Sound

-----------------------------------------------------------------------------
\* From power-up on.
LEMMA TalkStarts ==
  ASSUME Init, BusInv
  PROVE  TalkInv
<1>1. I2cInit /\ slave = Resting /\ sw = "nby" /\ heard = <<>> /\ told = <<>>
  BY DEF Init
<1>2. ZeroByte \in Byte
  BY DEF ZeroByte, Byte
<1>3. ZeroWord \in Word
  BY <1>2 DEF ZeroWord, Word
<1>4. MasterTyped
  <2>1. nby_q \in 1 .. MaxBytes /\ bit_cnt_q \in Bit
    BY <1>1, I2cAssumption DEF I2cInit, Bit
  <2>2. adr_q \in Address
    BY <1>1 DEF I2cInit, Address
  <2>3. rdr_q \in Word
    BY <1>1, BusAssumption DEF I2cInit
  <2> QED BY <1>1, <1>2, <1>3, <2>1, <2>2, <2>3 DEF I2cInit, MasterTyped
<1>5. SlaveTyped
  BY <1>1, I2cAssumption DEF SlaveTyped, Resting
<1>6. Clock /\ scl_was \in {0, 1}
  BY <1>1, I2cAssumption DEF Init, I2cInit, Clock, BitStates, scl
<1>7. Kinds
  BY <1>1 DEF I2cInit, Kinds, Idle
<1>8. Counted /\ Steady /\ Talk
  BY <1>1 DEF I2cInit, Counted, Steady, Talk, BitStates, Polling
<1> QED BY <1>4, <1>5, <1>6, <1>7, <1>8 DEF TalkInv, Sound

\* A step in which nothing happens.
LEMMA TalkStutters ==
  ASSUME TalkInv, BusInv', UNCHANGED vars
  PROVE  TalkInv'
<1> USE DEF vars, i2cVars, regVars, sclVars, fsmVars, busVars
<1>1. UNCHANGED <<i2cVars, busVars>>
  OBVIOUS
<1>2. MasterTyped' /\ SlaveTyped' /\ Clock' /\ Kinds' /\ scl_was' \in {0, 1}
  <2>1. MasterTyped'
    BY DEF TalkInv, Sound, MasterTyped
  <2>2. SlaveTyped'
    BY DEF TalkInv, Sound, SlaveTyped
  <2>3. Clock'
    BY DEF TalkInv, Sound, Clock, scl, FirstCycle, AtRise, AfterRise, BeforeFall
  <2> QED BY <2>1, <2>2, <2>3 DEF TalkInv, Sound, Kinds
<1>3. /\ (Undisturbed' <=> Undisturbed) /\ (Present' <=> Present)
      /\ (BeforeFall' <=> BeforeFall) /\ (AfterRise' <=> AfterRise)
      /\ (FirstCycle' <=> FirstCycle) /\ (Sampled' <=> Sampled)
      /\ (First' <=> First) /\ (LastByte' <=> LastByte)
      /\ sda' = sda /\ (sda_oe' <=> sda_oe)
      /\ UNCHANGED <<slave, heard, told>>
  BY DEF Undisturbed, Present, BeforeFall, AfterRise, FirstCycle, Sampled, First,
     LastByte, sda, sda_oe
<1>4. Clocked' = Clocked /\ Received' = Received
  BY <1>3 DEF Clocked, Received
<1>5. /\ NoBytes => NoBytes'
      /\ AddressByte => AddressByte'
      /\ HeardOK => HeardOK'
      /\ Deaf => Deaf'
  BY <1>3 DEF NoBytes, AddressByte, HeardOK, Deaf
<1>6. ASSUME NEW at
      PROVE  /\ slave.at = at /\ Listening(at) => Listening(at)'
             /\ Whole(at) => Whole(at)'
             /\ AckGiven(at) => AckGiven(at)'
  BY <1>3, <1>4 DEF Listening, Whole, AckGiven
<1>7. Result => Result'
  BY <1>3, ResultHeld
<1>8. /\ InStart => InStart'
      /\ InAddr => InAddr'
  BY <1>3, <1>5, <1>4 DEF InStart, InAddr, Listening
<1>9. InAckAddr => InAckAddr'
  BY <1>3, <1>5 DEF InAckAddr, Whole, AckGiven
<1>10. InTxData => InTxData'
  BY <1>3, <1>4, <1>5 DEF InTxData, Listening
<1>11. InAckTx => InAckTx'
  BY <1>3, <1>5 DEF InAckTx, Whole, AckGiven
<1>12. InRxData => InRxData'
  BY <1>3, <1>4, <1>5 DEF InRxData, ToldKept
<1>13. InAckRx => InAckRx'
  BY <1>3, <1>5 DEF InAckRx, ToldKept, ByteOf
<1>14. /\ InStop => InStop'
       /\ InDone => InDone'
       /\ InIdle => InIdle'
  BY <1>3, <1>7 DEF InStop, InDone, InIdle, Resting
<1>15. Talk => Talk'
  BY <1>8, <1>9, <1>10, <1>11, <1>12, <1>13, <1>14 DEF Talk
<1>16. (Counted => Counted') /\ (Steady => Steady')
  BY <1>3 DEF Counted, Steady, scl
<1> QED BY <1>2, <1>3, <1>15, <1>16 DEF TalkInv, Sound

\* The inductive invariant, for a quarter of a period of two cycles or more.
LEMMA TalkInvAlways ==
  ASSUME PRESCALE > 1
  PROVE  Spec => []TalkInv
<1>1. ASSUME TalkInv, BusInv', [Tick]_vars PROVE TalkInv'
  BY <1>1, TalkStep, TalkStutters DEF Tick
<1> QED BY <1>1, TalkStarts, BusInvAlways, PTL DEF Spec

\* The machine is idle once the software has its done flag.
LEMMA Collected ==
  ASSUME TalkInv, Undisturbed, sw \in {"fetch", "clear"} \/ response.what = "rdr"
  PROVE  InIdle /\ i2c_state_q = "I_IDLE"
<1>1. sw \in {"fetch", "clear"}
  BY DEF TalkInv, Kinds
<1>2. i2c_state_q = "I_IDLE"
  BY <1>1 DEF TalkInv, Sound, BusInv, BusyMeansPolling, Polling
<1> QED BY <1>1, <1>2 DEF TalkInv, Talk

\* For every width, number of bytes, word, address and slave, with two cycles or
\* more to a quarter of SCL (the code has 25): what a slave took is the first of
\* TDR's bytes in order, all NBY of them unless it refused one, and the RDR that
\* software reads holds the bytes the slave gave (i2c_master_axi.sv's state
\* machine, shift registers and byte counter).
THEOREM FaithfulAlways ==
  ASSUME PRESCALE > 1
  PROVE  Spec => []Faithful
<1>1. ASSUME TalkInv, Undisturbed, Written
      PROVE  /\ Len(heard) <= nby_q
             /\ \A k \in 1 .. Len(heard) : heard[k] = tdr_q[k - 1]
             /\ slave.low => Len(heard) = nby_q
             /\ ~Present => heard = <<>>
  <2>1. Result /\ ~is_read_q
    BY <1>1, Collected DEF Written, InIdle
  <2> QED BY <2>1 DEF Result, HeardOK, Agree
<1>2. ASSUME TalkInv, Undisturbed, response.what = "rdr"
      PROVE  /\ Present => Len(told) = nby_q
             /\ \A k \in 1 .. nby_q :
                  response.value[k - 1] =
                    IF Present THEN told[k] ELSE [b \in Bit |-> 1]
  <2>1. is_read_q
    BY <1>2 DEF TalkInv, Kinds
  <2>2. /\ Result /\ response.value = rdr_q /\ rdr_q = rx_buf_q
    BY <1>2, <2>1, Collected DEF InIdle
  <2>3. ToldKept(nby_q)
    BY <2>1, <2>2 DEF Result
  <2> QED BY <2>2, <2>3 DEF ToldKept, Agree, OnesKept, AllOnes
<1>3. TalkInv => Faithful
  BY <1>1, <1>2 DEF Faithful
<1> QED BY <1>3, TalkInvAlways, PTL

\* In the same generality: after a read, and after a write whose last byte the
\* slave refused, the slave has seen STOP and nobody holds SDA (I_STOP of
\* i2c_master_axi.sv).
THEOREM LeavesBusFreeAlways ==
  ASSUME PRESCALE > 1
  PROVE  Spec => []LeavesBusFree
<1>1. ASSUME TalkInv, Undisturbed, i2c_state_q = "I_IDLE",
             \/ sw \in {"fetch", "clear"} /\ is_read_q
             \/ Written /\ Len(heard) < nby_q
      PROVE  slave = Resting /\ sda = 1
  <2>1. InIdle
    BY <1>1, Collected DEF Written
  <2>2. ~slave.low
    BY <1>1, <2>1 DEF InIdle, Result, Written, TalkInv, Sound, MasterTyped
  <2>3. ~sda_oe
    BY <1>1 DEF TalkInv, Sound, BusInv, Released, sda_oe
  <2> QED BY <2>1, <2>2, <2>3 DEF InIdle, sda
<1>2. TalkInv => LeavesBusFree
  BY <1>1 DEF LeavesBusFree
<1> QED BY <1>2, TalkInvAlways, PTL

-----------------------------------------------------------------------------
(***************************************************************************)
(* Ranges of everything, disturbed transfers included.                     *)
(***************************************************************************)
Flags == [tx_en : BOOLEAN, rx_en : BOOLEAN, tx_done : BOOLEAN, rx_done : BOOLEAN]

\* A tenth bit never comes in: SCL has to fall first, which ends the byte.
InByte ==
  /\ slave.n <= ByteBits + 1
  /\ Active /\ scl_was = 0 => slave.n <= ByteBits
WideInv ==
  TalkInv /\ InByte /\ cfg_q \in Flags /\ byte_cnt_q \in 0 .. 2 * MaxBytes - 1

\* The slave counts no more bits than a byte and its acknowledgement have.
LEMMA InByteStep ==
  ASSUME Sound, InByte, NEW op, Edge(op)
  PROVE  InByte'
<1>1. /\ SlaveShape /\ SlaveTyped /\ slave.n \in Nat /\ scl \in {0, 1}
      /\ scl_was' = scl /\ ByteBits \in Nat \ {0, 1} /\ scl_was \in {0, 1}
  BY I2cAssumption DEF Sound, BusInv, SlaveTyped, MasterTyped, Edge, scl
<1>2. CASE Begins(op)
  <2>1. slave' = slave /\ scl_was' = 1
    BY <1>1, <1>2 DEF Edge, Begins, tx_trigger, rx_trigger, Sound, Clock, BitStates
  <2> QED BY <2>1 DEF InByte
<1>3. CASE OnStart \/ OnStop
  <2>1. slave'.n = 0
    BY <1>3 DEF OnStart, OnStop, Resting
  <2> QED BY <1>1, <2>1 DEF InByte
<1>4. CASE Rises /\ OnRise /\ Active
  <2>1. slave'.n = slave.n + 1 /\ scl_was' = 1
    BY <1>1, <1>4, OnRiseFields DEF Rises
  <2>2. slave.n <= ByteBits
    BY <1>4 DEF InByte, Rises
  <2> QED BY <1>1, <2>1, <2>2 DEF InByte
<1>5. CASE OnFall
  <2>1. CASE TakeByte
    <3>1. slave'.n = ByteBits
      BY <1>1, <2>1, TakeByteFields
    <3> QED BY <1>1, <3>1 DEF InByte
  <2>2. CASE AfterAck
    <3>1. slave'.n = 0
      BY <1>1, <2>2, AfterAckFields
    <3> QED BY <1>1, <3>1 DEF InByte
  <2>3. CASE DuringRead
    <3>1. slave'.n = slave.n /\ slave.n \in 1 .. ByteBits
      BY <1>1, <2>3, DuringReadFields
    <3> QED BY <1>1, <3>1 DEF InByte
  <2>4. CASE slave.n < ByteBits /\ slave' = slave
    BY <1>1, <2>4 DEF InByte
  <2> QED BY <1>5, <2>1, <2>2, <2>3, <2>4 DEF OnFall
<1>6. CASE Ignores /\ ~(Falls /\ Active)
  <2>1. slave' = slave /\ (Active' <=> Active)
    BY <1>6 DEF Ignores, Active
  <2>2. Active /\ scl = 0 => scl_was = 0
    BY <1>1, <1>6 DEF Falls
  <2> QED BY <1>1, <2>1, <2>2 DEF InByte
<1>7. Begins(op) \/ Slave
  BY DEF Edge
<1>8. CASE Slave
  BY <1>3, <1>4, <1>5, <1>6, <1>8 DEF Slave, Active
<1> QED BY <1>2, <1>7, <1>8

\* CFG keeps its four flags.
LEMMA FlagsTyped ==
  ASSUME cfg_q \in Flags, NEW op \in Accesses, Registers(op)
  PROVE  cfg_q' \in Flags
<1>1. op.what = "cfg" => op.tx_en \in BOOLEAN /\ op.rx_en \in BOOLEAN
  <2>1. CASE op \in {WriteCfg(tx, rx) : tx \in BOOLEAN, rx \in BOOLEAN}
    BY <2>1 DEF WriteCfg
  <2>2. CASE op \notin {WriteCfg(tx, rx) : tx \in BOOLEAN, rx \in BOOLEAN}
    BY <2>2 DEF Accesses, Idle, ReadCfg, ReadRdr, WriteNby, WriteAdr, WriteTdr
  <2> QED BY <2>1, <2>2
<1>2. \E tx_en, rx_en, tx_done, rx_done \in BOOLEAN :
        cfg_q' = [tx_en |-> tx_en, rx_en |-> rx_en,
                  tx_done |-> tx_done, rx_done |-> rx_done]
  BY <1>1 DEF Registers, Flags
<1> QED BY <1>2 DEF Flags

\* Every register, counter and bit of the slave keeps its range, whatever NBY
\* software writes in the middle of a transfer (the widths of
\* i2c_master_axi.sv's registers).
THEOREM TypeOKAlways ==
  ASSUME PRESCALE > 1
  PROVE  Spec => []TypeOK
<1>1. Init /\ BusInv => WideInv
  <2>1. ASSUME Init
        PROVE  InByte /\ cfg_q \in Flags /\ byte_cnt_q \in 0 .. 2 * MaxBytes - 1
    BY <2>1, I2cAssumption DEF Init, I2cInit, InByte, Resting, Active, Flags
  <2> QED BY <2>1, TalkStarts DEF WideInv
<1>2. WideInv /\ BusInv' /\ [Tick]_vars => WideInv'
  <2>1. ASSUME WideInv, NEW op \in Accesses, Edge(op) PROVE WideInv'
    <3>1. TalkInv'
      BY <2>1, TalkStep DEF WideInv
    <3>2. InByte'
      BY <2>1, InByteStep DEF WideInv, TalkInv
    <3>3. cfg_q' \in Flags
      BY <2>1, FlagsTyped DEF WideInv, Edge, I2cEdge
    <3>4. byte_cnt_q' = byte_cnt_q \/ byte_cnt_q' = 0
          \/ byte_cnt_q' = Following(byte_cnt_q)
      BY <2>1 DEF Edge, I2cEdge, Wait, Start, SendBits, AckAddr, AckTx, RxData,
         AckRx, Stop, Finish, NextByte
    <3>5. byte_cnt_q' \in 0 .. 2 * MaxBytes - 1
      <4>1. Following(byte_cnt_q) \in 0 .. 2 * MaxBytes - 1
        BY <2>1, I2cAssumption DEF WideInv, Following
      <4> QED BY <2>1, <3>4, <4>1, I2cAssumption DEF WideInv
    <3> QED BY <3>1, <3>2, <3>3, <3>5 DEF WideInv
  <2>2. ASSUME WideInv, BusInv', UNCHANGED vars PROVE WideInv'
    <3>1. TalkInv'
      BY <2>2, TalkStutters DEF WideInv
    <3>2. UNCHANGED <<slave, scl_was, cfg_q, byte_cnt_q>>
      BY <2>2 DEF vars, i2cVars, regVars, fsmVars, busVars
    <3> QED BY <2>2, <3>1, <3>2 DEF WideInv, InByte, Active
  <2> QED BY <2>1, <2>2 DEF Tick
<1>3. WideInv => TypeOK
  <2>1. ASSUME WideInv
        PROVE  /\ MasterTyped /\ SlaveTyped /\ Clock /\ Ranges /\ InByte
               /\ cfg_q \in Flags /\ byte_cnt_q \in 0 .. 2 * MaxBytes - 1
    BY <2>1 DEF WideInv, TalkInv, Sound, BusInv
  <2>2. ASSUME WideInv PROVE Len(slave.bits) <= ByteBits
    BY <2>1, <2>2, I2cAssumption DEF SlaveTyped
  <2>3. ASSUME WideInv PROVE slave.n \in 0 .. ByteBits + 1
    BY <2>1, <2>3, I2cAssumption DEF SlaveTyped, InByte
  <2> QED BY <2>1, <2>2, <2>3
          DEF TypeOK, MasterTyped, Clock, Ranges, Flags, States, Bit
<1> QED BY <1>1, <1>2, <1>3, BusInvAlways, PTL DEF Spec
==============================================================================
