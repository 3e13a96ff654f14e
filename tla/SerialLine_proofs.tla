------------------------- MODULE SerialLine_proofs -------------------------
(***************************************************************************)
(* Proofs about the UARTs and their line.  UartLink, for every width of a  *)
(* byte, number of cycles of a bit, alphabet, far end and pace of the      *)
(* software: first the wait of the sender, then, where line and software   *)
(* fit (LinkFits), the receiver.  HelloWorld, where they fit (HelloFits):  *)
(* the program, the host and the answer.                                   *)
(***************************************************************************)
EXTENDS UartLink, HelloWorld, SequenceTheorems, TLAPS

\* The cycles from a bit's counter to the end of the frame's n bits that follow.
AndThen(n) == (Cpb - tx_baud_cnt_q) + n * Cpb

\* The cycles until the transmitter is idle.
Sending ==
  CASE tx_state_q = "TX_START" -> AndThen(DataBits + 1)
    [] tx_state_q = "TX_DATA" -> AndThen(DataBits - tx_bit_cnt_q)
    [] tx_state_q = "TX_STOP" -> AndThen(0)
    [] OTHER -> 0

\* Nobody writes CPB again, and the transmitter's counters keep their range.
TxInRange ==
  /\ cpb_q = Cpb
  /\ tx_state_q \in {"TX_IDLE", "TX_START", "TX_DATA", "TX_STOP"}
  /\ tx_baud_cnt_q \in 0 .. Cpb - 1
  /\ tx_bit_cnt_q \in 0 .. DataBits - 1
  /\ tx_state_q # "TX_DATA" => tx_bit_cnt_q = 0

\* What t1() has still to wait is enough for what is still to be sent.
WaitCovers == quiet \in Nat /\ Sending <= quiet

TxInv == TxInRange /\ WaitCovers

\* A bit takes at least a cycle, and ends in the cycle the counter is at Cpb - 1.
LEMMA BitCycles ==
  ASSUME TxInRange
  PROVE  /\ Cpb \in Nat /\ Cpb >= 1 /\ DataBits \in Nat /\ DataBits >= 1
         /\ BitEnd(tx_baud_cnt_q) <=> tx_baud_cnt_q = Cpb - 1
         /\ ~BitEnd(tx_baud_cnt_q) =>
              /\ Count(tx_baud_cnt_q) = tx_baud_cnt_q + 1
              /\ Count(tx_baud_cnt_q) \in 0 .. Cpb - 1
<1>1. Cpb \in Nat /\ Cpb >= 1 /\ Cpb < BaudMod /\ BaudMod \in Nat
      /\ DataBits \in Nat /\ DataBits >= 1
  BY LineAssumption, UartAssumption
<1>2. BitEnd(tx_baud_cnt_q) <=> tx_baud_cnt_q = Cpb - 1
  BY DEF TxInRange, BitEnd
<1>3. ASSUME tx_baud_cnt_q # Cpb - 1
      PROVE  Count(tx_baud_cnt_q) = tx_baud_cnt_q + 1
  <2>1. tx_baud_cnt_q + 1 \in 0 .. Cpb - 1
    BY <1>1, <1>3 DEF TxInRange
  <2> QED BY <1>1, <2>1 DEF Count
<1> QED BY <1>1, <1>2, <1>3 DEF TxInRange

\* The transmitter gets a cycle nearer to its end in every cycle.
LEMMA SendingFalls ==
  ASSUME TxInRange, TxStart \/ TxData \/ TxStop, cpb_q' = Cpb
  PROVE  TxInRange' /\ Sending' = Sending - 1
<1>0. /\ Cpb \in Nat /\ Cpb >= 1 /\ DataBits \in Nat /\ DataBits >= 1
      /\ BitEnd(tx_baud_cnt_q) <=> tx_baud_cnt_q = Cpb - 1
      /\ ~BitEnd(tx_baud_cnt_q) =>
           /\ Count(tx_baud_cnt_q) = tx_baud_cnt_q + 1
           /\ Count(tx_baud_cnt_q) \in 0 .. Cpb - 1
  BY BitCycles
<1>1. CASE TxStart /\ BitEnd(tx_baud_cnt_q)
  <2>1. /\ tx_state_q' = "TX_DATA" /\ tx_baud_cnt_q' = 0 /\ tx_bit_cnt_q' = 0
        /\ tx_state_q = "TX_START" /\ tx_baud_cnt_q = Cpb - 1
    BY <1>0, <1>1 DEF TxStart, TxInRange
  <2>2. Sending = 1 + (DataBits + 1) * Cpb
    BY <1>0, <2>1 DEF Sending, AndThen
  <2>3. Sending' = Cpb + DataBits * Cpb
    BY <1>0, <2>1 DEF Sending, AndThen
  <2>4. (DataBits + 1) * Cpb = Cpb + DataBits * Cpb /\ DataBits * Cpb \in Nat
    BY <1>0
  <2> QED BY <1>0, <2>1, <2>2, <2>3, <2>4 DEF TxInRange
<1>2. CASE TxStart /\ ~BitEnd(tx_baud_cnt_q)
  <2>1. /\ tx_state_q' = "TX_START" /\ tx_baud_cnt_q' = tx_baud_cnt_q + 1
        /\ tx_baud_cnt_q' \in 0 .. Cpb - 1
        /\ UNCHANGED tx_bit_cnt_q /\ tx_state_q = "TX_START"
    BY <1>0, <1>2 DEF TxStart
  <2>2. (DataBits + 1) * Cpb \in Nat
    BY <1>0
  <2>3. Sending' = Sending - 1
    BY <1>0, <2>1, <2>2 DEF Sending, AndThen, TxInRange
  <2> QED BY <2>1, <2>3 DEF TxInRange
<1>3. CASE TxData /\ BitEnd(tx_baud_cnt_q) /\ ~LastTxBit
  <2>1. /\ tx_state_q' = "TX_DATA" /\ tx_baud_cnt_q' = 0
        /\ tx_bit_cnt_q' = tx_bit_cnt_q + 1 /\ tx_bit_cnt_q # DataBits - 1
        /\ tx_state_q = "TX_DATA" /\ tx_baud_cnt_q = Cpb - 1
    BY <1>0, <1>3 DEF TxData, LastTxBit
  <2>2. tx_bit_cnt_q' \in 0 .. DataBits - 1 /\ tx_bit_cnt_q \in Nat
    BY <1>0, <2>1 DEF TxInRange
  <2>3. Sending = 1 + (DataBits - tx_bit_cnt_q) * Cpb
    BY <1>0, <2>1, <2>2 DEF Sending, AndThen
  <2>4. Sending' = Cpb + (DataBits - (tx_bit_cnt_q + 1)) * Cpb
    BY <1>0, <2>1, <2>2 DEF Sending, AndThen
  <2>5. (DataBits - tx_bit_cnt_q) * Cpb = Cpb + (DataBits - (tx_bit_cnt_q + 1)) * Cpb
        /\ (DataBits - (tx_bit_cnt_q + 1)) * Cpb \in Int
    BY <1>0, <2>2
  <2> QED BY <1>0, <2>1, <2>2, <2>3, <2>4, <2>5 DEF TxInRange
<1>4. CASE TxData /\ BitEnd(tx_baud_cnt_q) /\ LastTxBit
  <2>1. /\ tx_state_q' = "TX_STOP" /\ tx_baud_cnt_q' = 0
        /\ tx_bit_cnt_q' = 0 /\ tx_bit_cnt_q = DataBits - 1
        /\ tx_state_q = "TX_DATA" /\ tx_baud_cnt_q = Cpb - 1
    BY <1>0, <1>4 DEF TxData, LastTxBit
  <2>2. DataBits - tx_bit_cnt_q = 1
    BY <1>0, <2>1
  <2>3. Sending = 1 + 1 * Cpb
    BY <1>0, <2>1, <2>2 DEF Sending, AndThen
  <2>4. Sending' = Cpb
    BY <1>0, <2>1 DEF Sending, AndThen
  <2> QED BY <1>0, <2>1, <2>3, <2>4 DEF TxInRange
<1>5. CASE TxData /\ ~BitEnd(tx_baud_cnt_q)
  <2>1. /\ tx_state_q' = "TX_DATA" /\ tx_baud_cnt_q' = tx_baud_cnt_q + 1
        /\ tx_baud_cnt_q' \in 0 .. Cpb - 1
        /\ UNCHANGED tx_bit_cnt_q /\ tx_state_q = "TX_DATA"
    BY <1>0, <1>5 DEF TxData
  <2>2. (DataBits - tx_bit_cnt_q) * Cpb \in Int
    BY <1>0 DEF TxInRange
  <2>3. Sending' = Sending - 1
    BY <1>0, <2>1, <2>2 DEF Sending, AndThen, TxInRange
  <2> QED BY <2>1, <2>3 DEF TxInRange
<1>6. CASE TxStop /\ BitEnd(tx_baud_cnt_q)
  <2>1. /\ tx_state_q' = "TX_IDLE" /\ tx_baud_cnt_q' = 0
        /\ UNCHANGED tx_bit_cnt_q
        /\ tx_state_q = "TX_STOP" /\ tx_baud_cnt_q = Cpb - 1
    BY <1>0, <1>6 DEF TxStop
  <2>2. Sending = 1 /\ Sending' = 0
    BY <1>0, <2>1 DEF Sending, AndThen
  <2> QED BY <1>0, <2>1, <2>2 DEF TxInRange
<1>7. CASE TxStop /\ ~BitEnd(tx_baud_cnt_q)
  <2>1. /\ tx_state_q' = "TX_STOP" /\ tx_baud_cnt_q' = tx_baud_cnt_q + 1
        /\ tx_baud_cnt_q' \in 0 .. Cpb - 1
        /\ UNCHANGED tx_bit_cnt_q /\ tx_state_q = "TX_STOP"
    BY <1>0, <1>7 DEF TxStop
  <2>2. Sending' = Sending - 1
    BY <1>0, <2>1 DEF Sending, AndThen, TxInRange
  <2> QED BY <2>1, <2>2 DEF TxInRange
<1> QED BY <1>1, <1>2, <1>3, <1>4, <1>5, <1>6, <1>7

\* While a frame is being sent there is still something to wait for.
LEMMA SendingPositive ==
  ASSUME TxInRange
  PROVE  Sending \in Int /\ (tx_state_q # "TX_IDLE" => Sending >= 1)
<1>1. Cpb \in Nat /\ Cpb >= 1 /\ DataBits \in Nat /\ DataBits >= 1
      /\ tx_baud_cnt_q \in 0 .. Cpb - 1 /\ tx_bit_cnt_q \in 0 .. DataBits - 1
  BY BitCycles DEF TxInRange
<1>2. (DataBits + 1) * Cpb \in Nat /\ (DataBits - tx_bit_cnt_q) * Cpb \in Nat
  BY <1>1
<1>3. Cpb - tx_baud_cnt_q \in Nat /\ Cpb - tx_baud_cnt_q >= 1 /\ 0 * Cpb = 0
  BY <1>1
<1> QED BY <1>2, <1>3 DEF Sending, AndThen, TxInRange

\* The software never writes CPB, and TDR only when it has waited.
LEMMA Waited ==
  ASSUME NEW op \in Accesses, Software(op)
  PROVE  op.what # "cpb" /\ (op.what = "tdr" => quiet = 0)
<1>1. CASE response # Idle
  BY <1>1 DEF Software, Receive, Idle
<1>2. CASE response = Idle /\ Poll(op)
  BY <1>2 DEF Poll, ReadCfg
<1>3. CASE response = Idle /\ Fetch(op)
  BY <1>3 DEF Fetch, ReadRdr
<1>4. CASE response = Idle /\ Clear(op)
  BY <1>4 DEF Clear, WriteCfg
<1>5. CASE response = Idle /\ Send(op)
  BY <1>5 DEF Send, WriteTdr
<1>6. CASE response = Idle /\ Elsewhere(op)
  BY <1>6 DEF Elsewhere, Idle
<1> QED BY <1>1, <1>2, <1>3, <1>4, <1>5, <1>6 DEF Software

\* A byte is written to an idle transmitter.
LEMMA WrittenToIdle ==
  ASSUME TxInv, NEW op \in Accesses, Software(op), op.what = "tdr"
  PROVE  tx_state_q = "TX_IDLE"
<1>1. quiet = 0
  BY Waited
<1> QED BY <1>1, SendingPositive DEF TxInv, WaitCovers

\* One clock edge.
LEMMA EdgeKeeps ==
  ASSUME TxInv, NEW op \in Accesses, Edge(op)
  PROVE  TxInv'
<1>1. Software(op) /\ Registers(op) /\ Transmitter(op)
  BY DEF Edge, UartEdge
<1>2. cpb_q' = Cpb
  BY <1>1, Waited DEF Registers, TxInv, TxInRange
<1>3. /\ Cpb \in Nat /\ Cpb >= 1 /\ DataBits \in Nat /\ DataBits >= 1
      /\ FrameCycles \in Nat
      /\ FrameCycles = Cpb + (DataBits + 1) * Cpb
  <2>1. Cpb \in Nat /\ Cpb >= 1 /\ DataBits \in Nat /\ DataBits >= 1
    BY BitCycles DEF TxInv
  <2> QED BY <2>1 DEF FrameCycles
<1>4. quiet \in Nat /\ quiet' = IF op.what = "tdr" THEN FrameCycles
                                ELSE IF quiet = 0 THEN 0 ELSE quiet - 1
  BY DEF Edge, TxInv, WaitCovers
<1>5. quiet' \in Nat
  BY <1>3, <1>4
<1>6. CASE TxIdle(op) /\ tx_start_pulse(op)
  <2>1. /\ tx_state_q' = "TX_START" /\ tx_baud_cnt_q' = 0 /\ tx_bit_cnt_q' = 0
        /\ op.what = "tdr"
    BY <1>6 DEF TxIdle, tx_start_pulse
  <2>2. Sending' = Cpb + (DataBits + 1) * Cpb
    BY <1>3, <2>1 DEF Sending, AndThen
  <2>3. TxInRange'
    BY <1>2, <1>3, <2>1 DEF TxInRange
  <2> QED BY <1>3, <1>4, <1>5, <2>1, <2>2, <2>3 DEF TxInv, WaitCovers
<1>7. CASE TxIdle(op) /\ ~tx_start_pulse(op)
  <2>1. tx_state_q' = "TX_IDLE" /\ tx_baud_cnt_q' = 0 /\ tx_bit_cnt_q' = 0
    BY <1>7 DEF TxIdle
  <2>2. Sending' = 0
    BY <2>1 DEF Sending
  <2>3. TxInRange'
    BY <1>2, <1>3, <2>1 DEF TxInRange
  <2> QED BY <1>5, <2>2, <2>3 DEF TxInv, WaitCovers
<1>8. CASE TxStart \/ TxData \/ TxStop
  <2>1. TxInRange' /\ Sending' = Sending - 1
    BY <1>2, <1>8, SendingFalls DEF TxInv
  <2>2. tx_state_q # "TX_IDLE"
    BY <1>8 DEF TxStart, TxData, TxStop
  <2>3. Sending \in Int /\ Sending >= 1 /\ Sending <= quiet
    BY <2>2, SendingPositive DEF TxInv, WaitCovers
  <2>4. quiet' = quiet - 1
    BY <1>1, <1>4, <2>2, <2>3, WrittenToIdle
  <2> QED BY <1>4, <1>5, <2>1, <2>3, <2>4 DEF TxInv, WaitCovers
<1> QED BY <1>1, <1>6, <1>7, <1>8 DEF Transmitter

\* For every width, bit time and alphabet, whatever the far end does: the wait
\* of a frame's length after a write of TDR (demo_stream.c's t1()) covers what
\* the transmitter has still to send.
THEOREM WaitCoversAlways == Spec => []TxInv
<1>1. Init => TxInv
  <2>1. ASSUME Init PROVE TxInRange
    BY <2>1, LineAssumption, UartAssumption DEF Init, UartInit, TxInRange
  <2>2. ASSUME Init PROVE Sending = 0 /\ quiet = 0
    BY <2>2 DEF Init, UartInit, Sending
  <2> QED BY <2>1, <2>2 DEF TxInv, WaitCovers
<1>2. TxInv /\ [Tick]_vars => TxInv'
  <2>1. ASSUME TxInv, UNCHANGED vars PROVE TxInv'
    BY <2>1 DEF vars, uartVars, regVars, txVars, linkVars, TxInv, TxInRange,
                WaitCovers, Sending, AndThen
  <2> QED BY <2>1, EdgeKeeps DEF Tick
<1> QED BY <1>1, <1>2, PTL DEF Spec

\* Hence every byte t1() writes to TDR is accepted: uart_axi.sv, which drops a
\* byte written while it sends (l.177), never drops one of this program's.
THEOREM WriteAcceptedAlways == Spec => WriteAccepted
<1>1. ASSUME TxInv, [Tick]_vars
      PROVE  [\A byte \in Alphabet :
                Edge(WriteTdr(byte)) => tx_state_q = "TX_IDLE"]_vars
  <2>1. ASSUME NEW byte \in Alphabet, Edge(WriteTdr(byte))
        PROVE  tx_state_q = "TX_IDLE"
    <3>1. WriteTdr(byte) \in Accesses /\ WriteTdr(byte).what = "tdr"
      BY DEF Accesses, WriteTdr
    <3>2. Software(WriteTdr(byte))
      BY <2>1 DEF Edge
    <3> QED BY <1>1, <3>1, <3>2, WrittenToIdle
  <2> QED BY <2>1
<1> QED BY <1>1, WaitCoversAlways, PTL DEF Spec, WriteAccepted

-----------------------------------------------------------------------------
(***************************************************************************)
(* ByteForByte and NothingLost.                                            *)
(*                                                                         *)
(* The line.  A frame's bits are numbered 0 (start) to Stop.               *)
(***************************************************************************)
Stop == DataBits + 1
Bit(byte, b) == IF b = 0 THEN 0 ELSE IF b = Stop THEN 1 ELSE byte[b]

\* level is what a frame of byte with bits of length cycles shows in cycle at.
Shows(level, byte, length, at) ==
  /\ level \in {0, 1}
  /\ at < 0 => level = 1
  /\ \A b \in 0 .. Stop :
       b * length <= at /\ at < (b + 1) * length => level = Bit(byte, b)

Looped == far = 0
BitLength == IF Looped THEN Cpb ELSE far

\* Somebody is sending, since the cycle First of the frame (the transmitter's
\* output is registered: it is a cycle behind its state) and until Over.
Sends == IF Looped THEN tx_state_q # "TX_IDLE" ELSE frame # <<>>
First == IF Looped THEN -1 ELSE 0
Over == First + (Stop + 1) * BitLength

\* The bit that is being sent, and the cycle of the frame.
TxBit == CASE tx_state_q = "TX_START" -> 0
           [] tx_state_q = "TX_DATA" -> tx_bit_cnt_q + 1
           [] OTHER -> Stop
FarBit == Stop + 1 - Len(frame)
At == IF Looped THEN TxBit * Cpb + tx_baud_cnt_q - 1
      ELSE FarBit * far + (far - phase)

\* What the transmitter, and the far end, have still to send are the last bits of
\* byte.
TxToSend(byte) ==
  tx_state_q \in {"TX_START", "TX_DATA"} =>
    \A i \in 1 .. DataBits - tx_bit_cnt_q : tx_shift_q[i] = byte[tx_bit_cnt_q + i]
FarToSend(byte) == \A i \in 1 .. Len(frame) : frame[i] = Bit(byte, FarBit + i - 1)
ToSend(byte) == (Looped => TxToSend(byte)) /\ FarToSend(byte)

\* The line shows a frame of byte, or that nobody sends.
Line(byte) ==
  /\ ToSend(byte)
  /\ IF Sends THEN Shows(Level, byte, BitLength, At) ELSE Level = 1

\* So does the synchroniser, a cycle and two cycles later.
Synchronised(byte) ==
  IF Sends THEN /\ Shows(rx_sync1_q, byte, BitLength, At - 1)
                /\ Shows(rx_sync2_q, byte, BitLength, At - 2)
  ELSE rx_sync1_q = 1 /\ rx_sync2_q = 1

(***************************************************************************)
(* The receiver.                                                           *)
(***************************************************************************)
Listens == rx_state_q # "RX_IDLE"

\* The cycle of the frame in which the receiver believes to be.
RxAt == CASE rx_state_q = "RX_START" -> 1 + rx_baud_cnt_q
          [] rx_state_q = "RX_DATA" -> Sample(rx_bit_cnt_q) + 1 + rx_baud_cnt_q
          [] rx_state_q = "RX_STOP" -> Sample(DataBits) + 1 + rx_baud_cnt_q
          [] OTHER -> 0

\* The bits it has sampled are the first of byte.
Sampled == CASE rx_state_q = "RX_DATA" -> rx_bit_cnt_q
             [] rx_state_q = "RX_STOP" -> DataBits
             [] OTHER -> 0
Heard(byte) ==
  \A i \in 1 .. Sampled : rx_shift_q[DataBits - Sampled + i] = byte[i]

(***************************************************************************)
(* Where line and receiver can be, with sent the byte on the line and      *)
(* received the receiver's, and what is in flight between them.            *)
(***************************************************************************)
Waiting == IF cfg_q.rx_done THEN <<rdr_q>> ELSE <<>>
InFlight(bytes) == pending = Waiting \o bytes

RestPlace == ~Sends /\ ~Listens
StartPlace == Sends /\ At <= 2 /\ ~Listens
FollowPlace == Sends /\ Listens /\ At - 2 = RxAt
\* The byte has been received, and its frame is not over.
TrailPlace == Sends /\ ~Listens /\ Sample(Stop) < At - 2
\* What was left of the last data bit has been taken for a start bit.
MisledPlace ==
  /\ Sends /\ rx_state_q = "RX_START"
  /\ Sample(Stop) < At - 2 - RxAt /\ At - 2 - RxAt < Stop * BitLength
\* The frame is over, and the receiver has not yet seen the end of it.
EndPlace == ~Sends /\ rx_state_q = "RX_STOP" /\ Over <= RxAt + 2
\* Even the next one has begun.
OverlapPlace ==
  /\ Sends /\ rx_state_q = "RX_STOP"
  /\ Over + 1 + (At - First) <= RxAt + 2

Resting == RestPlace /\ InFlight(<<>>)
Starting(sent) == StartPlace /\ InFlight(<<sent>>)
Following(sent, received) == FollowPlace /\ received = sent /\ InFlight(<<sent>>)
Trailing == TrailPlace /\ InFlight(<<>>)
Misled == MisledPlace /\ InFlight(<<>>)
Ending(received) == EndPlace /\ InFlight(<<received>>)
Overlapping(sent, received) == OverlapPlace /\ InFlight(<<received, sent>>)

Somewhere(sent, received) ==
  \/ Resting
  \/ Starting(sent)
  \/ Following(sent, received)
  \/ Trailing
  \/ Misled
  \/ Ending(received)
  \/ Overlapping(sent, received)

Coupled(sent, received) ==
  /\ Line(sent) /\ Synchronised(sent)
  /\ Heard(received)
  /\ Somewhere(sent, received)

(***************************************************************************)
(* The software.                                                           *)
(***************************************************************************)
\* What it knows of the byte in RDR.
Knows ==
  /\ response.what = "cfg" /\ response.value.rx_done => cfg_q.rx_done
  /\ sw # "poll" => cfg_q.rx_done
  /\ response.what = "rdr" => sw = "fetch" /\ response.value = rdr_q
  /\ sw = "fetch" /\ response # Idle => response.what = "rdr"
  /\ sw = "got" => got = rdr_q /\ response = Idle

\* The cycles in which a byte in RDR is read and RX_DONE cleared, at most: what
\* is left of Slack, and then the accesses that are left and their answers.
Serving ==
  CASE sw = "got" -> 1
    [] sw = "fetch" /\ response # Idle -> 2
    [] sw = "fetch" /\ response = Idle -> 3
    [] sw = "poll" /\ response.what = "cfg" /\ response.value.rx_done -> 4
    [] OTHER -> IF Urgent THEN IF response = Idle THEN 5 ELSE 6
                ELSE IF Looped THEN 6 ELSE 5
Left == Slack - age + Serving

\* The byte in RDR is gone before the receiver has the next one, and before the
\* line begins the one after that.
InTime ==
  cfg_q.rx_done =>
    Left + (IF Looped THEN 1 ELSE 2) <= Sample(Stop) + 1 - RxAt

-----------------------------------------------------------------------------
(***************************************************************************)
(* The inductive invariant, with TxInRange.                                *)
(***************************************************************************)
LineTyped ==
  /\ far \in FarBits \cup {0}
  /\ Looped => frame = <<>>
  /\ frame \in Seq({0, 1})
  /\ frame # <<>> => Len(frame) \in 1 .. Stop + 1 /\ phase \in 1 .. far
  /\ tx_o \in {0, 1}
  /\ tx_shift_q \in Bytes

\* The transmitter drives the line, or rests.
TxRests == ~Looped => tx_state_q = "TX_IDLE" /\ tx_o = 1

RxTyped ==
  /\ rx_state_q \in {"RX_IDLE", "RX_START", "RX_DATA", "RX_STOP"}
  /\ rx_state_q = "RX_START" => rx_baud_cnt_q \in 0 .. Half - 1
  /\ rx_state_q \in {"RX_DATA", "RX_STOP"} => rx_baud_cnt_q \in 0 .. Cpb - 1
  /\ rx_bit_cnt_q \in 0 .. DataBits - 1
  /\ rx_state_q # "RX_DATA" => rx_bit_cnt_q = 0
  /\ rx_sync1_q \in {0, 1} /\ rx_sync2_q \in {0, 1}
  /\ rx_shift_q \in Bytes

SwTyped ==
  /\ cfg_q.tx_en = TRUE /\ cfg_q.rx_done \in BOOLEAN
  /\ rdr_q \in Bytes
  /\ sw \in {"poll", "fetch", "got"}
  /\ age \in 0 .. Slack

LinkInv ==
  /\ LineTyped /\ TxRests /\ RxTyped /\ SwTyped /\ Knows /\ InTime
  /\ \E sent, received \in Bytes : Coupled(sent, received)

-----------------------------------------------------------------------------
(***************************************************************************)
(* Numbers.                                                                *)
(***************************************************************************)
\* The constants, without their names.
LEMMA Sizes ==
  ASSUME LineFits
  PROVE  /\ Cpb \in Nat /\ Cpb >= 3 /\ BaudMod \in Nat /\ Cpb < BaudMod
         /\ DataBits \in Nat /\ DataBits >= 1
         /\ Stop \in Nat /\ Stop = DataBits + 1
         /\ Half \in Nat /\ Half >= 1 /\ Half < Cpb /\ 2 * Half <= Cpb
<1>1. Cpb \in Nat /\ Cpb >= 3 /\ BaudMod \in Nat /\ Cpb < BaudMod
  BY LineAssumption, UartAssumption DEF LineFits
<1>2. Half \in Nat /\ Half >= 1 /\ Half < Cpb /\ 2 * Half <= Cpb
  BY <1>1 DEF Half
<1> QED BY <1>1, <1>2, UartAssumption DEF Stop

\* Products grow with their factors.
LEMMA Grows ==
  ASSUME NEW a \in Nat, NEW b \in Nat, NEW c \in Nat, a <= b
  PROVE  a * c <= b * c
<1>1. b * c = a * c + (b - a) * c /\ (b - a) * c \in Nat /\ a * c \in Nat
  OBVIOUS
<1> QED BY <1>1

\* A cycle lies in one bit.
LEMMA OneBit ==
  ASSUME NEW length \in Nat, length > 0, NEW a \in Nat, NEW b \in Nat, NEW at \in Int,
         a * length <= at, at < (a + 1) * length,
         b * length <= at, at < (b + 1) * length
  PROVE  a = b
<1>1. CASE a + 1 <= b
  <2>1. (a + 1) * length <= b * length
    BY <1>1, Grows
  <2>2. (a + 1) * length \in Nat /\ b * length \in Nat
    OBVIOUS
  <2> QED BY <2>1, <2>2
<1>2. CASE b + 1 <= a
  <2>1. (b + 1) * length <= a * length
    BY <1>2, Grows
  <2>2. (b + 1) * length \in Nat /\ a * length \in Nat
    OBVIOUS
  <2> QED BY <2>1, <2>2
<1> QED BY <1>1, <1>2

\* A level that is the bit of the cycle shows the frame.
LEMMA ShowsBit ==
  ASSUME NEW length \in Nat, length > 0, NEW b \in 0 .. Stop, Stop \in Nat,
         NEW at \in Int, b * length <= at, at < (b + 1) * length,
         NEW byte, NEW level \in {0, 1}, level = Bit(byte, b)
  PROVE  Shows(level, byte, length, at)
<1>1. at >= 0
  <2>1. b * length \in Nat
    OBVIOUS
  <2> QED BY <2>1
<1>2. ASSUME NEW c \in 0 .. Stop, c * length <= at, at < (c + 1) * length
      PROVE  level = Bit(byte, c)
  <2>1. b = c
    BY <1>2, OneBit
  <2> QED BY <2>1
<1> QED BY <1>1, <1>2 DEF Shows

\* Before the frame the level is one.
LEMMA ShowsNone ==
  ASSUME NEW length \in Nat, Stop \in Nat, NEW at \in Int, at < 0, NEW byte
  PROVE  Shows(1, byte, length, at)
<1>1. ASSUME NEW c \in 0 .. Stop, c * length <= at
      PROVE  FALSE
  <2>1. c * length \in Nat
    OBVIOUS
  <2> QED BY <1>1, <2>1
<1> QED BY <1>1 DEF Shows

\* The parts of a sum and the samples.
LEMMA Samples ==
  ASSUME LineFits, NEW b \in Nat
  PROVE  /\ Sample(b) \in Nat /\ Sample(b) = Half + b * Cpb /\ b * Cpb \in Nat
         /\ Sample(b + 1) = Sample(b) + Cpb
         /\ Sample(0) = Half
<1>1. b * Cpb \in Nat /\ (b + 1) * Cpb = b * Cpb + Cpb /\ 0 * Cpb = 0
  BY Sizes
<1> QED BY <1>1, Sizes DEF Sample

\* The receiver's own bit length is tolerated.
LEMMA OwnTolerated ==
  ASSUME LineFits
  PROVE  Tolerated(Cpb)
<1>1. DataBits * Cpb <= Sample(DataBits)
  BY Sizes, Samples
<1>2. (DataBits + 2) * Cpb = (DataBits + 1) * Cpb + Cpb /\ (DataBits + 1) * Cpb \in Nat
  BY Sizes
<1>3. Sample(DataBits + 1) = Half + (DataBits + 1) * Cpb
  BY DEF Sample
<1> QED BY <1>1, <1>2, <1>3, Sizes DEF Tolerated

\* Bits that are tolerated are sampled in themselves, and what is left of the
\* last one when the receiver rests again is less than half a bit.
LEMMA SampledInItself ==
  ASSUME LineFits, NEW length \in Nat, Tolerated(length)
  PROVE  /\ length > Half /\ length >= 3
         /\ \A b \in 0 .. DataBits :
              b * length <= Sample(b) /\ Sample(b) < (b + 1) * length
         /\ Stop * length <= Sample(Stop) + 1 + Half
         /\ Sample(Stop) <= (Stop + 1) * length
<1> DEFINE d == length - Cpb
<1>1. d \in Int /\ length = Cpb + d
  BY Sizes
<1>2. DataBits * d <= Half
  <2>1. DataBits * length = DataBits * Cpb + DataBits * d
    BY <1>1, Sizes
  <2>2. DataBits * length <= Half + DataBits * Cpb
    BY DEF Tolerated, Sample
  <2>3. DataBits * d \in Int /\ DataBits * Cpb \in Nat
    BY <1>1, Sizes
  <2> QED BY <2>1, <2>2, <2>3, Sizes
<1>3. Half <= length + Stop * d
  <2>1. (Stop + 1) * length = length + (Stop * Cpb + Stop * d)
    BY <1>1, Sizes
  <2>2. Half + Stop * Cpb <= (Stop + 1) * length
    BY Sizes DEF Tolerated, Sample
  <2>3. Stop * d \in Int /\ Stop * Cpb \in Nat
    BY <1>1, Sizes
  <2> QED BY <2>1, <2>2, <2>3, Sizes
<1>4. ASSUME NEW b \in 0 .. DataBits
      PROVE  b * d <= Half /\ Half < length + b * d
  <2>1. CASE d >= 0
    <3>1. b * d <= DataBits * d /\ b * d >= 0
      BY <1>1, <2>1, Sizes, Grows
    <3>2. DataBits * d \in Int /\ b * d \in Int
      BY <1>1, Sizes
    <3> QED BY <1>1, <1>2, <2>1, <3>1, <3>2, Sizes
  <2>2. CASE d < 0
    <3>1. (0 - d) \in Nat
      BY <1>1, <2>2
    <3>2. b * (0 - d) <= DataBits * (0 - d) /\ b * (0 - d) \in Nat
      BY <3>1, Sizes, Grows
    <3>3. /\ b * (0 - d) = 0 - b * d /\ DataBits * (0 - d) = 0 - DataBits * d
          /\ Stop * d = DataBits * d + d
          /\ b * d \in Int /\ DataBits * d \in Int
      BY <1>1, Sizes
    <3> QED BY <1>1, <1>3, <2>2, <3>2, <3>3, Sizes
  <2> QED BY <1>1, <2>1, <2>2
<1>5. ASSUME NEW b \in 0 .. DataBits
      PROVE  b * length <= Sample(b) /\ Sample(b) < (b + 1) * length
  <2>1. b * length = b * Cpb + b * d /\ (b + 1) * length = length + (b * Cpb + b * d)
    BY <1>1, Sizes
  <2>2. Sample(b) = Half + b * Cpb
    BY DEF Sample
  <2>3. b * d \in Int /\ b * Cpb \in Nat
    BY <1>1, Sizes
  <2> QED BY <1>1, <1>4, <2>1, <2>2, <2>3, Sizes
<1>6. length > Half
  <2>1. 0 \in 0 .. DataBits /\ 0 * d = 0
    BY <1>1, Sizes
  <2> QED BY <1>4, <2>1, Sizes
<1>7. Stop * length <= Sample(Stop) + 1 + Half
  <2>1. Stop * length = Stop * Cpb + (DataBits * d + d)
    BY <1>1, Sizes
  <2>2. d <= Half
    <3>1. CASE d >= 0
      <4>1. 1 * d <= DataBits * d /\ 1 * d = d /\ DataBits * d \in Int
        BY <1>1, <3>1, Sizes, Grows
      <4> QED BY <1>1, <1>2, <4>1, Sizes
    <3> QED BY <1>1, <3>1, Sizes
  <2>3. Sample(Stop) = Half + Stop * Cpb
    BY DEF Sample
  <2>4. DataBits * d \in Int /\ Stop * Cpb \in Nat
    BY <1>1, Sizes
  <2> QED BY <1>1, <1>2, <2>1, <2>2, <2>3, <2>4, Sizes
<1>8. Sample(Stop) <= (Stop + 1) * length
  <2>1. Stop + 1 = DataBits + 2
    BY Sizes
  <2> QED BY <2>1 DEF Tolerated, Stop
<1>9. length >= 3
  <2>1. length >= 2
    BY <1>6, Sizes
  <2>2. ASSUME length = 2 PROVE FALSE
    <3>1. (Stop + 1) * length = 2 * Stop + 2
      BY <2>2, Sizes
    <3>2. Stop * 3 <= Stop * Cpb /\ Stop * 3 = 3 * Stop /\ Stop * Cpb \in Nat
      <4>1. 3 * Stop <= Cpb * Stop
        BY Sizes, Grows
      <4>2. Cpb * Stop = Stop * Cpb /\ 3 * Stop = Stop * 3 /\ Stop * Cpb \in Nat
        BY Sizes
      <4> QED BY <4>1, <4>2
    <3>3. Sample(Stop) = Half + Stop * Cpb
      BY DEF Sample
    <3> QED BY <1>8, <3>1, <3>2, <3>3, Sizes
  <2> QED BY <2>1, <2>2
<1> HIDE DEF d
<1> QED BY <1>5, <1>6, <1>7, <1>8, <1>9

-----------------------------------------------------------------------------
(***************************************************************************)
(* Sequences of bits.                                                      *)
(***************************************************************************)
\* A byte is a sequence.
LEMMA ByteIsSeq ==
  ASSUME NEW byte \in Bytes
  PROVE  byte \in Seq({0, 1}) /\ Len(byte) = DataBits
<1>1. DataBits \in Nat
  BY UartAssumption
<1>2. byte \in [1 .. DataBits -> {0, 1}]
  BY DEF Bytes
<1>3. byte \in Seq({0, 1})
  BY <1>1, <1>2, SeqDef
<1>4. DOMAIN byte = 1 .. Len(byte) /\ Len(byte) \in Nat
  BY <1>3, LenProperties
<1>5. \A i \in Int : 1 <= i /\ i <= Len(byte) <=> 1 <= i /\ i <= DataBits
  BY <1>1, <1>2, <1>4
<1>6. Len(byte) <= DataBits /\ DataBits <= Len(byte)
  BY <1>1, <1>4, <1>5
<1>7. ASSUME NEW n \in Nat, n <= DataBits, DataBits <= n PROVE n = DataBits
  BY <1>1, <1>7
<1>8. Len(byte) = DataBits
  BY <1>4, <1>6, <1>7
<1> QED BY <1>3, <1>8

\* Shifting a bit in.
LEMMA Shifted ==
  ASSUME NEW byte \in Bytes, NEW bit \in {0, 1}
  PROVE  /\ Append(Tail(byte), bit) \in Bytes
         /\ \A i \in 1 .. DataBits - 1 : Append(Tail(byte), bit)[i] = byte[i + 1]
         /\ Append(Tail(byte), bit)[DataBits] = bit
<1>1. /\ byte \in Seq({0, 1}) /\ Len(byte) = DataBits
      /\ DataBits \in Nat /\ DataBits >= 1
  BY ByteIsSeq, UartAssumption
<1>2. byte # <<>>
  BY <1>1, EmptySeq
<1>3. /\ Tail(byte) \in Seq({0, 1}) /\ Len(Tail(byte)) = DataBits - 1
      /\ \A i \in 1 .. DataBits - 1 : Tail(byte)[i] = byte[i + 1]
  BY <1>1, <1>2, HeadTailProperties
<1>4. /\ Append(Tail(byte), bit) \in Seq({0, 1})
      /\ Len(Append(Tail(byte), bit)) = (DataBits - 1) + 1
      /\ \A i \in 1 .. DataBits - 1 : Append(Tail(byte), bit)[i] = Tail(byte)[i]
      /\ Append(Tail(byte), bit)[(DataBits - 1) + 1] = bit
  BY <1>3, AppendProperties
<1>5. Append(Tail(byte), bit) \in [1 .. DataBits -> {0, 1}]
  <2>1. Len(Append(Tail(byte), bit)) = DataBits
    BY <1>1, <1>4
  <2> QED BY <1>4, <2>1, LenProperties
<1>6. (DataBits - 1) + 1 = DataBits
  BY <1>1
<1> QED BY <1>3, <1>4, <1>5, <1>6 DEF Bytes

\* The levels of a frame.
LEMMA NewFrame ==
  ASSUME NEW byte \in Bytes
  PROVE  LET levels == <<0>> \o byte \o <<1>>
         IN  /\ levels \in Seq({0, 1}) /\ Len(levels) = Stop + 1
             /\ \A i \in 1 .. Stop + 1 : levels[i] = Bit(byte, i - 1)
<1> DEFINE start == <<0>> \o byte
           levels == start \o <<1>>
<1>1. /\ byte \in Seq({0, 1}) /\ Len(byte) = DataBits
      /\ DataBits \in Nat /\ DataBits >= 1 /\ Stop = DataBits + 1
  BY ByteIsSeq, UartAssumption DEF Stop
<1>2. /\ <<0>> \in Seq({0, 1}) /\ Len(<<0>>) = 1 /\ <<0>>[1] = 0
      /\ <<1>> \in Seq({0, 1}) /\ Len(<<1>>) = 1 /\ <<1>>[1] = 1
  OBVIOUS
<1>3. /\ start \in Seq({0, 1}) /\ Len(start) = 1 + DataBits
      /\ \A i \in 1 .. 1 + DataBits :
           start[i] = IF i <= 1 THEN <<0>>[i] ELSE byte[i - 1]
  BY <1>1, <1>2, ConcatProperties
<1> HIDE DEF start
<1>4. /\ levels \in Seq({0, 1}) /\ Len(levels) = (1 + DataBits) + 1
      /\ \A i \in 1 .. (1 + DataBits) + 1 :
           levels[i] = IF i <= 1 + DataBits THEN start[i] ELSE <<1>>[i - (1 + DataBits)]
  BY <1>2, <1>3, ConcatProperties
<1> HIDE DEF levels
<1>5. ASSUME NEW i \in 1 .. Stop + 1
      PROVE  levels[i] = Bit(byte, i - 1)
  <2>1. CASE i = 1
    <3>1. levels[i] = start[i] /\ start[i] = <<0>>[i]
      BY <1>1, <1>3, <1>4, <2>1
    <3> QED BY <1>2, <2>1, <3>1 DEF Bit
  <2>2. CASE i \in 2 .. 1 + DataBits
    <3>1. levels[i] = start[i] /\ start[i] = byte[i - 1]
      BY <1>1, <1>3, <1>4, <2>2
    <3>2. i - 1 # 0 /\ i - 1 # Stop
      BY <1>1, <2>2
    <3> QED BY <3>1, <3>2 DEF Bit
  <2>3. CASE i = Stop + 1
    <3>1. levels[i] = <<1>>[i - (1 + DataBits)] /\ i - (1 + DataBits) = 1
      BY <1>1, <1>4, <2>3
    <3>2. i - 1 = Stop /\ i - 1 # 0
      BY <1>1, <2>3
    <3> QED BY <1>2, <3>1, <3>2 DEF Bit
  <2> QED BY <1>1, <2>1, <2>2, <2>3
<1>6. Len(levels) = Stop + 1
  BY <1>1, <1>4
<1>7. levels = <<0>> \o byte \o <<1>>
  BY DEF levels, start
<1> QED BY <1>4, <1>5, <1>6, <1>7

\* The bits of a frame are bits.
LEMMA BitIsBit ==
  ASSUME NEW byte \in Bytes, NEW b \in 0 .. Stop
  PROVE  Bit(byte, b) \in {0, 1}
<1>1. b \in 1 .. DataBits => byte[b] \in {0, 1}
  BY DEF Bytes
<1>2. b \in 1 .. DataBits \/ b = 0 \/ b = Stop
  BY UartAssumption DEF Stop
<1> QED BY <1>1, <1>2 DEF Bit

-----------------------------------------------------------------------------
(***************************************************************************)
(* What the software may do in a cycle.                                    *)
(***************************************************************************)
\* The accesses and when they are made.
LEMMA Accessed ==
  ASSUME NEW op \in Accesses, Software(op)
  PROVE  /\ op.what \in {"none", "read_cfg", "read_rdr", "tdr", "cfg"}
         /\ op.what # "none" => response = Idle
         /\ op.what = "read_cfg" => sw = "poll"
         /\ op.what = "read_rdr" => sw = "fetch"
         /\ op.what = "tdr" => /\ Looped /\ sw = "poll" /\ ~Urgent
                               /\ op.byte \in Bytes
         /\ op.what = "cfg" => /\ sw = "got" /\ sw' = "poll"
                               /\ op.tx_en = TRUE /\ op.rx_done = FALSE
         /\ op.what = "none" =>
              \/ response = Idle /\ ~Urgent /\ UNCHANGED <<sw, got>>
              \/ response # Idle /\ Receive(op)
         /\ op.what \in {"read_cfg", "read_rdr", "tdr"} => UNCHANGED <<sw, got>>
<1>1. CASE response # Idle
  BY <1>1 DEF Software, Receive, Idle
<1>2. CASE response = Idle /\ Poll(op)
  BY <1>2 DEF Poll, ReadCfg
<1>3. CASE response = Idle /\ Fetch(op)
  BY <1>3 DEF Fetch, ReadRdr
<1>4. CASE response = Idle /\ Clear(op)
  BY <1>4 DEF Clear, WriteCfg
<1>5. CASE response = Idle /\ Send(op)
  <2>1. PICK byte \in Alphabet : op = WriteTdr(byte)
    BY <1>5 DEF Send
  <2>2. op.what = "tdr" /\ op.byte = byte /\ byte \in Bytes
    BY <2>1, LinkAssumption DEF WriteTdr
  <2>3. far = 0 /\ sw = "poll" /\ ~Urgent /\ UNCHANGED <<sw, got>>
    BY <1>5 DEF Send
  <2> QED BY <1>5, <2>2, <2>3 DEF Looped
<1>6. CASE response = Idle /\ Elsewhere(op)
  BY <1>6 DEF Elsewhere, Idle
<1> QED BY <1>1, <1>2, <1>3, <1>4, <1>5, <1>6 DEF Software

-----------------------------------------------------------------------------
(***************************************************************************)
(* The line, one cycle.                                                    *)
(***************************************************************************)
\* The length of the bits on the line.
LEMMA Lengths ==
  ASSUME LineFits, LineTyped
  PROVE  /\ BitLength \in Nat /\ BitLength >= 3 /\ BitLength > Half
         /\ Tolerated(BitLength)
         /\ far \in Nat /\ (Looped <=> far = 0)
         /\ Looped => BitLength = Cpb /\ First = -1
         /\ ~Looped => BitLength = far /\ First = 0
         /\ First \in Int /\ Stop * BitLength \in Nat
         /\ Over = First + Stop * BitLength + BitLength /\ Over \in Int
<1>1. CASE Looped
  <2>1. BitLength = Cpb /\ First = -1 /\ far = 0
    BY <1>1 DEF BitLength, First, Looped
  <2>2. BitLength \in Nat /\ Tolerated(BitLength)
    BY <2>1, Sizes, OwnTolerated
  <2>3. BitLength >= 3 /\ BitLength > Half
    BY <2>2, SampledInItself
  <2>4. /\ (Stop + 1) * BitLength = Stop * BitLength + BitLength
        /\ Stop * BitLength \in Nat
    BY <2>2, Sizes
  <2> QED BY <1>1, <2>1, <2>2, <2>3, <2>4 DEF Over, Looped
<1>2. CASE ~Looped
  <2>1. BitLength = far /\ First = 0 /\ far # 0
    BY <1>2 DEF BitLength, First, Looped
  <2>2. BitLength \in Nat /\ Tolerated(BitLength)
    BY <1>2, <2>1, LineAssumption DEF LineTyped, LineFits
  <2>3. BitLength >= 3 /\ BitLength > Half
    BY <2>2, SampledInItself
  <2>4. /\ (Stop + 1) * BitLength = Stop * BitLength + BitLength
        /\ Stop * BitLength \in Nat
    BY <2>2, Sizes
  <2> QED BY <1>2, <2>1, <2>2, <2>3, <2>4 DEF Over, Looped
<1> QED BY <1>1, <1>2

\* Where a frame is while it is being sent.
LEMMA AtRange ==
  ASSUME LineFits, LineTyped, TxInRange, Sends
  PROVE  At \in Int /\ First <= At /\ At < Over
<1>1. CASE Looped
  <2>1. TxBit \in 0 .. Stop /\ tx_baud_cnt_q \in 0 .. Cpb - 1
    BY Sizes DEF TxBit, TxInRange
  <2>2. At = TxBit * Cpb + tx_baud_cnt_q - 1
    BY <1>1 DEF At
  <2>3. TxBit * Cpb <= Stop * Cpb /\ TxBit * Cpb \in Nat /\ Stop * Cpb \in Nat
    BY <2>1, Sizes, Grows
  <2>4. First = -1 /\ Over = -1 + Stop * Cpb + Cpb
    BY <1>1, Lengths
  <2> QED BY <2>1, <2>2, <2>3, <2>4, Sizes
<1>2. CASE ~Looped
  <2>1. frame # <<>>
    BY <1>2 DEF Sends
  <2>2. FarBit \in 0 .. Stop /\ phase \in 1 .. far /\ far \in Nat
    <3>1. Len(frame) \in 1 .. Stop + 1 /\ phase \in 1 .. far
      BY <2>1 DEF LineTyped
    <3>2. FarBit \in 0 .. Stop
      BY <3>1, Sizes DEF FarBit
    <3>3. far \in Nat
      BY Lengths
    <3> QED BY <3>1, <3>2, <3>3
  <2>3. At = FarBit * far + (far - phase)
    BY <1>2 DEF At
  <2>4. FarBit * far <= Stop * far /\ FarBit * far \in Nat /\ Stop * far \in Nat
    BY <2>2, Sizes, Grows
  <2>5. First = 0 /\ Over = 0 + Stop * far + far
    BY <1>2, Lengths
  <2> QED BY <2>2, <2>3, <2>4, <2>5
<1> QED BY <1>1, <1>2

\* What one cycle does to the line.
StaysQuiet == ~Sends /\ ~Sends'
Begins == ~Sends /\ Sends' /\ At' = First
GoesOn == Sends /\ Sends' /\ At' = At + 1
Ends == Sends /\ ~Sends' /\ At = Over - 1

\* Looped back, between two frames.
LEMMA LoopQuiet ==
  ASSUME LineFits, LineTyped, TxInRange, Looped, far' = far, frame' = frame,
         NEW op, TxIdle(op), ~tx_start_pulse(op), NEW byte \in Bytes
  PROVE  StaysQuiet /\ Line(byte)' /\ LineTyped'
<1>1. /\ tx_state_q = "TX_IDLE" /\ tx_state_q' = "TX_IDLE" /\ tx_o' = 1
      /\ tx_shift_q' = tx_shift_q
  BY DEF TxIdle
<1>2. far = 0 /\ far' = 0 /\ frame = <<>> /\ frame' = <<>>
  BY DEF Looped, LineTyped
<1>3. StaysQuiet
  BY <1>1, <1>2 DEF StaysQuiet, Sends, Looped
<1>4. Level' = 1
  BY <1>1, <1>2 DEF Level
<1>5. ToSend(byte)'
  BY <1>1, <1>2 DEF ToSend, TxToSend, FarToSend
<1>6. LineTyped'
  BY <1>1, <1>2 DEF LineTyped, Looped
<1> QED BY <1>3, <1>4, <1>5, <1>6 DEF Line, StaysQuiet

\* Looped back, a byte is written.
LEMMA LoopBegins ==
  ASSUME LineFits, LineTyped, TxInRange, Looped, far' = far, frame' = frame,
         NEW op, TxIdle(op), tx_start_pulse(op), op.byte \in Bytes
  PROVE  Begins /\ Line(op.byte)' /\ LineTyped'
<1>1. /\ tx_state_q = "TX_IDLE" /\ tx_state_q' = "TX_START" /\ tx_o' = 1
      /\ tx_shift_q' = op.byte /\ tx_baud_cnt_q' = 0 /\ tx_bit_cnt_q' = 0
  BY DEF TxIdle
<1>2. far = 0 /\ far' = 0 /\ frame = <<>> /\ frame' = <<>>
  BY DEF Looped, LineTyped
<1>3. Sends' /\ ~Sends /\ Looped'
  BY <1>1, <1>2 DEF Sends, Looped
<1>4. At' = -1 /\ First = -1 /\ BitLength' = Cpb
  <2>1. TxBit' = 0
    BY <1>1 DEF TxBit
  <2>2. At' = 0 * Cpb + 0 - 1
    BY <1>1, <1>3, <2>1 DEF At
  <2>3. 0 * Cpb = 0
    BY Sizes
  <2> QED BY <1>2, <1>3, <2>2, <2>3 DEF First, BitLength, Looped
<1>5. Level' = 1
  BY <1>1, <1>2 DEF Level
<1>6. Shows(Level', op.byte, BitLength', At')
  BY <1>4, <1>5, Sizes, ShowsNone
<1>7. ToSend(op.byte)'
  <2>1. \A i \in 1 .. DataBits - 0 : (0 + i) = i
    BY Sizes
  <2>2. Len(frame') = 0
    BY <1>2
  <2> QED BY <1>1, <1>2, <2>1, <2>2 DEF ToSend, TxToSend, FarToSend
<1>8. LineTyped'
  BY <1>1, <1>2 DEF LineTyped, Looped
<1> QED BY <1>3, <1>4, <1>6, <1>7, <1>8 DEF Line, Begins

\* Looped back, the next cycle of a frame: the bit, its cycle and what is left.
LEMMA LoopTurns ==
  ASSUME LineFits, LineTyped, TxInRange, tx_state_q' # "TX_IDLE",
         TxStart \/ TxData \/ TxStop, NEW byte \in Bytes, TxToSend(byte)
  PROVE  /\ TxBit \in 0 .. Stop
         /\ tx_o' = Bit(byte, TxBit)
         /\ TxBit' * Cpb + tx_baud_cnt_q' - 1 = TxBit * Cpb + tx_baud_cnt_q
         /\ tx_state_q' \in {"TX_START", "TX_DATA"} =>
              \A i \in 1 .. DataBits - tx_bit_cnt_q' :
                tx_shift_q'[i] = byte[tx_bit_cnt_q' + i]
         /\ tx_shift_q' \in Bytes
<1>1. /\ tx_baud_cnt_q \in 0 .. Cpb - 1 /\ tx_bit_cnt_q \in 0 .. DataBits - 1
      /\ BitEnd(tx_baud_cnt_q) <=> tx_baud_cnt_q = Cpb - 1
      /\ ~BitEnd(tx_baud_cnt_q) => Count(tx_baud_cnt_q) = tx_baud_cnt_q + 1
      /\ tx_shift_q \in Bytes
  BY BitCycles DEF TxInRange, LineTyped
<1>2. TxBit \in 0 .. Stop
  BY <1>1, Sizes DEF TxBit
<1>3. TxBit * Cpb \in Nat /\ (TxBit + 1) * Cpb = TxBit * Cpb + Cpb
  BY <1>2, Sizes
<1>4. CASE TxStart
  <2>1. tx_state_q = "TX_START" /\ tx_o' = 0 /\ UNCHANGED <<tx_bit_cnt_q, tx_shift_q>>
    BY <1>4 DEF TxStart
  <2>2. TxBit = 0 /\ tx_bit_cnt_q = 0
    BY <2>1 DEF TxBit, TxInRange
  <2>3. \A i \in 1 .. DataBits - tx_bit_cnt_q' :
          tx_shift_q'[i] = byte[tx_bit_cnt_q' + i]
    BY <2>1 DEF TxToSend
  <2>4. CASE BitEnd(tx_baud_cnt_q)
    <3>1. TxBit' = TxBit + 1 /\ tx_baud_cnt_q' = 0
      BY <1>4, <2>1, <2>2, <2>4 DEF TxStart, TxBit
    <3> QED BY <1>1, <1>2, <1>3, <2>1, <2>2, <2>3, <2>4, <3>1, Sizes DEF Bit
  <2>5. CASE ~BitEnd(tx_baud_cnt_q)
    <3>1. TxBit' = TxBit /\ tx_baud_cnt_q' = tx_baud_cnt_q + 1
      BY <1>1, <1>4, <2>1, <2>2, <2>5 DEF TxStart, TxBit
    <3> QED BY <1>1, <1>2, <1>3, <2>1, <2>2, <2>3, <3>1, Sizes DEF Bit
  <2> QED BY <2>4, <2>5
<1>5. CASE TxData
  <2>1. tx_state_q = "TX_DATA" /\ tx_o' = tx_shift_q[1]
    BY <1>5 DEF TxData
  <2>2. TxBit = tx_bit_cnt_q + 1 /\ TxBit # 0 /\ TxBit # Stop
    BY <1>1, <2>1, Sizes DEF TxBit
  <2>3. /\ \A i \in 1 .. DataBits - tx_bit_cnt_q : tx_shift_q[i] = byte[tx_bit_cnt_q + i]
        /\ tx_shift_q[1] = byte[tx_bit_cnt_q + 1]
    <3>1. \A i \in 1 .. DataBits - tx_bit_cnt_q : tx_shift_q[i] = byte[tx_bit_cnt_q + i]
      BY <2>1 DEF TxToSend
    <3>2. 1 \in 1 .. DataBits - tx_bit_cnt_q
      BY <1>1, Sizes
    <3> QED BY <3>1, <3>2
  <2>4. tx_o' = Bit(byte, TxBit)
    BY <2>1, <2>2, <2>3 DEF Bit
  <2>5. CASE BitEnd(tx_baud_cnt_q)
    <3>1. /\ tx_baud_cnt_q' = 0 /\ tx_shift_q' = Append(Tail(tx_shift_q), 0)
          /\ tx_bit_cnt_q' = IF LastTxBit THEN 0 ELSE tx_bit_cnt_q + 1
          /\ tx_state_q' = IF LastTxBit THEN "TX_STOP" ELSE tx_state_q
      BY <1>5, <2>5 DEF TxData
    <3>2. tx_shift_q' \in Bytes
          /\ \A i \in 1 .. DataBits - 1 : tx_shift_q'[i] = tx_shift_q[i + 1]
      BY <1>1, <3>1, Shifted
    <3>3. TxBit' = TxBit + 1
      BY <1>1, <2>1, <2>2, <3>1, Sizes DEF TxBit, LastTxBit
    <3>4. ASSUME ~LastTxBit, NEW i \in 1 .. DataBits - (tx_bit_cnt_q + 1)
          PROVE  tx_shift_q'[i] = byte[(tx_bit_cnt_q + 1) + i]
      <4>1. i \in 1 .. DataBits - 1 /\ i + 1 \in 1 .. DataBits - tx_bit_cnt_q
        BY <1>1, Sizes
      <4>2. tx_shift_q'[i] = byte[tx_bit_cnt_q + (i + 1)]
        BY <2>3, <3>2, <4>1
      <4>3. tx_bit_cnt_q + (i + 1) = (tx_bit_cnt_q + 1) + i
        BY <1>1
      <4> QED BY <4>2, <4>3
    <3>5. tx_state_q' \in {"TX_START", "TX_DATA"} =>
            \A i \in 1 .. DataBits - tx_bit_cnt_q' :
              tx_shift_q'[i] = byte[tx_bit_cnt_q' + i]
      BY <3>1, <3>4
    <3>6. TxBit' * Cpb + tx_baud_cnt_q' - 1 = TxBit * Cpb + tx_baud_cnt_q
      BY <1>1, <1>3, <2>5, <3>1, <3>3, Sizes
    <3> QED BY <1>2, <2>4, <3>2, <3>5, <3>6
  <2>6. CASE ~BitEnd(tx_baud_cnt_q)
    <3>1. /\ tx_baud_cnt_q' = tx_baud_cnt_q + 1
          /\ UNCHANGED <<tx_state_q, tx_bit_cnt_q, tx_shift_q>>
      BY <1>1, <1>5, <2>6 DEF TxData
    <3>2. TxBit' = TxBit
      BY <3>1 DEF TxBit
    <3>3. TxBit' * Cpb + tx_baud_cnt_q' - 1 = TxBit * Cpb + tx_baud_cnt_q
      BY <1>1, <1>3, <3>1, <3>2, Sizes
    <3> QED BY <1>1, <1>2, <2>3, <2>4, <3>1, <3>3
  <2> QED BY <2>5, <2>6
<1>6. CASE TxStop
  <2>1. /\ tx_state_q = "TX_STOP" /\ tx_o' = 1
        /\ UNCHANGED <<tx_bit_cnt_q, tx_shift_q>>
    BY <1>6 DEF TxStop
  <2>2. /\ tx_state_q' = "TX_STOP" /\ tx_baud_cnt_q' = tx_baud_cnt_q + 1
    BY <1>1, <1>6 DEF TxStop
  <2>3. TxBit = Stop /\ TxBit' = Stop
    BY <2>1, <2>2 DEF TxBit
  <2>4. tx_o' = Bit(byte, TxBit)
    BY <2>1, <2>3, Sizes DEF Bit
  <2>5. TxBit' * Cpb + tx_baud_cnt_q' - 1 = TxBit * Cpb + tx_baud_cnt_q
    BY <1>1, <1>3, <2>2, <2>3, Sizes
  <2> QED BY <1>1, <1>2, <2>1, <2>2, <2>4, <2>5
<1> QED BY <1>4, <1>5, <1>6

\* Looped back, the frame goes on.
LEMMA LoopGoesOn ==
  ASSUME LineFits, LineTyped, TxInRange, Looped, far' = far, frame' = frame,
         tx_state_q' # "TX_IDLE",
         TxStart \/ TxData \/ TxStop, NEW byte \in Bytes, ToSend(byte)
  PROVE  GoesOn /\ Line(byte)' /\ LineTyped'
<1>1. /\ TxBit \in 0 .. Stop
      /\ tx_o' = Bit(byte, TxBit)
      /\ TxBit' * Cpb + tx_baud_cnt_q' - 1 = TxBit * Cpb + tx_baud_cnt_q
      /\ tx_state_q' \in {"TX_START", "TX_DATA"} =>
              \A i \in 1 .. DataBits - tx_bit_cnt_q' :
                tx_shift_q'[i] = byte[tx_bit_cnt_q' + i]
      /\ tx_shift_q' \in Bytes
  BY LoopTurns DEF ToSend
<1>2. far = 0 /\ far' = 0 /\ frame = <<>> /\ frame' = <<>>
  BY DEF Looped, LineTyped
<1>3. tx_state_q # "TX_IDLE" /\ tx_baud_cnt_q \in 0 .. Cpb - 1
  BY DEF TxStart, TxData, TxStop, TxInRange
<1>4. Sends /\ Sends' /\ Looped'
  BY <1>2, <1>3 DEF Sends, Looped
<1>5. At' = TxBit * Cpb + tx_baud_cnt_q /\ At = TxBit * Cpb + tx_baud_cnt_q - 1
      /\ BitLength' = Cpb
  BY <1>1, <1>4 DEF At, BitLength
<1>6. TxBit * Cpb \in Nat /\ (TxBit + 1) * Cpb = TxBit * Cpb + Cpb
  BY <1>1, Sizes
<1>7. At' = At + 1 /\ TxBit * Cpb <= At' /\ At' < (TxBit + 1) * Cpb /\ At' \in Int
  BY <1>3, <1>5, <1>6, Sizes
<1>8. Level' = tx_o' /\ tx_o' \in {0, 1}
  BY <1>1, <1>2, BitIsBit DEF Level
<1>9. Shows(Level', byte, BitLength', At')
  BY <1>1, <1>5, <1>7, <1>8, Sizes, ShowsBit
<1>10. ToSend(byte)'
  <2>1. Len(frame') = 0
    BY <1>2
  <2> QED BY <1>1, <2>1 DEF ToSend, TxToSend, FarToSend
<1>11. LineTyped'
  BY <1>1, <1>2, <1>8 DEF LineTyped, Looped
<1> QED BY <1>4, <1>7, <1>9, <1>10, <1>11 DEF Line, GoesOn

\* Looped back, the end of the frame.
LEMMA LoopEnds ==
  ASSUME LineFits, LineTyped, TxInRange, Looped, far' = far, frame' = frame,
         tx_state_q' = "TX_IDLE",
         TxStart \/ TxData \/ TxStop, NEW byte \in Bytes
  PROVE  Ends /\ Line(byte)' /\ LineTyped'
<1>1. /\ tx_state_q = "TX_STOP" /\ tx_o' = 1
      /\ UNCHANGED <<tx_bit_cnt_q, tx_shift_q>>
      /\ BitEnd(tx_baud_cnt_q)
  BY DEF TxStart, TxData, TxStop
<1>2. far = 0 /\ far' = 0 /\ frame = <<>> /\ frame' = <<>>
  BY DEF Looped, LineTyped
<1>3. tx_baud_cnt_q = Cpb - 1
  BY <1>1, BitCycles
<1>4. Sends /\ ~Sends'
  BY <1>1, <1>2 DEF Sends, Looped
<1>5. At = Over - 1
  <2>1. At = Stop * Cpb + (Cpb - 1) - 1
    BY <1>1, <1>3 DEF At, TxBit
  <2>2. Over = -1 + Stop * Cpb + Cpb /\ Stop * Cpb \in Nat
    BY Lengths
  <2> QED BY <2>1, <2>2, Sizes
<1>6. Level' = 1
  BY <1>1, <1>2 DEF Level
<1>7. ToSend(byte)'
  BY <1>1, <1>2 DEF ToSend, TxToSend, FarToSend
<1>8. LineTyped'
  BY <1>1, <1>2 DEF LineTyped, Looped
<1> QED BY <1>4, <1>5, <1>6, <1>7, <1>8 DEF Line, Ends

\* A far end that does nothing.
LEMMA FarQuiet ==
  ASSUME LineFits, LineTyped, ~Looped, far' = far, FarRests,
         tx_o' \in {0, 1}, tx_shift_q' \in Bytes,
         NEW byte \in Bytes
  PROVE  StaysQuiet /\ Line(byte)' /\ LineTyped'
<1>1. /\ frame = <<>> /\ frame' = <<>> /\ far # 0
  BY DEF FarRests, LineTyped, Looped
<1>2. StaysQuiet
  BY <1>1 DEF StaysQuiet, Sends, Looped
<1>3. Level' = 1
  BY <1>1 DEF Level, FarLevel
<1>4. ToSend(byte)'
  BY <1>1 DEF ToSend, FarToSend, Looped
<1>5. LineTyped'
  BY <1>1 DEF LineTyped, Looped
<1> QED BY <1>2, <1>3, <1>4, <1>5 DEF Line, StaysQuiet

\* The far end begins a frame.
LEMMA FarBegins ==
  ASSUME LineFits, LineTyped, ~Looped, far' = far,
         tx_o' \in {0, 1}, tx_shift_q' \in Bytes,
         NEW byte \in Bytes, FarSends(byte)
  PROVE  Begins /\ Line(byte)' /\ LineTyped'
<1>1. /\ frame = <<>> /\ frame' = <<0>> \o byte \o <<1>> /\ phase' = far
      /\ far # 0 /\ far' = far /\ far \in Nat
  BY Lengths DEF FarSends, LineTyped, Looped
<1>2. /\ frame' \in Seq({0, 1}) /\ Len(frame') = Stop + 1
      /\ \A i \in 1 .. Stop + 1 : frame'[i] = Bit(byte, i - 1)
  BY <1>1, NewFrame
<1>3. frame' # <<>>
  BY <1>2, EmptySeq, Sizes
<1>4. ~Sends /\ Sends' /\ ~Looped'
  BY <1>1, <1>3 DEF Sends, Looped
<1>5. FarBit' = 0
  <2>1. FarBit' = Stop + 1 - (Stop + 1)
    BY <1>2, Zenon DEF FarBit
  <2>2. Stop + 1 - (Stop + 1) = 0
    BY Sizes
  <2> QED BY <2>1, <2>2, Zenon
<1>6. At' = 0 /\ First = 0 /\ BitLength' = far
  <2>1. At' = 0 * far + (far - far)
    BY <1>1, <1>4, <1>5 DEF At
  <2>2. 0 * far = 0
    BY <1>1
  <2> QED BY <1>1, <1>4, <2>1, <2>2 DEF First, BitLength, Looped
<1>7. Level' = 0 /\ Bit(byte, 0) = 0
  <2>1. frame'[1] = Bit(byte, 0)
    BY <1>2, Sizes
  <2>2. Level' = Head(frame')
    BY <1>1, <1>3 DEF Level, FarLevel
  <2>3. Head(frame') = frame'[1]
    OBVIOUS
  <2> QED BY <2>1, <2>2, <2>3 DEF Bit
<1>8. Shows(Level', byte, BitLength', At')
  <2>1. 0 * far <= 0 /\ 0 < (0 + 1) * far /\ far > 0
    BY <1>1
  <2>2. 0 \in 0 .. Stop
    BY Sizes
  <2>3. Shows(0, byte, far, 0)
    BY <1>1, <1>7, <2>1, <2>2, Sizes, ShowsBit
  <2> QED BY <1>6, <1>7, <2>3
<1>9. ToSend(byte)'
  <2>1. ASSUME NEW i \in 1 .. Len(frame')
        PROVE  frame'[i] = Bit(byte, FarBit' + i - 1)
    <3>1. i \in 1 .. Stop + 1 /\ FarBit' + i - 1 = i - 1
      BY <1>2, <1>5, Sizes
    <3> QED BY <1>2, <3>1
  <2> QED BY <1>1, <2>1 DEF ToSend, FarToSend, Looped
<1>10. LineTyped'
  <2>1. Len(frame') \in 1 .. Stop + 1 /\ phase' \in 1 .. far'
    BY <1>1, <1>2, Sizes
  <2> QED BY <1>1, <1>2, <2>1 DEF LineTyped, Looped
<1> QED BY <1>4, <1>6, <1>8, <1>9, <1>10 DEF Line, Begins

\* The far end, the next cycle of a frame: the bit, its cycle and what is left.
LEMMA FarTurns ==
  ASSUME LineFits, LineTyped, ~Looped, far' = far, FarHolds,
         frame' # <<>>, NEW byte \in Bytes, FarToSend(byte)
  PROVE  /\ frame' \in Seq({0, 1}) /\ Len(frame') \in 1 .. Stop + 1
         /\ phase' \in 1 .. far
         /\ \E b \in 0 .. Stop :
              /\ FarBit' = b
              /\ \A i \in 1 .. Len(frame') : frame'[i] = Bit(byte, b + i - 1)
              /\ b * far + (far - phase') = FarBit * far + (far - phase) + 1
<1>0. frame # <<>> /\ frame \in Seq({0, 1})
  BY DEF FarHolds, LineTyped
<1>1. Len(frame) \in 1 .. Stop + 1 /\ phase \in 1 .. far /\ far \in Nat
  BY <1>0, Lengths DEF LineTyped
<1>5. \A i \in 1 .. Len(frame) : frame[i] = Bit(byte, FarBit + i - 1)
  BY DEF FarToSend
<1>2. PICK c \in 0 .. Stop : c = Stop + 1 - Len(frame) /\ FarBit = c
  BY <1>1, Sizes DEF FarBit
<1>6. c * far \in Nat /\ (c + 1) * far = c * far + far
  BY <1>1, Sizes
<1>7. FarBit' = Stop + 1 - Len(frame')
  BY DEF FarBit
<1>3. CASE phase = 1
  <2>1. frame' = Tail(frame)
    BY <1>3 DEF FarHolds
  <2>2. /\ Tail(frame) \in Seq({0, 1}) /\ Len(Tail(frame)) = Len(frame) - 1
        /\ \A i \in 1 .. Len(Tail(frame)) : Tail(frame)[i] = frame[i + 1]
    BY <1>0, HeadTailProperties
  <2>3. Len(frame') = Len(frame) - 1 /\ Len(frame') # 0
    BY <2>1, <2>2, EmptySeq
  <2>4. Len(frame) # 1 /\ Len(frame') \in 1 .. Stop + 1
    <3>1. Stop \in Nat
      BY Sizes
    <3> QED BY <1>1, <2>3, <3>1
  <2>5. phase' = far
    BY <1>3, <2>4 DEF FarHolds
  <2>6. FarBit' = c + 1 /\ c + 1 \in 0 .. Stop
    <3>1. PICK n \in 1 .. Stop + 1 : n = Len(frame') /\ Len(frame) = n + 1
      BY <1>1, <2>3, <2>4
    <3>2. c + 1 = Stop + 1 - n /\ c + 1 \in 0 .. Stop
      <4>1. Stop \in Nat
        BY Sizes
      <4>2. c = Stop + 1 - (n + 1)
        BY <1>2, <3>1
      <4> QED BY <4>1, <4>2
    <3> QED BY <1>7, <3>1, <3>2
  <2>7. ASSUME NEW i \in 1 .. Len(frame')
        PROVE  frame'[i] = Bit(byte, (c + 1) + i - 1)
    <3>1. i + 1 \in 1 .. Len(frame) /\ (c + 1) + i - 1 = c + (i + 1) - 1
          /\ i \in 1 .. Len(Tail(frame))
      BY <1>1, <2>1, <2>3, Sizes
    <3>2. frame[i + 1] = Bit(byte, c + (i + 1) - 1)
      BY <1>2, <1>5, <3>1
    <3> QED BY <2>1, <2>2, <3>1, <3>2
  <2>8. (c + 1) * far + (far - phase') = FarBit * far + (far - phase) + 1
    BY <1>1, <1>2, <1>3, <1>6, <2>5
  <2>9. phase' \in 1 .. far /\ frame' \in Seq({0, 1})
    BY <1>1, <2>1, <2>2, <2>5
  <2> QED BY <2>4, <2>6, <2>7, <2>8, <2>9
<1>4. CASE phase # 1
  <2>1. frame' = frame /\ phase' = phase - 1
    BY <1>1, <1>4 DEF FarHolds
  <2>2. FarBit' = c
    BY <1>2, <1>7, <2>1
  <2>3. c * far + (far - phase') = FarBit * far + (far - phase) + 1
    BY <1>1, <1>2, <1>6, <2>1
  <2>4. phase' \in 1 .. far
    BY <1>1, <1>4, <2>1
  <2>5. \A i \in 1 .. Len(frame') : frame'[i] = Bit(byte, c + i - 1)
    BY <1>2, <1>5, <2>1
  <2> QED BY <1>0, <1>1, <2>1, <2>2, <2>3, <2>4, <2>5
<1> QED BY <1>3, <1>4

\* The far end's frame goes on.
LEMMA FarGoesOn ==
  ASSUME LineFits, LineTyped, TxInRange, ~Looped, far' = far, FarHolds,
         tx_o' \in {0, 1}, tx_shift_q' \in Bytes,
         frame' # <<>>, NEW byte \in Bytes, FarToSend(byte)
  PROVE  GoesOn /\ Line(byte)' /\ LineTyped'
<1>1. frame' \in Seq({0, 1}) /\ Len(frame') \in 1 .. Stop + 1 /\ phase' \in 1 .. far
  BY FarTurns
<1>11. PICK b \in 0 .. Stop :
         /\ FarBit' = b
         /\ \A i \in 1 .. Len(frame') : frame'[i] = Bit(byte, b + i - 1)
         /\ b * far + (far - phase') = FarBit * far + (far - phase) + 1
  BY FarTurns
<1>2. /\ frame # <<>> /\ far # 0 /\ far \in Nat
  BY Lengths DEF FarHolds, LineTyped, Looped
<1>3. Sends /\ Sends' /\ ~Looped'
  BY <1>2 DEF Sends, Looped
<1>4. At \in Int
  BY <1>3, AtRange
<1>5. At' = b * far + (far - phase') /\ At' = At + 1 /\ BitLength' = far
  BY <1>3, <1>11 DEF At, BitLength
<1>6. Level' = frame'[1]
  <2>1. Level' = Head(frame')
    BY <1>2 DEF Level, FarLevel
  <2> QED BY <2>1
<1>7. Level' = Bit(byte, b) /\ Level' \in {0, 1}
  <2>1. 1 \in 1 .. Len(frame') /\ b + 1 - 1 = b
    BY <1>1, Sizes
  <2>2. frame'[1] = Bit(byte, b)
    BY <1>11, <2>1
  <2> QED BY <1>6, <2>2, BitIsBit
<1>8. Shows(Level', byte, BitLength', At')
  <2>1. b * far \in Nat /\ (b + 1) * far = b * far + far
    BY <1>2, Sizes
  <2>2. PICK q \in 1 .. far : q = phase'
    BY <1>1
  <2>5. PICK at \in Int : at = b * far + (far - q)
    <3>1. b * far + (far - q) \in Int
      BY <1>2, <2>1
    <3> QED BY <3>1
  <2>6. at = At'
    BY <1>5, <2>2, <2>5
  <2>3. b * far <= at /\ at < (b + 1) * far /\ far > 0
    BY <1>2, <2>1, <2>5
  <2>4. Shows(Level', byte, far, at)
    BY <1>2, <1>7, <2>3, Sizes, ShowsBit
  <2> QED BY <1>5, <2>4, <2>6
<1>9. ToSend(byte)'
  BY <1>2, <1>11 DEF ToSend, FarToSend, Looped
<1>10. LineTyped'
  BY <1>1, <1>2 DEF LineTyped, Looped
<1> QED BY <1>3, <1>5, <1>8, <1>9, <1>10 DEF Line, GoesOn

\* The end of the far end's frame.
LEMMA FarEnds ==
  ASSUME LineFits, LineTyped, TxInRange, ~Looped, far' = far, FarHolds,
         tx_o' \in {0, 1}, tx_shift_q' \in Bytes,
         frame' = <<>>, NEW byte \in Bytes
  PROVE  Ends /\ Line(byte)' /\ LineTyped'
<1>1. /\ frame # <<>> /\ frame \in Seq({0, 1}) /\ Len(frame) \in 1 .. Stop + 1
      /\ phase \in 1 .. far /\ far \in Nat /\ far # 0
  BY Lengths DEF FarHolds, LineTyped, Looped
<1>2. phase = 1 /\ frame' = Tail(frame)
  BY <1>1 DEF FarHolds
<1>3. Len(frame) = 1
  <2>1. Len(Tail(frame)) = Len(frame) - 1
    BY <1>1, HeadTailProperties
  <2>2. Tail(frame) = <<>> /\ Len(<<>>) = 0
    BY <1>2
  <2>3. Len(frame) - 1 = 0
    BY <2>1, <2>2
  <2> QED BY <1>1, <2>3
<1>4. Sends /\ ~Sends'
  BY <1>1 DEF Sends, Looped
<1>5. At = Over - 1
  <2>1. FarBit = Stop
    BY <1>3, Sizes DEF FarBit
  <2>2. At = Stop * far + (far - 1)
    BY <1>2, <2>1 DEF At
  <2>3. Over = 0 + Stop * far + far /\ Stop * far \in Nat
    BY Lengths
  <2> QED BY <1>1, <2>2, <2>3
<1>6. Level' = 1
  BY <1>1 DEF Level, FarLevel
<1>7. ToSend(byte)'
  BY <1>1 DEF ToSend, FarToSend, Looped
<1>8. LineTyped'
  BY <1>1 DEF LineTyped, Looped
<1> QED BY <1>4, <1>5, <1>6, <1>7, <1>8 DEF Line, Ends

\* One cycle of the line, and the bytes that are pending.
LEMMA LineStep ==
  ASSUME LineFits, TxInRange, LineTyped, TxRests, NEW op \in Accesses, Edge(op),
         NEW sent \in Bytes, Line(sent)
  PROVE  /\ far' = far /\ LineTyped'
         /\ \/ StaysQuiet /\ pending' = Rest(op) /\ Line(sent)'
            \/ Begins /\ \E byte \in Bytes :
                 pending' = Append(Rest(op), byte) /\ Line(byte)'
            \/ GoesOn /\ pending' = Rest(op) /\ Line(sent)'
            \/ Ends /\ pending' = Rest(op) /\ Line(sent)'
<1>1. Software(op) /\ Transmitter(op) /\ far' = far
  BY DEF Edge, UartEdge
<1>2. op.what = "tdr" => Looped /\ op.byte \in Bytes
  BY <1>1, Accessed
<1>3. tx_start_pulse(op) => op.what = "tdr" /\ tx_state_q = "TX_IDLE"
  BY DEF tx_start_pulse
<1>4. ToSend(sent)
  BY DEF Line
<1>5. CASE Looped
  <2>1. far = 0 /\ frame = <<>>
    BY <1>5 DEF Looped, LineTyped
  <2>2. /\ frame' = frame
        /\ pending' = IF tx_start_pulse(op) THEN Append(Rest(op), op.byte) ELSE Rest(op)
    BY <2>1 DEF Edge, FarSends, FarHolds, FarRests
  <2>3. CASE TxIdle(op) /\ tx_start_pulse(op)
    <3>1. op.byte \in Bytes
      BY <1>2, <1>3, <2>3
    <3>2. Begins /\ Line(op.byte)' /\ LineTyped'
      BY <1>1, <1>5, <2>2, <2>3, <3>1, LoopBegins
    <3>3. pending' = Append(Rest(op), op.byte)
      BY <2>2, <2>3
    <3> QED BY <1>1, <3>1, <3>2, <3>3
  <2>4. CASE TxIdle(op) /\ ~tx_start_pulse(op)
    <3>1. StaysQuiet /\ Line(sent)' /\ LineTyped'
      BY <1>1, <1>5, <2>2, <2>4, LoopQuiet
    <3>2. pending' = Rest(op)
      BY <2>2, <2>4
    <3> QED BY <1>1, <3>1, <3>2
  <2>5. CASE TxStart \/ TxData \/ TxStop
    <3>1. pending' = Rest(op)
      <4>1. tx_state_q # "TX_IDLE"
        BY <2>5 DEF TxStart, TxData, TxStop
      <4> QED BY <1>3, <2>2, <4>1
    <3>2. CASE tx_state_q' = "TX_IDLE"
      <4>1. Ends /\ Line(sent)' /\ LineTyped'
        BY <1>1, <1>5, <2>2, <2>5, <3>2, LoopEnds
      <4> QED BY <1>1, <3>1, <4>1
    <3>3. CASE tx_state_q' # "TX_IDLE"
      <4>1. GoesOn /\ Line(sent)' /\ LineTyped'
        BY <1>1, <1>4, <1>5, <2>2, <2>5, <3>3, LoopGoesOn
      <4> QED BY <1>1, <3>1, <4>1
    <3> QED BY <3>2, <3>3
  <2> QED BY <1>1, <2>3, <2>4, <2>5 DEF Transmitter
<1>6. CASE ~Looped
  <2>1. tx_state_q = "TX_IDLE" /\ ~tx_start_pulse(op)
    BY <1>2, <1>3, <1>6 DEF TxRests
  <2>2. TxIdle(op)
    BY <1>1, <2>1 DEF Transmitter, TxStart, TxData, TxStop
  <2>3. tx_state_q' = tx_state_q /\ tx_o' = 1 /\ tx_shift_q' \in Bytes
    BY <2>1, <2>2 DEF TxIdle, LineTyped
  <2>4. CASE (FarRests \/ FarHolds) /\ pending' = Rest(op)
    <3>1. CASE FarRests
      <4>1. StaysQuiet /\ Line(sent)' /\ LineTyped'
        BY <1>1, <1>6, <2>3, <3>1, FarQuiet
      <4> QED BY <1>1, <2>4, <4>1
    <3>2. CASE FarHolds /\ frame' = <<>>
      <4>1. Ends /\ Line(sent)' /\ LineTyped'
        BY <1>1, <1>6, <2>3, <3>2, FarEnds
      <4> QED BY <1>1, <2>4, <4>1
    <3>3. CASE FarHolds /\ frame' # <<>>
      <4>1. GoesOn /\ Line(sent)' /\ LineTyped'
        BY <1>1, <1>4, <1>6, <2>3, <3>3, FarGoesOn DEF ToSend
      <4> QED BY <1>1, <2>4, <4>1
    <3> QED BY <2>4, <3>1, <3>2, <3>3
  <2>5. CASE \E byte \in Alphabet : FarSends(byte) /\ pending' = Append(Rest(op), byte)
    <3>1. PICK byte \in Alphabet : FarSends(byte) /\ pending' = Append(Rest(op), byte)
      BY <2>5
    <3>2. byte \in Bytes
      BY LinkAssumption
    <3>3. Begins /\ Line(byte)' /\ LineTyped'
      BY <1>1, <1>6, <2>3, <3>1, <3>2, FarBegins
    <3> QED BY <1>1, <3>1, <3>2, <3>3
  <2>6. \/ (FarRests \/ FarHolds) /\ pending' = Rest(op)
        \/ \E byte \in Alphabet : FarSends(byte) /\ pending' = Append(Rest(op), byte)
    BY <2>1, <1>6 DEF Edge, Looped
  <2> QED BY <2>4, <2>5, <2>6
<1> QED BY <1>5, <1>6

\* The length of the bits on the line never changes.
LEMMA LengthsStay ==
  ASSUME far' = far
  PROVE  /\ Looped' = Looped /\ First' = First
         /\ BitLength' = BitLength /\ Over' = Over
  BY DEF Looped, First, BitLength, Over

\* A transmitter that does not drive the line is not written to.
LEMMA TxRestsStep ==
  ASSUME TxRests, NEW op \in Accesses, Edge(op)
  PROVE  TxRests'
<1>1. Software(op) /\ Transmitter(op) /\ far' = far
  BY DEF Edge, UartEdge
<1>2. op.what = "tdr" => Looped
  BY <1>1, Accessed
<1>3. ASSUME ~Looped PROVE tx_state_q' = "TX_IDLE" /\ tx_o' = 1
  <2>1. tx_state_q = "TX_IDLE" /\ ~tx_start_pulse(op)
    BY <1>2, <1>3 DEF TxRests, tx_start_pulse
  <2>2. TxIdle(op)
    BY <1>1, <2>1 DEF Transmitter, TxStart, TxData, TxStop
  <2> QED BY <2>1, <2>2 DEF TxIdle
<1> QED BY <1>1, <1>3, LengthsStay DEF TxRests

\* What is shown moves on a cycle through the synchroniser.
LEMMA SynchronisedStep ==
  ASSUME LineFits, TxInRange, LineTyped, far' = far,
         NEW sent \in Bytes, Line(sent), Synchronised(sent), Receiver(Level)
  PROVE  /\ StaysQuiet => \A byte : Synchronised(byte)'
         /\ Begins => \A byte : Synchronised(byte)'
         /\ GoesOn => Synchronised(sent)'
         /\ Ends => \A byte : Synchronised(byte)'
<1>1. rx_sync1_q' = Level /\ rx_sync2_q' = rx_sync1_q
  BY DEF Receiver
<1>2. BitLength' = BitLength
  BY LengthsStay
<1>3. CASE StaysQuiet
  <2>1. Level = 1 /\ rx_sync1_q = 1 /\ ~Sends'
    BY <1>3 DEF Line, Synchronised, StaysQuiet
  <2> QED BY <1>1, <1>3, <2>1 DEF Synchronised, StaysQuiet, Begins, GoesOn, Ends
<1>4. CASE Begins
  <2>1. Level = 1 /\ rx_sync1_q = 1 /\ Sends' /\ ~Sends /\ At' = First
    BY <1>4 DEF Line, Synchronised, Begins
  <2>2. PICK at \in Int : at = First /\ at <= 0
    <3>1. First = -1 \/ First = 0
      BY DEF First
    <3> QED BY <3>1
  <2>3. BitLength \in Nat /\ Stop \in Nat
    BY Lengths, Sizes
  <2>4. ASSUME NEW byte
        PROVE  Shows(1, byte, BitLength, at - 1) /\ Shows(1, byte, BitLength, at - 2)
    BY <2>2, <2>3, ShowsNone
  <2>5. ASSUME NEW byte
        PROVE  Synchronised(byte)'
    <3>1. At' = at
      BY <2>1, <2>2
    <3> QED BY <1>1, <1>2, <2>1, <2>4, <3>1 DEF Synchronised
  <2> QED BY <2>1, <2>5 DEF StaysQuiet, Begins, GoesOn, Ends
<1>5. CASE GoesOn
  <2>1. /\ Sends /\ Sends' /\ At' = At + 1
        /\ Shows(Level, sent, BitLength, At)
        /\ Shows(rx_sync1_q, sent, BitLength, At - 1)
    BY <1>5 DEF Line, Synchronised, GoesOn
  <2>2. PICK at \in Int : at = At
    BY <2>1, AtRange
  <2>3. at + 1 - 1 = at /\ at + 1 - 2 = at - 1
    OBVIOUS
  <2>4. Synchronised(sent)'
    BY <1>1, <1>2, <2>1, <2>2, <2>3 DEF Synchronised
  <2> QED BY <2>1, <2>4 DEF StaysQuiet, Begins, GoesOn, Ends
<1>6. CASE Ends
  <2>1. /\ Sends /\ ~Sends' /\ At = Over - 1
        /\ Shows(Level, sent, BitLength, At)
        /\ Shows(rx_sync1_q, sent, BitLength, At - 1)
    BY <1>6 DEF Line, Synchronised, Ends
  <2>2. PICK at \in Int : at = At
    BY <2>1, AtRange
  <2>3. /\ Stop * BitLength <= at /\ at < Stop * BitLength + BitLength
        /\ Stop * BitLength <= at - 1 /\ at - 1 < Stop * BitLength + BitLength
    <3>1. First + BitLength >= 2 /\ First <= 0 /\ First \in Int /\ BitLength \in Nat
      BY Lengths, Sizes
    <3>2. Stop * BitLength \in Nat /\ at = First + Stop * BitLength + BitLength - 1
      BY <2>1, <2>2, Lengths
    <3> QED BY <3>1, <3>2
  <2>4. (Stop + 1) * BitLength = Stop * BitLength + BitLength /\ Stop \in 0 .. Stop
    BY Lengths, Sizes
  <2>5. Bit(sent, Stop) = 1
    BY Sizes DEF Bit
  <2>6. Level = 1 /\ rx_sync1_q = 1
    BY <2>1, <2>2, <2>3, <2>4, <2>5 DEF Shows
  <2> QED BY <1>1, <2>1, <2>6 DEF Synchronised, StaysQuiet, Begins, GoesOn, Ends
<1>7. CASE ~StaysQuiet /\ ~Begins /\ ~GoesOn /\ ~Ends
  BY <1>7
<1> QED BY <1>3, <1>4, <1>5, <1>6, <1>7

-----------------------------------------------------------------------------
(***************************************************************************)
(* The receiver, one cycle.                                                *)
(***************************************************************************)
\* Its state and the cycle it believes to be in.
LEMMA RxPlace ==
  ASSUME LineFits, RxTyped
  PROVE  /\ RxAt \in Nat
         /\ rx_state_q = "RX_IDLE" => RxAt = 0
         /\ rx_state_q = "RX_START" => 1 <= RxAt /\ RxAt <= Half
         /\ rx_state_q = "RX_DATA" => Half < RxAt /\ RxAt <= Sample(DataBits)
         /\ rx_state_q = "RX_STOP" => Sample(DataBits) < RxAt /\ RxAt <= Sample(Stop)
         /\ Half < Sample(DataBits) /\ Sample(Stop) = Sample(DataBits) + Cpb
         /\ Sample(DataBits) \in Nat /\ Sample(Stop) \in Nat
<1>1. Sample(DataBits) \in Nat /\ Sample(Stop) = Sample(DataBits) + Cpb
      /\ Half < Sample(DataBits)
  <2>1. 1 * Cpb <= DataBits * Cpb /\ DataBits * Cpb \in Nat
    BY Sizes, Grows
  <2>2. Sample(DataBits) = Half + DataBits * Cpb
    BY DEF Sample
  <2>3. Sample(Stop) = Sample(DataBits) + Cpb
    BY Sizes, Samples
  <2> QED BY <2>1, <2>2, <2>3, Sizes
<1>2. CASE rx_state_q = "RX_IDLE"
  <2>1. RxAt = 0
    BY <1>2 DEF RxAt
  <2> QED BY <1>1, <1>2, <2>1, Sizes
<1>3. CASE rx_state_q = "RX_START"
  <2>1. RxAt = 1 + rx_baud_cnt_q /\ rx_baud_cnt_q \in 0 .. Half - 1
    BY <1>3 DEF RxAt, RxTyped
  <2> QED BY <1>1, <1>3, <2>1, Sizes
<1>4. CASE rx_state_q = "RX_DATA"
  <2>1. /\ RxAt = Sample(rx_bit_cnt_q) + 1 + rx_baud_cnt_q
        /\ rx_baud_cnt_q \in 0 .. Cpb - 1 /\ rx_bit_cnt_q \in 0 .. DataBits - 1
    BY <1>4 DEF RxAt, RxTyped
  <2>2. Sample(rx_bit_cnt_q) = Half + rx_bit_cnt_q * Cpb /\ rx_bit_cnt_q * Cpb \in Nat
    BY <2>1, Sizes, Samples
  <2>3. (rx_bit_cnt_q + 1) * Cpb <= DataBits * Cpb
        /\ (rx_bit_cnt_q + 1) * Cpb = rx_bit_cnt_q * Cpb + Cpb
    BY <2>1, Sizes, Grows
  <2>4. Sample(DataBits) = Half + DataBits * Cpb /\ DataBits * Cpb \in Nat
    BY Sizes, Samples
  <2> QED BY <1>1, <1>4, <2>1, <2>2, <2>3, <2>4, Sizes
<1>5. CASE rx_state_q = "RX_STOP"
  <2>1. /\ RxAt = Sample(DataBits) + 1 + rx_baud_cnt_q
        /\ rx_baud_cnt_q \in 0 .. Cpb - 1
    BY <1>5 DEF RxAt, RxTyped
  <2> QED BY <1>1, <1>5, <2>1, Sizes
<1> QED BY <1>2, <1>3, <1>4, <1>5 DEF RxTyped

\* What one cycle does to the receiver.
Idles == ~Listens /\ ~Listens' /\ rx_sync2_q = 1
Hits == ~Listens /\ rx_state_q' = "RX_START" /\ RxAt' = 1 /\ rx_sync2_q = 0
Rejects ==
  rx_state_q = "RX_START" /\ RxAt = Half /\ rx_sync2_q = 1 /\ ~Listens'
CountsOn ==
  /\ Listens /\ Listens' /\ RxAt' = RxAt + 1
  /\ RxAt # Sample(Stop)
  /\ RxAt >= Sample(DataBits) => rx_state_q' = "RX_STOP"
  /\ rx_state_q = "RX_STOP" => rx_state_q' = "RX_STOP"
  /\ rx_state_q = "RX_START" /\ RxAt # Half => rx_state_q' = "RX_START"
  /\ rx_state_q = "RX_START" /\ RxAt = Half => rx_sync2_q = 0
Finishes == rx_state_q = "RX_STOP" /\ RxAt = Sample(Stop) /\ ~Listens'

\* A byte is done in the last cycle of RX_STOP.
LEMMA DoneWhen ==
  ASSUME LineFits, RxTyped, cpb_q = Cpb
  PROVE  rx_done_pulse <=> rx_state_q = "RX_STOP" /\ RxAt = Sample(Stop)
<1>1. CASE rx_state_q = "RX_STOP"
  <2>1. /\ RxAt = Sample(DataBits) + 1 + rx_baud_cnt_q
        /\ rx_baud_cnt_q \in 0 .. Cpb - 1
    BY <1>1 DEF RxAt, RxTyped
  <2>2. rx_done_pulse <=> rx_baud_cnt_q = Cpb - 1
    BY <1>1 DEF rx_done_pulse, BitEnd
  <2>3. Sample(DataBits) \in Nat /\ Sample(Stop) = Sample(DataBits) + Cpb
    BY RxPlace
  <2> QED BY <1>1, <2>1, <2>2, <2>3, Sizes
<1> QED BY <1>1 DEF rx_done_pulse

\* What RX_IDLE does.
LEMMA RxFromIdle ==
  ASSUME LineFits, RxTyped, RxIdle, rx_sync1_q' \in {0, 1}, rx_sync2_q' \in {0, 1}
  PROVE  RxTyped' /\ (Idles \/ Hits) /\ \A byte : Heard(byte)'
<1>1. /\ rx_state_q = "RX_IDLE" /\ rx_baud_cnt_q' = 0 /\ rx_bit_cnt_q' = 0
      /\ rx_state_q' = IF rx_sync2_q = 0 THEN "RX_START" ELSE "RX_IDLE"
      /\ rx_shift_q' = rx_shift_q /\ rx_shift_q \in Bytes /\ rx_sync2_q \in {0, 1}
  BY DEF RxIdle, RxTyped
<1>2. RxTyped'
  BY <1>1, Sizes DEF RxTyped
<1>3. Idles \/ Hits
  BY <1>1 DEF Idles, Hits, Listens, RxAt
<1>4. Sampled' = 0
  BY <1>1 DEF Sampled
<1> QED BY <1>2, <1>3, <1>4 DEF Heard

\* What RX_START does.
LEMMA RxFromStart ==
  ASSUME LineFits, RxTyped, cpb_q = Cpb, RxStart,
         rx_sync1_q' \in {0, 1}, rx_sync2_q' \in {0, 1}
  PROVE  RxTyped' /\ (Rejects \/ CountsOn) /\ \A byte : Heard(byte)'
<1>1. /\ rx_state_q = "RX_START" /\ rx_baud_cnt_q \in 0 .. Half - 1
      /\ rx_bit_cnt_q = 0 /\ rx_bit_cnt_q' = 0
      /\ rx_shift_q' = rx_shift_q /\ rx_shift_q \in Bytes /\ rx_sync2_q \in {0, 1}
  BY DEF RxStart, RxTyped
<1>2. RxAt = 1 + rx_baud_cnt_q /\ Sample(0) = Half
  BY <1>1, Samples DEF RxAt
<1>7. ~(RxAt >= Sample(DataBits)) /\ RxAt # Sample(Stop)
  BY <1>1, RxPlace, Sizes
<1>3. Middle(rx_baud_cnt_q) <=> RxAt = Half
  <2>1. Middle(rx_baud_cnt_q) <=> rx_baud_cnt_q = Half - 1
    BY DEF Middle, Half
  <2> QED BY <1>1, <1>2, <2>1, Sizes
<1>4. CASE Middle(rx_baud_cnt_q) /\ rx_sync2_q = 0
  <2>1. rx_baud_cnt_q' = 0 /\ rx_state_q' = "RX_DATA"
    BY <1>4 DEF RxStart
  <2>2. RxAt' = Sample(0) + 1 + 0
    BY <1>1, <2>1 DEF RxAt
  <2>3. RxTyped'
    BY <1>1, <2>1, Sizes DEF RxTyped
  <2>4. Sampled' = 0
    BY <1>1, <2>1 DEF Sampled
  <2>5. RxAt' = RxAt + 1
    BY <1>2, <1>3, <1>4, <2>2, Sizes
  <2>6. CountsOn
    BY <1>1, <1>3, <1>4, <1>7, <2>1, <2>5 DEF CountsOn, Listens
  <2> QED BY <2>3, <2>4, <2>6 DEF Heard
<1>5. CASE Middle(rx_baud_cnt_q) /\ rx_sync2_q = 1
  <2>1. rx_state_q' = "RX_IDLE"
    BY <1>5 DEF RxStart
  <2>2. RxTyped'
    BY <1>1, <2>1, Sizes DEF RxTyped
  <2>3. Sampled' = 0
    BY <2>1 DEF Sampled
  <2>4. Rejects
    BY <1>1, <1>3, <1>5, <2>1 DEF Rejects, Listens
  <2> QED BY <2>2, <2>3, <2>4 DEF Heard
<1>6. CASE ~Middle(rx_baud_cnt_q)
  <2>1. rx_state_q' = "RX_START" /\ rx_baud_cnt_q' = Count(rx_baud_cnt_q)
    BY <1>1, <1>6 DEF RxStart
  <2>2. RxAt # Half
    BY <1>3, <1>6
  <2>3. rx_baud_cnt_q + 1 \in 0 .. Half - 1
    BY <1>1, <1>2, <2>2, Sizes
  <2>4. rx_baud_cnt_q' = rx_baud_cnt_q + 1
    BY <2>1, <2>3, Sizes DEF Count
  <2>5. RxTyped'
    BY <1>1, <2>1, <2>3, <2>4, Sizes DEF RxTyped
  <2>6. Sampled' = 0
    BY <2>1 DEF Sampled
  <2>7. RxAt' = RxAt + 1
    <3>1. RxAt' = 1 + rx_baud_cnt_q'
      BY <2>1 DEF RxAt
    <3> QED BY <1>1, <1>2, <2>4, <3>1, Sizes
  <2>8. CountsOn
    BY <1>1, <1>7, <2>1, <2>2, <2>7 DEF CountsOn, Listens
  <2> QED BY <2>5, <2>6, <2>8 DEF Heard
<1> QED BY <1>1, <1>4, <1>5, <1>6

\* What RX_DATA does: every bit is the one that the synchroniser shows in the
\* cycle of its sample.
LEMMA RxFromData ==
  ASSUME LineFits, RxTyped, cpb_q = Cpb, RxData,
         rx_sync1_q' \in {0, 1}, rx_sync2_q' \in {0, 1}
  PROVE  /\ RxTyped' /\ CountsOn
         /\ \A byte :
              /\ Heard(byte)
              /\ \A b \in 1 .. DataBits : RxAt = Sample(b) => rx_sync2_q = byte[b]
              => Heard(byte)'
<1>1. /\ rx_state_q = "RX_DATA" /\ rx_baud_cnt_q \in 0 .. Cpb - 1
      /\ rx_bit_cnt_q \in 0 .. DataBits - 1
      /\ rx_shift_q \in Bytes /\ rx_sync2_q \in {0, 1}
  BY DEF RxData, RxTyped
<1>2. RxAt = Sample(rx_bit_cnt_q) + 1 + rx_baud_cnt_q /\ Sampled = rx_bit_cnt_q
  BY <1>1 DEF RxAt, Sampled
<1>3. /\ Sample(rx_bit_cnt_q) \in Nat
      /\ Sample(rx_bit_cnt_q + 1) = Sample(rx_bit_cnt_q) + Cpb
  BY <1>1, Sizes, Samples
<1>4. BitEnd(rx_baud_cnt_q) <=> rx_baud_cnt_q = Cpb - 1
  BY DEF BitEnd
<1>7. RxAt # Sample(Stop) /\ RxAt <= Sample(DataBits) /\ RxAt \in Nat
      /\ Sample(DataBits) \in Nat
  BY <1>1, RxPlace, Sizes
<1>8. ASSUME RxAt >= Sample(DataBits)
      PROVE  BitEnd(rx_baud_cnt_q) /\ rx_bit_cnt_q + 1 = DataBits
  <2>1. RxAt = Sample(DataBits)
    BY <1>7, <1>8
  <2>2. Sample(DataBits) = Half + DataBits * Cpb /\ DataBits * Cpb \in Nat
        /\ Sample(rx_bit_cnt_q) = Half + rx_bit_cnt_q * Cpb
        /\ rx_bit_cnt_q * Cpb \in Nat
    BY <1>1, Sizes, Samples
  <2>3. ASSUME rx_bit_cnt_q + 1 # DataBits PROVE FALSE
    <3>1. (rx_bit_cnt_q + 2) * Cpb <= DataBits * Cpb
      BY <1>1, <2>3, Sizes, Grows
    <3>2. (rx_bit_cnt_q + 2) * Cpb = rx_bit_cnt_q * Cpb + Cpb + Cpb
      BY <1>1, Sizes
    <3> QED BY <1>1, <1>2, <2>1, <2>2, <3>1, <3>2, Sizes
  <2>4. Sample(DataBits) = Sample(rx_bit_cnt_q) + Cpb
    BY <1>3, <2>3
  <2> QED BY <1>1, <1>2, <1>3, <1>4, <2>1, <2>3, <2>4, Sizes
<1>5. CASE BitEnd(rx_baud_cnt_q)
  <2>1. /\ rx_baud_cnt_q' = 0
        /\ rx_shift_q' = Append(Tail(rx_shift_q), rx_sync2_q)
        /\ rx_bit_cnt_q' = IF LastRxBit THEN 0 ELSE rx_bit_cnt_q + 1
        /\ rx_state_q' = IF LastRxBit THEN "RX_STOP" ELSE "RX_DATA"
    BY <1>1, <1>5 DEF RxData
  <2>2. LastRxBit <=> rx_bit_cnt_q + 1 = DataBits
    BY <1>1, Sizes DEF LastRxBit
  <2>3. RxAt = Sample(rx_bit_cnt_q + 1)
    BY <1>1, <1>2, <1>3, <1>4, <1>5, Sizes
  <2>4. /\ rx_shift_q' \in Bytes /\ rx_shift_q'[DataBits] = rx_sync2_q
        /\ \A i \in 1 .. DataBits - 1 : rx_shift_q'[i] = rx_shift_q[i + 1]
    BY <1>1, <2>1, Shifted
  <2>5. RxTyped'
    <3>1. rx_baud_cnt_q' \in 0 .. Cpb - 1
      BY <2>1, Sizes
    <3>2. /\ rx_bit_cnt_q' \in 0 .. DataBits - 1
          /\ rx_state_q' # "RX_DATA" => rx_bit_cnt_q' = 0
      BY <1>1, <2>1, <2>2, Sizes
    <3>3. rx_state_q' \in {"RX_DATA", "RX_STOP"}
      BY <2>1
    <3>4. rx_shift_q' \in Bytes
      BY <2>4
    <3> QED BY <3>1, <3>2, <3>3, <3>4 DEF RxTyped
  <2>6. RxAt' = Sample(rx_bit_cnt_q + 1) + 1 + 0
    <3>1. CASE LastRxBit
      BY <2>1, <2>2, <3>1 DEF RxAt
    <3>2. CASE ~LastRxBit
      BY <2>1, <2>2, <3>2 DEF RxAt
    <3> QED BY <3>1, <3>2
  <2>7. RxAt' = RxAt + 1
    BY <1>3, <2>3, <2>6, Sizes
  <2>8. CountsOn
    BY <1>1, <1>7, <1>8, <2>1, <2>2, <2>7 DEF CountsOn, Listens
  <2>9. Sampled' = rx_bit_cnt_q + 1
    BY <2>1, <2>2 DEF Sampled
  <2>10. ASSUME NEW byte, Heard(byte),
                \A b \in 1 .. DataBits : RxAt = Sample(b) => rx_sync2_q = byte[b],
                NEW i \in 1 .. rx_bit_cnt_q + 1
         PROVE  rx_shift_q'[DataBits - (rx_bit_cnt_q + 1) + i] = byte[i]
    <3>1. CASE i = rx_bit_cnt_q + 1
      <4>1. i \in 1 .. DataBits /\ DataBits - (rx_bit_cnt_q + 1) + i = DataBits
        BY <1>1, <3>1, Sizes
      <4>2. rx_sync2_q = byte[i]
        BY <2>3, <2>10, <3>1, <4>1
      <4> QED BY <2>4, <4>1, <4>2
    <3>2. CASE i # rx_bit_cnt_q + 1
      <4>1. /\ i \in 1 .. rx_bit_cnt_q
            /\ DataBits - (rx_bit_cnt_q + 1) + i \in 1 .. DataBits - 1
            /\ (DataBits - (rx_bit_cnt_q + 1) + i) + 1 = DataBits - rx_bit_cnt_q + i
        BY <1>1, <3>2, Sizes
      <4>2. rx_shift_q[DataBits - rx_bit_cnt_q + i] = byte[i]
        BY <1>2, <2>10, <4>1 DEF Heard
      <4> QED BY <2>4, <4>1, <4>2
    <3> QED BY <3>1, <3>2
  <2> QED BY <2>5, <2>8, <2>9, <2>10 DEF Heard
<1>6. CASE ~BitEnd(rx_baud_cnt_q)
  <2>1. /\ rx_baud_cnt_q' = Count(rx_baud_cnt_q) /\ rx_state_q' = "RX_DATA"
        /\ UNCHANGED <<rx_bit_cnt_q, rx_shift_q>>
    BY <1>1, <1>6 DEF RxData
  <2>2. rx_baud_cnt_q + 1 \in 0 .. Cpb - 1
    BY <1>1, <1>4, <1>6, Sizes
  <2>3. rx_baud_cnt_q' = rx_baud_cnt_q + 1
    BY <2>1, <2>2, Sizes DEF Count
  <2>4. RxTyped'
    BY <1>1, <2>1, <2>2, <2>3, Sizes DEF RxTyped
  <2>5. RxAt' = Sample(rx_bit_cnt_q) + 1 + (rx_baud_cnt_q + 1)
    BY <2>1, <2>3 DEF RxAt
  <2>6. RxAt' = RxAt + 1
    BY <1>1, <1>2, <1>3, <2>5
  <2>7. CountsOn
    BY <1>1, <1>6, <1>7, <1>8, <2>1, <2>6 DEF CountsOn, Listens
  <2>8. Sampled' = Sampled
    BY <1>1, <2>1 DEF Sampled
  <2> QED BY <2>1, <2>4, <2>7, <2>8 DEF Heard
<1> QED BY <1>5, <1>6

\* What RX_STOP does.
LEMMA RxFromStop ==
  ASSUME LineFits, RxTyped, cpb_q = Cpb, RxStop,
         rx_sync1_q' \in {0, 1}, rx_sync2_q' \in {0, 1}
  PROVE  /\ RxTyped'
         /\ \/ CountsOn /\ \A byte : Heard(byte) => Heard(byte)'
            \/ Finishes /\ \A byte : Heard(byte)'
<1>1. /\ rx_state_q = "RX_STOP" /\ rx_baud_cnt_q \in 0 .. Cpb - 1
      /\ rx_bit_cnt_q' = rx_bit_cnt_q /\ rx_bit_cnt_q = 0
      /\ rx_shift_q' = rx_shift_q /\ rx_shift_q \in Bytes
  BY DEF RxStop, RxTyped
<1>2. RxAt = Sample(DataBits) + 1 + rx_baud_cnt_q /\ Sampled = DataBits
  BY <1>1 DEF RxAt, Sampled
<1>3. Sample(DataBits) \in Nat /\ Sample(Stop) = Sample(DataBits) + Cpb
  BY RxPlace
<1>4. BitEnd(rx_baud_cnt_q) <=> rx_baud_cnt_q = Cpb - 1
  BY DEF BitEnd
<1>5. CASE BitEnd(rx_baud_cnt_q)
  <2>1. rx_baud_cnt_q' = 0 /\ rx_state_q' = "RX_IDLE"
    BY <1>5 DEF RxStop
  <2>2. RxTyped'
    BY <1>1, <2>1, Sizes DEF RxTyped
  <2>3. Finishes
    BY <1>1, <1>2, <1>3, <1>4, <1>5, <2>1, Sizes DEF Finishes, Listens
  <2>4. Sampled' = 0
    BY <2>1 DEF Sampled
  <2> QED BY <2>2, <2>3, <2>4 DEF Heard
<1>6. CASE ~BitEnd(rx_baud_cnt_q)
  <2>1. rx_baud_cnt_q' = Count(rx_baud_cnt_q) /\ rx_state_q' = "RX_STOP"
    BY <1>1, <1>6 DEF RxStop
  <2>2. rx_baud_cnt_q + 1 \in 0 .. Cpb - 1
    BY <1>1, <1>4, <1>6, Sizes
  <2>3. rx_baud_cnt_q' = rx_baud_cnt_q + 1
    BY <2>1, <2>2, Sizes DEF Count
  <2>4. RxTyped'
    BY <1>1, <2>1, <2>2, <2>3, Sizes DEF RxTyped
  <2>5. RxAt' = Sample(DataBits) + 1 + (rx_baud_cnt_q + 1)
    BY <2>1, <2>3 DEF RxAt
  <2>6. RxAt' = RxAt + 1
    BY <1>1, <1>2, <1>3, <2>5
  <2>7. CountsOn
    <3>1. RxAt # Sample(Stop)
      BY <1>1, <1>2, <1>3, <1>4, <1>6, Sizes
    <3> QED BY <1>1, <2>1, <2>6, <3>1 DEF CountsOn, Listens
  <2>8. Sampled' = Sampled
    BY <1>1, <2>1 DEF Sampled
  <2> QED BY <1>1, <2>4, <2>7, <2>8 DEF Heard
<1> QED BY <1>5, <1>6

\* One cycle of the receiver.
LEMMA RxStep ==
  ASSUME LineFits, RxTyped, cpb_q = Cpb, NEW level \in {0, 1}, Receiver(level),
         NEW byte \in Bytes, Heard(byte),
         rx_state_q = "RX_DATA" =>
           \A b \in 1 .. DataBits : RxAt = Sample(b) => rx_sync2_q = byte[b]
  PROVE  /\ RxTyped' /\ Heard(byte)'
         /\ \/ Idles /\ \A other : Heard(other)'
            \/ Hits /\ \A other : Heard(other)'
            \/ Rejects /\ \A other : Heard(other)'
            \/ CountsOn
            \/ Finishes /\ \A other : Heard(other)'
<1>1. rx_sync1_q' \in {0, 1} /\ rx_sync2_q' \in {0, 1}
  BY DEF Receiver, RxTyped
<1>2. CASE RxIdle
  BY <1>1, <1>2, RxFromIdle
<1>3. CASE RxStart
  BY <1>1, <1>3, RxFromStart
<1>4. CASE RxData
  <2>1. rx_state_q = "RX_DATA"
    BY <1>4 DEF RxData
  <2> QED BY <1>1, <1>4, <2>1, RxFromData
<1>5. CASE RxStop
  BY <1>1, <1>5, RxFromStop
<1> QED BY <1>2, <1>3, <1>4, <1>5 DEF Receiver

\* What has been heard when it is done.
LEMMA HeardAll ==
  ASSUME LineFits, RxTyped, NEW byte \in Bytes, Heard(byte), rx_state_q = "RX_STOP"
  PROVE  rx_shift_q = byte
<1>1. Sampled = DataBits
  BY DEF Sampled
<1>2. ASSUME NEW i \in 1 .. DataBits PROVE rx_shift_q[i] = byte[i]
  <2>1. DataBits - DataBits + i = i
    BY Sizes
  <2> QED BY <1>1, <2>1 DEF Heard
<1>3. rx_shift_q \in [1 .. DataBits -> {0, 1}] /\ byte \in [1 .. DataBits -> {0, 1}]
  BY DEF RxTyped, Bytes
<1>4. rx_shift_q = [i \in 1 .. DataBits |-> rx_shift_q[i]]
      /\ byte = [i \in 1 .. DataBits |-> byte[i]]
  BY <1>3
<1>5. [i \in 1 .. DataBits |-> rx_shift_q[i]] = [i \in 1 .. DataBits |-> byte[i]]
  BY <1>2
<1> QED BY <1>4, <1>5

-----------------------------------------------------------------------------
(***************************************************************************)
(* The registers and the software, one cycle.                              *)
(***************************************************************************)
\* What is left takes at least a cycle.
LEMMA LeftPositive ==
  ASSUME LineFits, SwTyped
  PROVE  Serving \in 1 .. 6 /\ Left \in Int /\ Left >= 1
         /\ Left = Slack - age + Serving /\ age \in 0 .. Slack
<1>1. Serving \in 1 .. 6
  BY DEF Serving, SwTyped
<1>2. age \in 0 .. Slack /\ Slack \in Nat
  BY LinkAssumption DEF SwTyped
<1>3. Left = Slack - age + Serving
  BY DEF Left
<1> QED BY <1>1, <1>2, <1>3

\* No byte is done while another one waits in RDR.
LEMMA NoOverrun ==
  ASSUME LineFits, RxTyped, SwTyped, InTime, cpb_q = Cpb, cfg_q.rx_done
  PROVE  ~rx_done_pulse
<1>1. Left >= 1 /\ Left \in Int
  BY LeftPositive
<1>2. ASSUME RxAt = Sample(Stop) PROVE FALSE
  <2>1. Left + (IF Looped THEN 1 ELSE 2) <= Sample(Stop) + 1 - Sample(Stop)
    BY <1>2 DEF InTime
  <2>2. Sample(Stop) \in Nat
    BY RxPlace
  <2> QED BY <1>1, <2>1, <2>2
<1> QED BY <1>2, DoneWhen

\* RX_DONE and RDR.
LEMMA FlagStep ==
  ASSUME LineFits, RxTyped, SwTyped, InTime, Knows, cpb_q = Cpb,
         NEW op \in Accesses, Software(op), Registers(op)
  PROVE  /\ cfg_q'.tx_en = TRUE /\ cfg_q'.rx_done \in BOOLEAN /\ rdr_q' \in Bytes
         /\ op.what = "cfg" => cfg_q.rx_done /\ ~cfg_q'.rx_done
         /\ op.what # "cfg" => (cfg_q'.rx_done <=> rx_done_pulse \/ cfg_q.rx_done)
         /\ cfg_q.rx_done => ~rx_done_pulse /\ rdr_q' = rdr_q
         /\ rx_done_pulse => rdr_q' = rx_shift_q
<1>1. op.what = "cfg" => sw = "got" /\ op.tx_en = TRUE /\ op.rx_done = FALSE
  BY Accessed
<1>2. cfg_q.rx_done => ~rx_done_pulse
  BY NoOverrun
<1>3. /\ cfg_q'.tx_en = IF op.what = "cfg" THEN op.tx_en ELSE cfg_q.tx_en
      /\ cfg_q'.rx_done = Flag(cfg_q.rx_done, rx_done_pulse, op.what = "cfg" /\ ~op.rx_done)
      /\ rdr_q' = IF rx_done_pulse THEN rx_shift_q ELSE rdr_q
  BY DEF Registers
<1>4. rx_done_pulse \in BOOLEAN
  BY DEF rx_done_pulse
<1>5. sw = "got" => cfg_q.rx_done
  BY DEF Knows
<1>6. cfg_q'.tx_en = TRUE /\ rdr_q' \in Bytes
  BY <1>1, <1>3 DEF SwTyped, RxTyped
<1>7. cfg_q'.rx_done <=> rx_done_pulse \/ (cfg_q.rx_done /\ ~(op.what = "cfg" /\ ~op.rx_done))
  BY <1>3 DEF Flag
<1>8. cfg_q'.rx_done \in BOOLEAN
  BY <1>3 DEF Flag
<1> QED BY <1>1, <1>2, <1>3, <1>5, <1>6, <1>7, <1>8

\* The port's answers.
LEMMA Answers ==
  ASSUME NEW op, Registers(op),
         op.what \in {"none", "read_cfg", "read_rdr", "tdr", "cfg"}
  PROVE  /\ op.what = "none" => response' = Idle
         /\ op.what = "read_cfg" =>
              /\ response'.what = "cfg" /\ response'.value = cfg_q
         /\ op.what = "read_rdr" =>
              /\ response'.what = "rdr" /\ response'.value = rdr_q /\ response' # Idle
         /\ op.what \in {"tdr", "cfg"} => response'.what = "written"
         /\ Idle.what = "none"
<1>1. response' = Answer(op)
  BY DEF Registers
<1>2. CASE op.what = "none"
  BY <1>1, <1>2 DEF Answer, Idle
<1>3. CASE op.what = "read_cfg"
  BY <1>1, <1>3 DEF Answer, Idle
<1>4. CASE op.what = "read_rdr"
  <2>1. response' = [what |-> "rdr", value |-> rdr_q]
    BY <1>1, <1>4 DEF Answer
  <2>2. response'.what = "rdr" /\ response'.value = rdr_q /\ Idle.what = "none"
    BY <2>1 DEF Idle
  <2> QED BY <1>4, <2>2
<1>5. CASE op.what \in {"tdr", "cfg"}
  <2>1. response' = [what |-> "written"]
    BY <1>1, <1>5 DEF Answer
  <2> QED BY <1>5, <2>1 DEF Idle
<1> QED BY <1>2, <1>3, <1>4, <1>5

\* What it does when it is answered.
LEMMA Received ==
  ASSUME NEW op, Receive(op), SwTyped, Knows, response # Idle
  PROVE  /\ sw = "fetch" => sw' = "got" /\ got' = rdr_q
         /\ sw # "got"
         /\ sw = "poll" => sw' = IF response.what = "cfg" /\ response.value.rx_done
                                 THEN "fetch" ELSE "poll"
<1>1. sw \in {"poll", "fetch"}
  BY DEF SwTyped, Knows
<1>2. CASE sw = "fetch"
  <2>1. response.what = "rdr" /\ response.value = rdr_q
    BY <1>2 DEF Knows
  <2>2. ~(response.what = "cfg" /\ response.value.rx_done)
    BY <2>1
  <2> QED BY <1>2, <2>1, <2>2 DEF Receive
<1>3. CASE sw = "poll"
  <2>1. response.what # "rdr"
    BY <1>3 DEF Knows
  <2> QED BY <1>3, <2>1 DEF Receive
<1> QED BY <1>1, <1>2, <1>3

\* The software's knowledge is kept.
LEMMA KnowsStep ==
  ASSUME LineFits, RxTyped, SwTyped, InTime, Knows, cpb_q = Cpb,
         NEW op \in Accesses, Software(op), Registers(op)
  PROVE  Knows' /\ sw' \in {"poll", "fetch", "got"}
<1>1. /\ op.what \in {"none", "read_cfg", "read_rdr", "tdr", "cfg"}
      /\ op.what # "none" => response = Idle
      /\ op.what = "read_cfg" => sw = "poll"
      /\ op.what = "read_rdr" => sw = "fetch"
      /\ op.what = "tdr" => sw = "poll"
      /\ op.what = "cfg" => sw' = "poll"
      /\ op.what = "none" => \/ response = Idle /\ UNCHANGED <<sw, got>>
                             \/ response # Idle /\ Receive(op)
      /\ op.what \in {"read_cfg", "read_rdr", "tdr"} => UNCHANGED <<sw, got>>
  BY Accessed
<1>2. /\ op.what # "cfg" => (cfg_q.rx_done => cfg_q'.rx_done)
      /\ cfg_q.rx_done => rdr_q' = rdr_q
  BY FlagStep
<1>3. CASE op.what = "none"
  <2>1. response' = Idle /\ Idle.what = "none"
    BY <1>1, <1>3, Answers
  <2>2. CASE response = Idle
    BY <1>1, <1>2, <1>3, <2>1, <2>2 DEF Knows, SwTyped
  <2>3. CASE response # Idle
    <3>1. /\ sw = "fetch" => sw' = "got" /\ got' = rdr_q
          /\ sw # "got"
          /\ sw = "poll" => sw' = IF response.what = "cfg" /\ response.value.rx_done
                                  THEN "fetch" ELSE "poll"
      BY <1>1, <1>3, <2>3, Received
    <3>2. CASE sw = "fetch"
      BY <1>2, <1>3, <2>1, <3>1, <3>2 DEF Knows
    <3>3. CASE sw = "poll" /\ response.what = "cfg" /\ response.value.rx_done
      <4>1. cfg_q.rx_done /\ sw' = "fetch"
        BY <3>1, <3>3 DEF Knows
      <4> QED BY <1>2, <1>3, <2>1, <4>1 DEF Knows
    <3>4. CASE sw = "poll" /\ ~(response.what = "cfg" /\ response.value.rx_done)
      <4>1. sw' = "poll"
        BY <3>1, <3>4
      <4> QED BY <2>1, <4>1 DEF Knows
    <3> QED BY <3>1, <3>2, <3>3, <3>4 DEF SwTyped
  <2> QED BY <2>2, <2>3
<1>4. CASE op.what = "read_cfg"
  <2>1. response'.what = "cfg" /\ response'.value = cfg_q
    BY <1>1, <1>4, Answers
  <2>2. sw = "poll" /\ sw' = "poll"
    BY <1>1, <1>4
  <2> QED BY <1>2, <1>4, <2>1, <2>2 DEF Knows
<1>5. CASE op.what = "read_rdr"
  <2>1. response'.what = "rdr" /\ response'.value = rdr_q
    BY <1>1, <1>5, Answers
  <2>2. sw = "fetch" /\ sw' = "fetch" /\ cfg_q.rx_done
    BY <1>1, <1>5 DEF Knows
  <2> QED BY <1>2, <1>5, <2>1, <2>2 DEF Knows
<1>6. CASE op.what \in {"tdr", "cfg"}
  <2>1. response'.what = "written"
    BY <1>1, <1>6, Answers
  <2>2. sw' = "poll"
    BY <1>1, <1>6
  <2> QED BY <2>1, <2>2 DEF Knows
<1> QED BY <1>1, <1>3, <1>4, <1>5, <1>6

\* While a byte waits, the software gets a cycle nearer to clearing RX_DONE.
LEMMA LeftFalls ==
  ASSUME LineFits, RxTyped, SwTyped, SwTyped', InTime, Knows, cpb_q = Cpb, far' = far,
         NEW op \in Accesses, Software(op), Registers(op), op.what # "cfg",
         cfg_q.rx_done, age' = IF Urgent THEN age ELSE age + 1
  PROVE  \E n \in Int : n = Left' /\ n <= Left - 1
<1>1. /\ op.what \in {"none", "read_cfg", "read_rdr", "tdr"}
      /\ op.what # "none" => response = Idle
      /\ op.what = "read_cfg" => sw = "poll"
      /\ op.what = "read_rdr" => sw = "fetch"
      /\ op.what = "tdr" => Looped /\ sw = "poll" /\ ~Urgent
      /\ op.what = "none" => \/ response = Idle /\ ~Urgent /\ UNCHANGED <<sw, got>>
                             \/ response # Idle /\ Receive(op)
      /\ op.what \in {"read_cfg", "read_rdr", "tdr"} => UNCHANGED <<sw, got>>
  BY Accessed
<1>2. /\ Left = Slack - age + Serving /\ age \in 0 .. Slack /\ Serving \in 1 .. 6
      /\ Slack \in Nat
  BY LeftPositive, LinkAssumption
<1>3. PICK a \in 0 .. Slack, s \in 1 .. 6, n \in Int :
        a = age' /\ s = Serving' /\ n = Left' /\ n = Slack - a + s
  <2>1. Serving' \in 1 .. 6 /\ age' \in 0 .. Slack
    BY DEF Serving, SwTyped
  <2>2. Left' = Slack - age' + Serving'
    BY DEF Left
  <2>3. \A a \in 0 .. Slack, s \in 1 .. 6 : Slack - a + s \in Int
    BY <1>2
  <2> QED BY <2>1, <2>2, <2>3
<1>4. Looped' = Looped
  BY LengthsStay
<1>5. Urgent <=> age = Slack
  BY <1>2 DEF Urgent
<1>6. Urgent' <=> a = Slack
  BY <1>2, <1>3 DEF Urgent
<1>7. a = IF Urgent THEN age ELSE age + 1
  BY <1>3
<1>8. Urgent => Urgent'
  BY <1>5, <1>6, <1>7
<1>16. n = Slack - a + s
  BY <1>3
<1>17. SUFFICES n <= Left - 1
  BY <1>3
<1>9. ASSUME ~Urgent, s <= Serving PROVE n <= Left - 1
  BY <1>2, <1>7, <1>9, <1>16
<1>10. ASSUME s <= Serving - 1 PROVE n <= Left - 1
  BY <1>2, <1>7, <1>10, <1>16
<1>11. CASE op.what = "none" /\ response = Idle
  <2>1. response' = Idle /\ ~Urgent /\ sw' = sw /\ Idle.what = "none"
    BY <1>1, <1>11, Answers
  <2>2. s <= Serving
    BY <1>3, <1>4, <1>11, <2>1 DEF Serving
  <2> QED BY <1>9, <2>1, <2>2
<1>12. CASE op.what = "none" /\ response # Idle
  <2>1. response' = Idle /\ Idle.what = "none"
    BY <1>1, <1>12, Answers
  <2>2. /\ sw = "fetch" => sw' = "got"
        /\ sw # "got"
        /\ sw = "poll" => sw' = IF response.what = "cfg" /\ response.value.rx_done
                                THEN "fetch" ELSE "poll"
    BY <1>1, <1>12, Received
  <2>3. CASE sw = "fetch"
    <3>1. Serving = 2 /\ s = 1
      BY <1>3, <1>12, <2>2, <2>3 DEF Serving
    <3> QED BY <1>10, <3>1
  <2>4. CASE sw = "poll" /\ response.what = "cfg" /\ response.value.rx_done
    <3>1. Serving = 4 /\ s = 3
      BY <1>3, <2>1, <2>2, <2>4 DEF Serving
    <3> QED BY <1>10, <3>1
  <2>5. CASE sw = "poll" /\ ~(response.what = "cfg" /\ response.value.rx_done)
    <3>1. sw' = "poll"
      BY <2>2, <2>5
    <3>2. CASE Urgent
      <4>1. Serving = 6 /\ s = 5
        BY <1>3, <1>8, <1>12, <2>1, <2>5, <3>1, <3>2 DEF Serving
      <4> QED BY <1>10, <4>1
    <3>3. CASE ~Urgent
      <4>1. s <= Serving
        BY <1>3, <1>4, <1>12, <2>1, <2>5, <3>1, <3>3 DEF Serving
      <4> QED BY <1>9, <3>3, <4>1
    <3> QED BY <3>2, <3>3
  <2> QED BY <2>2, <2>3, <2>4, <2>5 DEF SwTyped
<1>13. CASE op.what = "read_cfg"
  <2>1. response'.what = "cfg" /\ response'.value = cfg_q
    BY <1>1, <1>13, Answers
  <2>2. sw = "poll" /\ sw' = "poll" /\ response = Idle /\ Idle.what = "none"
    BY <1>1, <1>13, Answers
  <2>3. s = 4
    BY <1>3, <2>1, <2>2 DEF Serving
  <2>4. Serving >= 5
    BY <2>2 DEF Serving
  <2> QED BY <1>2, <1>10, <2>3, <2>4
<1>14. CASE op.what = "read_rdr"
  <2>1. response' # Idle
    BY <1>1, <1>14, Answers
  <2>2. sw = "fetch" /\ sw' = "fetch" /\ response = Idle
    BY <1>1, <1>14
  <2>3. s = 2 /\ Serving = 3
    BY <1>3, <2>1, <2>2 DEF Serving
  <2> QED BY <1>10, <2>3
<1>15. CASE op.what = "tdr"
  <2>1. Looped /\ sw = "poll" /\ ~Urgent /\ response = Idle /\ Idle.what = "none"
    BY <1>1, <1>15, Answers
  <2>2. Serving = 6
    BY <2>1 DEF Serving
  <2> QED BY <1>3, <1>9, <2>1, <2>2
<1> QED BY <1>1, <1>11, <1>12, <1>13, <1>14, <1>15

\* When a byte is done the software has all the time there is.
LEMMA LeftAtFirst ==
  ASSUME LineFits, SlackFits, RxTyped, SwTyped, SwTyped', InTime, Knows, cpb_q = Cpb, far' = far,
         NEW op \in Accesses, Software(op), Registers(op),
         ~cfg_q.rx_done, age' = 0
  PROVE  \E n \in Int : n = Left' /\ n + (IF Looped THEN 1 ELSE 2) <= Sample(Stop) + 1
<1>1. sw = "poll"
  BY DEF Knows, SwTyped
<1>2. /\ op.what \in {"none", "read_cfg", "tdr"}
      /\ op.what # "none" => response = Idle /\ UNCHANGED <<sw, got>>
      /\ op.what = "none" => \/ response = Idle /\ UNCHANGED <<sw, got>>
                             \/ response # Idle /\ Receive(op)
  BY <1>1, Accessed
<1>3. sw' = "poll"
  <2>1. CASE op.what = "none" /\ response # Idle
    <3>1. ~(response.what = "cfg" /\ response.value.rx_done)
      BY DEF Knows
    <3> QED BY <1>1, <1>2, <2>1, <3>1, Received
  <2> QED BY <1>1, <1>2, <2>1
<1>4. ~(response'.what = "cfg" /\ response'.value.rx_done)
  <2>1. /\ op.what = "none" => response' = Idle /\ Idle.what = "none"
        /\ op.what = "read_cfg" => response'.value = cfg_q
        /\ op.what = "tdr" => response'.what = "written"
    BY <1>2, Answers
  <2> QED BY <1>2, <2>1
<1>5. Looped' = Looped
  BY LengthsStay
<1>6. Urgent' <=> Slack = 0
  BY LinkAssumption DEF Urgent
<1>7. PICK s \in 1 .. 6, n \in Int : s = Serving' /\ n = Left' /\ n = Slack + s
  <2>1. Serving' \in 1 .. 6
    BY DEF Serving, SwTyped
  <2>2. Left' = Slack - 0 + Serving'
    BY DEF Left
  <2>3. \A s \in 1 .. 6 : Slack - 0 + s = Slack + s /\ Slack + s \in Int
    BY LinkAssumption
  <2> QED BY <2>1, <2>2, <2>3
<1>8. s = IF Slack = 0 THEN IF response' = Idle THEN 5 ELSE 6
          ELSE IF Looped THEN 6 ELSE 5
  BY <1>3, <1>4, <1>5, <1>6, <1>7 DEF Serving
<1>9. Slack + 6 <= Sample(Stop) /\ Sample(Stop) \in Nat
  <2>1. Sample(Stop) \in Nat
    BY RxPlace
  <2> QED BY <2>1 DEF SlackFits, Stop
<1>10. Sample(Stop) >= 7
  <2>1. 1 * Cpb <= DataBits * Cpb /\ DataBits * Cpb \in Nat
    BY Sizes, Grows
  <2>2. Sample(Stop) = Half + DataBits * Cpb + Cpb
    BY Sizes, Samples DEF Stop
  <2> QED BY <2>1, <2>2, Sizes
<1>11. n + (IF Looped THEN 1 ELSE 2) <= Sample(Stop) + 1
  <2>1. n = Slack + s
    BY <1>7
  <2> QED BY <1>8, <1>9, <1>10, <2>1, Sizes, LinkAssumption
<1> QED BY <1>7, <1>11

\* The software stays in time.
LEMMA InTimeStep ==
  ASSUME LineFits, SlackFits, RxTyped, SwTyped, SwTyped', InTime, Knows,
         cpb_q = Cpb, far' = far,
         NEW op \in Accesses, Software(op), Registers(op),
         age' = IF ~cfg_q.rx_done THEN 0 ELSE IF Urgent THEN age ELSE age + 1,
         RxAt' \in Nat, RxAt' <= RxAt + 1, rx_done_pulse => RxAt' = 0
  PROVE  InTime'
<1> SUFFICES ASSUME cfg_q'.rx_done
             PROVE  Left' + (IF Looped THEN 1 ELSE 2) <= Sample(Stop) + 1 - RxAt'
  BY LengthsStay DEF InTime
<1>1. /\ op.what # "cfg"
      /\ rx_done_pulse \/ cfg_q.rx_done
      /\ cfg_q.rx_done => ~rx_done_pulse
  BY FlagStep
<1>2. RxAt \in Nat /\ Sample(Stop) \in Nat
  BY RxPlace
<1>4. PICK m \in Nat : m = RxAt' /\ m <= RxAt + 1
  OBVIOUS
<1>5. CASE cfg_q.rx_done
  <2>1. PICK n \in Int : n = Left' /\ n <= Left - 1
    BY <1>1, <1>5, LeftFalls
  <2>2. Left + (IF Looped THEN 1 ELSE 2) <= Sample(Stop) + 1 - RxAt
    BY <1>5 DEF InTime
  <2>3. Left \in Int
    BY LeftPositive
  <2>4. n + (IF Looped THEN 1 ELSE 2) <= Sample(Stop) + 1 - m
    BY <1>2, <1>4, <2>1, <2>2, <2>3
  <2> QED BY <1>4, <2>1, <2>4
<1>6. CASE ~cfg_q.rx_done
  <2>1. PICK n \in Int : n = Left' /\ n + (IF Looped THEN 1 ELSE 2) <= Sample(Stop) + 1
    BY <1>6, LeftAtFirst
  <2>2. m = 0
    BY <1>1, <1>4, <1>6
  <2>3. n + (IF Looped THEN 1 ELSE 2) <= Sample(Stop) + 1 - m
    BY <1>2, <2>1, <2>2
  <2> QED BY <1>4, <2>1, <2>3
<1> QED BY <1>5, <1>6

-----------------------------------------------------------------------------
(***************************************************************************)
(* What is pending, one cycle.                                             *)
(***************************************************************************)
\* Two bytes, one after the other.
LEMMA Pair ==
  ASSUME NEW one \in Bytes, NEW two \in Bytes
  PROVE  <<one>> \o <<two>> = <<one, two>>
<1>1. <<one>> \in Seq(Bytes) /\ <<two>> \in Seq(Bytes) /\ <<one, two>> \in Seq(Bytes)
  OBVIOUS
<1>2. Len(<<one>>) = 1 /\ Len(<<two>>) = 1 /\ Len(<<one, two>>) = 2
      /\ <<one>>[1] = one /\ <<two>>[1] = two
      /\ <<one, two>>[1] = one /\ <<one, two>>[2] = two
  OBVIOUS
<1>3. /\ <<one>> \o <<two>> \in Seq(Bytes)
      /\ Len(<<one>> \o <<two>>) = Len(<<one>>) + Len(<<two>>)
      /\ \A i \in 1 .. Len(<<one>>) + Len(<<two>>) :
           (<<one>> \o <<two>>)[i] =
             IF i <= Len(<<one>>) THEN <<one>>[i] ELSE <<two>>[i - Len(<<one>>)]
  BY <1>1, ConcatProperties
<1>4. Len(<<one>> \o <<two>>) = 2
  BY <1>2, <1>3
<1>5. (<<one>> \o <<two>>)[1] = one /\ (<<one>> \o <<two>>)[2] = two
  BY <1>2, <1>3
<1>6. \A i \in 1 .. Len(<<one>> \o <<two>>) : (<<one>> \o <<two>>)[i] = <<one, two>>[i]
  <2>1. \A i \in 1 .. 2 : i = 1 \/ i = 2
    OBVIOUS
  <2> QED BY <1>2, <1>4, <1>5, <2>1
<1> QED BY <1>1, <1>2, <1>3, <1>4, <1>6, SeqEqual

\* Appending to what is in flight.
LEMMA Appends ==
  ASSUME NEW w \in Seq(Bytes), NEW byte \in Bytes
  PROVE  /\ Append(w \o <<>>, byte) = w \o <<byte>>
         /\ \A other \in Bytes : Append(w \o <<other>>, byte) = w \o <<other, byte>>
<1>1. w \o <<>> = w
  BY ConcatEmptySeq
<1>2. Append(w, byte) = w \o <<byte>>
  BY AppendIsConcat
<1>3. ASSUME NEW other \in Bytes
      PROVE  Append(w \o <<other>>, byte) = w \o <<other, byte>>
  <2>1. <<other>> \in Seq(Bytes) /\ <<byte>> \in Seq(Bytes)
    OBVIOUS
  <2>2. w \o <<other>> \in Seq(Bytes)
    BY <2>1, ConcatProperties
  <2>3. Append(w \o <<other>>, byte) = (w \o <<other>>) \o <<byte>>
    BY <2>2, AppendIsConcat
  <2>4. (w \o <<other>>) \o <<byte>> = w \o (<<other>> \o <<byte>>)
    BY <2>1, ConcatAssociative
  <2>5. <<other>> \o <<byte>> = <<other, byte>>
    BY Pair
  <2> QED BY <2>3, <2>4, <2>5
<1> QED BY <1>1, <1>2, <1>3

\* The byte in RDR is a sequence of at most one.
LEMMA WaitingTyped ==
  ASSUME NEW done \in BOOLEAN, NEW byte \in Bytes
  PROVE  (IF done THEN <<byte>> ELSE <<>>) \in Seq(Bytes)
<1>1. <<byte>> \in Seq(Bytes) /\ <<>> \in Seq(Bytes)
  OBVIOUS
<1> QED BY <1>1

\* What is in flight stays so when no byte is done, whether g1() returns or not.
LEMMA FlightKept ==
  ASSUME LineFits, RxTyped, SwTyped, InTime, Knows, cpb_q = Cpb,
         NEW op \in Accesses, Software(op), Registers(op), ~rx_done_pulse,
         NEW flight \in Seq(Bytes), InFlight(flight)
  PROVE  Rest(op) = Waiting' \o flight
<1>1. pending = Waiting \o flight
  BY DEF InFlight
<1>2. CASE op.what = "cfg"
  <2>1. cfg_q.rx_done /\ ~cfg_q'.rx_done
    BY <1>2, FlagStep
  <2>2. pending = <<rdr_q>> \o flight /\ Waiting' = <<>>
    BY <1>1, <2>1 DEF Waiting
  <2>3. Tail(<<rdr_q>> \o flight) = flight
    <3>1. /\ <<rdr_q>> \in Seq(Bytes) /\ Len(<<rdr_q>>) = 1
          /\ rdr_q \in Bytes
      BY DEF SwTyped
    <3>2. /\ <<rdr_q>> \o flight \in Seq(Bytes)
          /\ Len(<<rdr_q>> \o flight) = 1 + Len(flight)
          /\ \A i \in 1 .. 1 + Len(flight) :
               (<<rdr_q>> \o flight)[i] = IF i <= 1 THEN <<rdr_q>>[i] ELSE flight[i - 1]
      BY <3>1, ConcatProperties
    <3>3. Len(flight) \in Nat
      BY LenProperties
    <3>4. <<rdr_q>> \o flight # <<>>
      BY <3>2, <3>3, EmptySeq
    <3>5. /\ Tail(<<rdr_q>> \o flight) \in Seq(Bytes)
          /\ Len(Tail(<<rdr_q>> \o flight)) = Len(<<rdr_q>> \o flight) - 1
          /\ \A i \in 1 .. Len(Tail(<<rdr_q>> \o flight)) :
               Tail(<<rdr_q>> \o flight)[i] = (<<rdr_q>> \o flight)[i + 1]
      BY <3>2, <3>4, HeadTailProperties
    <3>6. Len(Tail(<<rdr_q>> \o flight)) = Len(flight)
      BY <3>2, <3>3, <3>5
    <3>7. ASSUME NEW i \in 1 .. Len(flight)
          PROVE  Tail(<<rdr_q>> \o flight)[i] = flight[i]
      <4>1. i + 1 \in 1 .. 1 + Len(flight) /\ ~(i + 1 <= 1) /\ (i + 1) - 1 = i
        BY <3>3
      <4>2. (<<rdr_q>> \o flight)[i + 1] = flight[(i + 1) - 1]
        BY <3>2, <4>1
      <4> QED BY <3>5, <3>6, <4>1, <4>2
    <3> QED BY <3>5, <3>6, <3>7, SeqEqual
  <2>4. <<>> \o flight = flight
    BY ConcatEmptySeq
  <2> QED BY <1>2, <2>2, <2>3, <2>4 DEF Rest
<1>3. CASE op.what # "cfg"
  <2>1. cfg_q'.rx_done <=> cfg_q.rx_done
    BY <1>3, FlagStep
  <2>2. cfg_q.rx_done => rdr_q' = rdr_q
    BY FlagStep
  <2>3. Waiting' = Waiting
    BY <2>1, <2>2 DEF Waiting
  <2> QED BY <1>1, <1>3, <2>3 DEF Rest
<1> QED BY <1>2, <1>3

\* A byte that is done has moved to RDR.
LEMMA FlightDone ==
  ASSUME LineFits, RxTyped, SwTyped, InTime, Knows, cpb_q = Cpb,
         NEW op \in Accesses, Software(op), Registers(op), rx_done_pulse,
         NEW received \in Bytes, rx_shift_q = received
  PROVE  /\ InFlight(<<received>>) => Rest(op) = Waiting' \o <<>>
         /\ \A sent \in Bytes :
              InFlight(<<received, sent>>) => Rest(op) = Waiting' \o <<sent>>
<1>1. ~cfg_q.rx_done
  BY FlagStep
<1>2. op.what # "cfg"
  BY <1>1, FlagStep
<1>3. cfg_q'.rx_done /\ rdr_q' = received
  BY <1>2, FlagStep
<1>4. Waiting = <<>> /\ Waiting' = <<received>> /\ Rest(op) = pending
  BY <1>1, <1>2, <1>3 DEF Waiting, Rest
<1>5. ASSUME InFlight(<<received>>) PROVE Rest(op) = Waiting' \o <<>>
  <2>1. <<>> \o <<received>> = <<received>> /\ <<received>> \o <<>> = <<received>>
    <3>1. <<received>> \in Seq(Bytes)
      OBVIOUS
    <3> QED BY <3>1, ConcatEmptySeq
  <2> QED BY <1>4, <1>5, <2>1 DEF InFlight
<1>6. ASSUME NEW sent \in Bytes, InFlight(<<received, sent>>)
      PROVE  Rest(op) = Waiting' \o <<sent>>
  <2>1. /\ <<>> \o <<received, sent>> = <<received, sent>>
        /\ <<received>> \o <<sent>> = <<received, sent>>
    <3>1. <<received, sent>> \in Seq(Bytes)
      OBVIOUS
    <3>2. <<>> \o <<received, sent>> = <<received, sent>>
      BY <3>1, ConcatEmptySeq
    <3> QED BY <3>2, Pair
  <2> QED BY <1>4, <1>6, <2>1 DEF InFlight
<1> QED BY <1>5, <1>6

-----------------------------------------------------------------------------
(***************************************************************************)
(* Line and receiver together, one cycle.                                  *)
(***************************************************************************)
LineMoves == StaysQuiet \/ Begins \/ GoesOn \/ Ends
RxMoves == Idles \/ Hits \/ Rejects \/ CountsOn \/ Finishes

\* The receiver that follows the frame samples the bits of its byte.
LEMMA FollowSamples ==
  ASSUME LineFits, LineTyped, NEW sent \in Bytes, Synchronised(sent), FollowPlace,
         NEW b \in 1 .. DataBits, RxAt = Sample(b)
  PROVE  rx_sync2_q = sent[b]
<1>1. Sends /\ At - 2 = RxAt
  BY DEF FollowPlace
<1>2. Shows(rx_sync2_q, sent, BitLength, At - 2)
  BY <1>1 DEF Synchronised
<1>3. b * BitLength <= Sample(b) /\ Sample(b) < (b + 1) * BitLength
  <2>1. b \in 0 .. DataBits
    BY Sizes
  <2> QED BY <2>1, Lengths, SampledInItself
<1>4. b \in 0 .. Stop /\ b # 0 /\ b # Stop
  BY Sizes
<1>5. rx_sync2_q = Bit(sent, b)
  BY <1>1, <1>2, <1>3, <1>4 DEF Shows
<1> QED BY <1>4, <1>5 DEF Bit

\* Wherever line and receiver are, it samples the bits of the byte it returns.
LEMMA SamplesRight ==
  ASSUME LineFits, LineTyped, RxTyped, NEW sent \in Bytes, NEW received \in Bytes,
         Synchronised(sent), Somewhere(sent, received), rx_state_q = "RX_DATA",
         NEW b \in 1 .. DataBits, RxAt = Sample(b)
  PROVE  rx_sync2_q = received[b]
<1>1. Following(sent, received)
  BY DEF Somewhere, Resting, Starting, Trailing, Misled, Ending, Overlapping,
         RestPlace, StartPlace, TrailPlace, MisledPlace, EndPlace, OverlapPlace, Listens
<1> QED BY <1>1, FollowSamples DEF Following

\* Nobody sends.
LEMMA RestingMoves ==
  ASSUME NEW sent, Synchronised(sent), RestPlace, LineMoves, RxMoves
  PROVE  Idles /\ (StaysQuiet \/ Begins)
<1>1. rx_sync2_q = 1 /\ ~Sends /\ ~Listens
  BY DEF RestPlace, Synchronised
<1>2. Idles
  BY <1>1 DEF RxMoves, Hits, Rejects, CountsOn, Finishes, Listens
<1>3. StaysQuiet \/ Begins
  BY <1>1 DEF LineMoves, GoesOn, Ends
<1> QED BY <1>2, <1>3

\* A frame is longer than the synchroniser.
LEMMA FrameLong ==
  ASSUME LineFits, LineTyped
  PROVE  Over \in Int /\ Over >= 8 /\ First \in Int /\ First <= 0 /\ First >= -1
<1>1. /\ BitLength \in Nat /\ BitLength >= 3 /\ First \in {-1, 0}
      /\ Over = First + Stop * BitLength + BitLength /\ Over \in Int
  BY Lengths
<1>2. 2 * BitLength <= Stop * BitLength /\ Stop * BitLength \in Nat
  BY <1>1, Sizes, Grows
<1> QED BY <1>1, <1>2

\* The start bit is on its way to the receiver.
LEMMA StartingMoves ==
  ASSUME LineFits, TxInRange, LineTyped, NEW sent, Synchronised(sent), StartPlace,
         LineMoves, RxMoves
  PROVE  /\ GoesOn
         /\ \/ Idles /\ At' <= 2
            \/ Hits /\ At' - 2 = RxAt'
<1>1. /\ Sends /\ ~Listens /\ At <= 2
      /\ Shows(rx_sync2_q, sent, BitLength, At - 2)
  BY DEF StartPlace, Synchronised
<1>2. PICK at \in Int : at = At
  BY <1>1, AtRange
<1>3. Over \in Int /\ Over >= 8
  BY FrameLong
<1>4. GoesOn
  <2>1. At # Over - 1
    BY <1>1, <1>2, <1>3
  <2> QED BY <1>1, <2>1 DEF LineMoves, StaysQuiet, Begins, Ends
<1>5. Idles \/ Hits
  BY <1>1 DEF RxMoves, Rejects, CountsOn, Finishes, Listens
<1>6. at < 2 => rx_sync2_q = 1
  <2>1. at < 2 => at - 2 < 0
    OBVIOUS
  <2> QED BY <1>1, <1>2, <2>1 DEF Shows
<1>7. at = 2 => rx_sync2_q = 0
  <2>1. 0 * BitLength <= 0 /\ 0 < (0 + 1) * BitLength /\ 0 \in 0 .. Stop
    BY Lengths, Sizes
  <2>2. at = 2 => at - 2 = 0
    OBVIOUS
  <2>3. Bit(sent, 0) = 0
    BY DEF Bit
  <2> QED BY <1>1, <1>2, <2>1, <2>2, <2>3 DEF Shows
<1>8. At' = at + 1
  BY <1>2, <1>4 DEF GoesOn
<1>9. CASE at < 2
  <2>1. Idles
    BY <1>5, <1>6, <1>9 DEF Hits
  <2>2. at + 1 <= 2
    BY <1>9
  <2>3. At' <= 2
    BY <1>8, <2>2
  <2> QED BY <1>4, <2>1, <2>3
<1>10. CASE at = 2
  <2>1. Hits
    BY <1>5, <1>7, <1>10 DEF Idles
  <2>2. RxAt' = 1
    BY <2>1 DEF Hits
  <2> QED BY <1>4, <1>8, <1>10, <2>1, <2>2
<1> QED BY <1>1, <1>2, <1>9, <1>10

\* The receiver follows the frame: it is not misled by its start bit, and when
\* the frame is over it is in RX_STOP.
LEMMA FollowingMoves ==
  ASSUME LineFits, TxInRange, LineTyped, RxTyped, NEW sent,
         Synchronised(sent), FollowPlace, LineMoves, RxMoves
  PROVE  /\ GoesOn \/ Ends
         /\ CountsOn \/ Finishes
         /\ GoesOn /\ CountsOn => At' - 2 = RxAt'
         /\ GoesOn /\ Finishes => Sample(Stop) < At' - 2
         /\ Ends /\ CountsOn => rx_state_q' = "RX_STOP" /\ Over <= RxAt' + 2
<1>1. /\ Sends /\ Listens /\ At - 2 = RxAt
      /\ Shows(rx_sync2_q, sent, BitLength, At - 2)
  BY DEF FollowPlace, Synchronised
<1>2. PICK at \in Int : at = At
  BY <1>1, AtRange
<1>3. GoesOn \/ Ends
  BY <1>1 DEF LineMoves, StaysQuiet, Begins
<1>4. ~Rejects
  <2>1. ASSUME RxAt = Half PROVE rx_sync2_q = 0
    <3>1. 0 * BitLength <= Half /\ Half < (0 + 1) * BitLength /\ 0 \in 0 .. Stop
      BY Lengths, Sizes
    <3>2. Bit(sent, 0) = 0
      BY DEF Bit
    <3> QED BY <1>1, <2>1, <3>1, <3>2 DEF Shows
  <2> QED BY <2>1 DEF Rejects
<1>5. CountsOn \/ Finishes
  BY <1>1, <1>4 DEF RxMoves, Idles, Hits
<1>6. RxAt = at - 2
  BY <1>1, <1>2
<1>7. GoesOn => At' = at + 1
  BY <1>2 DEF GoesOn
<1>8. CountsOn => RxAt' = at - 2 + 1
  BY <1>6 DEF CountsOn
<1>9. GoesOn /\ CountsOn => At' - 2 = RxAt'
  <2>1. at + 1 - 2 = at - 2 + 1
    OBVIOUS
  <2> QED BY <1>7, <1>8, <2>1
<1>10. GoesOn /\ Finishes => Sample(Stop) < At' - 2
  <2>1. Finishes => Sample(Stop) = at - 2
    BY <1>6 DEF Finishes
  <2>2. at - 2 < at + 1 - 2
    OBVIOUS
  <2> QED BY <1>7, <2>1, <2>2
<1>11. ASSUME Ends, CountsOn
       PROVE  rx_state_q' = "RX_STOP" /\ Over <= RxAt' + 2
  <2>1. at = Over - 1
    BY <1>2, <1>11 DEF Ends
  <2>2. Over = First + Stop * BitLength + BitLength /\ First \in {-1, 0}
        /\ Stop * BitLength \in Nat /\ BitLength \in Nat /\ BitLength >= 3 /\ Over \in Int
    BY Lengths
  <2>3. Sample(DataBits) < Stop * BitLength /\ Sample(DataBits) \in Nat
    <3>1. DataBits \in 0 .. DataBits /\ DataBits + 1 = Stop
      BY Sizes
    <3>2. Sample(DataBits) < (DataBits + 1) * BitLength
      BY <3>1, Lengths, SampledInItself
    <3> QED BY <3>1, <3>2, RxPlace
  <2>4. at - 2 >= Sample(DataBits)
    BY <2>1, <2>2, <2>3
  <2>5. rx_state_q' = "RX_STOP"
    BY <1>6, <1>11, <2>4 DEF CountsOn
  <2>6. Over <= at - 2 + 1 + 2
    BY <2>1, <2>2
  <2> QED BY <1>8, <1>11, <2>5, <2>6
<1> QED BY <1>3, <1>5, <1>9, <1>10, <1>11

\* After the sample of the stop bit the rest of the last data bit can pass for a
\* start bit, if the far end is slow, but never at the end of the frame.
LEMMA TrailingMoves ==
  ASSUME LineFits, TxInRange, LineTyped, RxTyped, NEW sent, Synchronised(sent), TrailPlace,
         LineMoves, RxMoves
  PROVE  /\ GoesOn \/ Ends
         /\ Idles \/ Hits
         /\ GoesOn => Sample(Stop) < At' - 2
         /\ Hits => /\ GoesOn /\ rx_state_q' = "RX_START"
                    /\ Sample(Stop) < At' - 2 - RxAt'
                    /\ At' - 2 - RxAt' < Stop * BitLength
<1>1. /\ Sends /\ ~Listens /\ Sample(Stop) < At - 2
      /\ Shows(rx_sync2_q, sent, BitLength, At - 2)
  BY DEF TrailPlace, Synchronised
<1>2. PICK at \in Int : at = At /\ at < Over
  BY <1>1, AtRange
<1>3. GoesOn \/ Ends
  BY <1>1 DEF LineMoves, StaysQuiet, Begins
<1>4. Idles \/ Hits
  BY <1>1 DEF RxMoves, Rejects, CountsOn, Finishes, Listens
<1>5. Sample(Stop) \in Nat
  BY RxPlace
<1>6. GoesOn => At' = at + 1
  BY <1>2 DEF GoesOn
<1>7. GoesOn => Sample(Stop) < At' - 2
  <2>1. Sample(Stop) < at + 1 - 2
    BY <1>1, <1>2, <1>5
  <2> QED BY <1>6, <2>1
<1>8. /\ Over = First + Stop * BitLength + BitLength /\ First \in {-1, 0}
      /\ Stop * BitLength \in Nat /\ BitLength \in Nat /\ BitLength >= 3
      /\ First = -1 => BitLength = Cpb
  BY Lengths DEF First
<1>9. ASSUME Hits PROVE at - 2 < Stop * BitLength
  <2>1. SUFFICES ASSUME at - 2 >= Stop * BitLength PROVE FALSE
    BY <1>8
  <2>2. (Stop + 1) * BitLength = Stop * BitLength + BitLength /\ Stop \in 0 .. Stop
    BY <1>8, Sizes
  <2>3. Stop * BitLength <= at - 2 /\ at - 2 < (Stop + 1) * BitLength
    BY <1>2, <1>8, <2>1, <2>2
  <2>4. rx_sync2_q = Bit(sent, Stop)
    BY <1>1, <1>2, <2>2, <2>3 DEF Shows
  <2>5. Bit(sent, Stop) = 1
    BY Sizes DEF Bit
  <2> QED BY <1>9, <2>4, <2>5 DEF Hits
<1>10. ASSUME Hits PROVE GoesOn
  <2>1. SUFFICES ASSUME at = Over - 1 PROVE FALSE
    BY <1>2, <1>3 DEF Ends
  <2>2. at - 2 < Stop * BitLength
    BY <1>9, <1>10
  <2>3. First = -1
    BY <1>8, <2>1, <2>2
  <2>4. Sample(Stop) = Half + Stop * Cpb /\ Stop * Cpb \in Nat
    BY Sizes, Samples
  <2>5. BitLength = Cpb
    BY <1>8, <2>3
  <2> QED BY <1>1, <1>2, <2>2, <2>4, <2>5, Sizes
<1>11. ASSUME Hits
       PROVE  /\ rx_state_q' = "RX_START"
              /\ Sample(Stop) < At' - 2 - RxAt'
              /\ At' - 2 - RxAt' < Stop * BitLength
  <2>1. rx_state_q' = "RX_START" /\ RxAt' = 1 /\ At' = at + 1
    BY <1>6, <1>10, <1>11 DEF Hits
  <2>2. at + 1 - 2 - 1 = at - 2
    OBVIOUS
  <2>3. Sample(Stop) < at - 2 /\ at - 2 < Stop * BitLength
    BY <1>1, <1>2, <1>9, <1>11
  <2> QED BY <2>1, <2>2, <2>3
<1> QED BY <1>3, <1>4, <1>7, <1>10, <1>11

\* The mistake is found out in the middle of the start bit that is none, before
\* the frame is over.
LEMMA MisledMoves ==
  ASSUME LineFits, TxInRange, LineTyped, RxTyped, NEW sent, Synchronised(sent), MisledPlace,
         LineMoves, RxMoves
  PROVE  /\ GoesOn
         /\ \/ /\ CountsOn /\ rx_state_q' = "RX_START"
               /\ Sample(Stop) < At' - 2 - RxAt'
               /\ At' - 2 - RxAt' < Stop * BitLength
            \/ Rejects /\ Sample(Stop) < At' - 2
<1>1. /\ Sends /\ rx_state_q = "RX_START"
      /\ Sample(Stop) < At - 2 - RxAt /\ At - 2 - RxAt < Stop * BitLength
      /\ Shows(rx_sync2_q, sent, BitLength, At - 2)
  BY DEF MisledPlace, Synchronised
<1>2. PICK at \in Int : at = At /\ at < Over
  BY <1>1, AtRange
<1>3. PICK r \in 1 .. Half : r = RxAt
  <2>1. RxAt \in Nat /\ 1 <= RxAt /\ RxAt <= Half
    BY <1>1, RxPlace
  <2> QED BY <2>1, Sizes
<1>4. Sample(Stop) < at - 2 - r /\ at - 2 - r < Stop * BitLength
  BY <1>1, <1>2, <1>3
<1>5. /\ Over = First + Stop * BitLength + BitLength /\ First \in {-1, 0}
      /\ Stop * BitLength \in Nat /\ BitLength \in Nat /\ BitLength >= 3
      /\ First = -1 => BitLength = Cpb
  BY Lengths DEF First
<1>6. Sample(Stop) = Half + Stop * Cpb /\ Stop * Cpb \in Nat /\ Sample(Stop) \in Nat
  BY Sizes, Samples
<1>7. BitLength > Cpb
  <2>1. SUFFICES ASSUME BitLength <= Cpb PROVE FALSE
    BY <1>5, Sizes
  <2>2. BitLength * Stop <= Cpb * Stop
    BY <1>5, <2>1, Sizes, Grows
  <2>3. BitLength * Stop = Stop * BitLength /\ Cpb * Stop = Stop * Cpb
    BY <1>5, Sizes
  <2> QED BY <1>4, <1>5, <1>6, <2>2, <2>3, Sizes
<1>8. First = 0
  BY <1>5, <1>7, Sizes
<1>9. GoesOn
  <2>1. at # Over - 1
    BY <1>4, <1>5, <1>7, <1>8, Sizes
  <2> QED BY <1>1, <1>2, <2>1 DEF LineMoves, StaysQuiet, Begins, Ends
<1>10. At' = at + 1
  BY <1>2, <1>9 DEF GoesOn
<1>11. Rejects \/ CountsOn
  BY <1>1 DEF RxMoves, Idles, Hits, Finishes, Listens
<1>12. ASSUME r = Half PROVE rx_sync2_q = 1
  <2>1. Stop * BitLength <= Sample(Stop) + 1 + Half
    BY Lengths, SampledInItself
  <2>2. (Stop + 1) * BitLength = Stop * BitLength + BitLength /\ Stop \in 0 .. Stop
    BY <1>5, Sizes
  <2>3. Stop * BitLength <= at - 2 /\ at - 2 < (Stop + 1) * BitLength
    BY <1>2, <1>4, <1>5, <1>6, <1>12, <2>1, <2>2, Sizes
  <2>4. rx_sync2_q = Bit(sent, Stop)
    BY <1>1, <1>2, <2>2, <2>3 DEF Shows
  <2>5. Bit(sent, Stop) = 1
    BY Sizes DEF Bit
  <2> QED BY <2>4, <2>5
<1>13. ASSUME CountsOn
       PROVE  /\ rx_state_q' = "RX_START"
              /\ Sample(Stop) < At' - 2 - RxAt'
              /\ At' - 2 - RxAt' < Stop * BitLength
  <2>1. r # Half
    BY <1>1, <1>3, <1>12, <1>13 DEF CountsOn
  <2>2. rx_state_q' = "RX_START" /\ RxAt' = r + 1
    BY <1>1, <1>3, <1>13, <2>1 DEF CountsOn
  <2>3. at + 1 - 2 - (r + 1) = at - 2 - r
    BY Sizes
  <2> QED BY <1>4, <1>10, <2>2, <2>3
<1>14. ASSUME Rejects PROVE Sample(Stop) < At' - 2
  <2>1. Sample(Stop) < at + 1 - 2
    BY <1>4, <1>6, Sizes
  <2> QED BY <1>10, <2>1
<1> QED BY <1>9, <1>11, <1>13, <1>14

\* The frame is over and the receiver still in RX_STOP.
LEMMA EndingMoves ==
  ASSUME LineFits, LineTyped, RxTyped, EndPlace, LineMoves, RxMoves
  PROVE  /\ StaysQuiet \/ Begins
         /\ \/ CountsOn /\ rx_state_q' = "RX_STOP" /\ Over + 1 <= RxAt' + 2
            \/ Finishes
<1>1. ~Sends /\ rx_state_q = "RX_STOP" /\ Over <= RxAt + 2
  BY DEF EndPlace
<1>2. StaysQuiet \/ Begins
  BY <1>1 DEF LineMoves, GoesOn, Ends
<1>3. CountsOn \/ Finishes
  BY <1>1 DEF RxMoves, Idles, Hits, Rejects, Listens
<1>4. PICK r \in Nat : r = RxAt
  BY RxPlace
<1>5. CountsOn => RxAt' = r + 1 /\ rx_state_q' = "RX_STOP"
  BY <1>1, <1>4 DEF CountsOn
<1>6. Over + 1 <= r + 1 + 2
  BY <1>1, <1>4, FrameLong
<1> QED BY <1>2, <1>3, <1>5, <1>6

\* The next frame has begun and the receiver is still in RX_STOP: it is ready
\* when the start bit comes out of the synchroniser.
LEMMA OverlappingMoves ==
  ASSUME LineFits, TxInRange, LineTyped, RxTyped, OverlapPlace, LineMoves, RxMoves
  PROVE  /\ GoesOn
         /\ \/ /\ CountsOn /\ rx_state_q' = "RX_STOP"
               /\ Over + 1 + (At' - First) <= RxAt' + 2
            \/ Finishes /\ At' <= 2
<1>1. Sends /\ rx_state_q = "RX_STOP" /\ Over + 1 + (At - First) <= RxAt + 2
  BY DEF OverlapPlace
<1>2. PICK at \in Int : at = At
  BY <1>1, AtRange
<1>3. PICK r \in Nat : r = RxAt /\ r <= Sample(Stop)
  BY <1>1, RxPlace
<1>4. /\ Over = First + Stop * BitLength + BitLength /\ First \in {-1, 0}
      /\ Stop * BitLength \in Nat /\ BitLength \in Nat
  BY Lengths DEF First
<1>5. Sample(Stop) <= Stop * BitLength + BitLength /\ Sample(Stop) \in Nat
  <2>1. Sample(Stop) <= (Stop + 1) * BitLength
    BY Lengths, SampledInItself
  <2>2. (Stop + 1) * BitLength = Stop * BitLength + BitLength
    BY <1>4, Sizes
  <2> QED BY <2>1, <2>2, RxPlace
<1>6. Over + 1 + (at - First) <= r + 2
  BY <1>1, <1>2, <1>3
<1>7. at <= 1
  BY <1>3, <1>4, <1>5, <1>6
<1>8. GoesOn
  <2>1. at # Over - 1
    BY <1>7, FrameLong
  <2> QED BY <1>1, <1>2, <2>1 DEF LineMoves, StaysQuiet, Begins, Ends
<1>9. At' = at + 1
  BY <1>2, <1>8 DEF GoesOn
<1>10. CountsOn \/ Finishes
  BY <1>1 DEF RxMoves, Idles, Hits, Rejects, Listens
<1>11. CountsOn => RxAt' = r + 1 /\ rx_state_q' = "RX_STOP"
  BY <1>1, <1>3 DEF CountsOn
<1>12. Over + 1 + (at + 1 - First) <= r + 1 + 2
  BY <1>6, FrameLong
<1>13. at + 1 <= 2
  BY <1>7
<1>14. At' <= 2
  BY <1>9, <1>13
<1>15. CountsOn => Over + 1 + (At' - First) <= RxAt' + 2
  <2>1. ASSUME CountsOn PROVE RxAt' = r + 1
    BY <1>11, <2>1
  <2>2. PICK next \in Int : next = At' /\ next = at + 1
    BY <1>9
  <2>3. Over + 1 + (next - First) <= r + 1 + 2
    BY <1>6, <2>2, FrameLong
  <2> QED BY <2>1, <2>2, <2>3
<1> QED BY <1>8, <1>10, <1>11, <1>14, <1>15

\* A receiver that moves as it should leaves the software in time.
LEMMA SoftwareStep ==
  ASSUME LineFits, SlackFits, TxInRange, RxTyped, SwTyped, Knows, InTime,
         NEW op \in Accesses, Edge(op), RxMoves
  PROVE  SwTyped' /\ Knows' /\ InTime'
<1>1. cpb_q = Cpb /\ Software(op) /\ Registers(op) /\ far' = far
  BY DEF TxInRange, Edge, UartEdge
<1>2. Knows' /\ sw' \in {"poll", "fetch", "got"}
  BY <1>1, KnowsStep
<1>3. age' = IF ~cfg_q.rx_done THEN 0 ELSE IF Urgent THEN age ELSE age + 1
  BY DEF Edge
<1>4. age' \in 0 .. Slack
  BY <1>3, Sizes, LinkAssumption DEF SwTyped, Urgent
<1>5. cfg_q'.tx_en = TRUE /\ cfg_q'.rx_done \in BOOLEAN /\ rdr_q' \in Bytes
  BY <1>1, FlagStep
<1>6. SwTyped'
  BY <1>2, <1>4, <1>5 DEF SwTyped
<1>7. RxAt \in Nat
  BY RxPlace
<1>8. ~Listens' => RxAt' = 0
  BY DEF Listens, RxAt
<1>9. rx_done_pulse => Finishes
  <2>1. ASSUME rx_state_q = "RX_STOP", RxAt = Sample(Stop) PROVE Finishes
    BY <2>1 DEF RxMoves, Idles, Hits, Rejects, CountsOn, Listens
  <2> QED BY <1>1, <2>1, DoneWhen
<1>10. rx_done_pulse => RxAt' = 0
  BY <1>8, <1>9 DEF Finishes
<1>11. RxAt' \in Nat /\ RxAt' <= RxAt + 1
  <2>1. RxAt' = 0 \/ RxAt' = 1 \/ RxAt' = RxAt + 1
    BY <1>8 DEF RxMoves, Idles, Hits, Rejects, CountsOn, Finishes
  <2>2. PICK n \in Nat : n = RxAt' /\ (n = 0 \/ n = 1 \/ n = RxAt + 1)
    BY <1>7, <2>1
  <2>3. n <= RxAt + 1
    BY <1>7, <2>2
  <2> QED BY <2>2, <2>3
<1> QED BY <1>1, <1>2, <1>3, <1>6, <1>10, <1>11, InTimeStep

\* What is in flight, whether a byte is done in this cycle or not.
LEMMA FlightStep ==
  ASSUME LineFits, TxInRange, RxTyped, SwTyped, Knows, InTime,
         NEW op \in Accesses, Edge(op), NEW received \in Bytes, Heard(received)
  PROVE  /\ Idles \/ Hits \/ Rejects \/ CountsOn =>
              \A flight \in Seq(Bytes) : InFlight(flight) => Rest(op) = Waiting' \o flight
         /\ Finishes =>
              /\ InFlight(<<received>>) => Rest(op) = Waiting' \o <<>>
              /\ \A sent \in Bytes :
                   InFlight(<<received, sent>>) => Rest(op) = Waiting' \o <<sent>>
<1>1. cpb_q = Cpb /\ Software(op) /\ Registers(op)
  BY DEF TxInRange, Edge, UartEdge
<1>2. rx_done_pulse <=> rx_state_q = "RX_STOP" /\ RxAt = Sample(Stop)
  BY <1>1, DoneWhen
<1>3. Idles \/ Hits \/ Rejects \/ CountsOn => ~rx_done_pulse
  BY <1>2 DEF Idles, Hits, Rejects, CountsOn, Listens
<1>4. ASSUME Finishes
      PROVE  rx_done_pulse /\ rx_shift_q = received
  BY <1>2, <1>4, HeardAll DEF Finishes
<1>5. ASSUME ~rx_done_pulse, NEW flight \in Seq(Bytes), InFlight(flight)
      PROVE  Rest(op) = Waiting' \o flight
  BY <1>1, <1>5, FlightKept
<1>6. ASSUME Finishes
      PROVE  /\ InFlight(<<received>>) => Rest(op) = Waiting' \o <<>>
             /\ \A sent \in Bytes :
                  InFlight(<<received, sent>>) => Rest(op) = Waiting' \o <<sent>>
  BY <1>1, <1>4, <1>6, FlightDone
<1> QED BY <1>3, <1>5, <1>6

\* A frame that begins is one more byte in flight.
LEMMA FlightBegins ==
  ASSUME SwTyped', NEW rest, NEW byte \in Bytes, pending' = Append(rest, byte)
  PROVE  /\ rest = Waiting' \o <<>> => InFlight(<<byte>>)'
         /\ \A other \in Bytes :
              rest = Waiting' \o <<other>> => InFlight(<<other, byte>>)'
<1>1. PICK w \in Seq(Bytes) : w = Waiting'
  <2>1. Waiting' = IF cfg_q'.rx_done THEN <<rdr_q'>> ELSE <<>>
    BY DEF Waiting
  <2>2. cfg_q'.rx_done \in BOOLEAN /\ rdr_q' \in Bytes
    BY DEF SwTyped
  <2> QED BY <2>1, <2>2, WaitingTyped
<1>2. Append(w \o <<>>, byte) = w \o <<byte>>
  BY Appends
<1>3. \A other \in Bytes : Append(w \o <<other>>, byte) = w \o <<other, byte>>
  BY Appends
<1> QED BY <1>1, <1>2, <1>3 DEF InFlight

\* Sequences of bytes in flight.
LEMMA Flights ==
  /\ <<>> \in Seq(Bytes)
  /\ \A one \in Bytes : <<one>> \in Seq(Bytes)
  /\ \A one, two \in Bytes : <<one, two>> \in Seq(Bytes)
OBVIOUS

\* Line and receiver together: from wherever they are they get to one of the
\* places they can be in.
LEMMA SomewhereStep ==
  ASSUME LineFits, TxInRange, LineTyped, RxTyped, SwTyped, Knows, InTime, SwTyped',
         NEW op \in Accesses, Edge(op), far' = far,
         NEW sent \in Bytes, NEW received \in Bytes,
         Synchronised(sent), Heard(received), Somewhere(sent, received),
         LineMoves, RxMoves,
         NEW next \in Bytes,
         ~Begins => pending' = Rest(op),
         Begins => pending' = Append(Rest(op), next)
  PROVE  /\ Begins => Somewhere(next, received)'
         /\ ~Begins => \/ Somewhere(sent, received)'
                       \/ Hits /\ Somewhere(sent, sent)'
<1>1. /\ Idles \/ Hits \/ Rejects \/ CountsOn =>
           \A flight \in Seq(Bytes) : InFlight(flight) => Rest(op) = Waiting' \o flight
      /\ Finishes =>
           /\ InFlight(<<received>>) => Rest(op) = Waiting' \o <<>>
           /\ InFlight(<<received, sent>>) => Rest(op) = Waiting' \o <<sent>>
  BY FlightStep
<1>2. /\ <<>> \in Seq(Bytes) /\ <<sent>> \in Seq(Bytes) /\ <<received>> \in Seq(Bytes)
      /\ <<received, sent>> \in Seq(Bytes)
  BY Flights
<1>3. ASSUME ~Begins, NEW flight, Rest(op) = Waiting' \o flight
      PROVE  InFlight(flight)'
  BY <1>3 DEF InFlight
<1>4. ASSUME Begins
      PROVE  /\ Rest(op) = Waiting' \o <<>> => InFlight(<<next>>)'
             /\ Rest(op) = Waiting' \o <<received>> => InFlight(<<received, next>>)'
  BY <1>4, FlightBegins
<1>5. Over' = Over /\ First' = First /\ BitLength' = BitLength
  BY LengthsStay
<1>6. StaysQuiet \/ GoesOn \/ Ends => ~Begins
  BY DEF StaysQuiet, GoesOn, Ends, Begins
<1>7. CASE Resting
  <2>1. Idles /\ (StaysQuiet \/ Begins)
    BY <1>7, RestingMoves DEF Resting
  <2>2. Rest(op) = Waiting' \o <<>>
    BY <1>1, <1>2, <1>7, <2>1 DEF Resting, RestPlace
  <2>3. CASE StaysQuiet
    <3>1. Resting'
      BY <1>3, <1>6, <2>1, <2>2, <2>3 DEF Resting, RestPlace, StaysQuiet, Idles
    <3> QED BY <1>6, <2>3, <3>1 DEF Somewhere
  <2>4. CASE Begins
    <3>1. At' <= 2
      <4>1. First = 0 \/ First = -1
        BY DEF First
      <4>2. At' = 0 \/ At' = -1
        BY <2>4, <4>1 DEF Begins
      <4> QED BY <4>2
    <3>2. Starting(next)'
      BY <1>4, <2>1, <2>2, <2>4, <3>1 DEF Starting, StartPlace, Begins, Idles
    <3> QED BY <2>4, <3>2 DEF Somewhere
  <2> QED BY <2>1, <2>3, <2>4
<1>8. CASE Starting(sent)
  <2>1. /\ GoesOn
        /\ \/ Idles /\ At' <= 2
           \/ Hits /\ At' - 2 = RxAt'
    BY <1>8, StartingMoves DEF Starting
  <2>2. InFlight(<<sent>>)'
    <3>1. Rest(op) = Waiting' \o <<sent>>
      BY <1>1, <1>2, <1>8, <2>1 DEF Starting, StartPlace
    <3> QED BY <1>3, <1>6, <2>1, <3>1
  <2>3. CASE Idles /\ At' <= 2
    <3>1. Starting(sent)'
      BY <2>1, <2>2, <2>3 DEF Starting, StartPlace, GoesOn, Idles
    <3> QED BY <1>6, <2>1, <3>1 DEF Somewhere
  <2>4. CASE Hits /\ At' - 2 = RxAt'
    <3>1. Following(sent, sent)'
      BY <2>1, <2>2, <2>4 DEF Following, FollowPlace, GoesOn, Hits, Listens
    <3> QED BY <1>6, <2>1, <2>4, <3>1 DEF Somewhere
  <2> QED BY <2>1, <2>3, <2>4
<1>9. CASE Following(sent, received)
  <2>1. /\ GoesOn \/ Ends
        /\ CountsOn \/ Finishes
        /\ GoesOn /\ CountsOn => At' - 2 = RxAt'
        /\ GoesOn /\ Finishes => Sample(Stop) < At' - 2
        /\ Ends /\ CountsOn => rx_state_q' = "RX_STOP" /\ Over <= RxAt' + 2
    BY <1>9, FollowingMoves DEF Following
  <2>2. received = sent /\ InFlight(<<sent>>) /\ ~Begins
    BY <1>6, <1>9, <2>1 DEF Following, FollowPlace
  <2>3. CountsOn => InFlight(<<sent>>)'
    BY <1>1, <1>2, <1>3, <2>2
  <2>4. Finishes => InFlight(<<>>)'
    BY <1>1, <1>2, <1>3, <2>2
  <2>5. CASE GoesOn /\ CountsOn
    <3>1. Following(sent, received)'
      BY <2>1, <2>2, <2>3, <2>5 DEF Following, FollowPlace, GoesOn, CountsOn
    <3> QED BY <2>2, <3>1 DEF Somewhere
  <2>6. CASE GoesOn /\ Finishes
    <3>1. Trailing'
      BY <2>1, <2>4, <2>6 DEF Trailing, TrailPlace, GoesOn, Finishes
    <3> QED BY <2>2, <3>1 DEF Somewhere
  <2>7. CASE Ends /\ CountsOn
    <3>1. Ending(received)'
      BY <1>5, <2>1, <2>2, <2>3, <2>7 DEF Ending, EndPlace, Ends
    <3> QED BY <2>2, <3>1 DEF Somewhere
  <2>8. CASE Ends /\ Finishes
    <3>1. Resting'
      BY <2>4, <2>8 DEF Resting, RestPlace, Ends, Finishes
    <3> QED BY <2>2, <3>1 DEF Somewhere
  <2> QED BY <2>1, <2>5, <2>6, <2>7, <2>8
<1>10. CASE Trailing
  <2>1. /\ GoesOn \/ Ends
        /\ Idles \/ Hits
        /\ GoesOn => Sample(Stop) < At' - 2
        /\ Hits => /\ GoesOn /\ rx_state_q' = "RX_START"
                   /\ Sample(Stop) < At' - 2 - RxAt'
                   /\ At' - 2 - RxAt' < Stop * BitLength
    BY <1>10, TrailingMoves DEF Trailing
  <2>2. InFlight(<<>>)' /\ ~Begins
    BY <1>1, <1>2, <1>3, <1>6, <1>10, <2>1 DEF Trailing, TrailPlace
  <2>3. CASE GoesOn /\ Idles
    <3>1. Trailing'
      BY <2>1, <2>2, <2>3 DEF Trailing, TrailPlace, GoesOn, Idles
    <3> QED BY <2>2, <3>1 DEF Somewhere
  <2>4. CASE Ends /\ Idles
    <3>1. Resting'
      BY <2>2, <2>4 DEF Resting, RestPlace, Ends, Idles
    <3> QED BY <2>2, <3>1 DEF Somewhere
  <2>5. CASE Hits
    <3>1. Misled'
      BY <1>5, <2>1, <2>2, <2>5 DEF Misled, MisledPlace, GoesOn
    <3> QED BY <2>2, <3>1 DEF Somewhere
  <2> QED BY <2>1, <2>3, <2>4, <2>5
<1>11. CASE Misled
  <2>1. /\ GoesOn
        /\ \/ /\ CountsOn /\ rx_state_q' = "RX_START"
              /\ Sample(Stop) < At' - 2 - RxAt'
              /\ At' - 2 - RxAt' < Stop * BitLength
           \/ Rejects /\ Sample(Stop) < At' - 2
    BY <1>11, MisledMoves DEF Misled
  <2>2. InFlight(<<>>)' /\ ~Begins
    BY <1>1, <1>2, <1>3, <1>6, <1>11, <2>1 DEF Misled, MisledPlace
  <2>3. CASE Rejects /\ Sample(Stop) < At' - 2
    <3>1. Trailing'
      BY <2>1, <2>2, <2>3 DEF Trailing, TrailPlace, GoesOn, Rejects
    <3> QED BY <2>2, <3>1 DEF Somewhere
  <2>4. CASE ~(Rejects /\ Sample(Stop) < At' - 2)
    <3>1. Misled'
      BY <1>5, <2>1, <2>2, <2>4 DEF Misled, MisledPlace, GoesOn
    <3> QED BY <2>2, <3>1 DEF Somewhere
  <2> QED BY <2>3, <2>4
<1>12. CASE Ending(received)
  <2>1. /\ StaysQuiet \/ Begins
        /\ \/ CountsOn /\ rx_state_q' = "RX_STOP" /\ Over + 1 <= RxAt' + 2
           \/ Finishes
    BY <1>12, EndingMoves DEF Ending
  <2>2. /\ CountsOn => Rest(op) = Waiting' \o <<received>>
        /\ Finishes => Rest(op) = Waiting' \o <<>>
    BY <1>1, <1>2, <1>12 DEF Ending, EndPlace
  <2>3. CASE CountsOn /\ rx_state_q' = "RX_STOP" /\ Over + 1 <= RxAt' + 2
    <3>1. CASE StaysQuiet
      <4>1. Over <= RxAt' + 2
        <5>1. RxAt \in Nat /\ RxAt' = RxAt + 1
          BY <2>3, RxPlace DEF CountsOn
        <5>2. PICK r \in Nat : r = RxAt'
          BY <5>1
        <5>3. Over <= r + 2
          BY <2>3, <5>2, FrameLong
        <5> QED BY <5>2, <5>3
      <4>2. Ending(received)'
        BY <1>3, <1>5, <1>6, <2>2, <2>3, <3>1, <4>1 DEF Ending, EndPlace, StaysQuiet
      <4> QED BY <1>6, <3>1, <4>2 DEF Somewhere
    <3>2. CASE Begins
      <4>1. Over' + 1 + (At' - First') <= RxAt' + 2
        <5>1. First - First = 0 /\ Over + 1 + 0 = Over + 1
          BY FrameLong
        <5>2. At' - First' = 0 /\ Over' + 1 + 0 = Over + 1
          BY <1>5, <3>2, <5>1 DEF Begins
        <5> QED BY <2>3, <5>2
      <4>2. Overlapping(next, received)'
        BY <1>4, <2>2, <2>3, <3>2, <4>1 DEF Overlapping, OverlapPlace, Begins
      <4> QED BY <3>2, <4>2 DEF Somewhere
    <3> QED BY <2>1, <3>1, <3>2
  <2>4. CASE Finishes
    <3>1. CASE StaysQuiet
      <4>1. Resting'
        BY <1>3, <1>6, <2>2, <2>4, <3>1 DEF Resting, RestPlace, StaysQuiet, Finishes
      <4> QED BY <1>6, <3>1, <4>1 DEF Somewhere
    <3>2. CASE Begins
      <4>1. At' <= 2
        <5>1. First = 0 \/ First = -1
          BY DEF First
        <5>2. At' = 0 \/ At' = -1
          BY <3>2, <5>1 DEF Begins
        <5> QED BY <5>2
      <4>2. Starting(next)'
        BY <1>4, <2>2, <2>4, <3>2, <4>1 DEF Starting, StartPlace, Begins, Finishes
      <4> QED BY <3>2, <4>2 DEF Somewhere
    <3> QED BY <2>1, <3>1, <3>2
  <2> QED BY <2>1, <2>3, <2>4
<1>13. CASE Overlapping(sent, received)
  <2>1. /\ GoesOn
        /\ \/ /\ CountsOn /\ rx_state_q' = "RX_STOP"
              /\ Over + 1 + (At' - First) <= RxAt' + 2
           \/ Finishes /\ At' <= 2
    BY <1>13, OverlappingMoves DEF Overlapping
  <2>2. /\ CountsOn => InFlight(<<received, sent>>)'
        /\ Finishes => InFlight(<<sent>>)'
        /\ ~Begins
    BY <1>1, <1>2, <1>3, <1>6, <1>13, <2>1 DEF Overlapping, OverlapPlace
  <2>3. CASE Finishes /\ At' <= 2
    <3>1. Starting(sent)'
      BY <2>1, <2>2, <2>3 DEF Starting, StartPlace, GoesOn, Finishes
    <3> QED BY <2>2, <3>1 DEF Somewhere
  <2>4. CASE ~(Finishes /\ At' <= 2)
    <3>1. Overlapping(sent, received)'
      BY <1>5, <2>1, <2>2, <2>4 DEF Overlapping, OverlapPlace, GoesOn
    <3> QED BY <2>2, <3>1 DEF Somewhere
  <2> QED BY <2>3, <2>4
<1> QED BY <1>7, <1>8, <1>9, <1>10, <1>11, <1>12, <1>13 DEF Somewhere

\* One clock edge.
LEMMA LinkEdge ==
  ASSUME LineFits, SlackFits, TxInRange, LinkInv, NEW op \in Accesses, Edge(op)
  PROVE  LinkInv'
<1>1. /\ LineTyped /\ TxRests /\ RxTyped /\ SwTyped /\ Knows /\ InTime
      /\ cpb_q = Cpb /\ Receiver(Level)
  BY DEF LinkInv, TxInRange, Edge, UartEdge
<1>2. PICK sent \in Bytes, received \in Bytes : Coupled(sent, received)
  BY DEF LinkInv
<1>3. Line(sent) /\ Synchronised(sent) /\ Heard(received) /\ Somewhere(sent, received)
  BY <1>2 DEF Coupled
<1>4. /\ far' = far /\ LineTyped'
      /\ \/ StaysQuiet /\ pending' = Rest(op) /\ Line(sent)'
         \/ Begins /\ \E byte \in Bytes :
              pending' = Append(Rest(op), byte) /\ Line(byte)'
         \/ GoesOn /\ pending' = Rest(op) /\ Line(sent)'
         \/ Ends /\ pending' = Rest(op) /\ Line(sent)'
  BY <1>1, <1>3, LineStep
<1>5. LineMoves
  BY <1>4 DEF LineMoves
<1>6. Level \in {0, 1}
  BY <1>3 DEF Line, Shows
<1>7. rx_state_q = "RX_DATA" =>
        \A b \in 1 .. DataBits : RxAt = Sample(b) => rx_sync2_q = received[b]
  BY <1>1, <1>3, SamplesRight
<1>8. /\ RxTyped' /\ Heard(received)'
      /\ \/ Idles \/ Rejects \/ CountsOn \/ Finishes
         \/ Hits /\ \A other : Heard(other)'
  BY <1>1, <1>3, <1>6, <1>7, RxStep
<1>9. RxMoves
  BY <1>8 DEF RxMoves
<1>10. SwTyped' /\ Knows' /\ InTime'
  BY <1>1, <1>9, SoftwareStep
<1>11. PICK next \in Bytes :
         /\ Begins => pending' = Append(Rest(op), next) /\ Line(next)'
         /\ ~Begins => pending' = Rest(op) /\ Line(sent)'
  <2>1. CASE Begins
    <3>1. PICK byte \in Bytes : pending' = Append(Rest(op), byte) /\ Line(byte)'
      BY <1>4, <2>1 DEF StaysQuiet, GoesOn, Ends, Begins
    <3> QED BY <2>1, <3>1
  <2>2. CASE ~Begins
    BY <1>4, <2>2
  <2> QED BY <2>1, <2>2
<1>12. /\ StaysQuiet => \A byte : Synchronised(byte)'
       /\ Begins => \A byte : Synchronised(byte)'
       /\ GoesOn => Synchronised(sent)'
       /\ Ends => \A byte : Synchronised(byte)'
  BY <1>1, <1>3, <1>4, SynchronisedStep
<1>13. /\ Begins => Somewhere(next, received)'
       /\ ~Begins => \/ Somewhere(sent, received)'
                     \/ Hits /\ Somewhere(sent, sent)'
  BY <1>1, <1>3, <1>4, <1>5, <1>9, <1>10, <1>11, SomewhereStep
<1>14. \E s, r \in Bytes : Coupled(s, r)'
  <2>1. CASE Begins
    <3>1. Coupled(next, received)'
      BY <1>8, <1>11, <1>12, <1>13, <2>1 DEF Coupled
    <3> QED BY <3>1
  <2>2. CASE ~Begins /\ Somewhere(sent, received)'
    <3>1. Coupled(sent, received)'
      BY <1>5, <1>8, <1>11, <1>12, <2>2 DEF Coupled, LineMoves
    <3> QED BY <3>1
  <2>3. CASE ~Begins /\ Hits /\ Somewhere(sent, sent)'
    <3>1. Heard(sent)'
      BY <1>8, <2>3 DEF Idles, Hits, Rejects, CountsOn, Finishes, Listens
    <3>2. Coupled(sent, sent)'
      BY <1>5, <1>11, <1>12, <2>3, <3>1 DEF Coupled, LineMoves
    <3> QED BY <3>2
  <2> QED BY <1>13, <2>1, <2>2, <2>3
<1>15. TxRests'
  BY <1>1, TxRestsStep
<1> QED BY <1>4, <1>8, <1>10, <1>14, <1>15 DEF LinkInv

\* Reset.
LEMMA LinkAtFirst ==
  ASSUME LineFits, Init
  PROVE  LinkInv
<1>1. /\ tx_state_q = "TX_IDLE" /\ tx_shift_q = Zero /\ tx_o = 1
      /\ rx_state_q = "RX_IDLE" /\ rx_bit_cnt_q = 0 /\ rx_shift_q = Zero
      /\ rx_sync1_q = 1 /\ rx_sync2_q = 1
      /\ cfg_q = [tx_en |-> TRUE, rx_done |-> FALSE, tx_done |-> FALSE]
      /\ rdr_q = Zero /\ response = Idle
      /\ far \in FarBits \cup {0} /\ frame = <<>> /\ pending = <<>>
      /\ sw = "poll" /\ age = 0
  BY DEF Init, UartInit
<1>2. Zero \in Bytes
  BY DEF Zero, Bytes
<1>3. LineTyped /\ TxRests
  <2>1. <<>> \in Seq({0, 1})
    OBVIOUS
  <2> QED BY <1>1, <1>2, <2>1 DEF LineTyped, TxRests
<1>4. RxTyped
  <2>1. 0 \in 0 .. DataBits - 1
    BY Sizes
  <2> QED BY <1>1, <1>2, <2>1 DEF RxTyped
<1>5. SwTyped
  <2>1. 0 \in 0 .. Slack
    BY LinkAssumption
  <2> QED BY <1>1, <1>2, <2>1 DEF SwTyped
<1>6. Knows /\ InTime
  BY <1>1 DEF Knows, InTime, Idle
<1>7. ~Sends /\ ~Listens
  BY <1>1 DEF Sends, Listens
<1>8. Line(Zero)
  <2>1. ToSend(Zero)
    <3>1. ~\E i \in 1 .. Len(<<>>) : TRUE
      BY EmptySeq
    <3> QED BY <1>1, <3>1 DEF ToSend, TxToSend, FarToSend
  <2>2. Level = 1
    BY <1>1 DEF Level, FarLevel
  <2> QED BY <1>7, <2>1, <2>2 DEF Line
<1>9. Synchronised(Zero)
  BY <1>1, <1>7 DEF Synchronised
<1>10. Heard(Zero)
  <2>1. Sampled = 0
    BY <1>1 DEF Sampled
  <2> QED BY <2>1 DEF Heard
<1>11. Resting
  <2>1. <<>> \o <<>> = <<>>
    OBVIOUS
  <2> QED BY <1>1, <1>7, <2>1 DEF Resting, RestPlace, InFlight, Waiting
<1>12. Coupled(Zero, Zero)
  BY <1>8, <1>9, <1>10, <1>11 DEF Coupled, Somewhere
<1> QED BY <1>2, <1>3, <1>4, <1>5, <1>6, <1>12 DEF LinkInv

\* Nothing happens.
LEMMA LinkStays ==
  ASSUME LinkInv, UNCHANGED vars
  PROVE  LinkInv'
<1>1. /\ UNCHANGED <<cpb_q, rdr_q, tdr_q, cfg_q, response>>
      /\ UNCHANGED <<tx_state_q, tx_baud_cnt_q, tx_bit_cnt_q, tx_shift_q, tx_o>>
      /\ UNCHANGED <<rx_state_q, rx_baud_cnt_q, rx_bit_cnt_q, rx_shift_q>>
      /\ UNCHANGED <<rx_sync1_q, rx_sync2_q>>
      /\ UNCHANGED <<far, frame, phase, pending, sw, got, quiet, age>>
  BY DEF vars, uartVars, regVars, txVars, rxVars, lineVars, linkVars
<1>2. /\ Looped' = Looped /\ BitLength' = BitLength /\ First' = First /\ Over' = Over
      /\ Sends' = Sends /\ At' = At /\ Level' = Level
  BY <1>1 DEF Looped, BitLength, First, Over, Sends, At, TxBit, FarBit, Level,
              FarLevel
<1>3. /\ Listens' = Listens /\ RxAt' = RxAt /\ Sampled' = Sampled
      /\ Waiting' = Waiting
  BY <1>1 DEF Listens, RxAt, Sampled, Waiting
<1>4. LineTyped' /\ TxRests' /\ RxTyped' /\ SwTyped' /\ Knows'
  BY <1>1, <1>2 DEF LinkInv, LineTyped, TxRests, RxTyped, SwTyped, Knows
<1>5. Left' = Left
  BY <1>1, <1>2 DEF Left, Serving, Urgent
<1>6. InTime'
  BY <1>1, <1>2, <1>3, <1>5 DEF LinkInv, InTime
<1>7. PICK sent \in Bytes, received \in Bytes : Coupled(sent, received)
  BY DEF LinkInv
<1>8. Line(sent)' /\ Synchronised(sent)'
  BY <1>1, <1>2, <1>7 DEF Coupled, Line, ToSend, TxToSend, FarToSend, FarBit, Synchronised
<1>9. Heard(received)'
  BY <1>1, <1>3, <1>7 DEF Coupled, Heard
<1>10. Somewhere(sent, received)'
  BY <1>1, <1>2, <1>3, <1>7
     DEF Coupled, Somewhere, Resting, Starting, Following, Trailing, Misled, Ending,
         Overlapping, InFlight, RestPlace, StartPlace, FollowPlace, TrailPlace,
         MisledPlace, EndPlace, OverlapPlace
<1>11. Coupled(sent, received)'
  BY <1>8, <1>9, <1>10 DEF Coupled
<1> QED BY <1>4, <1>6, <1>7, <1>11 DEF LinkInv

\* For every alphabet, tolerated far end and software that is in time: the line,
\* the receiver and the software are coupled at every clock edge.
THEOREM LinkAlways ==
  ASSUME LinkFits
  PROVE  Spec => [](TxInv /\ LinkInv)
<1>1. Init => LinkInv
  BY LinkAtFirst DEF LinkFits
<1>2. TxInv /\ LinkInv /\ [Tick]_vars => LinkInv'
  <2>1. ASSUME TxInv, LinkInv, NEW op \in Accesses, Edge(op) PROVE LinkInv'
    BY <2>1, LinkEdge DEF TxInv, LinkFits
  <2> QED BY <2>1, LinkStays DEF Tick
<1> QED BY <1>1, <1>2, WaitCoversAlways, PTL DEF Spec

-----------------------------------------------------------------------------
(***************************************************************************)
(* What the software sees.                                                 *)
(***************************************************************************)
\* What is pending: the byte in RDR, if one waits there, and at most two more.
LEMMA Pending ==
  ASSUME LinkInv
  PROVE  \E sent, received \in Bytes :
           /\ Somewhere(sent, received)
           /\ \E flight \in {<<>>, <<sent>>, <<received>>, <<received, sent>>} :
                /\ flight \in Seq(Bytes) /\ InFlight(flight)
                /\ flight = <<received, sent>> => Overlapping(sent, received)
                /\ flight # <<>> => Sends \/ Listens
<1>1. PICK sent \in Bytes, received \in Bytes : Somewhere(sent, received)
  BY DEF LinkInv, Coupled
<1>2. /\ <<>> \in Seq(Bytes) /\ <<sent>> \in Seq(Bytes) /\ <<received>> \in Seq(Bytes)
      /\ <<received, sent>> \in Seq(Bytes)
      /\ <<received, sent>> \notin {<<>>, <<sent>>, <<received>>}
  <2>1. Len(<<received, sent>>) = 2 /\ Len(<<sent>>) = 1 /\ Len(<<received>>) = 1
        /\ Len(<<>>) = 0
    OBVIOUS
  <2>2. <<received, sent>> \notin {<<>>, <<sent>>, <<received>>}
    BY <2>1
  <2> QED BY <2>2, Flights
<1>3. CASE Resting \/ Trailing \/ Misled
  <2>1. InFlight(<<>>)
    BY <1>3 DEF Resting, Trailing, Misled
  <2> QED BY <1>1, <1>2, <2>1
<1>4. CASE Starting(sent) \/ Following(sent, received)
  <2>1. InFlight(<<sent>>) /\ Sends
    BY <1>4 DEF Starting, Following, StartPlace, FollowPlace
  <2> QED BY <1>1, <1>2, <2>1
<1>5. CASE Ending(received)
  <2>1. InFlight(<<received>>) /\ Listens
    BY <1>5 DEF Ending, EndPlace, Listens
  <2> QED BY <1>1, <1>2, <2>1
<1>6. CASE Overlapping(sent, received)
  <2>1. InFlight(<<received, sent>>) /\ Sends
    BY <1>6 DEF Overlapping, OverlapPlace
  <2> QED BY <1>1, <1>2, <1>6, <2>1
<1> QED BY <1>1, <1>3, <1>4, <1>5, <1>6 DEF Somewhere

\* When the next frame has begun while the receiver is in RX_STOP, the byte
\* before has been read.
LEMMA OverlappingAlone ==
  ASSUME LineFits, TxInRange, LinkInv, NEW sent, NEW received,
         Overlapping(sent, received)
  PROVE  ~cfg_q.rx_done
<1>1. LineTyped /\ RxTyped /\ SwTyped /\ InTime
  BY DEF LinkInv
<1>2. Sends /\ Over + 1 + (At - First) <= RxAt + 2
  BY DEF Overlapping, OverlapPlace
<1>3. At \in Int /\ First <= At /\ First \in Int /\ Over \in Int
  BY <1>1, <1>2, AtRange, Lengths
<1>4. RxAt \in Nat /\ Sample(Stop) \in Nat
  BY <1>1, RxPlace
<1>5. Over <= RxAt + 1
  BY <1>2, <1>3, <1>4
<1>6. Left \in Int /\ Left >= 1
  BY <1>1, LeftPositive
<1>7. /\ Over = First + Stop * BitLength + BitLength
      /\ BitLength \in Nat /\ Stop * BitLength \in Nat
      /\ Looped => BitLength = Cpb /\ First = -1
      /\ ~Looped => First = 0
  BY <1>1, Lengths
<1>8. CASE Looped
  <2>1. Sample(Stop) = Half + Stop * Cpb /\ Stop * Cpb \in Nat
    BY Sizes, Samples
  <2>2. Over = -1 + Stop * Cpb + Cpb
    BY <1>7, <1>8
  <2>3. Sample(Stop) + 1 - RxAt < 2
    BY <1>4, <1>5, <2>1, <2>2, Sizes
  <2>4. cfg_q.rx_done => Left + 1 <= Sample(Stop) + 1 - RxAt
    BY <1>1, <1>8 DEF InTime
  <2> QED BY <1>4, <1>6, <2>3, <2>4
<1>9. CASE ~Looped
  <2>1. Sample(Stop) <= (Stop + 1) * BitLength
    BY <1>1, Lengths, SampledInItself
  <2>2. (Stop + 1) * BitLength = Stop * BitLength + BitLength
    BY <1>7, Sizes
  <2>3. Sample(Stop) <= Over
    BY <1>4, <1>7, <1>9, <2>1, <2>2
  <2>4. cfg_q.rx_done => Left + 2 <= Sample(Stop) + 1 - RxAt
    BY <1>1, <1>9 DEF InTime
  <2>5. Sample(Stop) + 1 - RxAt <= 2
    BY <1>3, <1>4, <1>5, <2>3
  <2> QED BY <1>4, <1>6, <2>4, <2>5
<1> QED BY <1>8, <1>9

\* For every width of a byte, alphabet, tolerated far end and pace of a software
\* that is in time: g1() returns the bytes of the line in order, each as it was
\* sent (uart_axi.sv's receiver samples every bit inside itself, and RDR is read
\* before the next byte overwrites it).
THEOREM ByteForByteAlways ==
  ASSUME LinkFits
  PROVE  Spec => []ByteForByte
<1>1. ASSUME LinkInv, sw = "got"
      PROVE  pending # <<>> /\ got = Head(pending)
  <2>1. cfg_q.rx_done /\ got = rdr_q /\ rdr_q \in Bytes
    BY <1>1 DEF LinkInv, Knows, SwTyped
  <2>2. PICK flight \in Seq(Bytes) : pending = <<rdr_q>> \o flight
    <3>1. PICK flight \in Seq(Bytes) : InFlight(flight)
      BY <1>1, Pending
    <3> QED BY <2>1, <3>1 DEF InFlight, Waiting
  <2>3. <<rdr_q>> \in Seq(Bytes) /\ Len(<<rdr_q>>) = 1 /\ <<rdr_q>>[1] = rdr_q
    BY <2>1
  <2>4. /\ <<rdr_q>> \o flight \in Seq(Bytes)
        /\ Len(<<rdr_q>> \o flight) = Len(<<rdr_q>>) + Len(flight)
        /\ \A i \in 1 .. Len(<<rdr_q>>) + Len(flight) :
             (<<rdr_q>> \o flight)[i] =
               IF i <= Len(<<rdr_q>>) THEN <<rdr_q>>[i] ELSE flight[i - Len(<<rdr_q>>)]
    BY <2>3, ConcatProperties
  <2>5. Len(flight) \in Nat
    BY LenProperties
  <2>6. Len(pending) # 0 /\ pending[1] = rdr_q /\ pending \in Seq(Bytes)
    <3>1. 1 \in 1 .. Len(<<rdr_q>>) + Len(flight) /\ 1 <= Len(<<rdr_q>>)
      BY <2>3, <2>5
    <3>2. (<<rdr_q>> \o flight)[1] = rdr_q
      BY <2>3, <2>4, <3>1
    <3>3. Len(<<rdr_q>> \o flight) # 0
      BY <2>3, <2>4, <2>5
    <3> QED BY <2>2, <2>4, <3>2, <3>3
  <2>7. pending # <<>>
    BY <2>6, EmptySeq
  <2>8. Head(pending) = pending[1]
    BY <2>6, <2>7, HeadTailProperties
  <2> QED BY <2>1, <2>6, <2>7, <2>8
<1> QED BY <1>1, LinkAlways, PTL DEF ByteForByte

\* Under the same hypothesis nothing is lost silently: no more than two bytes
\* are on their way, and one that is on its way is on the line, in the receiver
\* or announced by RX_DONE.
THEOREM NothingLostAlways ==
  ASSUME LinkFits
  PROVE  Spec => []NothingLost
<1>1. ASSUME TxInv, LinkInv
      PROVE  NothingLost
  <2>1. PICK sent \in Bytes, received \in Bytes :
          \E flight \in {<<>>, <<sent>>, <<received>>, <<received, sent>>} :
            /\ flight \in Seq(Bytes) /\ InFlight(flight)
            /\ flight = <<received, sent>> => Overlapping(sent, received)
            /\ flight # <<>> => Sends \/ Listens
    BY <1>1, Pending
  <2>2. PICK flight \in {<<>>, <<sent>>, <<received>>, <<received, sent>>} :
          /\ flight \in Seq(Bytes) /\ InFlight(flight)
          /\ flight = <<received, sent>> => Overlapping(sent, received)
          /\ flight # <<>> => Sends \/ Listens
    BY <2>1
  <2>3. Len(flight) \in 0 .. 2
    BY <2>2
  <2>4. flight = <<received, sent>> => ~cfg_q.rx_done
    BY <1>1, <2>2, OverlappingAlone DEF TxInv, LinkFits
  <2>5. cfg_q.rx_done => Len(flight) <= 1
    BY <2>2, <2>4
  <2>6. CASE cfg_q.rx_done
    <3>1. pending = <<rdr_q>> \o flight
      BY <2>2, <2>6 DEF InFlight, Waiting
    <3>2. <<rdr_q>> \in Seq(Bytes) /\ Len(<<rdr_q>>) = 1
      BY <1>1 DEF LinkInv, SwTyped
    <3>3. Len(<<rdr_q>> \o flight) = Len(<<rdr_q>>) + Len(flight)
      BY <2>2, <3>2, ConcatProperties
    <3>4. Len(pending) <= 2
      BY <2>3, <2>5, <2>6, <3>1, <3>2, <3>3
    <3> QED BY <2>6, <3>4 DEF NothingLost
  <2>7. CASE ~cfg_q.rx_done
    <3>1. pending = flight
      <4>1. <<>> \o flight = flight
        BY <2>2, ConcatEmptySeq
      <4> QED BY <2>2, <2>7, <4>1 DEF InFlight, Waiting
    <3>2. Len(pending) <= 2
      <4>1. PICK n \in 0 .. 2 : n = Len(flight)
        BY <2>3
      <4>2. n <= 2
        BY <4>1
      <4> QED BY <3>1, <4>1, <4>2
    <3>3. Sends => frame # <<>> \/ tx_state_q # "TX_IDLE"
      BY DEF Sends
    <3> QED BY <2>2, <3>1, <3>2, <3>3 DEF NothingLost, Listens
  <2> QED BY <2>6, <2>7
<1> QED BY <1>1, LinkAlways, PTL

-----------------------------------------------------------------------------
(***************************************************************************)
(* HelloWorld.  The program, and the frames it has begun.                  *)
(***************************************************************************)
\* The bytes the program sends, and the places of pc about them.
Ours == {"R", "msg"}
ByteOf(about) == IF about = "R" THEN R ELSE msg[index + 1]

Places ==
  [access : {"cpb", "cfg"}, about : {"R"}]
    \cup [access : {"tdr", "read", "start"}, about : Ours]
    \cup [access : {"poll", "reread", "clear"}, about : Ours \cup {"A"}]
    \cup [access : {"rdr"}, about : {"A"}]
    \cup {Final}

FlagsRead == [tx_en : {FALSE}, rx_done : BOOLEAN, tx_done : BOOLEAN]

\* A response, if any, is to the access pc waits for or to a write before it.
ResponseTyped ==
  \/ response = Idle
  \/ /\ response.what = "written"
     /\ pc.access \notin {"start", "reread", "clear"}
  \/ /\ response.what = "cfg" /\ response.value \in FlagsRead
     /\ pc.access \in {"read", "poll", "reread"}
  \/ response.what = "rdr" /\ pc.access = "rdr"

ProgramTyped ==
  /\ pc \in Places /\ index \in 0 .. Len(Text) /\ ret \in {-1, 0, 1}
  /\ idle \in 0 .. MaxIdle
  /\ cfg \in FlagsRead /\ cfg_q \in FlagsRead /\ tx_done_set \in BOOLEAN
  /\ ResponseTyped

\* msg begins with the text and its zero, and nobody writes it.
MsgIs ==
  \A k \in 0 .. Len(Text) :
    msg[k + 1] = Dialogue[k + 2] /\ (msg[k + 1] = Nul <=> k = Len(Text))

\* A frame is sent while the program polls for its end, TX_DONE comes after it
\* and is gone before the next.
Polls == pc.access = "poll" /\ pc.about \in Ours
Follows ==
  /\ tx_state_q # "TX_IDLE" => Polls /\ ~tx_done_set /\ ~cfg_q.tx_done
  /\ tx_done_set => Polls /\ ~cfg_q.tx_done
  /\ cfg_q.tx_done => pc.access \in {"poll", "reread", "clear"} /\ pc.about \in Ours
  /\ response.what = "cfg" /\ response.value.tx_done => cfg_q.tx_done
  /\ Polls => tx_state_q # "TX_IDLE" \/ tx_done_set \/ cfg_q.tx_done
  /\ pc.access \in {"read", "start"} => tdr_q = ByteOf(pc.about)

\* Frames begun, this one included.
Begun ==
  CASE pc.about = "R" -> IF pc.access \in {"poll", "reread", "clear"} THEN 1 ELSE 0
    [] pc.about = "A" -> 1
    [] pc.about = "msg" ->
         index + (IF pc.access \in {"poll", "reread", "clear"} THEN 2 ELSE 1)
    [] OTHER -> IF ret = 0 THEN index + 2 ELSE 1

\* The cycles until the program can begin the next one, at least.
ToStart ==
  CASE pc.access = "start" -> 1
    [] pc.access = "read" ->
         IF response.what = "cfg" THEN 2 ELSE IF response = Idle THEN 3 ELSE 4
    [] pc.access = "tdr" -> IF response = Idle THEN 5 ELSE 6
    [] pc.access = "rdr" -> 6
    [] pc.access = "reread" -> IF response = Idle THEN 9 ELSE 8
    [] pc.access = "poll" ->
         IF pc.about = "A" \/ (response.what = "cfg" /\ response.value.tx_done) THEN 10
         ELSE IF cfg_q.tx_done THEN 11 ELSE 12
    [] OTHER -> 7

ProgramInv == TxInRange /\ ProgramTyped /\ MsgIs /\ Follows

(***************************************************************************)
(* The host reads what the transmitter sends.                              *)
(***************************************************************************)
\* The cycle of the frame; the output is one behind.
TxAt == TxBit * Cpb + tx_baud_cnt_q

Says(byte) ==
  IF tx_state_q = "TX_IDLE" THEN tx_o = 1
  ELSE TxToSend(byte) /\ Shows(tx_o, byte, Cpb, TxAt - 1)

\* The bits it has sampled are the first of byte.
HasRead(byte) ==
  /\ bits \in Seq({0, 1}) /\ Len(bits) <= DataBits
  /\ \A i \in 1 .. Len(bits) : bits[i] = byte[i]
  /\ Len(bits) > 0 => MiddleOf(Len(bits)) < cnt
  /\ Len(bits) < DataBits => cnt <= MiddleOf(Len(bits) + 1)

\* It reads in step, has read the frame before it is over, waits for the next,
\* or still reads when the frame is over.
InStep == /\ tx_state_q # "TX_IDLE" /\ cnt = TxAt /\ Len(transcript) + 1 = Begun
          /\ cnt > 0 => HasRead(Dialogue[Begun])
Ahead == /\ tx_state_q # "TX_IDLE" /\ cnt = 0 /\ Len(transcript) = Begun
         /\ ReadCycles < TxAt
Awaits == tx_state_q = "TX_IDLE" /\ cnt = 0 /\ Len(transcript) = Begun
Behind == /\ tx_state_q = "TX_IDLE" /\ Len(transcript) + 1 = Begun
          /\ (DataBits + 2) * Cpb <= cnt
          /\ ReadCycles + 1 - cnt <= ToStart
          /\ HasRead(Dialogue[Begun])

HostInv ==
  /\ cnt \in 0 .. ReadCycles
  /\ far \in FarBits /\ transcript \in Seq(Bytes)
  /\ \A k \in 1 .. Len(transcript) : transcript[k] = Dialogue[k]
  /\ tx_state_q # "TX_IDLE" => Begun >= 1
  /\ Says(Dialogue[Begun])
  /\ InStep \/ Ahead \/ Awaits \/ Behind

(***************************************************************************)
(* The answer.                                                             *)
(***************************************************************************)
\* The cycles until the program has cleared TX_DONE of R, at most.
Due ==
  IF tx_state_q # "TX_IDLE" THEN Sending + 6 + 3 * MaxIdle
  ELSE CASE pc.access = "poll" ->
              IF response.what = "cfg" /\ response.value.tx_done THEN 3 + 2 * MaxIdle
              ELSE IF ~cfg_q.tx_done THEN 6 + 3 * MaxIdle
              ELSE IF response = Idle THEN 4 + 3 * MaxIdle - idle ELSE 5 + 3 * MaxIdle
         [] pc.access = "reread" ->
              IF response = Idle THEN 2 + 2 * MaxIdle - idle ELSE 1 + MaxIdle
         [] OTHER -> MaxIdle - idle

\* The cycles until the answer is complete.
ToPulse ==
  IF transcript = <<>> THEN ReadCycles - cnt + 3 + Sample(Stop)
  ELSE IF Sends THEN Sample(Stop) + 2 - At ELSE Sample(Stop) - RxAt

\* The program knows nothing of it; or it has left R behind, and while it waits
\* for the answer RX_DONE stands.
Unheard ==
  /\ ~cfg_q.rx_done
  /\ response.what = "cfg" => ~response.value.rx_done
  /\ pc.about = "R" \/ (pc.about = "A" /\ pc.access = "poll")
Heeded ==
  /\ pc.about # "R"
  /\ pc.about = "A" /\ pc.access # "rdr" => cfg_q.rx_done

\* TX_DONE of R is cleared in time.
Clearing == pc.about = "R" /\ pc.access \in {"poll", "reread", "clear"}
Soon == Clearing => Due <= ToPulse

NotYet == transcript = <<>> /\ RestPlace /\ Unheard /\ Soon
OnTheWay ==
  /\ transcript # <<>> /\ (StartPlace \/ FollowPlace \/ EndPlace)
  /\ Unheard /\ Soon
Arrived ==
  /\ transcript # <<>> /\ (RestPlace \/ TrailPlace \/ MisledPlace)
  /\ rdr_q = A /\ Heeded

AnswerInv ==
  /\ Line(A) /\ Synchronised(A) /\ Heard(A)
  /\ NotYet \/ OnTheWay \/ Arrived
  /\ response.what = "rdr" => response.value = A
  /\ ret # 1

(***************************************************************************)
(* One cycle of the program.                                               *)
(***************************************************************************)
\* What one cycle does to the transmitter.
TxStays == tx_state_q = "TX_IDLE" /\ tx_state_q' = "TX_IDLE"
TxBegins == tx_state_q = "TX_IDLE" /\ tx_state_q' = "TX_START" /\ tx_shift_q' = tdr_q
TxGoesOn == tx_state_q # "TX_IDLE" /\ tx_state_q' # "TX_IDLE" /\ Sending' = Sending - 1
TxEnds == tx_state_q # "TX_IDLE" /\ tx_state_q' = "TX_IDLE" /\ Sending = 1

\* It begins when a one is written to CFG[0] between two frames, and tx_done_set
\* follows the end of the frame.
LEMMA TekTurns ==
  ASSUME TxInRange, NEW op, NEW level, TekEdge(op, level), cpb_q' = Cpb
  PROVE  /\ TxInRange'
         /\ IF tx_state_q = "TX_IDLE"
              THEN /\ IF op.what = "cfg" /\ op.tx_en THEN TxBegins ELSE TxStays
                   /\ tx_o' = 1 /\ tx_baud_cnt_q' = 0 /\ tx_bit_cnt_q' = 0
                   /\ tx_done_set' = FALSE
              ELSE /\ TxStart \/ TxData \/ TxStop
                   /\ \/ TxGoesOn /\ tx_done_set' = FALSE
                      \/ TxEnds /\ tx_done_set' = TRUE /\ tx_o' = 1
<1>0. Cpb \in Nat /\ Cpb >= 1 /\ DataBits \in Nat /\ DataBits >= 1
  BY BitCycles
<1>1. /\ TekIdle(op) \/ TxStart \/ TxData \/ TxStop
      /\ tx_done_set' = tx_done_pulse
  BY DEF TekEdge, Done
<1>2. CASE tx_state_q = "TX_IDLE"
  <2>1. TekIdle(op)
    BY <1>1, <1>2 DEF TxStart, TxData, TxStop
  <2>2. TxInRange'
    BY <1>0, <1>2, <2>1 DEF TxInRange, TekIdle
  <2>3. tx_done_set' = FALSE
    BY <1>1, <1>2 DEF tx_done_pulse
  <2> QED BY <1>2, <2>1, <2>2, <2>3 DEF TekIdle, start_pulse, TxBegins, TxStays
<1>3. CASE tx_state_q # "TX_IDLE"
  <2>1. TxStart \/ TxData \/ TxStop
    BY <1>1, <1>3 DEF TekIdle
  <2>2. TxInRange' /\ Sending' = Sending - 1 /\ Sending \in Int
    BY <2>1, SendingFalls, SendingPositive
  <2>3. CASE tx_state_q' # "TX_IDLE"
    <3>1. tx_done_set' = FALSE
      BY <1>1, <2>1, <2>3 DEF tx_done_pulse, TxStart, TxData, TxStop
    <3> QED BY <1>3, <2>1, <2>2, <2>3, <3>1 DEF TxGoesOn
  <2>4. CASE tx_state_q' = "TX_IDLE"
    <3>1. TxStop /\ BitEnd(tx_baud_cnt_q) /\ tx_o' = 1
      BY <1>3, <2>1, <2>4 DEF TxStart, TxData, TxStop
    <3>2. tx_done_set' = TRUE
      BY <1>1, <3>1 DEF tx_done_pulse, TxStop
    <3>3. Sending' = 0
      BY <2>4 DEF Sending
    <3> QED BY <1>3, <2>1, <2>2, <2>4, <3>1, <3>2, <3>3 DEF TxEnds
  <2> QED BY <2>3, <2>4
<1> QED BY <1>2, <1>3

\* The steps of the program, with the access each makes.
Stands(op) ==
  /\ op = Idle /\ response = Idle /\ UNCHANGED <<pc, index, ret, cfg>>
  /\ idle' \in 0 .. MaxIdle /\ (pc # Final => idle' = idle + 1)
Reads(op) ==
  /\ op = ReadCfg /\ response = Idle /\ pc.access \in {"read", "poll", "reread"}
  /\ UNCHANGED <<pc, index, ret, cfg>> /\ idle' = 0
Turns(op, access, next, about) ==
  /\ response = Idle /\ pc.access = access /\ Goto(next, about)
  /\ UNCHANGED <<index, ret, cfg>> /\ idle' = 0
Learns(op, next) ==
  /\ op = Idle /\ response.what = "cfg" /\ cfg' = response.value
  /\ pc' = [access |-> next, about |-> pc.about] /\ UNCHANGED <<index, ret>> /\ idle' = 0

\* What the program can do in a cycle, without its own names.
LEMMA ProgramCases ==
  ASSUME ProgramTyped, NEW op \in HelloAccesses, Program(op)
  PROVE  /\ msg' = msg /\ (op.what = "cpb" => op.value = Cpb)
         /\ \/ Stands(op)
            \/ /\ op = Idle /\ response.what = "written" /\ idle' = 0
               /\ UNCHANGED <<pc, index, ret, cfg>>
            \/ pc.access = "read" /\ Learns(op, "start")
            \/ pc.access = "poll" /\ Awaited /\ Learns(op, "reread")
            \/ pc.access = "poll" /\ ~Awaited /\ Learns(op, "poll")
            \/ pc.access = "reread" /\ Learns(op, "clear")
            \/ /\ op = Idle /\ response.what = "rdr" /\ response.value = A
               /\ Goto("tdr", "msg") /\ index' = 0 /\ UNCHANGED <<ret, cfg>> /\ idle' = 0
            \/ /\ op = Idle /\ response.what = "rdr" /\ response.value # A
               /\ pc' = Final /\ ret' = 1 /\ UNCHANGED <<index, cfg>> /\ idle' = 0
            \/ op = WriteCpb(Cpb) /\ pc.about = "R" /\ Turns(op, "cpb", "cfg", "R")
            \/ op.what = "cfg" /\ ~op.tx_en /\ ~op.rx_done /\ ~op.tx_done
                  /\ pc.about = "R" /\ Turns(op, "cfg", "tdr", "R")
            \/ op = WriteTdr(ByteOf(pc.about)) /\ pc.about \in Ours
                  /\ Turns(op, "tdr", "read", pc.about)
            \/ Reads(op)
            \/ /\ op.what = "cfg" /\ op.tx_en /\ op.rx_done = cfg.rx_done
                    /\ op.tx_done = cfg.tx_done /\ pc.about \in Ours
               /\ Turns(op, "start", "poll", pc.about)
            \/ op.what = "cfg" /\ op.tx_en = cfg.tx_en /\ op.rx_done = cfg.rx_done
                  /\ ~op.tx_done /\ pc.about = "R" /\ Turns(op, "clear", "poll", "A")
            \/ op.what = "cfg" /\ op.tx_en = cfg.tx_en /\ ~op.rx_done
                  /\ op.tx_done = cfg.tx_done /\ pc.about = "A"
                  /\ Turns(op, "clear", "rdr", "A")
            \/ op = ReadRdr /\ pc.about = "A" /\ Turns(op, "rdr", "rdr", "A")
            \/ /\ op.what = "cfg" /\ op.tx_en = cfg.tx_en /\ op.rx_done = cfg.rx_done
                    /\ ~op.tx_done /\ response = Idle
               /\ pc.access = "clear" /\ pc.about = "msg" /\ idle' = 0 /\ UNCHANGED cfg
               /\ \/ Stops(index) /\ pc' = Final /\ ret' = 0 /\ UNCHANGED index
                  \/ ~Stops(index) /\ Goto("tdr", "msg") /\ index' = index + 1 /\ UNCHANGED ret
<1>0. MaxIdle \in Nat /\ R # A /\ idle \in 0 .. MaxIdle /\ pc \in Places
  BY HelloAssumption DEF ProgramTyped
<1>1. CASE response # Idle
  <2>8. TakeAnswer(op)
    BY <1>1 DEF Program
  <2>9. op = Idle /\ idle' = 0 /\ msg' = msg
    BY <2>8 DEF TakeAnswer
  <2>0. TakeAnswer(op) /\ op = Idle /\ op.what = "none" /\ idle' = 0 /\ msg' = msg
    BY <2>8, <2>9 DEF Idle
  <2>1. CASE response.what = "written"
    BY <2>0, <2>1 DEF TakeAnswer
  <2>2. CASE response.what = "cfg" /\ pc.access = "read"
    BY <2>0, <2>2 DEF TakeAnswer, Learns, Goto
  <2>3. CASE response.what = "cfg" /\ pc.access = "poll"
    <3>1. pc = [access |-> "poll", about |-> pc.about]
      BY <1>0, <2>3 DEF Places, Final
    <3>2. CASE Awaited
      BY <2>0, <2>3, <3>2 DEF TakeAnswer, Learns, Goto
    <3>3. CASE ~Awaited
      BY <2>0, <2>3, <3>1, <3>3 DEF TakeAnswer, Learns, Goto
    <3> QED BY <3>2, <3>3
  <2>4. CASE response.what = "cfg" /\ pc.access = "reread"
    BY <2>0, <2>4 DEF TakeAnswer, Learns, Goto
  <2>5. CASE response.what = "rdr"
    BY <2>0, <2>5 DEF TakeAnswer
  <2> QED BY <1>1, <2>1, <2>2, <2>3, <2>4, <2>5 DEF ProgramTyped, ResponseTyped
<1>2. CASE response = Idle /\ Away(op)
  <2>1. /\ op = Idle /\ UNCHANGED <<pc, index, ret, cfg>> /\ msg' = msg
        /\ idle < MaxIdle /\ idle' = IF pc = Final THEN 0 ELSE idle + 1
    BY <1>2 DEF Away
  <2>2. idle' \in 0 .. MaxIdle
    BY <1>0, <2>1
  <2>3. Stands(op) /\ op.what = "none"
    BY <1>2, <2>1, <2>2 DEF Stands, Idle
  <2> QED BY <2>1, <2>3
<1>3. CASE response = Idle /\ Access(op)
  <2>0. idle' = 0 /\ msg' = msg /\ cfg' = cfg
    BY <1>3 DEF Access
  <2>1. CASE SetUp(op) /\ UNCHANGED <<index, ret>>
    BY <1>3, <2>0, <2>1 DEF SetUp, Before, Goto, Turns, WriteCpb, WriteCfg
  <2>2. CASE PutByte(op) /\ UNCHANGED <<index, ret>>
    BY <1>3, <2>0, <2>2 DEF PutByte, Before, Goto, Turns, WriteTdr, Ours, ByteOf
  <2>3. CASE Read(op) /\ UNCHANGED <<index, ret>>
    BY <1>3, <2>0, <2>3 DEF Read, Reads, ReadCfg
  <2>4. CASE Start(op) /\ UNCHANGED <<index, ret>>
    BY <1>3, <2>0, <2>4 DEF Start, Before, Goto, Turns, WriteCfg, Ours
  <2>5. CASE ClearFlag(op) /\ UNCHANGED <<index, ret>>
    BY <1>3, <2>0, <2>5 DEF ClearFlag, Before, Goto, Turns, WriteCfg
  <2>6. CASE GetByte(op) /\ UNCHANGED <<index, ret>>
    BY <1>3, <2>0, <2>6 DEF GetByte, Before, Goto, Turns, ReadRdr
  <2>7. CASE Advance(op)
    BY <1>3, <2>0, <2>7 DEF Advance, Before, Goto, WriteCfg
  <2> QED BY <1>3, <2>1, <2>2, <2>3, <2>4, <2>5, <2>6, <2>7 DEF Access
<1> QED BY <1>1, <1>2, <1>3 DEF Program

\* What the port answers, and the fields of the accesses.
LEMMA Answered ==
  /\ Idle.what = "none" /\ Answer(Idle) = Idle
  /\ ReadCfg.what = "read_cfg" /\ Answer(ReadCfg) = [what |-> "cfg", value |-> cfg_q]
  /\ ReadRdr.what = "read_rdr" /\ Answer(ReadRdr) = [what |-> "rdr", value |-> rdr_q]
  /\ \A value : WriteCpb(value).what = "cpb" /\ WriteCpb(value).value = value
                /\ Answer(WriteCpb(value)) = [what |-> "written"]
  /\ \A byte : WriteTdr(byte).what = "tdr" /\ WriteTdr(byte).byte = byte
               /\ Answer(WriteTdr(byte)) = [what |-> "written"]
  /\ \A en, rx, tx :
       /\ WriteCfg(en, rx, tx).what = "cfg" /\ WriteCfg(en, rx, tx).tx_en = en
       /\ WriteCfg(en, rx, tx).rx_done = rx /\ WriteCfg(en, rx, tx).tx_done = tx
       /\ Answer(WriteCfg(en, rx, tx)) = [what |-> "written"]
BY DEF Idle, ReadCfg, ReadRdr, WriteCpb, WriteTdr, WriteCfg, Answer

\* What one cycle does to the registers and to the transmitter.
LEMMA TekStep ==
  ASSUME ProgramInv, NEW op \in HelloAccesses, HelloEdge(op)
  PROVE  /\ TxInRange' /\ msg' = msg /\ response' = Answer(op) /\ cfg_q' = Flags(op)
         /\ cfg_q' \in FlagsRead /\ tx_done_set' \in BOOLEAN
         /\ tdr_q' = IF op.what = "tdr" /\ tx_state_q = "TX_IDLE" THEN op.byte ELSE tdr_q
         /\ cfg_q'.tx_done = (tx_done_set \/ (cfg_q.tx_done /\ ~(op.what = "cfg"
               /\ ~op.tx_done)))
         /\ IF tx_state_q = "TX_IDLE"
              THEN /\ IF op.what = "cfg" /\ op.tx_en THEN TxBegins ELSE TxStays
                   /\ tx_o' = 1 /\ tx_baud_cnt_q' = 0 /\ tx_bit_cnt_q' = 0
                   /\ tx_done_set' = FALSE
              ELSE /\ TxStart \/ TxData \/ TxStop
                   /\ \/ TxGoesOn /\ tx_done_set' = FALSE
                      \/ TxEnds /\ tx_done_set' = TRUE /\ tx_o' = 1
<1>1. Program(op) /\ TekEdge(op, FarLevel)
  BY DEF HelloEdge
<1>2. msg' = msg /\ (op.what = "cpb" => op.value = Cpb)
  BY <1>1, ProgramCases DEF ProgramInv
<1>3. TekRegisters(op)
  BY <1>1 DEF TekEdge
<1>4. cpb_q' = Cpb
  BY <1>2, <1>3 DEF TekRegisters, ProgramInv, TxInRange
<1>5. /\ cfg_q' = Flags(op) /\ response' = Answer(op)
      /\ tdr_q' = IF op.what = "tdr" /\ tx_state_q = "TX_IDLE" THEN op.byte ELSE tdr_q
  BY <1>3 DEF TekRegisters
<1>6. cfg_q \in FlagsRead /\ tx_done_set \in BOOLEAN
  BY DEF ProgramInv, ProgramTyped
<1>7. cfg_q.tx_done \in BOOLEAN /\ cfg_q.rx_done \in BOOLEAN
  BY <1>6 DEF FlagsRead
<1>8. rx_done_pulse \in BOOLEAN
  BY DEF rx_done_pulse
<1>9. cfg_q' \in FlagsRead
  BY <1>5, <1>6, <1>7, <1>8 DEF Flags, Flag, FlagsRead
<1>10. cfg_q'.tx_done = (tx_done_set \/ (cfg_q.tx_done /\ ~(op.what = "cfg" /\ ~op.tx_done)))
  BY <1>5 DEF Flags, Flag
<1>11. tx_done_set' \in BOOLEAN
  BY <1>1 DEF TekEdge, Done, tx_done_pulse
<1> QED BY <1>1, <1>2, <1>4, <1>5, <1>9, <1>10, <1>11, TekTurns DEF ProgramInv

\* What pc can be about.
LEMMA About ==
  ASSUME pc \in Places
  PROVE  /\ pc = [access |-> pc.access, about |-> pc.about]
         /\ pc.access \in {"cpb", "cfg"} => pc.about = "R"
         /\ pc.access \in {"tdr", "read", "start"} => pc.about \in Ours
         /\ pc.access \in {"poll", "reread", "clear"} => pc.about \in {"R", "msg", "A"}
         /\ pc.access = "rdr" => pc.about = "A"
         /\ pc.access = "none" => pc = Final
         /\ pc.access \in {"cpb", "cfg", "tdr", "read", "start", "poll", "reread", "clear",
               "rdr", "none"}
BY DEF Places, Final, Ours

\* After a byte that is not the last there is another.
LEMMA IndexStays ==
  ASSUME MsgIs, index \in 0 .. Len(Text)
  PROVE  /\ ~Stops(index) => index + 1 \in 0 .. Len(Text)
         /\ msg[index + 1] = Dialogue[index + 2]
<1>1. Len(Text) \in Nat /\ MsgSize \in Nat /\ MsgSize > Len(Text)
  BY HelloAssumption
<1> QED BY <1>1 DEF MsgIs, Stops

\* A frame begins only when the program starts it, and the next is a while away.
Progress ==
  /\ TxStays => Begun' = Begun /\ ToStart' >= ToStart - 1
  /\ TxBegins => Begun' = Begun + 1 /\ ToStart = 1 /\ pc.access = "start"
  /\ tx_state_q # "TX_IDLE" => Begun' = Begun
  /\ TxEnds => ToStart' = 12

\* One cycle of the program.
LEMMA ProgramStep ==
  ASSUME ProgramInv, NEW op \in HelloAccesses, HelloEdge(op)
  PROVE  ProgramTyped' /\ Follows' /\ Progress
<1>1. /\ response' = Answer(op) /\ cfg_q' \in FlagsRead /\ tx_done_set' \in BOOLEAN
           /\ msg' = msg
      /\ tdr_q' = IF op.what = "tdr" /\ tx_state_q = "TX_IDLE" THEN op.byte ELSE tdr_q
      /\ cfg_q'.tx_done = (tx_done_set \/ (cfg_q.tx_done /\ ~(op.what = "cfg" /\ ~op.tx_done)))
      /\ IF tx_state_q = "TX_IDLE"
           THEN /\ IF op.what = "cfg" /\ op.tx_en THEN TxBegins ELSE TxStays
                /\ tx_done_set' = FALSE
           ELSE \/ TxGoesOn /\ tx_done_set' = FALSE
                \/ TxEnds /\ tx_done_set' = TRUE
  BY TekStep
<1>2. /\ pc \in Places /\ index \in 0 .. Len(Text) /\ ret \in {-1, 0, 1}
      /\ idle \in 0 .. MaxIdle
      /\ cfg \in FlagsRead /\ cfg_q \in FlagsRead /\ tx_done_set \in BOOLEAN
      /\ ResponseTyped /\ Len(Text) \in Nat /\ MaxIdle \in Nat
      /\ cfg.tx_en = FALSE
  <2>1. Len(Text) \in Nat /\ MaxIdle \in Nat
    BY HelloAssumption
  <2>2. ProgramTyped
    BY DEF ProgramInv
  <2>3. cfg.tx_en = FALSE
    BY <2>2 DEF ProgramTyped, FlagsRead
  <2> QED BY <2>1, <2>2, <2>3 DEF ProgramTyped
<1>3. Follows
  BY DEF ProgramInv
<1>4. /\ pc = [access |-> pc.access, about |-> pc.about]
      /\ pc.access \in {"cpb", "cfg"} => pc.about = "R"
      /\ pc.access \in {"tdr", "read", "start"} => pc.about \in Ours
      /\ pc.access \in {"poll", "reread", "clear"} => pc.about \in {"R", "msg", "A"}
      /\ pc.access = "rdr" => pc.about = "A"
      /\ pc.access = "none" => pc = Final
  BY <1>2, About
<1>10. CASE Stands(op)
  <2>1. ProgramTyped'
    BY <1>1, <1>2, <1>4, <1>10, Answered, IndexStays
       DEF ProgramInv, ProgramTyped, ResponseTyped, Places, Final, Goto, Turns, Learns, Stands,
           Reads, Ours
  <2>2. Follows'
    BY <1>1, <1>2, <1>3, <1>4, <1>10, Answered
       DEF Follows, Polls, ResponseTyped, Final, Goto, Turns, Learns, Stands, Reads, Ours,
           ByteOf, TxStays, TxBegins, TxGoesOn, TxEnds, Awaited, FlagsRead
  <2>3. Progress
    BY <1>1, <1>2, <1>3, <1>4, <1>10, Answered
       DEF Progress, Follows, Polls, ResponseTyped, Final, Goto, Turns, Learns, Stands, Reads,
           Ours, Begun, ToStart, TxStays, TxBegins, TxGoesOn, TxEnds, Awaited
  <2> QED BY <2>1, <2>2, <2>3
<1>11. CASE op = Idle /\ response.what = "written" /\ idle' = 0
            /\ UNCHANGED <<pc, index, ret, cfg>>
  <2>1. ProgramTyped'
    BY <1>1, <1>2, <1>4, <1>11, Answered, IndexStays
       DEF ProgramInv, ProgramTyped, ResponseTyped, Places, Final, Goto, Turns, Learns, Stands,
           Reads, Ours
  <2>2. Follows'
    BY <1>1, <1>2, <1>3, <1>4, <1>11, Answered
       DEF Follows, Polls, ResponseTyped, Final, Goto, Turns, Learns, Stands, Reads, Ours,
           ByteOf, TxStays, TxBegins, TxGoesOn, TxEnds, Awaited, FlagsRead
  <2>3. Progress
    BY <1>1, <1>2, <1>3, <1>4, <1>11, Answered
       DEF Progress, Follows, Polls, ResponseTyped, Final, Goto, Turns, Learns, Stands, Reads,
           Ours, Begun, ToStart, TxStays, TxBegins, TxGoesOn, TxEnds, Awaited
  <2> QED BY <2>1, <2>2, <2>3
<1>12. CASE pc.access = "read" /\ Learns(op, "start")
  <2>1. ProgramTyped'
    BY <1>1, <1>2, <1>4, <1>12, Answered, IndexStays
       DEF ProgramInv, ProgramTyped, ResponseTyped, Places, Final, Goto, Turns, Learns, Stands,
           Reads, Ours
  <2>2. Follows'
    BY <1>1, <1>2, <1>3, <1>4, <1>12, Answered
       DEF Follows, Polls, ResponseTyped, Final, Goto, Turns, Learns, Stands, Reads, Ours,
           ByteOf, TxStays, TxBegins, TxGoesOn, TxEnds, Awaited, FlagsRead
  <2>3. Progress
    BY <1>1, <1>2, <1>3, <1>4, <1>12, Answered
       DEF Progress, Follows, Polls, ResponseTyped, Final, Goto, Turns, Learns, Stands, Reads,
           Ours, Begun, ToStart, TxStays, TxBegins, TxGoesOn, TxEnds, Awaited
  <2> QED BY <2>1, <2>2, <2>3
<1>13. CASE pc.access = "poll" /\ Awaited /\ Learns(op, "reread")
  <2>1. ProgramTyped'
    BY <1>1, <1>2, <1>4, <1>13, Answered, IndexStays
       DEF ProgramInv, ProgramTyped, ResponseTyped, Places, Final, Goto, Turns, Learns, Stands,
           Reads, Ours
  <2>2. Follows'
    BY <1>1, <1>2, <1>3, <1>4, <1>13, Answered
       DEF Follows, Polls, ResponseTyped, Final, Goto, Turns, Learns, Stands, Reads, Ours,
           ByteOf, TxStays, TxBegins, TxGoesOn, TxEnds, Awaited, FlagsRead
  <2>3. Progress
    BY <1>1, <1>2, <1>3, <1>4, <1>13, Answered
       DEF Progress, Follows, Polls, ResponseTyped, Final, Goto, Turns, Learns, Stands, Reads,
           Ours, Begun, ToStart, TxStays, TxBegins, TxGoesOn, TxEnds, Awaited
  <2> QED BY <2>1, <2>2, <2>3
<1>14. CASE pc.access = "poll" /\ ~Awaited /\ Learns(op, "poll")
  <2>1. ProgramTyped'
    BY <1>1, <1>2, <1>4, <1>14, Answered, IndexStays
       DEF ProgramInv, ProgramTyped, ResponseTyped, Places, Final, Goto, Turns, Learns, Stands,
           Reads, Ours
  <2>2. Follows'
    BY <1>1, <1>2, <1>3, <1>4, <1>14, Answered
       DEF Follows, Polls, ResponseTyped, Final, Goto, Turns, Learns, Stands, Reads, Ours,
           ByteOf, TxStays, TxBegins, TxGoesOn, TxEnds, Awaited, FlagsRead
  <2>3. Progress
    BY <1>1, <1>2, <1>3, <1>4, <1>14, Answered
       DEF Progress, Follows, Polls, ResponseTyped, Final, Goto, Turns, Learns, Stands, Reads,
           Ours, Begun, ToStart, TxStays, TxBegins, TxGoesOn, TxEnds, Awaited
  <2> QED BY <2>1, <2>2, <2>3
<1>15. CASE pc.access = "reread" /\ Learns(op, "clear")
  <2>1. ProgramTyped'
    BY <1>1, <1>2, <1>4, <1>15, Answered, IndexStays
       DEF ProgramInv, ProgramTyped, ResponseTyped, Places, Final, Goto, Turns, Learns, Stands,
           Reads, Ours
  <2>2. Follows'
    BY <1>1, <1>2, <1>3, <1>4, <1>15, Answered
       DEF Follows, Polls, ResponseTyped, Final, Goto, Turns, Learns, Stands, Reads, Ours,
           ByteOf, TxStays, TxBegins, TxGoesOn, TxEnds, Awaited, FlagsRead
  <2>3. Progress
    BY <1>1, <1>2, <1>3, <1>4, <1>15, Answered
       DEF Progress, Follows, Polls, ResponseTyped, Final, Goto, Turns, Learns, Stands, Reads,
           Ours, Begun, ToStart, TxStays, TxBegins, TxGoesOn, TxEnds, Awaited
  <2> QED BY <2>1, <2>2, <2>3
<1>16. CASE op = Idle /\ response.what = "rdr" /\ response.value = A
            /\ Goto("tdr", "msg") /\ index' = 0 /\ UNCHANGED <<ret, cfg>> /\ idle' = 0
  <2>1. ProgramTyped'
    BY <1>1, <1>2, <1>4, <1>16, Answered, IndexStays
       DEF ProgramInv, ProgramTyped, ResponseTyped, Places, Final, Goto, Turns, Learns, Stands,
           Reads, Ours
  <2>2. Follows'
    BY <1>1, <1>2, <1>3, <1>4, <1>16, Answered
       DEF Follows, Polls, ResponseTyped, Final, Goto, Turns, Learns, Stands, Reads, Ours,
           ByteOf, TxStays, TxBegins, TxGoesOn, TxEnds, Awaited, FlagsRead
  <2>3. Progress
    BY <1>1, <1>2, <1>3, <1>4, <1>16, Answered
       DEF Progress, Follows, Polls, ResponseTyped, Final, Goto, Turns, Learns, Stands, Reads,
           Ours, Begun, ToStart, TxStays, TxBegins, TxGoesOn, TxEnds, Awaited
  <2> QED BY <2>1, <2>2, <2>3
<1>17. CASE op = Idle /\ response.what = "rdr" /\ response.value # A
            /\ pc' = Final /\ ret' = 1 /\ UNCHANGED <<index, cfg>> /\ idle' = 0
  <2>1. ProgramTyped'
    BY <1>1, <1>2, <1>4, <1>17, Answered, IndexStays
       DEF ProgramInv, ProgramTyped, ResponseTyped, Places, Final, Goto, Turns, Learns, Stands,
           Reads, Ours
  <2>2. Follows'
    BY <1>1, <1>2, <1>3, <1>4, <1>17, Answered
       DEF Follows, Polls, ResponseTyped, Final, Goto, Turns, Learns, Stands, Reads, Ours,
           ByteOf, TxStays, TxBegins, TxGoesOn, TxEnds, Awaited, FlagsRead
  <2>3. Progress
    BY <1>1, <1>2, <1>3, <1>4, <1>17, Answered
       DEF Progress, Follows, Polls, ResponseTyped, Final, Goto, Turns, Learns, Stands, Reads,
           Ours, Begun, ToStart, TxStays, TxBegins, TxGoesOn, TxEnds, Awaited
  <2> QED BY <2>1, <2>2, <2>3
<1>18. CASE op = WriteCpb(Cpb) /\ pc.about = "R" /\ Turns(op, "cpb", "cfg", "R")
  <2>1. ProgramTyped'
    BY <1>1, <1>2, <1>4, <1>18, Answered, IndexStays
       DEF ProgramInv, ProgramTyped, ResponseTyped, Places, Final, Goto, Turns, Learns, Stands,
           Reads, Ours
  <2>2. Follows'
    BY <1>1, <1>2, <1>3, <1>4, <1>18, Answered
       DEF Follows, Polls, ResponseTyped, Final, Goto, Turns, Learns, Stands, Reads, Ours,
           ByteOf, TxStays, TxBegins, TxGoesOn, TxEnds, Awaited, FlagsRead
  <2>3. Progress
    BY <1>1, <1>2, <1>3, <1>4, <1>18, Answered
       DEF Progress, Follows, Polls, ResponseTyped, Final, Goto, Turns, Learns, Stands, Reads,
           Ours, Begun, ToStart, TxStays, TxBegins, TxGoesOn, TxEnds, Awaited
  <2> QED BY <2>1, <2>2, <2>3
<1>19. CASE op.what = "cfg" /\ ~op.tx_en /\ ~op.rx_done /\ ~op.tx_done /\ pc.about = "R"
              /\ Turns(op, "cfg", "tdr", "R")
  <2>0. Answer(op) = [what |-> "written"]
    BY <1>19 DEF Answer
  <2>1. ProgramTyped'
    BY <1>1, <1>2, <1>4, <1>19, Answered, <2>0, IndexStays
       DEF ProgramInv, ProgramTyped, ResponseTyped, Places, Final, Goto, Turns, Learns, Stands,
           Reads, Ours
  <2>2. Follows'
    BY <1>1, <1>2, <1>3, <1>4, <1>19, Answered, <2>0
       DEF Follows, Polls, ResponseTyped, Final, Goto, Turns, Learns, Stands, Reads, Ours,
           ByteOf, TxStays, TxBegins, TxGoesOn, TxEnds, Awaited, FlagsRead
  <2>3. Progress
    BY <1>1, <1>2, <1>3, <1>4, <1>19, Answered, <2>0
       DEF Progress, Follows, Polls, ResponseTyped, Final, Goto, Turns, Learns, Stands, Reads,
           Ours, Begun, ToStart, TxStays, TxBegins, TxGoesOn, TxEnds, Awaited
  <2> QED BY <2>1, <2>2, <2>3
<1>20. CASE op = WriteTdr(ByteOf(pc.about)) /\ pc.about \in Ours
            /\ Turns(op, "tdr", "read", pc.about)
  <2>1. ProgramTyped'
    BY <1>1, <1>2, <1>4, <1>20, Answered, IndexStays
       DEF ProgramInv, ProgramTyped, ResponseTyped, Places, Final, Goto, Turns, Learns, Stands,
           Reads, Ours
  <2>2. Follows'
    BY <1>1, <1>2, <1>3, <1>4, <1>20, Answered
       DEF Follows, Polls, ResponseTyped, Final, Goto, Turns, Learns, Stands, Reads, Ours,
           ByteOf, TxStays, TxBegins, TxGoesOn, TxEnds, Awaited, FlagsRead
  <2>3. Progress
    BY <1>1, <1>2, <1>3, <1>4, <1>20, Answered
       DEF Progress, Follows, Polls, ResponseTyped, Final, Goto, Turns, Learns, Stands, Reads,
           Ours, Begun, ToStart, TxStays, TxBegins, TxGoesOn, TxEnds, Awaited
  <2> QED BY <2>1, <2>2, <2>3
<1>21. CASE Reads(op)
  <2>1. ProgramTyped'
    BY <1>1, <1>2, <1>4, <1>21, Answered, IndexStays
       DEF ProgramInv, ProgramTyped, ResponseTyped, Places, Final, Goto, Turns, Learns, Stands,
           Reads, Ours
  <2>2. Follows'
    BY <1>1, <1>2, <1>3, <1>4, <1>21, Answered
       DEF Follows, Polls, ResponseTyped, Final, Goto, Turns, Learns, Stands, Reads, Ours,
           ByteOf, TxStays, TxBegins, TxGoesOn, TxEnds, Awaited, FlagsRead
  <2>3. Progress
    BY <1>1, <1>2, <1>3, <1>4, <1>21, Answered
       DEF Progress, Follows, Polls, ResponseTyped, Final, Goto, Turns, Learns, Stands, Reads,
           Ours, Begun, ToStart, TxStays, TxBegins, TxGoesOn, TxEnds, Awaited
  <2> QED BY <2>1, <2>2, <2>3
<1>22. CASE op.what = "cfg" /\ op.tx_en /\ op.rx_done = cfg.rx_done
              /\ op.tx_done = cfg.tx_done /\ pc.about \in Ours
            /\ Turns(op, "start", "poll", pc.about)
  <2>0. Answer(op) = [what |-> "written"]
    BY <1>22 DEF Answer
  <2>1. ProgramTyped'
    BY <1>1, <1>2, <1>4, <1>22, Answered, <2>0, IndexStays
       DEF ProgramInv, ProgramTyped, ResponseTyped, Places, Final, Goto, Turns, Learns, Stands,
           Reads, Ours
  <2>2. Follows'
    BY <1>1, <1>2, <1>3, <1>4, <1>22, Answered, <2>0
       DEF Follows, Polls, ResponseTyped, Final, Goto, Turns, Learns, Stands, Reads, Ours,
           ByteOf, TxStays, TxBegins, TxGoesOn, TxEnds, Awaited, FlagsRead
  <2>3. Progress
    BY <1>1, <1>2, <1>3, <1>4, <1>22, Answered, <2>0
       DEF Progress, Follows, Polls, ResponseTyped, Final, Goto, Turns, Learns, Stands, Reads,
           Ours, Begun, ToStart, TxStays, TxBegins, TxGoesOn, TxEnds, Awaited
  <2> QED BY <2>1, <2>2, <2>3
<1>23. CASE op.what = "cfg" /\ op.tx_en = cfg.tx_en /\ op.rx_done = cfg.rx_done
              /\ ~op.tx_done /\ pc.about = "R"
            /\ Turns(op, "clear", "poll", "A")
  <2>0. Answer(op) = [what |-> "written"]
    BY <1>23 DEF Answer
  <2>1. ProgramTyped'
    BY <1>1, <1>2, <1>4, <1>23, Answered, <2>0, IndexStays
       DEF ProgramInv, ProgramTyped, ResponseTyped, Places, Final, Goto, Turns, Learns, Stands,
           Reads, Ours
  <2>2. Follows'
    BY <1>1, <1>2, <1>3, <1>4, <1>23, Answered, <2>0
       DEF Follows, Polls, ResponseTyped, Final, Goto, Turns, Learns, Stands, Reads, Ours,
           ByteOf, TxStays, TxBegins, TxGoesOn, TxEnds, Awaited, FlagsRead
  <2>3. Progress
    BY <1>1, <1>2, <1>3, <1>4, <1>23, Answered, <2>0
       DEF Progress, Follows, Polls, ResponseTyped, Final, Goto, Turns, Learns, Stands, Reads,
           Ours, Begun, ToStart, TxStays, TxBegins, TxGoesOn, TxEnds, Awaited
  <2> QED BY <2>1, <2>2, <2>3
<1>24. CASE op.what = "cfg" /\ op.tx_en = cfg.tx_en /\ ~op.rx_done
              /\ op.tx_done = cfg.tx_done /\ pc.about = "A"
            /\ Turns(op, "clear", "rdr", "A")
  <2>0. Answer(op) = [what |-> "written"]
    BY <1>24 DEF Answer
  <2>1. ProgramTyped'
    BY <1>1, <1>2, <1>4, <1>24, Answered, <2>0, IndexStays
       DEF ProgramInv, ProgramTyped, ResponseTyped, Places, Final, Goto, Turns, Learns, Stands,
           Reads, Ours
  <2>2. Follows'
    BY <1>1, <1>2, <1>3, <1>4, <1>24, Answered, <2>0
       DEF Follows, Polls, ResponseTyped, Final, Goto, Turns, Learns, Stands, Reads, Ours,
           ByteOf, TxStays, TxBegins, TxGoesOn, TxEnds, Awaited, FlagsRead
  <2>3. Progress
    BY <1>1, <1>2, <1>3, <1>4, <1>24, Answered, <2>0
       DEF Progress, Follows, Polls, ResponseTyped, Final, Goto, Turns, Learns, Stands, Reads,
           Ours, Begun, ToStart, TxStays, TxBegins, TxGoesOn, TxEnds, Awaited
  <2> QED BY <2>1, <2>2, <2>3
<1>25. CASE op = ReadRdr /\ pc.about = "A" /\ Turns(op, "rdr", "rdr", "A")
  <2>1. ProgramTyped'
    BY <1>1, <1>2, <1>4, <1>25, Answered, IndexStays
       DEF ProgramInv, ProgramTyped, ResponseTyped, Places, Final, Goto, Turns, Learns, Stands,
           Reads, Ours
  <2>2. Follows'
    BY <1>1, <1>2, <1>3, <1>4, <1>25, Answered
       DEF Follows, Polls, ResponseTyped, Final, Goto, Turns, Learns, Stands, Reads, Ours,
           ByteOf, TxStays, TxBegins, TxGoesOn, TxEnds, Awaited, FlagsRead
  <2>3. Progress
    BY <1>1, <1>2, <1>3, <1>4, <1>25, Answered
       DEF Progress, Follows, Polls, ResponseTyped, Final, Goto, Turns, Learns, Stands, Reads,
           Ours, Begun, ToStart, TxStays, TxBegins, TxGoesOn, TxEnds, Awaited
  <2> QED BY <2>1, <2>2, <2>3
<1>26. CASE op.what = "cfg" /\ op.tx_en = cfg.tx_en /\ op.rx_done = cfg.rx_done
              /\ ~op.tx_done /\ response = Idle
            /\ pc.access = "clear" /\ pc.about = "msg" /\ idle' = 0 /\ UNCHANGED cfg
            /\ Stops(index) /\ pc' = Final /\ ret' = 0 /\ UNCHANGED index
  <2>0. Answer(op) = [what |-> "written"]
    BY <1>26 DEF Answer
  <2>1. ProgramTyped'
    BY <1>1, <1>2, <1>4, <1>26, Answered, <2>0, IndexStays
       DEF ProgramInv, ProgramTyped, ResponseTyped, Places, Final, Goto, Turns, Learns, Stands,
           Reads, Ours
  <2>2. Follows'
    BY <1>1, <1>2, <1>3, <1>4, <1>26, Answered, <2>0
       DEF Follows, Polls, ResponseTyped, Final, Goto, Turns, Learns, Stands, Reads, Ours,
           ByteOf, TxStays, TxBegins, TxGoesOn, TxEnds, Awaited, FlagsRead
  <2>3. Progress
    BY <1>1, <1>2, <1>3, <1>4, <1>26, Answered, <2>0
       DEF Progress, Follows, Polls, ResponseTyped, Final, Goto, Turns, Learns, Stands, Reads,
           Ours, Begun, ToStart, TxStays, TxBegins, TxGoesOn, TxEnds, Awaited
  <2> QED BY <2>1, <2>2, <2>3
<1>27. CASE op.what = "cfg" /\ op.tx_en = cfg.tx_en /\ op.rx_done = cfg.rx_done
              /\ ~op.tx_done /\ response = Idle
            /\ pc.access = "clear" /\ pc.about = "msg" /\ idle' = 0 /\ UNCHANGED cfg
            /\ ~Stops(index) /\ Goto("tdr", "msg") /\ index' = index + 1 /\ UNCHANGED ret
  <2>0. Answer(op) = [what |-> "written"]
    BY <1>27 DEF Answer
  <2>1. ProgramTyped'
    BY <1>1, <1>2, <1>4, <1>27, Answered, <2>0, IndexStays
       DEF ProgramInv, ProgramTyped, ResponseTyped, Places, Final, Goto, Turns, Learns, Stands,
           Reads, Ours
  <2>2. Follows'
    BY <1>1, <1>2, <1>3, <1>4, <1>27, Answered, <2>0
       DEF Follows, Polls, ResponseTyped, Final, Goto, Turns, Learns, Stands, Reads, Ours,
           ByteOf, TxStays, TxBegins, TxGoesOn, TxEnds, Awaited, FlagsRead
  <2>3. Progress
    BY <1>1, <1>2, <1>3, <1>4, <1>27, Answered, <2>0
       DEF Progress, Follows, Polls, ResponseTyped, Final, Goto, Turns, Learns, Stands, Reads,
           Ours, Begun, ToStart, TxStays, TxBegins, TxGoesOn, TxEnds, Awaited
  <2> QED BY <2>1, <2>2, <2>3
<1>5. Program(op)
  BY DEF HelloEdge
<1> QED BY <1>2, <1>5, ProgramCases, <1>10, <1>11, <1>12, <1>13, <1>14, <1>15, <1>16, <1>17,
            <1>18, <1>19, <1>20, <1>21, <1>22, <1>23, <1>24, <1>25, <1>26, <1>27 DEF ProgramInv

\* The bytes of the dialogue: R, and those of msg up to its zero.
LEMMA DialogueIs ==
  /\ Len(Text) \in Nat /\ Len(Dialogue) = Len(Text) + 2
  /\ Dialogue[1] = R /\ Dialogue[Len(Text) + 2] = Nul
  /\ \A k \in 1 .. Len(Text) : Dialogue[k + 1] = Text[k] /\ Text[k] \in Bytes \ {Nul}
  /\ \A k \in 1 .. Len(Text) + 2 : Dialogue[k] \in Bytes
<1> DEFINE most == <<R>> \o Text
<1>1. /\ Text \in Seq(Bytes) /\ Len(Text) \in Nat /\ R \in Bytes /\ Nul \in Bytes
      /\ <<R>> \in Seq(Bytes) /\ Len(<<R>>) = 1 /\ <<R>>[1] = R
      /\ <<Nul>> \in Seq(Bytes) /\ Len(<<Nul>>) = 1 /\ <<Nul>>[1] = Nul
      /\ \A k \in 1 .. Len(Text) : Text[k] \in Bytes \ {Nul}
  BY HelloAssumption
<1>2. /\ most \in Seq(Bytes) /\ Len(most) = 1 + Len(Text)
      /\ \A k \in 1 .. 1 + Len(Text) :
           most[k] = IF k <= 1 THEN <<R>>[k] ELSE Text[k - 1]
  BY <1>1, ConcatProperties
<1>3. Dialogue = most \o <<Nul>>
  BY DEF Dialogue
<1>4. /\ Dialogue \in Seq(Bytes) /\ Len(Dialogue) = (1 + Len(Text)) + 1
      /\ \A k \in 1 .. (1 + Len(Text)) + 1 :
           Dialogue[k] = IF k <= 1 + Len(Text) THEN most[k] ELSE <<Nul>>[k - (1 + Len(Text))]
  <2> HIDE DEF most
  <2>1. /\ most \o <<Nul>> \in Seq(Bytes) /\ Len(most \o <<Nul>>) = (1 + Len(Text)) + 1
        /\ \A k \in 1 .. (1 + Len(Text)) + 1 :
             (most \o <<Nul>>)[k] = IF k <= 1 + Len(Text) THEN most[k]
                                    ELSE <<Nul>>[k - (1 + Len(Text))]
    BY <1>1, <1>2, ConcatProperties
  <2> QED BY <1>3, <2>1
<1> HIDE DEF most
<1>5. Dialogue[1] = R /\ Dialogue[Len(Text) + 2] = Nul
  <2>1. Dialogue[1] = most[1] /\ most[1] = R
    BY <1>1, <1>2, <1>4
  <2>2. /\ Len(Text) + 2 \in 1 .. (1 + Len(Text)) + 1 /\ ~(Len(Text) + 2 <= 1 + Len(Text))
        /\ (Len(Text) + 2) - (1 + Len(Text)) = 1
    BY <1>1
  <2>3. Dialogue[Len(Text) + 2] = <<Nul>>[1]
    BY <1>4, <2>2
  <2> QED BY <1>1, <2>1, <2>3
<1>6. ASSUME NEW k \in 1 .. Len(Text) PROVE Dialogue[k + 1] = Text[k]
  <2>1. k + 1 \in 1 .. 1 + Len(Text) /\ ~(k + 1 <= 1) /\ (k + 1) - 1 = k
    BY <1>1
  <2> QED BY <1>1, <1>2, <1>4, <2>1
<1>7. ASSUME NEW k \in 1 .. Len(Text) + 2 PROVE Dialogue[k] \in Bytes
  <2>1. CASE k = 1
    BY <1>1, <1>5, <2>1
  <2>2. CASE k = Len(Text) + 2
    BY <1>1, <1>5, <2>2
  <2>3. CASE k # 1 /\ k # Len(Text) + 2
    <3>1. k - 1 \in 1 .. Len(Text) /\ (k - 1) + 1 = k
      BY <1>1, <2>3
    <3>2. Dialogue[k] = Text[k - 1]
      BY <1>6, <3>1
    <3> QED BY <1>1, <3>1, <3>2
  <2> QED BY <2>1, <2>2, <2>3
<1> QED BY <1>1, <1>4, <1>5, <1>6, <1>7

\* The byte in TDR is the next of the dialogue.
LEMMA FramesBegun ==
  ASSUME ProgramInv
  PROVE  /\ Begun \in 0 .. Len(Dialogue)
         /\ pc.access = "start" => Begun + 1 \in 1 .. Len(Dialogue)
               /\ tdr_q = Dialogue[Begun + 1]
         /\ Begun >= 1 => Dialogue[Begun] \in Bytes
         /\ pc.about = "R" => Begun <= 1
         /\ pc.access = "poll" => Begun >= 1
<1>1. /\ Len(Text) \in Nat /\ Len(Dialogue) = Len(Text) + 2 /\ Dialogue[1] = R
      /\ \A k \in 1 .. Len(Text) + 2 : Dialogue[k] \in Bytes
  BY DialogueIs
<1>2. /\ pc \in Places /\ index \in 0 .. Len(Text)
      /\ msg[index + 1] = Dialogue[index + 2]
  BY DEF ProgramInv, ProgramTyped, MsgIs
<1>3. Begun \in 0 .. Len(Dialogue)
  BY <1>1, <1>2 DEF Begun
<1>4. ASSUME pc.access = "start"
      PROVE  Begun + 1 \in 1 .. Len(Dialogue) /\ tdr_q = Dialogue[Begun + 1]
  <2>1. tdr_q = ByteOf(pc.about) /\ pc.about \in {"R", "msg"}
    BY <1>2, <1>4, About DEF ProgramInv, Follows, Ours
  <2>2. CASE pc.about = "R"
    BY <1>1, <1>4, <2>1, <2>2 DEF Begun, ByteOf
  <2>3. CASE pc.about = "msg"
    <3>1. Begun = index + 1
      BY <1>2, <1>4, <2>3 DEF Begun
    <3>2. Begun + 1 = index + 2
      BY <1>2, <3>1
    <3>3. tdr_q = msg[index + 1]
      BY <2>1, <2>3 DEF ByteOf
    <3>4. Begun + 1 \in 1 .. Len(Dialogue)
      BY <1>1, <1>2, <3>2
    <3> QED BY <1>2, <3>2, <3>3, <3>4
  <2> QED BY <2>1, <2>2, <2>3
<1>5. pc.about = "R" => Begun <= 1
  BY DEF Begun
<1>6. pc.access = "poll" => Begun >= 1
  BY <1>2, About DEF Begun
<1> QED BY <1>1, <1>3, <1>4, <1>5, <1>6

-----------------------------------------------------------------------------
(***************************************************************************)
(* The transmitter and the host, one cycle.                                *)
(***************************************************************************)
\* What has gone of the frame, and what is left of it.
LEMMA TxAtIs ==
  ASSUME LineFits, TxInRange, tx_state_q # "TX_IDLE"
  PROVE  TxAt = FrameCycles - Sending /\ TxAt \in 0 .. FrameCycles - 1 /\ FrameCycles \in Nat
<1>1. /\ Cpb \in Nat /\ DataBits \in Nat /\ tx_baud_cnt_q \in 0 .. Cpb - 1
      /\ tx_bit_cnt_q \in 0 .. DataBits - 1 /\ Stop = DataBits + 1
  BY Sizes DEF TxInRange
<1>2. /\ FrameCycles = (DataBits + 1) * Cpb + Cpb /\ (DataBits + 1) * Cpb \in Nat
      /\ 0 * Cpb = 0
  BY <1>1 DEF FrameCycles
<1>3. CASE tx_state_q = "TX_START"
  BY <1>1, <1>2, <1>3 DEF TxAt, TxBit, Sending, AndThen
<1>4. CASE tx_state_q = "TX_DATA"
  <2>1. /\ (tx_bit_cnt_q + 1) * Cpb + (DataBits - tx_bit_cnt_q) * Cpb = (DataBits + 1) * Cpb
        /\ (tx_bit_cnt_q + 1) * Cpb \in Nat /\ (DataBits - tx_bit_cnt_q) * Cpb \in Nat
    BY <1>1
  <2> QED BY <1>1, <1>2, <1>4, <2>1 DEF TxAt, TxBit, Sending, AndThen
<1>5. CASE tx_state_q = "TX_STOP"
  BY <1>1, <1>2, <1>5 DEF TxAt, TxBit, Sending, AndThen
<1> QED BY <1>3, <1>4, <1>5 DEF TxInRange

\* The transmitter goes through the frame of the byte it has begun.
LEMMA SaysStep ==
  ASSUME HelloFits, ProgramInv, LineTyped, NEW op \in HelloAccesses, HelloEdge(op),
         Says(Dialogue[Begun]), tx_state_q # "TX_IDLE" => Begun >= 1
  PROVE  /\ tx_o' \in {0, 1} /\ tx_shift_q' \in Bytes
         /\ Says(Dialogue[Begun])'
         /\ tx_state_q' # "TX_IDLE" => Begun' >= 1
         /\ \/ TxStays /\ tx_o' = 1
            \/ TxBegins /\ TxAt' = 0 /\ tx_o' = 1
            \/ TxGoesOn /\ TxAt' = TxAt + 1
            \/ TxEnds /\ TxAt = FrameCycles - 1 /\ tx_o' = 1
<1>0. LineFits /\ TxInRange
  BY DEF HelloFits, ProgramInv
<1>1. /\ IF tx_state_q = "TX_IDLE"
           THEN TxBegins \/ TxStays
           ELSE /\ TxStart \/ TxData \/ TxStop
                /\ TxGoesOn \/ (TxEnds /\ tx_o' = 1)
      /\ tx_state_q = "TX_IDLE" =>
           tx_o' = 1 /\ tx_baud_cnt_q' = 0 /\ tx_bit_cnt_q' = 0
  BY TekStep
<1>2. Progress /\ tx_shift_q \in Bytes
  BY ProgramStep DEF LineTyped
<1>3. /\ Begun \in Nat
      /\ pc.access = "start" => tdr_q = Dialogue[Begun + 1] /\ Begun + 1 \in 1 .. Len(Dialogue)
      /\ Begun >= 1 => Dialogue[Begun] \in Bytes
  BY FramesBegun, DialogueIs
<1>4. CASE TxStays
  <2>1. tx_shift_q' = tx_shift_q
    <3>1. TekIdle(op)
      BY <1>4 DEF HelloEdge, TekEdge, TxStays, TxStart, TxData, TxStop
    <3>2. ~start_pulse(op)
      BY <1>4, <3>1 DEF TekIdle, TxStays
    <3> QED BY <3>1, <3>2 DEF TekIdle
  <2> QED BY <1>1, <1>2, <1>4, <2>1 DEF TxStays, Says
<1>5. CASE TxBegins
  <2>1. Begun' = Begun + 1 /\ tdr_q = Dialogue[Begun'] /\ Dialogue[Begun'] \in Bytes
    <3>1. Begun' = Begun + 1 /\ pc.access = "start"
      BY <1>2, <1>5 DEF Progress
    <3> QED BY <1>3, <3>1, DialogueIs
  <2>2. tx_state_q' = "TX_START" /\ tx_shift_q' = Dialogue[Begun'] /\ tx_o' = 1
    BY <1>1, <1>5, <2>1 DEF TxBegins
  <2>3. TxAt' = 0
    <3>1. TxBit' = 0 /\ 0 * Cpb = 0
      BY <1>0, <2>2, Sizes DEF TxBit
    <3> QED BY <1>1, <1>5, <3>1 DEF TxAt, TxBegins
  <2>4. Shows(1, Dialogue[Begun'], Cpb, TxAt' - 1)
    BY <1>0, <2>1, <2>3, ShowsNone, Sizes
  <2>5. TxToSend(Dialogue[Begun])'
    BY <1>0, <1>1, <1>5, <2>2, Sizes DEF TxToSend, TxBegins
  <2> QED BY <1>3, <1>5, <2>1, <2>2, <2>3, <2>4, <2>5 DEF Says
<1>6. CASE tx_state_q # "TX_IDLE"
  <2>0. Begun' = Begun /\ Dialogue[Begun] \in Bytes /\ TxToSend(Dialogue[Begun])
    BY <1>2, <1>3, <1>6 DEF Progress, Says
  <2>1. CASE TxGoesOn
    <3>1. /\ TxBit \in 0 .. Stop /\ tx_o' = Bit(Dialogue[Begun], TxBit)
          /\ TxBit' * Cpb + tx_baud_cnt_q' - 1 = TxBit * Cpb + tx_baud_cnt_q
          /\ tx_state_q' \in {"TX_START", "TX_DATA"} =>
               \A i \in 1 .. DataBits - tx_bit_cnt_q' :
                 tx_shift_q'[i] = Dialogue[Begun][tx_bit_cnt_q' + i]
          /\ tx_shift_q' \in Bytes
      BY <1>0, <1>1, <1>6, <2>0, <2>1, LoopTurns DEF TxGoesOn
    <3>2. TxToSend(Dialogue[Begun])'
      BY <2>0, <3>1 DEF TxToSend
    <3>3. tx_o' \in {0, 1}
      BY <2>0, <3>1, BitIsBit
    <3>4. TxAt \in Int /\ TxAt' = TxAt + 1
      <4>1. TxAt \in Int
        BY <1>0, <1>6, TxAtIs
      <4>2. TxBit' * Cpb \in Int /\ tx_baud_cnt_q' \in Int
        <5>1. TxInRange' /\ Cpb \in Nat /\ DataBits \in Nat /\ Stop \in Nat
          BY <1>0, TekStep, Sizes
        <5>2. TxBit' \in Int /\ tx_baud_cnt_q' \in Int
          BY <5>1 DEF TxInRange, TxBit
        <5> QED BY <5>1, <5>2
      <4>3. TxAt' = TxBit' * Cpb + tx_baud_cnt_q' /\ TxAt = TxBit * Cpb + tx_baud_cnt_q
        BY DEF TxAt
      <4> QED BY <3>1, <4>1, <4>2, <4>3
    <3>5. Shows(tx_o', Dialogue[Begun], Cpb, TxAt)
      <4>1. TxBit * Cpb <= TxAt /\ TxAt < (TxBit + 1) * Cpb
        <5>1. tx_baud_cnt_q \in 0 .. Cpb - 1 /\ Cpb \in Nat /\ TxBit \in Nat
          BY <1>0, <3>1, Sizes DEF TxInRange
        <5>2. (TxBit + 1) * Cpb = TxBit * Cpb + Cpb /\ TxBit * Cpb \in Nat
          BY <5>1
        <5> QED BY <5>1, <5>2 DEF TxAt
      <4> QED BY <1>0, <3>1, <3>3, <3>4, <4>1, ShowsBit, Sizes
    <3>6. TxAt' - 1 = TxAt
      BY <3>4
    <3> QED BY <1>6, <2>0, <2>1, <3>1, <3>2, <3>3, <3>4, <3>5, <3>6 DEF Says, TxGoesOn
  <2>2. CASE TxEnds
    <3>1. TxAt = FrameCycles - 1
      BY <1>0, <1>6, <2>2, TxAtIs DEF TxEnds
    <3>2. tx_shift_q' = tx_shift_q /\ tx_o' = 1
      BY <1>1, <1>6, <2>2 DEF TxEnds, TxStart, TxData, TxStop
    <3> QED BY <1>2, <2>2, <3>1, <3>2 DEF Says, TxEnds
  <2> QED BY <1>1, <1>6, <2>1, <2>2
<1> QED BY <1>1, <1>4, <1>5, <1>6

\* The middles of the bits, as the host counts.
LEMMA HostSizes ==
  ASSUME HelloFits, far \in FarBits
  PROVE  /\ far \in Nat /\ far > 0 /\ ReadCycles \in Nat /\ ReadCycles > 0
         /\ FrameCycles \in Nat /\ (DataBits + 1) * Cpb \in Nat
         /\ FrameCycles = (DataBits + 1) * Cpb + Cpb
         /\ (DataBits + 1) * Cpb < ReadCycles /\ ReadCycles < FrameCycles + 12
         /\ \A k \in 1 .. DataBits :
              /\ MiddleOf(k) \in Nat /\ k * Cpb \in Nat
              /\ k * Cpb < MiddleOf(k) /\ MiddleOf(k) <= (k + 1) * Cpb
              /\ MiddleOf(k) <= (DataBits + 1) * Cpb
         /\ \A j, k \in 1 .. DataBits : j < k => MiddleOf(j) < MiddleOf(k)
<1>1. /\ LineFits /\ Heeds(far) /\ far \in Nat /\ far > 0
      /\ Cpb \in Nat /\ Cpb >= 3 /\ DataBits \in Nat /\ DataBits >= 1
  BY Sizes, LineAssumption DEF HelloFits
<1>2. far \div 2 \in Nat
  BY <1>1
<1>3. /\ ReadCycles = (DataBits + 2) * far /\ ReadCycles \in Nat
      /\ FrameCycles = (DataBits + 1) * Cpb + Cpb /\ (DataBits + 1) * Cpb \in Nat
      /\ FrameCycles \in Nat
  BY <1>1 DEF ReadCycles, FrameCycles
<1>4. (DataBits + 1) * Cpb < ReadCycles /\ ReadCycles < FrameCycles + 12
  BY <1>1, <1>3 DEF Heeds, FrameCycles
<1>5. ASSUME NEW k \in 1 .. DataBits
      PROVE  /\ MiddleOf(k) \in Nat /\ k * Cpb \in Nat
             /\ k * Cpb < MiddleOf(k) /\ MiddleOf(k) <= (k + 1) * Cpb
             /\ MiddleOf(k) <= (DataBits + 1) * Cpb
  <2>1. MiddleOf(k) = k * far + (far \div 2) /\ k * far \in Nat /\ k * Cpb \in Nat
    BY <1>1 DEF MiddleOf
  <2>2. k * Cpb < MiddleOf(k) /\ MiddleOf(k) <= (k + 1) * Cpb
    BY <1>1, <2>1 DEF Heeds
  <2>3. (k + 1) * Cpb <= (DataBits + 1) * Cpb /\ (k + 1) * Cpb \in Nat
    BY <1>1, Grows
  <2> QED BY <1>2, <1>3, <2>1, <2>2, <2>3
<1>6. ASSUME NEW j \in 1 .. DataBits, NEW k \in 1 .. DataBits, j < k
      PROVE  MiddleOf(j) < MiddleOf(k)
  <2>1. (j + 1) * far <= k * far /\ (j + 1) * far = far * j + far
        /\ k * far = far * k /\ far * j \in Nat /\ far * k \in Nat
    BY <1>1, <1>6, Grows
  <2> QED BY <1>1, <1>2, <2>1 DEF MiddleOf
<1> QED BY <1>1, <1>3, <1>4, <1>5, <1>6

\* A bit is appended in its middle, and no other.
LEMMA BitsStep ==
  ASSUME HelloFits, far \in FarBits, far' = far, NEW byte \in Bytes, HasRead(byte),
         cnt \in 1 .. ReadCycles, cnt' = cnt + 1, tx_o \in {0, 1},
         bits' = (IF cnt \in Middles THEN Append(bits, tx_o) ELSE bits),
         \A k \in 1 .. DataBits : cnt = MiddleOf(k) => tx_o = byte[k]
  PROVE  HasRead(byte)'
<1>1. /\ DataBits \in Nat /\ DataBits >= 1 /\ ReadCycles \in Nat
      /\ \A k \in 1 .. DataBits : MiddleOf(k) \in Nat
      /\ \A j, k \in 1 .. DataBits : j < k => MiddleOf(j) < MiddleOf(k)
  BY HostSizes, UartAssumption
<1>2. /\ bits \in Seq({0, 1}) /\ Len(bits) \in Nat /\ Len(bits) <= DataBits
      /\ \A i \in 1 .. Len(bits) : bits[i] = byte[i]
      /\ Len(bits) > 0 => MiddleOf(Len(bits)) < cnt
      /\ Len(bits) < DataBits => cnt <= MiddleOf(Len(bits) + 1)
  BY DEF HasRead
<1>3. \A k : MiddleOf(k)' = MiddleOf(k)
  BY DEF MiddleOf
<1>4. CASE \E k \in 1 .. DataBits : cnt = MiddleOf(k)
  <2>1. PICK k \in 1 .. DataBits : cnt = MiddleOf(k)
    BY <1>4
  <2>2. k > Len(bits)
    <3>1. CASE k = Len(bits)
      BY <1>1, <1>2, <2>1, <3>1
    <3>2. CASE k < Len(bits)
      <4>1. MiddleOf(k) < MiddleOf(Len(bits))
        BY <1>1, <1>2, <3>2
      <4>2. MiddleOf(Len(bits)) \in Nat
        BY <1>1, <1>2, <3>2
      <4> QED BY <1>1, <1>2, <2>1, <3>2, <4>1, <4>2
    <3> QED BY <1>2, <3>1, <3>2
  <2>3. k = Len(bits) + 1
    <3>1. CASE k > Len(bits) + 1
      <4>1. MiddleOf(Len(bits) + 1) < MiddleOf(k)
        BY <1>1, <1>2, <3>1
      <4>2. MiddleOf(Len(bits) + 1) \in Nat
        BY <1>1, <1>2, <3>1
      <4> QED BY <1>1, <1>2, <2>1, <3>1, <4>1, <4>2
    <3> QED BY <1>2, <2>2, <3>1
  <2>4. bits' = Append(bits, byte[k])
    BY <2>1 DEF Middles
  <2>5. byte[k] \in {0, 1}
    BY DEF Bytes
  <2>6. /\ bits' \in Seq({0, 1}) /\ Len(bits') = Len(bits) + 1
        /\ \A i \in 1 .. Len(bits) : bits'[i] = bits[i]
        /\ bits'[Len(bits) + 1] = byte[k]
    BY <1>2, <2>4, <2>5, AppendProperties
  <2>7. \A i \in 1 .. Len(bits') : bits'[i] = byte[i]
    BY <1>2, <2>3, <2>6
  <2>8. Len(bits') < DataBits => cnt' <= MiddleOf(Len(bits') + 1)
    <3>1. ASSUME Len(bits') < DataBits
          PROVE  MiddleOf(k) < MiddleOf(k + 1) /\ MiddleOf(k + 1) \in Nat
      BY <1>1, <2>3, <2>6, <3>1
    <3> QED BY <1>1, <2>1, <2>3, <2>6, <3>1
  <2>9. MiddleOf(Len(bits')) < cnt'
    BY <1>1, <2>1, <2>3, <2>6
  <2>10. Len(bits') <= DataBits
    BY <1>1, <1>2, <2>3, <2>6
  <2>11. MiddleOf(Len(bits))' < cnt' /\ (Len(bits) < DataBits => cnt <= MiddleOf(Len(bits) + 1))'
    BY <2>8, <2>9 DEF MiddleOf
  <2> QED BY <2>6, <2>7, <2>10, <2>11 DEF HasRead
<1>5. CASE ~\E k \in 1 .. DataBits : cnt = MiddleOf(k)
  <2>1. bits' = bits
    BY <1>5 DEF Middles
  <2>2. Len(bits) < DataBits => cnt + 1 <= MiddleOf(Len(bits) + 1)
    <3>1. ASSUME Len(bits) < DataBits
          PROVE  cnt # MiddleOf(Len(bits) + 1) /\ MiddleOf(Len(bits) + 1) \in Nat
      BY <1>1, <1>2, <1>5, <3>1
    <3> QED BY <1>1, <1>2, <3>1
  <2>3. Len(bits) > 0 => MiddleOf(Len(bits)) < cnt + 1
    <3>1. ASSUME Len(bits) > 0 PROVE MiddleOf(Len(bits)) \in Nat
      BY <1>1, <1>2, <3>1
    <3> QED BY <1>1, <1>2, <3>1
  <2> QED BY <1>2, <1>3, <2>1, <2>2, <2>3 DEF HasRead
<1> QED BY <1>4, <1>5

\* At the end it has the byte.
LEMMA BitsDone ==
  ASSUME HelloFits, far \in FarBits, NEW byte \in Bytes, HasRead(byte),
         cnt \in Nat, (DataBits + 1) * Cpb < cnt
  PROVE  Len(bits) = DataBits /\ bits = byte
<1>1. /\ DataBits \in Nat /\ DataBits >= 1 /\ (DataBits + 1) * Cpb \in Nat
      /\ \A k \in 1 .. DataBits :
           MiddleOf(k) \in Nat /\ MiddleOf(k) <= (DataBits + 1) * Cpb
  BY HostSizes, UartAssumption
<1>2. /\ bits \in Seq({0, 1}) /\ Len(bits) \in Nat /\ Len(bits) <= DataBits
      /\ \A i \in 1 .. Len(bits) : bits[i] = byte[i]
      /\ Len(bits) < DataBits => cnt <= MiddleOf(Len(bits) + 1)
  BY DEF HasRead
<1>3. Len(bits) = DataBits
  <2>1. ASSUME Len(bits) < DataBits
        PROVE  MiddleOf(Len(bits) + 1) \in Nat
                 /\ MiddleOf(Len(bits) + 1) <= (DataBits + 1) * Cpb
    BY <1>1, <1>2, <2>1
  <2> QED BY <1>1, <1>2, <2>1
<1>4. byte \in Seq({0, 1}) /\ Len(byte) = DataBits
  BY ByteIsSeq
<1> QED BY <1>2, <1>3, <1>4, SeqEqual

\* What it has read is appended to the transcript.
LEMMA TranscriptGrows ==
  ASSUME HelloFits, ProgramInv, HostInv, far' = far, NEW op, uart_read, ReadEnd,
         cnt > 0, Len(transcript) + 1 = Begun, HasRead(Dialogue[Begun])
  PROVE  /\ cnt' = 0 /\ bits = Dialogue[Begun]
         /\ transcript' \in Seq(Bytes) /\ Len(transcript') = Begun
         /\ \A k \in 1 .. Len(transcript') : transcript'[k] = Dialogue[k]
<1>1. /\ transcript \in Seq(Bytes) /\ Len(transcript) \in Nat
      /\ \A k \in 1 .. Len(transcript) : transcript[k] = Dialogue[k]
      /\ cnt \in Nat /\ far \in FarBits
  BY HostSizes DEF HostInv
<1>2. Begun >= 1 /\ Dialogue[Begun] \in Bytes
  BY <1>1, FramesBegun
<1>3. bits = Dialogue[Begun]
  <2>1. (DataBits + 1) * Cpb < cnt
    BY <1>1, HostSizes DEF ReadEnd
  <2> QED BY <1>1, <1>2, <2>1, BitsDone
<1>4. cnt' = 0 /\ transcript' = Append(transcript, Dialogue[Begun])
  BY <1>1, <1>3 DEF uart_read
<1>5. /\ transcript' \in Seq(Bytes) /\ Len(transcript') = Len(transcript) + 1
      /\ \A k \in 1 .. Len(transcript) : transcript'[k] = transcript[k]
      /\ transcript'[Len(transcript) + 1] = Dialogue[Begun]
  BY <1>1, <1>2, <1>4, AppendProperties
<1> QED BY <1>1, <1>3, <1>4, <1>5

\* Between the ends of its frames it appends the bits of the byte being sent.
LEMMA HostReadsOn ==
  ASSUME HelloFits, ProgramInv, LineTyped, HostInv, far' = far, uart_read,
         cnt > 0, ~ReadEnd, Begun >= 1, HasRead(Dialogue[Begun]),
         \A k \in 1 .. DataBits : cnt = MiddleOf(k) => tx_o = Dialogue[Begun][k]
  PROVE  /\ cnt' = cnt + 1 /\ cnt' \in 0 .. ReadCycles /\ transcript' = transcript
         /\ \A byte : byte = Dialogue[Begun] => HasRead(byte)'
<1>1. cnt \in 1 .. ReadCycles /\ far \in FarBits /\ ReadCycles \in Nat /\ cnt # ReadCycles
  BY HostSizes DEF HostInv, ReadEnd
<1>2. /\ cnt' = cnt + 1 /\ transcript' = transcript
      /\ bits' = IF cnt \in Middles THEN Append(bits, tx_o) ELSE bits
  BY <1>1 DEF uart_read
<1>3. Dialogue[Begun] \in Bytes /\ tx_o \in {0, 1}
  BY FramesBegun DEF LineTyped
<1>4. ASSUME NEW byte, byte = Dialogue[Begun] PROVE HasRead(byte)'
  <2>1. \A k \in 1 .. DataBits : cnt = MiddleOf(k) => tx_o = byte[k]
    BY <1>4
  <2> QED BY <1>1, <1>2, <1>3, <1>4, <2>1, BitsStep
<1> QED BY <1>1, <1>2, <1>4

\* The next frame never begins in the same cycle.
LEMMA ToStartTyped ==
  ToStart \in 1 .. 12
BY DEF ToStart

\* The level the host sees, a cycle behind the transmitter.
LEMMA TxLevel ==
  ASSUME LineFits, NEW at \in 0 .. FrameCycles, NEW level, NEW byte,
         Shows(level, byte, Cpb, at - 1)
  PROVE  /\ at = 0 => level = 1
         /\ at = 1 => level = 0
         /\ (DataBits + 1) * Cpb < at => level = 1
         /\ \A k \in 1 .. DataBits :
              k * Cpb < at /\ at <= (k + 1) * Cpb => level = byte[k]
<1>1. /\ Cpb \in Nat /\ Cpb >= 3 /\ DataBits \in Nat /\ DataBits >= 1
      /\ Stop = DataBits + 1
  BY Sizes
<1>2. FrameCycles \in Nat
  BY <1>1 DEF FrameCycles
<1>4. at = 0 => level = 1
  BY <1>2 DEF Shows
<1>5. ASSUME NEW b \in 0 .. Stop, b * Cpb < at, at <= (b + 1) * Cpb
      PROVE  level = Bit(byte, b)
  <2>1. b * Cpb \in Nat /\ (b + 1) * Cpb \in Nat
    BY <1>1
  <2>2. b * Cpb <= at - 1 /\ at - 1 < (b + 1) * Cpb
    BY <1>2, <1>5, <2>1
  <2> QED BY <2>2 DEF Shows
<1>6. at = 1 => level = 0
  <2>1. 0 \in 0 .. Stop /\ 0 * Cpb = 0 /\ (0 + 1) * Cpb = Cpb
    BY <1>1
  <2> QED BY <1>1, <1>2, <1>5, <2>1 DEF Bit
<1>7. (DataBits + 1) * Cpb < at => level = 1
  <2>1. /\ Stop \in 0 .. Stop /\ Stop # 0 /\ Stop * Cpb = (DataBits + 1) * Cpb
        /\ (Stop + 1) * Cpb = FrameCycles
    BY <1>1 DEF FrameCycles
  <2> QED BY <1>1, <1>2, <1>5, <2>1 DEF Bit
<1>8. ASSUME NEW k \in 1 .. DataBits, k * Cpb < at, at <= (k + 1) * Cpb
      PROVE  level = byte[k]
  <2>1. k \in 0 .. Stop /\ k # 0 /\ k # Stop
    BY <1>1
  <2> QED BY <1>5, <1>8, <2>1 DEF Bit
<1> QED BY <1>4, <1>6, <1>7, <1>8

\* One cycle of transmitter and host.
LEMMA HostStep ==
  ASSUME HelloFits, ProgramInv, LineTyped, HostInv, NEW op \in HelloAccesses, HelloEdge(op)
  PROVE  HostInv'
<1>1. uart_read /\ far' = far /\ far \in FarBits /\ LineFits /\ TxInRange
  BY DEF HelloEdge, HostInv, HelloFits, ProgramInv
<1>2. /\ tx_o' \in {0, 1} /\ Says(Dialogue[Begun])'
      /\ tx_state_q' # "TX_IDLE" => Begun' >= 1
      /\ \/ TxStays /\ tx_o' = 1
         \/ TxBegins /\ TxAt' = 0 /\ tx_o' = 1
         \/ TxGoesOn /\ TxAt' = TxAt + 1
         \/ TxEnds /\ TxAt = FrameCycles - 1 /\ tx_o' = 1
  BY SaysStep DEF HostInv
<1>3. /\ TxStays => Begun' = Begun /\ ToStart' >= ToStart - 1
      /\ TxBegins => Begun' = Begun + 1 /\ ToStart = 1
      /\ tx_state_q # "TX_IDLE" => Begun' = Begun
      /\ TxEnds => ToStart' = 12
  BY ProgramStep DEF Progress
<1>4. /\ Begun \in Nat /\ Begun' \in Int /\ ToStart \in 1 .. 12 /\ ToStart' \in Int
      /\ Begun >= 1 => Dialogue[Begun] \in Bytes
  <2>1. ToStart' \in Int
    BY DEF ToStart
  <2>2. Begun \in Nat /\ (Begun >= 1 => Dialogue[Begun] \in Bytes)
    BY FramesBegun, DialogueIs
  <2> QED BY <1>2, <1>3, <2>1, <2>2, ToStartTyped DEF TxStays, TxBegins, TxGoesOn, TxEnds
<1>5. /\ ReadCycles' = ReadCycles /\ ReadCycles \in Nat /\ ReadCycles > 0
      /\ FrameCycles \in Nat /\ FrameCycles > 1 /\ (DataBits + 1) * Cpb \in Nat
      /\ (DataBits + 1) * Cpb < FrameCycles
      /\ (DataBits + 1) * Cpb < ReadCycles /\ ReadCycles < FrameCycles + 12
      /\ \A k \in 1 .. DataBits :
           /\ MiddleOf(k) \in Nat /\ k * Cpb < MiddleOf(k) /\ MiddleOf(k) <= (k + 1) * Cpb
           /\ MiddleOf(k) <= (DataBits + 1) * Cpb
  <2>1. ReadCycles' = ReadCycles
    BY <1>1 DEF ReadCycles
  <2>2. Cpb \in Nat /\ Cpb >= 3
    BY <1>1, Sizes
  <2> QED BY <1>1, <2>1, <2>2, HostSizes
<1>6. /\ transcript \in Seq(Bytes) /\ Len(transcript) \in Nat /\ cnt \in 0 .. ReadCycles
      /\ \A k \in 1 .. Len(transcript) : transcript[k] = Dialogue[k]
  BY DEF HostInv
<1>7. tx_state_q # "TX_IDLE" =>
        /\ TxAt \in 0 .. FrameCycles - 1 /\ Begun >= 1
        /\ Shows(tx_o, Dialogue[Begun], Cpb, TxAt - 1)
  BY <1>1, TxAtIs DEF HostInv, Says
<1>8. TxGoesOn => /\ TxAt + 1 \in 0 .. FrameCycles
                  /\ Shows(tx_o', Dialogue[Begun], Cpb, (TxAt + 1) - 1)
  BY <1>2, <1>3, <1>5, <1>7 DEF Says, TxGoesOn, TxStays, TxBegins, TxEnds
<1> DEFINE Rest1 == /\ cnt' \in 0 .. ReadCycles /\ transcript' \in Seq(Bytes)
                    /\ \A k \in 1 .. Len(transcript') : transcript'[k] = Dialogue[k]
                    /\ InStep' \/ Ahead' \/ Awaits' \/ Behind'
<1>9. SUFFICES Rest1
  BY <1>1, <1>2, <1>5 DEF HostInv
<1>10. CASE InStep
  <2>1. tx_state_q # "TX_IDLE" /\ cnt = TxAt /\ Len(transcript) + 1 = Begun
        /\ (cnt > 0 => HasRead(Dialogue[Begun])) /\ Begun' = Begun
    BY <1>3, <1>10 DEF InStep
  <2>2. CASE cnt = 0
    <3>1. TxGoesOn /\ TxAt' = 1
      BY <1>2, <1>5, <2>1, <2>2 DEF TxStays, TxBegins
    <3>2. tx_o = 1 /\ tx_o' = 0
      <4>1. tx_o = 1
        BY <1>1, <1>5, <1>7, <2>1, <2>2, TxLevel
      <4>2. tx_o' = 0
        BY <1>1, <1>5, <1>8, <2>1, <2>2, <3>1, TxLevel
      <4> QED BY <4>1, <4>2
    <3>3. cnt' = 1 /\ bits' = <<>> /\ transcript' = transcript
      BY <1>1, <2>2, <3>2 DEF uart_read
    <3>4. HasRead(Dialogue[Begun])'
      <4>1. 1 \in 1 .. DataBits /\ MiddleOf(1)' = MiddleOf(1) /\ MiddleOf(1) \in Nat
            /\ 1 * Cpb < MiddleOf(1) /\ 1 * Cpb \in Nat /\ DataBits \in Nat
        BY <1>1, <1>5, Sizes DEF MiddleOf
      <4>2. bits' \in Seq({0, 1}) /\ Len(bits') = 0 /\ Len(bits') + 1 = 1
        BY <3>3, EmptySeq
      <4> QED BY <3>3, <4>1, <4>2 DEF HasRead
    <3>5. InStep'
      BY <2>1, <3>1, <3>3, <3>4 DEF InStep, TxGoesOn
    <3> QED BY <1>5, <1>6, <3>3, <3>5
  <2>3. CASE cnt > 0 /\ ReadEnd
    <3>1. cnt' = 0 /\ transcript' \in Seq(Bytes) /\ Len(transcript') = Begun
          /\ \A k \in 1 .. Len(transcript') : transcript'[k] = Dialogue[k]
      BY <1>1, <2>1, <2>3, TranscriptGrows
    <3>2. CASE TxGoesOn
      <4>1. ReadCycles' < TxAt'
        BY <1>2, <1>5, <1>7, <2>1, <2>3, <3>2 DEF ReadEnd, TxStays, TxBegins, TxGoesOn, TxEnds
      <4>2. Ahead'
        BY <2>1, <3>1, <3>2, <4>1 DEF Ahead, TxGoesOn
      <4> QED BY <1>5, <3>1, <4>2
    <3>3. CASE TxEnds
      <4>1. Awaits'
        BY <2>1, <3>1, <3>3 DEF Awaits, TxEnds
      <4> QED BY <1>5, <3>1, <4>1
    <3> QED BY <1>2, <2>1, <3>2, <3>3 DEF TxStays, TxBegins
  <2>4. CASE cnt > 0 /\ ~ReadEnd
    <3>1. ASSUME NEW k \in 1 .. DataBits, cnt = MiddleOf(k)
          PROVE  tx_o = Dialogue[Begun][k]
      <4>1. k * Cpb < TxAt /\ TxAt <= (k + 1) * Cpb
        BY <1>5, <2>1, <3>1
      <4>2. TxAt \in 0 .. FrameCycles
        BY <1>5, <1>7, <2>1
      <4> QED BY <1>1, <1>7, <2>1, <4>1, <4>2, TxLevel
    <3>2. /\ cnt' = cnt + 1 /\ cnt' \in 0 .. ReadCycles /\ transcript' = transcript
          /\ \A byte : byte = Dialogue[Begun] => HasRead(byte)'
      BY <1>1, <1>7, <2>1, <2>4, <3>1, HostReadsOn
    <3>3. HasRead(Dialogue[Begun])'
      BY <2>1, <3>2 DEF HasRead
    <3>4. CASE TxGoesOn
      <4>1. cnt' = TxAt'
        BY <1>2, <2>1, <3>2, <3>4 DEF TxStays, TxBegins, TxGoesOn, TxEnds
      <4>2. InStep'
        BY <2>1, <3>2, <3>3, <3>4, <4>1 DEF InStep, TxGoesOn
      <4> QED BY <1>6, <3>2, <4>2
    <3>5. CASE TxEnds
      <4>1. cnt' = FrameCycles /\ FrameCycles' = FrameCycles /\ ToStart' = 12
        BY <1>2, <1>3, <1>5, <2>1, <3>2, <3>5
           DEF TxStays, TxBegins, TxGoesOn, TxEnds, FrameCycles
      <4>2. (DataBits + 2) * Cpb <= cnt' /\ ReadCycles' + 1 - cnt' <= ToStart'
        BY <1>5, <4>1 DEF FrameCycles
      <4>3. Behind'
        BY <2>1, <3>2, <3>3, <3>5, <4>2 DEF Behind, TxEnds
      <4> QED BY <1>6, <3>2, <4>3
    <3> QED BY <1>2, <2>1, <3>4, <3>5 DEF TxStays, TxBegins
  <2> QED BY <1>6, <2>2, <2>3, <2>4
<1>11. CASE Ahead
  <2>1. tx_state_q # "TX_IDLE" /\ cnt = 0 /\ Len(transcript) = Begun /\ ReadCycles < TxAt
        /\ Begun' = Begun
    BY <1>3, <1>11 DEF Ahead
  <2>2. tx_o' = 1
    <3>1. CASE TxGoesOn
      BY <1>1, <1>5, <1>7, <1>8, <2>1, <3>1, TxLevel
    <3> QED BY <1>2, <2>1, <3>1 DEF TxStays, TxBegins
  <2>3. cnt' = 0 /\ transcript' = transcript
    BY <1>1, <2>1, <2>2 DEF uart_read
  <2>4. CASE TxGoesOn
    <3>1. ReadCycles' < TxAt'
      BY <1>2, <1>5, <1>7, <2>1, <2>4 DEF TxStays, TxBegins, TxGoesOn, TxEnds
    <3>2. Ahead'
      BY <2>1, <2>3, <2>4, <3>1 DEF Ahead, TxGoesOn
    <3> QED BY <1>5, <1>6, <2>3, <3>2
  <2>5. CASE TxEnds
    <3>1. Awaits'
      BY <2>1, <2>3, <2>5 DEF Awaits, TxEnds
    <3> QED BY <1>5, <1>6, <2>3, <3>1
  <2> QED BY <1>2, <2>1, <2>4, <2>5 DEF TxStays, TxBegins
<1>12. CASE Awaits
  <2>1. tx_state_q = "TX_IDLE" /\ cnt = 0 /\ Len(transcript) = Begun
    BY <1>12 DEF Awaits
  <2>2. tx_o' = 1
    BY <1>2, <2>1 DEF TxGoesOn
  <2>3. cnt' = 0 /\ transcript' = transcript
    BY <1>1, <2>1, <2>2 DEF uart_read
  <2>4. CASE TxStays
    <3>1. Awaits'
      BY <1>3, <2>1, <2>3, <2>4 DEF Awaits, TxStays
    <3> QED BY <1>5, <1>6, <2>3, <3>1
  <2>5. CASE TxBegins
    <3>1. TxAt' = 0
      BY <1>2, <2>5 DEF TxStays, TxBegins, TxGoesOn, TxEnds
    <3>2. InStep'
      BY <1>3, <2>1, <2>3, <2>5, <3>1 DEF InStep, TxBegins
    <3> QED BY <1>5, <1>6, <2>3, <3>2
  <2> QED BY <1>2, <2>1, <2>4, <2>5 DEF TxGoesOn, TxEnds
<1>13. CASE Behind
  <2>1. /\ tx_state_q = "TX_IDLE" /\ Len(transcript) + 1 = Begun
        /\ FrameCycles <= cnt /\ ReadCycles + 1 - cnt <= ToStart
        /\ HasRead(Dialogue[Begun]) /\ cnt > 0
    BY <1>5, <1>6, <1>13 DEF Behind, FrameCycles
  <2>2. CASE ReadEnd
    <3>1. cnt' = 0 /\ transcript' \in Seq(Bytes) /\ Len(transcript') = Begun
          /\ \A k \in 1 .. Len(transcript') : transcript'[k] = Dialogue[k]
      BY <1>1, <2>1, <2>2, TranscriptGrows
    <3>2. CASE TxStays
      <4>1. Awaits'
        BY <1>3, <3>1, <3>2 DEF Awaits, TxStays
      <4> QED BY <1>5, <3>1, <4>1
    <3>3. CASE TxBegins
      <4>1. TxAt' = 0
        BY <1>2, <3>3 DEF TxStays, TxBegins, TxGoesOn, TxEnds
      <4>2. InStep'
        BY <1>3, <3>1, <3>3, <4>1 DEF InStep, TxBegins
      <4> QED BY <1>5, <3>1, <4>2
    <3> QED BY <1>2, <2>1, <3>2, <3>3 DEF TxGoesOn, TxEnds
  <2>3. CASE ~ReadEnd
    <3>1. \A k \in 1 .. DataBits : cnt # MiddleOf(k)
      BY <1>5, <1>6, <2>1
    <3>2. /\ cnt' = cnt + 1 /\ cnt' \in 0 .. ReadCycles /\ transcript' = transcript
          /\ \A byte : byte = Dialogue[Begun] => HasRead(byte)'
      BY <1>1, <1>4, <1>6, <2>1, <2>3, <3>1, HostReadsOn
    <3>3. TxStays /\ Begun' = Begun
      <4>1. ~TxBegins
        BY <1>3, <1>5, <1>6, <2>1, <2>3 DEF ReadEnd
      <4> QED BY <1>2, <1>3, <2>1, <4>1 DEF TxGoesOn, TxEnds
    <3>4. HasRead(Dialogue[Begun])'
      BY <3>2, <3>3 DEF HasRead
    <3>5. (DataBits + 2) * Cpb <= cnt' /\ ReadCycles' + 1 - cnt' <= ToStart'
      BY <1>3, <1>4, <1>5, <1>6, <2>1, <3>2, <3>3 DEF FrameCycles
    <3>6. Behind'
      BY <2>1, <3>2, <3>3, <3>4, <3>5 DEF Behind, TxStays
    <3> QED BY <1>6, <3>2, <3>6
  <2> QED BY <2>2, <2>3
<1> QED BY <1>10, <1>11, <1>12, <1>13 DEF HostInv

\* What the program learns and does of the answer in a cycle.
LEMMA ProgramHears ==
  ASSUME ProgramInv, NEW op \in HelloAccesses, HelloEdge(op)
  PROVE  /\ cfg_q'.rx_done = (rx_done_pulse \/ (cfg_q.rx_done /\ ~(op.what = "cfg"
              /\ ~op.rx_done)))
         /\ pc.about # "R" => pc'.about # "R"
         /\ Unheard => /\ response'.what = "cfg" => ~response'.value.rx_done
                       /\ pc'.about = "R" \/ (pc'.about = "A" /\ pc'.access = "poll")
         /\ Heeded /\ ~rx_done_pulse => Heeded'
         /\ /\ response.what = "rdr" => response.value = A
            /\ pc.access = "rdr" => rdr_q = A
            /\ ret # 1
            => (response'.what = "rdr" => response'.value = A) /\ ret' # 1
<1>1. /\ response' = Answer(op)
      /\ cfg_q'.rx_done = (rx_done_pulse \/ (cfg_q.rx_done /\ ~(op.what = "cfg"
            /\ ~op.rx_done)))
  <2>1. cfg_q' = Flags(op) /\ response' = Answer(op)
    BY TekStep
  <2> QED BY <2>1 DEF Flags, Flag
<1>2. pc \in Places /\ ResponseTyped
  BY DEF ProgramInv, ProgramTyped
<1>4. /\ pc = [access |-> pc.access, about |-> pc.about]
      /\ pc.access \in {"cpb", "cfg"} => pc.about = "R"
      /\ pc.access \in {"tdr", "read", "start"} => pc.about \in Ours
      /\ pc.access \in {"poll", "reread", "clear"} => pc.about \in {"R", "msg", "A"}
      /\ pc.access = "rdr" => pc.about = "A"
      /\ pc.access = "none" => pc = Final
  BY <1>2, About
<1>10. CASE Stands(op)
  BY <1>1, <1>2, <1>4, <1>10, Answered
     DEF Unheard, Heeded, ResponseTyped, Final, Goto, Turns, Learns, Stands, Reads, Ours,
         Awaited
<1>11. CASE op = Idle /\ response.what = "written" /\ idle' = 0
            /\ UNCHANGED <<pc, index, ret, cfg>>
  BY <1>1, <1>2, <1>4, <1>11, Answered
     DEF Unheard, Heeded, ResponseTyped, Final, Goto, Turns, Learns, Stands, Reads, Ours,
         Awaited
<1>12. CASE pc.access = "read" /\ Learns(op, "start")
  BY <1>1, <1>2, <1>4, <1>12, Answered
     DEF Unheard, Heeded, ResponseTyped, Final, Goto, Turns, Learns, Stands, Reads, Ours,
         Awaited
<1>13. CASE pc.access = "poll" /\ Awaited /\ Learns(op, "reread")
  BY <1>1, <1>2, <1>4, <1>13, Answered
     DEF Unheard, Heeded, ResponseTyped, Final, Goto, Turns, Learns, Stands, Reads, Ours,
         Awaited
<1>14. CASE pc.access = "poll" /\ ~Awaited /\ Learns(op, "poll")
  BY <1>1, <1>2, <1>4, <1>14, Answered
     DEF Unheard, Heeded, ResponseTyped, Final, Goto, Turns, Learns, Stands, Reads, Ours,
         Awaited
<1>15. CASE pc.access = "reread" /\ Learns(op, "clear")
  BY <1>1, <1>2, <1>4, <1>15, Answered
     DEF Unheard, Heeded, ResponseTyped, Final, Goto, Turns, Learns, Stands, Reads, Ours,
         Awaited
<1>16. CASE op = Idle /\ response.what = "rdr" /\ response.value = A
            /\ Goto("tdr", "msg") /\ index' = 0 /\ UNCHANGED <<ret, cfg>> /\ idle' = 0
  BY <1>1, <1>2, <1>4, <1>16, Answered
     DEF Unheard, Heeded, ResponseTyped, Final, Goto, Turns, Learns, Stands, Reads, Ours,
         Awaited
<1>17. CASE op = Idle /\ response.what = "rdr" /\ response.value # A
            /\ pc' = Final /\ ret' = 1 /\ UNCHANGED <<index, cfg>> /\ idle' = 0
  BY <1>1, <1>2, <1>4, <1>17, Answered
     DEF Unheard, Heeded, ResponseTyped, Final, Goto, Turns, Learns, Stands, Reads, Ours,
         Awaited
<1>18. CASE op = WriteCpb(Cpb) /\ pc.about = "R" /\ Turns(op, "cpb", "cfg", "R")
  BY <1>1, <1>2, <1>4, <1>18, Answered
     DEF Unheard, Heeded, ResponseTyped, Final, Goto, Turns, Learns, Stands, Reads, Ours,
         Awaited
<1>19. CASE op.what = "cfg" /\ ~op.tx_en /\ ~op.rx_done /\ ~op.tx_done /\ pc.about = "R"
              /\ Turns(op, "cfg", "tdr", "R")
  BY <1>1, <1>2, <1>4, <1>19, Answered
     DEF Unheard, Heeded, ResponseTyped, Final, Goto, Turns, Learns, Stands, Reads, Ours,
         Awaited, Answer
<1>20. CASE op = WriteTdr(ByteOf(pc.about)) /\ pc.about \in Ours
            /\ Turns(op, "tdr", "read", pc.about)
  BY <1>1, <1>2, <1>4, <1>20, Answered
     DEF Unheard, Heeded, ResponseTyped, Final, Goto, Turns, Learns, Stands, Reads, Ours,
         Awaited
<1>21. CASE Reads(op)
  <2>1. /\ response'.what = "cfg" /\ response'.value = cfg_q /\ op.what = "read_cfg"
        /\ pc' = pc /\ ret' = ret
    BY <1>1, <1>21, Answered DEF Reads
  <2>2. cfg_q'.rx_done = (rx_done_pulse \/ cfg_q.rx_done)
    BY <1>1, <2>1
  <2> QED BY <2>1, <2>2 DEF Unheard, Heeded
<1>22. CASE op.what = "cfg" /\ op.tx_en /\ op.rx_done = cfg.rx_done
              /\ op.tx_done = cfg.tx_done /\ pc.about \in Ours
            /\ Turns(op, "start", "poll", pc.about)
  BY <1>1, <1>2, <1>4, <1>22, Answered
     DEF Unheard, Heeded, ResponseTyped, Final, Goto, Turns, Learns, Stands, Reads, Ours,
         Awaited, Answer
<1>23. CASE op.what = "cfg" /\ op.tx_en = cfg.tx_en /\ op.rx_done = cfg.rx_done
              /\ ~op.tx_done /\ pc.about = "R"
            /\ Turns(op, "clear", "poll", "A")
  BY <1>1, <1>2, <1>4, <1>23, Answered
     DEF Unheard, Heeded, ResponseTyped, Final, Goto, Turns, Learns, Stands, Reads, Ours,
         Awaited, Answer
<1>24. CASE op.what = "cfg" /\ op.tx_en = cfg.tx_en /\ ~op.rx_done
              /\ op.tx_done = cfg.tx_done /\ pc.about = "A"
            /\ Turns(op, "clear", "rdr", "A")
  BY <1>1, <1>2, <1>4, <1>24, Answered
     DEF Unheard, Heeded, ResponseTyped, Final, Goto, Turns, Learns, Stands, Reads, Ours,
         Awaited, Answer
<1>25. CASE op = ReadRdr /\ pc.about = "A" /\ Turns(op, "rdr", "rdr", "A")
  BY <1>1, <1>2, <1>4, <1>25, Answered
     DEF Unheard, Heeded, ResponseTyped, Final, Goto, Turns, Learns, Stands, Reads, Ours,
         Awaited
<1>26. CASE op.what = "cfg" /\ op.tx_en = cfg.tx_en /\ op.rx_done = cfg.rx_done
              /\ ~op.tx_done /\ response = Idle
            /\ pc.access = "clear" /\ pc.about = "msg" /\ idle' = 0 /\ UNCHANGED cfg
            /\ Stops(index) /\ pc' = Final /\ ret' = 0 /\ UNCHANGED index
  BY <1>1, <1>2, <1>4, <1>26, Answered
     DEF Unheard, Heeded, ResponseTyped, Final, Goto, Turns, Learns, Stands, Reads, Ours,
         Awaited, Answer
<1>27. CASE op.what = "cfg" /\ op.tx_en = cfg.tx_en /\ op.rx_done = cfg.rx_done
              /\ ~op.tx_done /\ response = Idle
            /\ pc.access = "clear" /\ pc.about = "msg" /\ idle' = 0 /\ UNCHANGED cfg
            /\ ~Stops(index) /\ Goto("tdr", "msg") /\ index' = index + 1 /\ UNCHANGED ret
  BY <1>1, <1>2, <1>4, <1>27, Answered
     DEF Unheard, Heeded, ResponseTyped, Final, Goto, Turns, Learns, Stands, Reads, Ours,
         Awaited, Answer
<1>5. Program(op)
  BY DEF HelloEdge
<1> QED BY <1>2, <1>5, ProgramCases, <1>10, <1>11, <1>12, <1>13, <1>14, <1>15, <1>16, <1>17,
            <1>18, <1>19, <1>20, <1>21, <1>22, <1>23, <1>24, <1>25, <1>26, <1>27 DEF ProgramInv

\* TX_DONE of R is cleared within Due cycles.
LEMMA ProgramClears ==
  ASSUME LineFits, ProgramInv, NEW op \in HelloAccesses, HelloEdge(op)
  PROVE  /\ Clearing => /\ Due \in Nat
                        /\ \/ Clearing' /\ ~TxBegins /\ \E due \in Nat : due = Due'
                                /\ due <= Due - 1
                           \/ pc'.about = "A"
         /\ ~Clearing /\ Clearing' => TxBegins
         /\ TxBegins => Due' = FrameCycles + 6 + 3 * MaxIdle
<1>1. /\ response' = Answer(op)
      /\ cfg_q'.tx_done = (tx_done_set \/ (cfg_q.tx_done /\ ~(op.what = "cfg" /\ ~op.tx_done)))
      /\ IF tx_state_q = "TX_IDLE"
           THEN /\ IF op.what = "cfg" /\ op.tx_en THEN TxBegins ELSE TxStays
                /\ tx_done_set' = FALSE
           ELSE \/ TxGoesOn /\ tx_done_set' = FALSE
                \/ TxEnds /\ tx_done_set' = TRUE
  BY TekStep
<1>2. /\ pc \in Places /\ ResponseTyped /\ idle \in 0 .. MaxIdle /\ MaxIdle \in Nat
      /\ cfg.tx_en = FALSE
      /\ Sending \in Int /\ (tx_state_q # "TX_IDLE" => Sending >= 1)
  <2>1. MaxIdle \in Nat
    BY HelloAssumption
  <2>2. ProgramTyped /\ TxInRange
    BY DEF ProgramInv
  <2>3. cfg.tx_en = FALSE
    BY <2>2 DEF ProgramTyped, FlagsRead
  <2> QED BY <2>1, <2>2, <2>3, SendingPositive DEF ProgramTyped
<1>3. Follows
  BY DEF ProgramInv
<1>4. /\ pc = [access |-> pc.access, about |-> pc.about]
      /\ pc.access \in {"cpb", "cfg"} => pc.about = "R"
      /\ pc.access \in {"tdr", "read", "start"} => pc.about \in Ours
      /\ pc.access \in {"poll", "reread", "clear"} => pc.about \in {"R", "msg", "A"}
      /\ pc.access = "rdr" => pc.about = "A"
      /\ pc.access = "none" => pc = Final
  BY <1>2, About
<1>6. Due \in Nat
  BY <1>2 DEF Due
<1>7. TxBegins => Due' = FrameCycles + 6 + 3 * MaxIdle
  <2>1. ASSUME TxBegins PROVE Sending' = FrameCycles
    <3>1. tx_state_q' = "TX_START" /\ tx_baud_cnt_q' = 0
      BY <2>1, TekStep DEF TxBegins
    <3>2. Sending' = (Cpb - 0) + (DataBits + 1) * Cpb
      BY <3>1 DEF Sending, AndThen
    <3> QED BY <3>2, Sizes DEF FrameCycles
  <2> QED BY <2>1 DEF Due, TxBegins
<1> DEFINE Drops ==
      /\ Clearing =>
           \/ Clearing' /\ ~TxBegins /\ \E due \in Nat : due = Due' /\ due <= Due - 1
           \/ pc'.about = "A"
      /\ ~Clearing /\ Clearing' => TxBegins
<1>10. ASSUME Stands(op)
      PROVE  Drops
  <2>0. op.what # "cfg" /\ Idle.what = "none"
    BY <1>10, Answered DEF Stands, Learns, Reads
  <2>1. /\ pc' = pc
        /\ response = Idle /\ (pc # Final => idle' = idle + 1) /\ idle' \in 0 .. MaxIdle
              /\ response' = Idle
    BY <1>1, <1>4, <1>10, <2>0, Answered DEF Stands, Learns, Reads, Awaited
  <2>2. /\ cfg_q'.tx_done = (tx_done_set \/ cfg_q.tx_done)
        /\ \/ TxStays /\ ~tx_done_set'
           \/ TxGoesOn /\ ~tx_done_set'
           \/ TxEnds
        /\ ~TxBegins
    BY <1>1, <2>0 DEF TxBegins, TxStays, TxGoesOn, TxEnds
  <2>3. CASE ~Clearing
    BY <2>1, <2>3 DEF Clearing
  <2>4. CASE Clearing /\ tx_state_q # "TX_IDLE"
    <3>1. pc.access = "poll" /\ ~tx_done_set /\ ~cfg_q.tx_done /\ pc # Final
      BY <1>3, <2>4 DEF Follows, Polls, Clearing, Final
    <3>2. Due = Sending + 6 + 3 * MaxIdle
      BY <2>4 DEF Due
    <3>3. Due' <= Due - 1 /\ Due' \in Nat
      BY <1>2, <2>1, <2>2, <2>4, <3>1, <3>2 DEF Due, TxStays, TxGoesOn, TxEnds
    <3> QED BY <2>1, <2>2, <2>4, <3>3 DEF Clearing
  <2>5. CASE Clearing /\ tx_state_q = "TX_IDLE"
    <3>1. TxStays /\ pc # Final
      BY <2>2, <2>5 DEF TxGoesOn, TxEnds, Clearing, Final
    <3>2. /\ pc.access = "poll" => cfg_q.tx_done \/ tx_done_set
          /\ response.what = "cfg" /\ response.value.tx_done => cfg_q.tx_done
      BY <1>3, <2>5 DEF Follows, Polls, Clearing, Ours
    <3>3. pc.access = "poll" => cfg_q'.tx_done
      BY <2>2, <3>2
    <3>4. Due' <= Due - 1 /\ Due' \in Nat
      BY <1>2, <2>0, <2>1, <2>5, <3>1, <3>2, <3>3 DEF Due, TxStays, Clearing, ResponseTyped
    <3> QED BY <2>1, <2>2, <2>5, <3>4 DEF Clearing
  <2> QED BY <2>3, <2>4, <2>5
<1>11. ASSUME op = Idle /\ response.what = "written" /\ idle' = 0
            /\ UNCHANGED <<pc, index, ret, cfg>>
      PROVE  Drops
  <2>0. op.what # "cfg" /\ Idle.what = "none"
    BY <1>11, Answered DEF Stands, Learns, Reads
  <2>1. /\ pc' = pc
        /\ response # Idle /\ response.what = "written" /\ idle' = 0 /\ response' = Idle
    BY <1>1, <1>4, <1>11, <2>0, Answered DEF Stands, Learns, Reads, Awaited
  <2>2. /\ cfg_q'.tx_done = (tx_done_set \/ cfg_q.tx_done)
        /\ \/ TxStays /\ ~tx_done_set'
           \/ TxGoesOn /\ ~tx_done_set'
           \/ TxEnds
        /\ ~TxBegins
    BY <1>1, <2>0 DEF TxBegins, TxStays, TxGoesOn, TxEnds
  <2>3. CASE ~Clearing
    BY <2>1, <2>3 DEF Clearing
  <2>4. CASE Clearing /\ tx_state_q # "TX_IDLE"
    <3>1. pc.access = "poll" /\ ~tx_done_set /\ ~cfg_q.tx_done /\ pc # Final
      BY <1>3, <2>4 DEF Follows, Polls, Clearing, Final
    <3>2. Due = Sending + 6 + 3 * MaxIdle
      BY <2>4 DEF Due
    <3>3. Due' <= Due - 1 /\ Due' \in Nat
      BY <1>2, <2>1, <2>2, <2>4, <3>1, <3>2 DEF Due, TxStays, TxGoesOn, TxEnds
    <3> QED BY <2>1, <2>2, <2>4, <3>3 DEF Clearing
  <2>5. CASE Clearing /\ tx_state_q = "TX_IDLE"
    <3>1. TxStays /\ pc # Final
      BY <2>2, <2>5 DEF TxGoesOn, TxEnds, Clearing, Final
    <3>2. /\ pc.access = "poll" => cfg_q.tx_done \/ tx_done_set
          /\ response.what = "cfg" /\ response.value.tx_done => cfg_q.tx_done
      BY <1>3, <2>5 DEF Follows, Polls, Clearing, Ours
    <3>3. pc.access = "poll" => cfg_q'.tx_done
      BY <2>2, <3>2
    <3>4. Due' <= Due - 1 /\ Due' \in Nat
      BY <1>2, <2>0, <2>1, <2>5, <3>1, <3>2, <3>3 DEF Due, TxStays, Clearing, ResponseTyped
    <3> QED BY <2>1, <2>2, <2>5, <3>4 DEF Clearing
  <2> QED BY <2>3, <2>4, <2>5
<1>12. ASSUME pc.access = "read" /\ Learns(op, "start")
      PROVE  Drops
  BY <1>1, <1>2, <1>3, <1>4, <1>12, Answered
     DEF Clearing, Due, Follows, Polls, ResponseTyped, Final, Goto, Turns, Learns, Stands,
         Reads, Ours, Awaited, TxStays, TxBegins, TxGoesOn, TxEnds
<1>13. ASSUME pc.access = "poll" /\ Awaited /\ Learns(op, "reread")
      PROVE  Drops
  BY <1>1, <1>2, <1>3, <1>4, <1>13, Answered
     DEF Clearing, Due, Follows, Polls, ResponseTyped, Final, Goto, Turns, Learns, Stands,
         Reads, Ours, Awaited, TxStays, TxBegins, TxGoesOn, TxEnds
<1>14. ASSUME pc.access = "poll" /\ ~Awaited /\ Learns(op, "poll")
      PROVE  Drops
  <2>0. op.what # "cfg" /\ Idle.what = "none"
    BY <1>14, Answered DEF Stands, Learns, Reads
  <2>1. /\ pc' = pc
        /\ response # Idle /\ response.what = "cfg" /\ pc.access = "poll"
        /\ (pc.about # "A" => ~response.value.tx_done) /\ idle' = 0 /\ response' = Idle
    BY <1>1, <1>4, <1>14, <2>0, Answered DEF Stands, Learns, Reads, Awaited
  <2>2. /\ cfg_q'.tx_done = (tx_done_set \/ cfg_q.tx_done)
        /\ \/ TxStays /\ ~tx_done_set'
           \/ TxGoesOn /\ ~tx_done_set'
           \/ TxEnds
        /\ ~TxBegins
    BY <1>1, <2>0 DEF TxBegins, TxStays, TxGoesOn, TxEnds
  <2>3. CASE ~Clearing
    BY <2>1, <2>3 DEF Clearing
  <2>4. CASE Clearing /\ tx_state_q # "TX_IDLE"
    <3>1. pc.access = "poll" /\ ~tx_done_set /\ ~cfg_q.tx_done /\ pc # Final
      BY <1>3, <2>4 DEF Follows, Polls, Clearing, Final
    <3>2. Due = Sending + 6 + 3 * MaxIdle
      BY <2>4 DEF Due
    <3>3. Due' <= Due - 1 /\ Due' \in Nat
      BY <1>2, <2>1, <2>2, <2>4, <3>1, <3>2 DEF Due, TxStays, TxGoesOn, TxEnds
    <3> QED BY <2>1, <2>2, <2>4, <3>3 DEF Clearing
  <2>5. CASE Clearing /\ tx_state_q = "TX_IDLE"
    <3>1. TxStays /\ pc # Final
      BY <2>2, <2>5 DEF TxGoesOn, TxEnds, Clearing, Final
    <3>2. /\ pc.access = "poll" => cfg_q.tx_done \/ tx_done_set
          /\ response.what = "cfg" /\ response.value.tx_done => cfg_q.tx_done
      BY <1>3, <2>5 DEF Follows, Polls, Clearing, Ours
    <3>3. pc.access = "poll" => cfg_q'.tx_done
      BY <2>2, <3>2
    <3>4. Due' <= Due - 1 /\ Due' \in Nat
      BY <1>2, <2>0, <2>1, <2>5, <3>1, <3>2, <3>3 DEF Due, TxStays, Clearing, ResponseTyped
    <3> QED BY <2>1, <2>2, <2>5, <3>4 DEF Clearing
  <2> QED BY <2>3, <2>4, <2>5
<1>15. ASSUME pc.access = "reread" /\ Learns(op, "clear")
      PROVE  Drops
  BY <1>1, <1>2, <1>3, <1>4, <1>15, Answered
     DEF Clearing, Due, Follows, Polls, ResponseTyped, Final, Goto, Turns, Learns, Stands,
         Reads, Ours, Awaited, TxStays, TxBegins, TxGoesOn, TxEnds
<1>16. ASSUME op = Idle /\ response.what = "rdr" /\ response.value = A
            /\ Goto("tdr", "msg") /\ index' = 0 /\ UNCHANGED <<ret, cfg>> /\ idle' = 0
      PROVE  Drops
  BY <1>1, <1>2, <1>3, <1>4, <1>16, Answered
     DEF Clearing, Due, Follows, Polls, ResponseTyped, Final, Goto, Turns, Learns, Stands,
         Reads, Ours, Awaited, TxStays, TxBegins, TxGoesOn, TxEnds
<1>17. ASSUME op = Idle /\ response.what = "rdr" /\ response.value # A
            /\ pc' = Final /\ ret' = 1 /\ UNCHANGED <<index, cfg>> /\ idle' = 0
      PROVE  Drops
  BY <1>1, <1>2, <1>3, <1>4, <1>17, Answered
     DEF Clearing, Due, Follows, Polls, ResponseTyped, Final, Goto, Turns, Learns, Stands,
         Reads, Ours, Awaited, TxStays, TxBegins, TxGoesOn, TxEnds
<1>18. ASSUME op = WriteCpb(Cpb) /\ pc.about = "R" /\ Turns(op, "cpb", "cfg", "R")
      PROVE  Drops
  BY <1>1, <1>2, <1>3, <1>4, <1>18, Answered
     DEF Clearing, Due, Follows, Polls, ResponseTyped, Final, Goto, Turns, Learns, Stands,
         Reads, Ours, Awaited, TxStays, TxBegins, TxGoesOn, TxEnds
<1>19. ASSUME op.what = "cfg" /\ ~op.tx_en /\ ~op.rx_done /\ ~op.tx_done
                /\ pc.about = "R" /\ Turns(op, "cfg", "tdr", "R")
      PROVE  Drops
  BY <1>1, <1>2, <1>3, <1>4, <1>19, Answered
     DEF Clearing, Due, Follows, Polls, ResponseTyped, Final, Goto, Turns, Learns, Stands,
         Reads, Ours, Awaited, TxStays, TxBegins, TxGoesOn, TxEnds, Answer
<1>20. ASSUME op = WriteTdr(ByteOf(pc.about)) /\ pc.about \in Ours
            /\ Turns(op, "tdr", "read", pc.about)
      PROVE  Drops
  BY <1>1, <1>2, <1>3, <1>4, <1>20, Answered
     DEF Clearing, Due, Follows, Polls, ResponseTyped, Final, Goto, Turns, Learns, Stands,
         Reads, Ours, Awaited, TxStays, TxBegins, TxGoesOn, TxEnds
<1>21. ASSUME Reads(op)
      PROVE  Drops
  <2>0. op.what # "cfg" /\ Idle.what = "none"
    BY <1>21, Answered DEF Stands, Learns, Reads
  <2>1. /\ pc' = pc
        /\ response = Idle /\ pc.access \in {"read", "poll", "reread"} /\ idle' = 0
        /\ response' # Idle /\ response'.what = "cfg" /\ response'.value = cfg_q
    BY <1>1, <1>4, <1>21, <2>0, Answered DEF Stands, Learns, Reads, Awaited
  <2>2. /\ cfg_q'.tx_done = (tx_done_set \/ cfg_q.tx_done)
        /\ \/ TxStays /\ ~tx_done_set'
           \/ TxGoesOn /\ ~tx_done_set'
           \/ TxEnds
        /\ ~TxBegins
    BY <1>1, <2>0 DEF TxBegins, TxStays, TxGoesOn, TxEnds
  <2>3. CASE ~Clearing
    BY <2>1, <2>3 DEF Clearing
  <2>4. CASE Clearing /\ tx_state_q # "TX_IDLE"
    <3>1. pc.access = "poll" /\ ~tx_done_set /\ ~cfg_q.tx_done /\ pc # Final
      BY <1>3, <2>4 DEF Follows, Polls, Clearing, Final
    <3>2. Due = Sending + 6 + 3 * MaxIdle
      BY <2>4 DEF Due
    <3>3. Due' <= Due - 1 /\ Due' \in Nat
      BY <1>2, <2>1, <2>2, <2>4, <3>1, <3>2 DEF Due, TxStays, TxGoesOn, TxEnds
    <3> QED BY <2>1, <2>2, <2>4, <3>3 DEF Clearing
  <2>5. CASE Clearing /\ tx_state_q = "TX_IDLE"
    <3>1. TxStays /\ pc # Final
      BY <2>2, <2>5 DEF TxGoesOn, TxEnds, Clearing, Final
    <3>2. /\ pc.access = "poll" => cfg_q.tx_done \/ tx_done_set
          /\ response.what = "cfg" /\ response.value.tx_done => cfg_q.tx_done
      BY <1>3, <2>5 DEF Follows, Polls, Clearing, Ours
    <3>3. pc.access = "poll" => cfg_q'.tx_done
      BY <2>2, <3>2
    <3>4. Due' <= Due - 1 /\ Due' \in Nat
      BY <1>2, <2>0, <2>1, <2>5, <3>1, <3>2, <3>3 DEF Due, TxStays, Clearing, ResponseTyped
    <3> QED BY <2>1, <2>2, <2>5, <3>4 DEF Clearing
  <2> QED BY <2>3, <2>4, <2>5
<1>22. ASSUME op.what = "cfg" /\ op.tx_en /\ op.rx_done = cfg.rx_done
                /\ op.tx_done = cfg.tx_done /\ pc.about \in Ours
            /\ Turns(op, "start", "poll", pc.about)
      PROVE  Drops
  BY <1>1, <1>2, <1>3, <1>4, <1>22, Answered
     DEF Clearing, Due, Follows, Polls, ResponseTyped, Final, Goto, Turns, Learns, Stands,
         Reads, Ours, Awaited, TxStays, TxBegins, TxGoesOn, TxEnds, Answer
<1>23. ASSUME op.what = "cfg" /\ op.tx_en = cfg.tx_en /\ op.rx_done = cfg.rx_done
                /\ ~op.tx_done /\ pc.about = "R"
            /\ Turns(op, "clear", "poll", "A")
      PROVE  Drops
  BY <1>1, <1>2, <1>3, <1>4, <1>23, Answered
     DEF Clearing, Due, Follows, Polls, ResponseTyped, Final, Goto, Turns, Learns, Stands,
         Reads, Ours, Awaited, TxStays, TxBegins, TxGoesOn, TxEnds, Answer
<1>24. ASSUME op.what = "cfg" /\ op.tx_en = cfg.tx_en /\ ~op.rx_done
                /\ op.tx_done = cfg.tx_done /\ pc.about = "A"
            /\ Turns(op, "clear", "rdr", "A")
      PROVE  Drops
  BY <1>1, <1>2, <1>3, <1>4, <1>24, Answered
     DEF Clearing, Due, Follows, Polls, ResponseTyped, Final, Goto, Turns, Learns, Stands,
         Reads, Ours, Awaited, TxStays, TxBegins, TxGoesOn, TxEnds, Answer
<1>25. ASSUME op = ReadRdr /\ pc.about = "A" /\ Turns(op, "rdr", "rdr", "A")
      PROVE  Drops
  BY <1>1, <1>2, <1>3, <1>4, <1>25, Answered
     DEF Clearing, Due, Follows, Polls, ResponseTyped, Final, Goto, Turns, Learns, Stands,
         Reads, Ours, Awaited, TxStays, TxBegins, TxGoesOn, TxEnds
<1>26. ASSUME op.what = "cfg" /\ op.tx_en = cfg.tx_en /\ op.rx_done = cfg.rx_done
                /\ ~op.tx_done /\ response = Idle
            /\ pc.access = "clear" /\ pc.about = "msg" /\ idle' = 0 /\ UNCHANGED cfg
            /\ Stops(index) /\ pc' = Final /\ ret' = 0 /\ UNCHANGED index
      PROVE  Drops
  BY <1>1, <1>2, <1>3, <1>4, <1>26, Answered
     DEF Clearing, Due, Follows, Polls, ResponseTyped, Final, Goto, Turns, Learns, Stands,
         Reads, Ours, Awaited, TxStays, TxBegins, TxGoesOn, TxEnds, Answer
<1>27. ASSUME op.what = "cfg" /\ op.tx_en = cfg.tx_en /\ op.rx_done = cfg.rx_done
                /\ ~op.tx_done /\ response = Idle
            /\ pc.access = "clear" /\ pc.about = "msg" /\ idle' = 0 /\ UNCHANGED cfg
            /\ ~Stops(index) /\ Goto("tdr", "msg") /\ index' = index + 1 /\ UNCHANGED ret
      PROVE  Drops
  BY <1>1, <1>2, <1>3, <1>4, <1>27, Answered
     DEF Clearing, Due, Follows, Polls, ResponseTyped, Final, Goto, Turns, Learns, Stands,
         Reads, Ours, Awaited, TxStays, TxBegins, TxGoesOn, TxEnds, Answer
<1>5. Program(op)
  BY DEF HelloEdge
<1>8. Drops
  BY <1>2, <1>5, ProgramCases, <1>10, <1>11, <1>12, <1>13, <1>14, <1>15, <1>16, <1>17, <1>18,
     <1>19, <1>20, <1>21, <1>22, <1>23, <1>24, <1>25, <1>26, <1>27
     DEF ProgramInv
<1> QED BY <1>6, <1>7, <1>8

(***************************************************************************)
(* The answer, one cycle.                                                  *)
(***************************************************************************)
\* The host replies when it has read the first byte: that byte is R.
LEMMA RepliesWhen ==
  ASSUME HelloFits, ProgramInv, HostInv, uart_read, far' = far
  PROVE  /\ Replies <=> ReadEnd /\ transcript = <<>>
         /\ ReadEnd => transcript' # <<>>
         /\ ~ReadEnd => transcript' = transcript
<1>1. /\ cnt \in 0 .. ReadCycles /\ far \in FarBits /\ ReadCycles \in Nat /\ ReadCycles > 0
      /\ transcript \in Seq(Bytes) /\ Len(transcript) \in Nat
  BY HostSizes DEF HostInv
<1>2. ~ReadEnd => transcript' = transcript
  BY DEF uart_read
<1>3. ASSUME ReadEnd
      PROVE  transcript' # <<>> /\ (transcript = <<>> => bits = R)
  <2>1. cnt > 0
    BY <1>1, <1>3 DEF ReadEnd
  <2>2. Len(transcript) + 1 = Begun /\ HasRead(Dialogue[Begun])
    BY <1>1, <2>1 DEF HostInv, InStep, Ahead, Awaits, Behind
  <2>3. bits = Dialogue[Begun] /\ transcript' \in Seq(Bytes) /\ Len(transcript') = Begun
    BY <1>3, <2>1, <2>2, TranscriptGrows
  <2>4. transcript' # <<>>
    BY <1>1, <2>2, <2>3, EmptySeq
  <2>5. ASSUME transcript = <<>> PROVE bits = R
    <3>1. Len(transcript) = 0
      BY <2>5, EmptySeq
    <3>2. Begun = 1
      BY <2>2, <3>1
    <3> QED BY <2>3, <3>2, DialogueIs
  <2> QED BY <2>4, <2>5
<1> QED BY <1>2, <1>3 DEF Replies

\* The line.
LEMMA AnswerLine ==
  ASSUME HelloFits, ProgramInv, LineTyped, HostInv, Line(A), Synchronised(A),
         NEW op \in HelloAccesses, HelloEdge(op)
  PROVE  /\ LineTyped' /\ Line(A)' /\ Synchronised(A)'
         /\ IF Replies THEN Begins ELSE StaysQuiet \/ GoesOn \/ Ends
<1>1. /\ LineFits /\ TxInRange /\ A \in Bytes /\ far' = far /\ ~Looped /\ uart_write
      /\ TekEdge(op, FarLevel)
  <2>1. far # 0
    BY LineAssumption DEF HostInv
  <2>2. A \in Bytes
    BY HelloAssumption
  <2> QED BY <2>1, <2>2 DEF HelloFits, ProgramInv, HelloEdge, Looped
<1>2. tx_o' \in {0, 1} /\ tx_shift_q' \in Bytes
  BY SaysStep DEF HostInv
<1>3. FarToSend(A)
  BY DEF Line, ToSend
<1>4. /\ LineTyped' /\ Line(A)'
      /\ IF Replies THEN Begins ELSE StaysQuiet \/ GoesOn \/ Ends
  <2>1. CASE Replies
    <3>1. FarSends(A)
      BY <1>1, <2>1 DEF uart_write
    <3>2. Begins /\ Line(A)' /\ LineTyped'
      BY <1>1, <1>2, <3>1, FarBegins
    <3> QED BY <2>1, <3>2
  <2>2. CASE ~Replies /\ FarRests
    <3>1. StaysQuiet /\ Line(A)' /\ LineTyped'
      BY <1>1, <1>2, <2>2, FarQuiet
    <3> QED BY <2>2, <3>1
  <2>3. CASE ~Replies /\ FarHolds /\ frame' # <<>>
    <3>1. GoesOn /\ Line(A)' /\ LineTyped'
      BY <1>1, <1>2, <1>3, <2>3, FarGoesOn
    <3> QED BY <2>3, <3>1
  <2>4. CASE ~Replies /\ FarHolds /\ frame' = <<>>
    <3>1. Ends /\ Line(A)' /\ LineTyped'
      BY <1>1, <1>2, <2>4, FarEnds
    <3> QED BY <2>4, <3>1
  <2> QED BY <1>1, <2>1, <2>2, <2>3, <2>4 DEF uart_write
<1>5. Receiver(Level)
  BY <1>1 DEF TekEdge, Level, Looped
<1>6. Synchronised(A)'
  <2>1. /\ StaysQuiet => \A byte : Synchronised(byte)'
        /\ Begins => \A byte : Synchronised(byte)'
        /\ GoesOn => Synchronised(A)'
        /\ Ends => \A byte : Synchronised(byte)'
    BY <1>1, <1>5, SynchronisedStep
  <2> QED BY <1>4, <2>1
<1> QED BY <1>4, <1>6

\* The receiver.
LEMMA AnswerReceived ==
  ASSUME HelloFits, ProgramInv, LineTyped, RxTyped, HostInv, AnswerInv,
         NEW op \in HelloAccesses, HelloEdge(op)
  PROVE  /\ RxTyped' /\ Heard(A)' /\ RxMoves
         /\ rx_done_pulse <=> rx_state_q = "RX_STOP" /\ RxAt = Sample(Stop)
         /\ rdr_q' = IF rx_done_pulse THEN A ELSE rdr_q
<1>1. /\ LineFits /\ TxInRange /\ cpb_q = Cpb /\ A \in Bytes /\ ~Looped
      /\ TekEdge(op, FarLevel)
  <2>1. far # 0
    BY LineAssumption DEF HostInv
  <2>2. A \in Bytes
    BY HelloAssumption
  <2> QED BY <2>1, <2>2 DEF HelloFits, ProgramInv, TxInRange, HelloEdge, Looped
<1>2. Line(A) /\ Synchronised(A) /\ Heard(A)
  BY DEF AnswerInv
<1>3. Receiver(Level) /\ Level \in {0, 1}
  BY <1>1, <1>2 DEF TekEdge, Level, Looped, Line, Shows
<1>4. rx_state_q = "RX_DATA" =>
        \A b \in 1 .. DataBits : RxAt = Sample(b) => rx_sync2_q = A[b]
  <2>1. rx_state_q = "RX_DATA" => FollowPlace
    BY DEF AnswerInv, NotYet, OnTheWay, Arrived, RestPlace, StartPlace, EndPlace,
           TrailPlace, MisledPlace, Listens
  <2> QED BY <1>1, <1>2, <2>1, FollowSamples
<1>5. /\ RxTyped' /\ Heard(A)'
      /\ \/ Idles \/ Hits \/ Rejects \/ CountsOn \/ Finishes
  BY <1>1, <1>2, <1>3, <1>4, RxStep
<1>6. rx_done_pulse <=> rx_state_q = "RX_STOP" /\ RxAt = Sample(Stop)
  BY <1>1, DoneWhen
<1>7. rdr_q' = IF rx_done_pulse THEN A ELSE rdr_q
  <2>1. rdr_q' = IF rx_done_pulse THEN rx_shift_q ELSE rdr_q
    BY <1>1 DEF TekEdge, TekRegisters
  <2>2. rx_state_q = "RX_STOP" => rx_shift_q = A
    BY <1>1, <1>2, HeardAll
  <2> QED BY <1>6, <2>1, <2>2
<1> QED BY <1>5, <1>6, <1>7 DEF RxMoves

\* Before R is sent the host has read nothing, nor is it reading.
LEMMA NotBegun ==
  ASSUME HelloFits, ProgramInv, HostInv, pc.about = "R", ~Clearing
  PROVE  transcript = <<>> /\ cnt = 0
<1>1. Begun = 0
  BY DEF Begun, Clearing
<1>2. transcript \in Seq(Bytes) /\ Len(transcript) \in Nat
  BY DEF HostInv
<1>3. Awaits
  BY <1>1, <1>2 DEF HostInv, InStep, Ahead, Behind
<1>4. Len(transcript) = 0 /\ cnt = 0
  BY <1>1, <1>3 DEF Awaits
<1> QED BY <1>2, <1>4, EmptySeq

\* While it reads R it counts the cycles.
LEMMA HostCounts ==
  ASSUME HelloFits, ProgramInv, LineTyped, HostInv, NEW op \in HelloAccesses,
         HelloEdge(op), transcript = <<>>, Clearing, ~ReadEnd
  PROVE  cnt' = cnt + 1
<1>1. uart_read /\ far' = far
  BY DEF HelloEdge
<1>2. Begun = 1 /\ Len(transcript) = 0
  BY EmptySeq DEF Begun, Clearing
<1>3. cnt # 0 => cnt' = cnt + 1
  BY <1>1 DEF uart_read
<1>4. CASE cnt = 0
  <2>1. FrameCycles \in Nat /\ FrameCycles > 1 /\ FrameCycles = (DataBits + 2) * Cpb
    <3>1. Cpb \in Nat /\ Cpb >= 3 /\ DataBits \in Nat
      BY Sizes DEF HelloFits
    <3>2. (DataBits + 2) * Cpb = DataBits * Cpb + 2 * Cpb /\ DataBits * Cpb \in Nat
      BY <3>1
    <3> QED BY <3>1, <3>2 DEF FrameCycles
  <2>2. tx_state_q # "TX_IDLE" /\ TxAt = 0
    <3>1. ~Behind
      BY <1>4, <2>1 DEF Behind
    <3> QED BY <1>2, <1>4, <3>1 DEF HostInv, InStep, Ahead, Awaits
  <2>3. TxStays \/ TxBegins \/ (TxGoesOn /\ TxAt' = TxAt + 1)
          \/ (TxEnds /\ TxAt = FrameCycles - 1)
    BY SaysStep DEF HostInv
  <2>4. TxGoesOn /\ TxAt' = 1
    <3>1. ~(TxAt = FrameCycles - 1)
      BY <2>1, <2>2
    <3> QED BY <2>2, <2>3, <3>1 DEF TxStays, TxBegins
  <2>5. Begun' = Begun
    BY <2>2, ProgramStep DEF Progress
  <2>6. transcript' = <<>>
    BY <1>1, RepliesWhen
  <2>7. InStep'
    <3>1. HostInv'
      BY HostStep
    <3>2. Len(transcript') # Begun'
      BY <1>2, <2>5, <2>6, EmptySeq
    <3> QED BY <2>4, <3>1, <3>2 DEF HostInv, Ahead, Awaits, Behind, TxGoesOn
  <2> QED BY <1>4, <2>4, <2>7 DEF InStep
<1> QED BY <1>3, <1>4

\* TX_DONE of R is cleared in time, for a cycle more.
LEMMA SoonStep ==
  ASSUME LineFits, ProgramInv, NEW op \in HelloAccesses, HelloEdge(op), Clearing, Soon,
         ToPulse \in Int, ToPulse' = ToPulse - 1
  PROVE  Soon'
<1>1. Due \in Nat /\ Due <= ToPulse
  BY ProgramClears DEF Soon
<1>2. CASE pc'.about = "A"
  BY <1>2 DEF Soon, Clearing
<1>3. CASE \E due \in Nat : due = Due' /\ due <= Due - 1
  BY <1>1, <1>3 DEF Soon
<1> QED BY <1>2, <1>3, ProgramClears

\* The host has not read R.
LEMMA NotYetStep ==
  ASSUME HelloFits, ProgramInv, LineTyped, RxTyped, HostInv, AnswerInv,
         NEW op \in HelloAccesses, HelloEdge(op), NotYet
  PROVE  NotYet' \/ OnTheWay'
<1>1. /\ transcript = <<>> /\ RestPlace /\ Unheard /\ Soon
      /\ Line(A) /\ Synchronised(A) /\ ~Looped /\ LineFits
      /\ uart_read /\ far' = far /\ far \in FarBits
  <2>1. far # 0
    BY LineAssumption DEF HostInv
  <2> QED BY <2>1 DEF NotYet, AnswerInv, HelloFits, HelloEdge, HostInv, Looped
<1>2. /\ IF ReadEnd THEN Begins /\ transcript' # <<>>
         ELSE (StaysQuiet \/ GoesOn \/ Ends) /\ transcript' = <<>>
  BY <1>1, AnswerLine, RepliesWhen
<1>3. Idles /\ (StaysQuiet \/ Begins)
  <2>1. LineMoves
    BY <1>2 DEF LineMoves
  <2> QED BY <1>1, <2>1, AnswerReceived, RestingMoves
<1>4. Unheard'
  <2>1. ~rx_done_pulse
    BY <1>1 DEF rx_done_pulse, RestPlace, Listens
  <2> QED BY <1>1, <2>1, ProgramHears DEF Unheard
<1>5. /\ Sample(Stop) \in Nat /\ ReadCycles \in Nat /\ ReadCycles' = ReadCycles
      /\ Sample(Stop)' = Sample(Stop) /\ cnt \in Nat
  <2>1. Sample(Stop) \in Nat
    BY <1>1, Sizes, Samples
  <2> QED BY <1>1, <2>1, HostSizes DEF ReadCycles, HostInv
<1>6. ToPulse = ReadCycles - cnt + 3 + Sample(Stop)
  BY <1>1 DEF ToPulse
<1>7. CASE ReadEnd
  <2>1. /\ transcript' # <<>> /\ Sends' /\ ~Listens' /\ At' = 0
    BY <1>1, <1>2, <1>3, <1>7 DEF Begins, Idles, First
  <2>2. StartPlace'
    BY <2>1 DEF StartPlace
  <2>3. ToPulse' = ToPulse - 1 /\ ToPulse \in Int
    BY <1>5, <1>6, <1>7, <2>1 DEF ToPulse, ReadEnd
  <2>4. Soon'
    <3>1. CASE Clearing
      BY <1>1, <2>3, <3>1, SoonStep DEF ProgramInv
    <3>2. CASE ~Clearing
      <4>1. cnt # 0
        BY <1>1, <1>7, HostSizes DEF ReadEnd
      <4>2. pc.about # "R"
        BY <3>2, <4>1, NotBegun
      <4> QED BY <4>2, ProgramHears DEF Soon, Clearing
    <3> QED BY <3>1, <3>2
  <2> QED BY <1>4, <2>1, <2>2, <2>4 DEF OnTheWay
<1>8. CASE ~ReadEnd
  <2>1. transcript' = <<>> /\ StaysQuiet
    BY <1>2, <1>3, <1>8 DEF Begins, GoesOn, Ends, StaysQuiet
  <2>2. RestPlace'
    BY <1>3, <2>1 DEF RestPlace, StaysQuiet, Idles
  <2>3. CASE Clearing
    <3>1. cnt' = cnt + 1
      BY <1>1, <1>8, <2>3, HostCounts
    <3>2. ToPulse' = ToPulse - 1 /\ ToPulse \in Int
      BY <1>5, <1>6, <2>1, <3>1 DEF ToPulse
    <3>3. Soon'
      BY <1>1, <2>3, <3>2, SoonStep DEF ProgramInv
    <3> QED BY <1>4, <2>1, <2>2, <3>3 DEF NotYet
  <2>4. CASE ~Clearing /\ Clearing'
    <3>1. TxBegins /\ Due' = FrameCycles + 6 + 3 * MaxIdle
      BY <1>1, <2>4, ProgramClears
    <3>2. pc.about = "R"
      BY <2>4, ProgramHears DEF Clearing
    <3>3. cnt = 0
      BY <2>4, <3>2, NotBegun
    <3>4. tx_o' = 1
      BY <3>1, SaysStep DEF HostInv, TxBegins, TxGoesOn
    <3>5. cnt' = 0
      BY <1>1, <3>3, <3>4 DEF uart_read
    <3>6. ToPulse' = ReadCycles - 0 + 3 + Sample(Stop)
      BY <1>5, <2>1, <3>5 DEF ToPulse
    <3>7. FrameCycles + 3 * MaxIdle + 3 <= ReadCycles + Sample(Stop) /\ FrameCycles \in Nat
      <4>1. Clears(far)
        BY <1>1 DEF HelloFits
      <4>2. ReadCycles = (DataBits + 2) * far
        <5>1. far \in Nat /\ DataBits \in Nat
          BY <1>1, HostSizes, Sizes
        <5> QED BY <5>1 DEF ReadCycles
      <4>3. FrameCycles \in Nat
        BY <1>1, HostSizes
      <4> QED BY <4>1, <4>2, <4>3 DEF Clears, FrameCycles, Stop
    <3>8. Due' <= ToPulse'
      <4>1. MaxIdle \in Nat
        BY HelloAssumption
      <4> QED BY <1>5, <3>1, <3>6, <3>7, <4>1
    <3> QED BY <1>4, <2>1, <2>2, <3>8 DEF NotYet, Soon
  <2>5. CASE ~Clearing'
    BY <1>4, <2>1, <2>2, <2>5 DEF NotYet, Soon
  <2> QED BY <2>3, <2>4, <2>5
<1> QED BY <1>7, <1>8

\* The answer is on the line.
LEMMA OnTheWayStep ==
  ASSUME HelloFits, ProgramInv, LineTyped, RxTyped, HostInv, AnswerInv,
         NEW op \in HelloAccesses, HelloEdge(op), OnTheWay
  PROVE  OnTheWay' \/ Arrived'
<1>1. /\ transcript # <<>> /\ Unheard /\ Soon
      /\ StartPlace \/ FollowPlace \/ EndPlace
      /\ Line(A) /\ Synchronised(A) /\ ~Looped /\ LineFits /\ TxInRange
      /\ uart_read /\ far' = far
  <2>1. far # 0
    BY LineAssumption DEF HostInv
  <2> QED BY <2>1 DEF OnTheWay, AnswerInv, HelloFits, HelloEdge, Looped, ProgramInv
<1>2. transcript' # <<>> /\ (StaysQuiet \/ GoesOn \/ Ends) /\ LineMoves
  <2>1. transcript' # <<>> /\ ~Replies
    BY <1>1, RepliesWhen
  <2> QED BY <1>1, <2>1, AnswerLine DEF LineMoves
<1>3. /\ RxMoves /\ (rx_done_pulse <=> rx_state_q = "RX_STOP" /\ RxAt = Sample(Stop))
      /\ rdr_q' = IF rx_done_pulse THEN A ELSE rdr_q
  BY AnswerReceived
<1>4. /\ Over' = Over /\ Over \in Int /\ First = 0
      /\ RxAt \in Nat /\ Sample(Stop) \in Nat /\ Sample(Stop)' = Sample(Stop)
      /\ Sends => At \in Int /\ First <= At
  BY <1>1, LengthsStay, FrameLong, Lengths, RxPlace, AtRange
<1>5. pc.about = "R" => Clearing
  BY <1>1, NotBegun
<1>6. ASSUME Finishes
      PROVE  Heeded' /\ rdr_q' = A
  <2>1. rx_done_pulse /\ rx_state_q = "RX_STOP" /\ RxAt = Sample(Stop)
    BY <1>3, <1>6 DEF Finishes
  <2>2. cfg_q'.rx_done
    BY <2>1, ProgramHears
  <2>3. pc'.about # "R"
    <3>1. CASE pc.about = "R"
      <4>1. ToPulse <= 0 /\ ToPulse \in Int
        BY <1>1, <1>4, <2>1 DEF ToPulse, StartPlace, FollowPlace, EndPlace, Listens
      <4>2. Due \in Nat /\ Due <= ToPulse
        BY <1>1, <1>5, <3>1, ProgramClears DEF Soon
      <4>3. ~\E due \in Nat : due = Due' /\ due <= Due - 1
        BY <4>1, <4>2
      <4> QED BY <1>1, <1>5, <3>1, <4>3, ProgramClears
    <3> QED BY <3>1, ProgramHears
  <2> QED BY <1>3, <2>1, <2>2, <2>3 DEF Heeded
<1>7. ASSUME ~Finishes
      PROVE  Unheard'
  <2>1. ~rx_done_pulse
    BY <1>3, <1>7 DEF RxMoves, Idles, Hits, Rejects, CountsOn, Finishes, Listens
  <2> QED BY <1>1, <2>1, ProgramHears DEF Unheard
<1>8. ASSUME ToPulse \in Int, ToPulse' = ToPulse - 1
      PROVE  Soon'
  <2>1. CASE pc.about = "R"
    BY <1>1, <1>5, <1>8, <2>1, SoonStep
  <2>2. CASE pc.about # "R"
    BY <2>2, ProgramHears DEF Soon, Clearing
  <2> QED BY <2>1, <2>2
<1>9. CASE StartPlace
  <2>1. /\ GoesOn
        /\ \/ Idles /\ At' <= 2
           \/ Hits /\ At' - 2 = RxAt'
    BY <1>1, <1>2, <1>3, <1>9, StartingMoves
  <2>2. ToPulse \in Int /\ ToPulse' = ToPulse - 1
    BY <1>1, <1>2, <1>4, <2>1 DEF ToPulse, GoesOn
  <2>3. ~Finishes
    BY <1>9 DEF StartPlace, Finishes, Listens
  <2>4. StartPlace' \/ FollowPlace'
    BY <2>1 DEF StartPlace, FollowPlace, GoesOn, Idles, Hits, Listens
  <2> QED BY <1>2, <1>7, <1>8, <2>2, <2>3, <2>4 DEF OnTheWay
<1>10. CASE FollowPlace
  <2>1. /\ GoesOn \/ Ends
        /\ CountsOn \/ Finishes
        /\ GoesOn /\ CountsOn => At' - 2 = RxAt'
        /\ GoesOn /\ Finishes => Sample(Stop) < At' - 2
        /\ Ends /\ CountsOn => rx_state_q' = "RX_STOP" /\ Over <= RxAt' + 2
    BY <1>1, <1>2, <1>3, <1>10, FollowingMoves
  <2>2. Sends /\ At - 2 = RxAt
    BY <1>10 DEF FollowPlace
  <2>3. CASE GoesOn /\ CountsOn
    <3>1. ToPulse \in Int /\ ToPulse' = ToPulse - 1
      BY <1>1, <1>2, <1>4, <2>2, <2>3 DEF ToPulse, GoesOn
    <3>2. FollowPlace' /\ ~Finishes
      BY <2>1, <2>3 DEF FollowPlace, GoesOn, CountsOn, Finishes
    <3> QED BY <1>2, <1>7, <1>8, <3>1, <3>2 DEF OnTheWay
  <2>4. CASE Ends /\ CountsOn
    <3>1. ToPulse \in Int /\ ToPulse' = ToPulse - 1
      BY <1>1, <1>2, <1>4, <2>2, <2>4 DEF ToPulse, Ends, CountsOn
    <3>2. EndPlace' /\ ~Finishes
      BY <1>4, <2>1, <2>4 DEF EndPlace, Ends, CountsOn, Finishes
    <3> QED BY <1>2, <1>7, <1>8, <3>1, <3>2 DEF OnTheWay
  <2>5. CASE GoesOn /\ Finishes
    <3>1. TrailPlace'
      BY <1>4, <2>1, <2>5 DEF TrailPlace, GoesOn, Finishes
    <3> QED BY <1>2, <1>6, <2>5, <3>1 DEF Arrived
  <2>6. CASE Ends /\ Finishes
    <3>1. RestPlace'
      BY <2>6 DEF RestPlace, Ends, Finishes
    <3> QED BY <1>2, <1>6, <2>6, <3>1 DEF Arrived
  <2> QED BY <2>1, <2>3, <2>4, <2>5, <2>6
<1>11. CASE EndPlace
  <2>1. /\ StaysQuiet
        /\ \/ CountsOn /\ rx_state_q' = "RX_STOP" /\ Over + 1 <= RxAt' + 2
           \/ Finishes
    BY <1>1, <1>2, <1>3, <1>11, EndingMoves DEF EndPlace, GoesOn, Ends
  <2>2. CASE CountsOn /\ rx_state_q' = "RX_STOP" /\ Over + 1 <= RxAt' + 2
    <3>1. RxAt' = RxAt + 1 /\ ~Finishes
      BY <2>2 DEF CountsOn, Finishes
    <3>2. ToPulse \in Int /\ ToPulse' = ToPulse - 1
      BY <1>1, <1>2, <1>4, <2>1, <3>1 DEF ToPulse, StaysQuiet
    <3>3. EndPlace'
      BY <1>4, <2>1, <2>2, <3>1 DEF EndPlace, StaysQuiet
    <3> QED BY <1>2, <1>7, <1>8, <3>1, <3>2, <3>3 DEF OnTheWay
  <2>3. CASE Finishes
    <3>1. RestPlace'
      BY <2>1, <2>3 DEF RestPlace, StaysQuiet, Finishes
    <3> QED BY <1>2, <1>6, <2>3, <3>1 DEF Arrived
  <2> QED BY <2>1, <2>2, <2>3
<1> QED BY <1>1, <1>9, <1>10, <1>11

\* The answer has been received.
LEMMA ArrivedStep ==
  ASSUME HelloFits, ProgramInv, LineTyped, RxTyped, HostInv, AnswerInv,
         NEW op \in HelloAccesses, HelloEdge(op), Arrived
  PROVE  Arrived'
<1>1. /\ transcript # <<>> /\ rdr_q = A /\ Heeded
      /\ RestPlace \/ TrailPlace \/ MisledPlace
      /\ Line(A) /\ Synchronised(A) /\ LineFits /\ TxInRange
      /\ uart_read /\ far' = far
  BY DEF Arrived, AnswerInv, HelloFits, HelloEdge, ProgramInv
<1>2. transcript' # <<>> /\ (StaysQuiet \/ GoesOn \/ Ends) /\ LineMoves
  <2>1. transcript' # <<>> /\ ~Replies
    BY <1>1, RepliesWhen
  <2> QED BY <1>1, <2>1, AnswerLine DEF LineMoves
<1>3. RxMoves /\ ~rx_done_pulse /\ rdr_q' = A
  BY <1>1, AnswerReceived DEF RestPlace, TrailPlace, MisledPlace, Listens
<1>4. Heeded'
  BY <1>1, <1>3, ProgramHears
<1>5. Sample(Stop)' = Sample(Stop) /\ BitLength' = BitLength
  BY <1>1, LengthsStay
<1>6. RestPlace' \/ TrailPlace' \/ MisledPlace'
  <2>1. CASE RestPlace
    <3>1. Idles /\ StaysQuiet
      BY <1>1, <1>2, <1>3, <2>1, RestingMoves DEF Begins, GoesOn, Ends, StaysQuiet
    <3> QED BY <3>1 DEF RestPlace, StaysQuiet, Idles
  <2>2. CASE TrailPlace
    <3>1. /\ GoesOn \/ Ends
          /\ Idles \/ Hits
          /\ GoesOn => Sample(Stop) < At' - 2
          /\ Hits => /\ GoesOn /\ rx_state_q' = "RX_START"
                     /\ Sample(Stop) < At' - 2 - RxAt'
                     /\ At' - 2 - RxAt' < Stop * BitLength
      BY <1>1, <1>2, <1>3, <2>2, TrailingMoves
    <3> QED BY <1>5, <3>1 DEF RestPlace, TrailPlace, MisledPlace, GoesOn, Ends, Idles
  <2>3. CASE MisledPlace
    <3>1. /\ GoesOn
          /\ \/ /\ CountsOn /\ rx_state_q' = "RX_START"
                /\ Sample(Stop) < At' - 2 - RxAt'
                /\ At' - 2 - RxAt' < Stop * BitLength
             \/ Rejects /\ Sample(Stop) < At' - 2
      BY <1>1, <1>2, <1>3, <2>3, MisledMoves
    <3> QED BY <1>5, <3>1 DEF TrailPlace, MisledPlace, GoesOn, Rejects
  <2> QED BY <1>1, <2>1, <2>2, <2>3
<1> QED BY <1>2, <1>3, <1>4, <1>6 DEF Arrived

\* One clock edge.
LEMMA AnswerStep ==
  ASSUME HelloFits, ProgramInv, LineTyped, RxTyped, HostInv, AnswerInv,
         NEW op \in HelloAccesses, HelloEdge(op)
  PROVE  AnswerInv' /\ LineTyped' /\ RxTyped'
<1>1. LineTyped' /\ Line(A)' /\ Synchronised(A)'
  BY AnswerLine DEF AnswerInv
<1>2. RxTyped' /\ Heard(A)'
  BY AnswerReceived
<1>3. NotYet' \/ OnTheWay' \/ Arrived'
  BY NotYetStep, OnTheWayStep, ArrivedStep DEF AnswerInv
<1>4. (response'.what = "rdr" => response'.value = A) /\ ret' # 1
  <2>1. pc.access = "rdr" => pc.about = "A"
    BY About DEF ProgramInv, ProgramTyped
  <2>2. pc.access = "rdr" => rdr_q = A
    BY <2>1 DEF AnswerInv, NotYet, OnTheWay, Arrived, Unheard
  <2> QED BY <2>2, ProgramHears DEF AnswerInv
<1> QED BY <1>1, <1>2, <1>3, <1>4 DEF AnswerInv

(***************************************************************************)
(* The inductive invariant of the jury test.                               *)
(***************************************************************************)
HelloInv == ProgramInv /\ LineTyped /\ RxTyped /\ HostInv /\ AnswerInv

\* One clock edge.
LEMMA HelloEdgeKeeps ==
  ASSUME HelloFits, HelloInv, NEW op \in HelloAccesses, HelloEdge(op)
  PROVE  HelloInv'
<1>1. ProgramInv /\ LineTyped /\ RxTyped /\ HostInv /\ AnswerInv /\ LineFits
  BY DEF HelloInv, HelloFits
<1>2. ProgramInv'
  <2>1. TxInRange' /\ msg' = msg
    BY <1>1, TekStep
  <2>2. MsgIs'
    BY <1>1, <2>1 DEF ProgramInv, MsgIs
  <2>3. ProgramTyped' /\ Follows'
    BY <1>1, ProgramStep
  <2> QED BY <2>1, <2>2, <2>3 DEF ProgramInv
<1>3. HostInv'
  BY <1>1, HostStep
<1>4. AnswerInv' /\ LineTyped' /\ RxTyped'
  BY <1>1, AnswerStep
<1> QED BY <1>2, <1>3, <1>4 DEF HelloInv

\* msg is the text, a zero, and what was never set.
LEMMA MsgAtFirst ==
  ASSUME NEW rest \in Uninitialised, msg = Text \o <<Nul>> \o rest
  PROVE  MsgIs
<1> DEFINE text == Text \o <<Nul>>
<1>1. /\ Text \in Seq(Bytes) /\ Len(Text) \in Nat /\ <<Nul>> \in Seq(Bytes)
      /\ Len(<<Nul>>) = 1 /\ <<Nul>>[1] = Nul
      /\ \A k \in 1 .. Len(Text) : Text[k] \in Bytes /\ Text[k] # Nul
  BY HelloAssumption
<1>2. rest \in Seq(Bytes)
  <2>1. MsgSize - Len(Text) - 1 \in Nat
    BY <1>1, HelloAssumption
  <2> QED BY <2>1, SeqDef DEF Uninitialised
<1>3. /\ text \in Seq(Bytes) /\ Len(text) = Len(Text) + 1
      /\ \A k \in 1 .. Len(Text) + 1 :
           text[k] = IF k <= Len(Text) THEN Text[k] ELSE <<Nul>>[k - Len(Text)]
  BY <1>1, ConcatProperties
<1> HIDE DEF text
<1>4. \A k \in 1 .. Len(text) + Len(rest) :
        (text \o rest)[k] = IF k <= Len(text) THEN text[k] ELSE rest[k - Len(text)]
  BY <1>2, <1>3, ConcatProperties
<1>5. msg = text \o rest
  BY DEF text
<1>6. ASSUME NEW k \in 0 .. Len(Text)
      PROVE  msg[k + 1] = Dialogue[k + 2] /\ (msg[k + 1] = Nul <=> k = Len(Text))
  <2>1. msg[k + 1] = text[k + 1]
    <3>1. k + 1 \in 1 .. Len(text) + Len(rest) /\ k + 1 <= Len(text)
      BY <1>1, <1>2, <1>3
    <3> QED BY <1>4, <1>5, <3>1
  <2>2. CASE k = Len(Text)
    <3>1. text[k + 1] = Nul
      BY <1>1, <1>3, <2>2
    <3> QED BY <2>1, <2>2, <3>1, DialogueIs
  <2>3. CASE k # Len(Text)
    <3>1. k + 1 \in 1 .. Len(Text) /\ (k + 1) + 1 = k + 2
      BY <1>1, <2>3
    <3>2. text[k + 1] = Text[k + 1]
      BY <1>1, <1>3, <3>1
    <3> QED BY <1>1, <2>1, <2>3, <3>1, <3>2, DialogueIs
  <2> QED BY <2>2, <2>3
<1> QED BY <1>6 DEF MsgIs

\* Reset.
LEMMA HelloAtFirst ==
  ASSUME HelloFits, HelloInit
  PROVE  HelloInv
<1>1. /\ cpb_q = Cpb /\ tx_state_q = "TX_IDLE" /\ tx_baud_cnt_q = 0 /\ tx_bit_cnt_q = 0
      /\ tx_shift_q = Zero /\ tx_o = 1 /\ tx_done_set = FALSE
      /\ rx_state_q = "RX_IDLE" /\ rx_bit_cnt_q = 0 /\ rx_shift_q = Zero
      /\ rx_sync1_q = 1 /\ rx_sync2_q = 1
      /\ cfg_q = [tx_en |-> FALSE, rx_done |-> FALSE, tx_done |-> FALSE]
      /\ response = Idle
  BY DEF HelloInit, TekInit, UartInit
<1>2. /\ pc = [access |-> "cpb", about |-> "R"] /\ index = 0 /\ cfg = cfg_q /\ ret = -1
      /\ idle = 0 /\ far \in FarBits /\ cnt = 0 /\ bits = <<>> /\ transcript = <<>>
      /\ frame = <<>>
  BY DEF HelloInit
<1>3. Zero \in Bytes /\ LineFits /\ MaxIdle \in Nat /\ ~Looped
  <2>1. far # 0
    BY <1>2, LineAssumption
  <2>2. MaxIdle \in Nat
    BY HelloAssumption
  <2> QED BY <2>1, <2>2 DEF Zero, Bytes, HelloFits, Looped
<1>4. ProgramInv
  <2>1. TxInRange
    <3>1. 0 \in 0 .. Cpb - 1 /\ 0 \in 0 .. DataBits - 1
      BY <1>3, Sizes
    <3> QED BY <1>1, <3>1 DEF TxInRange
  <2>2. ProgramTyped
    <3>1. 0 \in 0 .. Len(Text) /\ 0 \in 0 .. MaxIdle /\ ret \in {-1, 0, 1}
      BY <1>2, <1>3, DialogueIs
    <3>2. cfg_q \in FlagsRead
      BY <1>1 DEF FlagsRead
    <3>3. pc \in Places
      BY <1>2 DEF Places
    <3> QED BY <1>1, <1>2, <3>1, <3>2, <3>3 DEF ProgramTyped, ResponseTyped
  <2>3. MsgIs
    BY MsgAtFirst DEF HelloInit
  <2>4. Follows
    BY <1>1, <1>2 DEF Follows, Polls, Idle
  <2> QED BY <2>1, <2>2, <2>3, <2>4 DEF ProgramInv
<1>5. LineTyped
  <2>1. <<>> \in Seq({0, 1})
    OBVIOUS
  <2> QED BY <1>1, <1>2, <1>3, <2>1 DEF LineTyped
<1>6. RxTyped
  <2>1. 0 \in 0 .. DataBits - 1
    BY <1>3, Sizes
  <2> QED BY <1>1, <1>3, <2>1 DEF RxTyped
<1>7. HostInv
  <2>1. Begun = 0
    BY <1>2 DEF Begun
  <2>2. cnt \in 0 .. ReadCycles
    BY <1>2, HostSizes
  <2>3. transcript \in Seq(Bytes) /\ Len(transcript) = 0
    BY <1>2
  <2> QED BY <1>1, <1>2, <2>1, <2>2, <2>3 DEF HostInv, Says, Awaits
<1>8. ~Sends /\ ~Listens /\ Level = 1
  BY <1>1, <1>2, <1>3 DEF Sends, Listens, Level, FarLevel, Looped
<1>9. Line(A)
  <2>1. ToSend(A)
    <3>1. ~\E i \in 1 .. Len(<<>>) : TRUE
      BY EmptySeq
    <3> QED BY <1>1, <1>2, <3>1 DEF ToSend, TxToSend, FarToSend
  <2> QED BY <1>8, <2>1 DEF Line
<1>10. Synchronised(A)
  BY <1>1, <1>8 DEF Synchronised
<1>11. Heard(A)
  <2>1. Sampled = 0
    BY <1>1 DEF Sampled
  <2> QED BY <2>1 DEF Heard
<1>12. NotYet
  BY <1>1, <1>2, <1>8 DEF NotYet, RestPlace, Unheard, Soon, Clearing, Idle
<1>13. response.what # "rdr" /\ ret # 1
  BY <1>1, <1>2 DEF Idle
<1> QED BY <1>4, <1>5, <1>6, <1>7, <1>9, <1>10, <1>11, <1>12, <1>13 DEF HelloInv, AnswerInv

\* Nothing happens.
LEMMA HelloStays ==
  ASSUME HelloInv, UNCHANGED helloVars
  PROVE  HelloInv'
<1>1. /\ UNCHANGED <<cpb_q, rdr_q, tdr_q, cfg_q, response, tx_done_set>>
      /\ UNCHANGED <<tx_state_q, tx_baud_cnt_q, tx_bit_cnt_q, tx_shift_q, tx_o>>
      /\ UNCHANGED <<rx_state_q, rx_baud_cnt_q, rx_bit_cnt_q, rx_shift_q>>
      /\ UNCHANGED <<rx_sync1_q, rx_sync2_q>>
      /\ UNCHANGED <<far, frame, phase, msg, pc, index, cfg, ret, idle>>
      /\ UNCHANGED <<cnt, bits, transcript>>
  BY DEF helloVars, tekVars, uartVars, regVars, txVars, rxVars, lineVars, progVars, hostVars
<1>2. ProgramInv'
  <2>1. TxInRange' /\ MsgIs'
    BY <1>1 DEF HelloInv, ProgramInv, TxInRange, MsgIs
  <2>2. ProgramTyped'
    BY <1>1 DEF HelloInv, ProgramInv, ProgramTyped, ResponseTyped
  <2>3. Follows'
    BY <1>1 DEF HelloInv, ProgramInv, Follows, Polls, ByteOf
  <2> QED BY <2>1, <2>2, <2>3 DEF ProgramInv
<1>3. /\ Looped' = Looped /\ BitLength' = BitLength /\ First' = First /\ Over' = Over
      /\ Sends' = Sends /\ At' = At /\ Level' = Level /\ TxBit' = TxBit
  BY <1>1 DEF Looped, BitLength, First, Over, Sends, At, TxBit, FarBit, Level, FarLevel
<1>4. /\ Listens' = Listens /\ RxAt' = RxAt /\ Sampled' = Sampled
      /\ Begun' = Begun /\ TxAt' = TxAt /\ ReadCycles' = ReadCycles
      /\ ToStart' = ToStart
  BY <1>1, <1>3 DEF Listens, RxAt, Sampled, Begun, TxAt, ReadCycles, ToStart
<1>5. LineTyped' /\ RxTyped'
  BY <1>1, <1>3 DEF HelloInv, LineTyped, RxTyped
<1>6. HostInv'
  <2>1. \A byte : HasRead(byte) => HasRead(byte)'
    BY <1>1 DEF HasRead, MiddleOf
  <2>2. Says(Dialogue[Begun])'
    BY <1>1, <1>4 DEF HelloInv, HostInv, Says, TxToSend
  <2>3. InStep' \/ Ahead' \/ Awaits' \/ Behind'
    BY <1>1, <1>4, <2>1 DEF HelloInv, HostInv, InStep, Ahead, Awaits, Behind
  <2> QED BY <1>1, <1>4, <2>2, <2>3 DEF HelloInv, HostInv
<1>7. AnswerInv'
  <2>1. Line(A)' /\ Synchronised(A)' /\ Heard(A)'
    BY <1>1, <1>3, <1>4
       DEF HelloInv, AnswerInv, Line, ToSend, TxToSend, FarToSend, FarBit, Synchronised, Heard
  <2>2. Due' = Due /\ ToPulse' = ToPulse
    <3>1. Sending' = Sending
      BY <1>1 DEF Sending, AndThen
    <3> QED BY <1>1, <1>3, <1>4, <3>1 DEF Due, ToPulse
  <2>3. NotYet' \/ OnTheWay' \/ Arrived'
    BY <1>1, <1>3, <1>4, <2>2
       DEF HelloInv, AnswerInv, NotYet, OnTheWay, Arrived, Unheard, Heeded, Soon, Clearing,
           RestPlace, StartPlace, FollowPlace, EndPlace, TrailPlace, MisledPlace
  <2> QED BY <1>1, <2>1, <2>3 DEF HelloInv, AnswerInv
<1> QED BY <1>2, <1>5, <1>6, <1>7 DEF HelloInv

\* For every text, size of msg, width of a byte, bit times of the UART and of the
\* host that fit, and pace of the program up to MaxIdle: program, UART and host
\* are where the invariant says at every clock edge.
THEOREM HelloAlways ==
  ASSUME HelloFits
  PROVE  HelloSpec => []HelloInv
<1>1. HelloInit => HelloInv
  BY HelloAtFirst
<1>2. HelloInv /\ [HelloTick]_helloVars => HelloInv'
  BY HelloEdgeKeeps, HelloStays DEF HelloTick
<1> QED BY <1>1, <1>2, PTL DEF HelloSpec

\* Hence the host of teknotest_tb.sv reads R, the text and its zero, in order and
\* bit for bit, and never a byte of msg that helloworld.c did not set.
THEOREM HostReadsDialogueAlways ==
  ASSUME HelloFits
  PROVE  HelloSpec => []HostReadsDialogue
<1>1. ASSUME HelloInv PROVE HostReadsDialogue
  <2>1. /\ \A k \in 1 .. Len(transcript) : transcript[k] = Dialogue[k]
        /\ transcript \in Seq(Bytes)
        /\ Len(transcript) = Begun \/ Len(transcript) + 1 = Begun
    BY <1>1 DEF HelloInv, HostInv, InStep, Ahead, Awaits, Behind
  <2>2. Begun \in 0 .. Len(Dialogue) /\ Len(Dialogue) \in Nat
    BY <1>1, FramesBegun, DialogueIs DEF HelloInv
  <2>3. Len(transcript) \in Nat
    BY <2>1
  <2>4. Len(transcript) <= Len(Dialogue)
    BY <2>1, <2>2, <2>3
  <2> QED BY <2>1, <2>4 DEF HostReadsDialogue
<1> QED BY <1>1, HelloAlways, PTL

\* And the A it answers with is never lost in the program's CFG &= ~flag, nor
\* taken for another byte.
THEOREM AnswerKeptAlways ==
  ASSUME HelloFits
  PROVE  HelloSpec => []AnswerKept
<1>1. ASSUME HelloInv PROVE AnswerKept
  <2>1. AnswerInv /\ ~Looped
    <3>1. far # 0
      BY <1>1, LineAssumption DEF HelloInv, HostInv
    <3> QED BY <1>1, <3>1 DEF HelloInv, Looped
  <2>2. ret # 1
    BY <2>1 DEF AnswerInv
  <2>3. ASSUME transcript # <<>>, frame = <<>>, rx_state_q = "RX_IDLE",
               pc.about = "R" \/ (pc.about = "A" /\ pc.access # "rdr")
        PROVE  cfg_q.rx_done
    <3>1. Arrived
      BY <2>1, <2>3 DEF AnswerInv, NotYet, OnTheWay, StartPlace, FollowPlace, EndPlace, Sends
    <3> QED BY <2>3, <3>1 DEF Arrived, Heeded
  <2> QED BY <2>2, <2>3 DEF AnswerKept
<1> QED BY <1>1, HelloAlways, PTL

=============================================================================
