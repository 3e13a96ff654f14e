------------------------------ MODULE UartLink ------------------------------
(***************************************************************************)
(* A UART and the software that serves it.  The line carries either the    *)
(* UART's own transmitter, looped back as in tb/uart_rx_axi_tb.sv, or a    *)
(* host at the far end.  The software is demo_stream.c: g1() polls CFG,    *)
(* reads RDR, and writes CFG to clear RX_DONE; t1() writes TDR and lets a  *)
(* frame pass.                                                             *)
(***************************************************************************)
EXTENDS SerialLine

CONSTANTS
  Alphabet,     \* bytes that are sent
  Slack         \* cycles the software may leave RX_DONE alone

ASSUME LinkAssumption ==
  Slack \in Nat /\ Alphabet \subseteq Bytes

VARIABLES
  pending,      \* bytes sent and not yet returned by g1()
  sw, got,      \* where the software is, the byte it has read
  quiet,        \* cycles t1() has still to wait
  age           \* cycles RX_DONE has been standing

linkVars == <<pending, sw, got, quiet, age>>
vars == <<uartVars, lineVars, linkVars>>

FrameCycles == (DataBits + 2) * Cpb

Init ==
  /\ UartInit(Cpb, TRUE)
  /\ far \in FarBits \cup {0}
  /\ frame = <<>> /\ phase = 0
  /\ pending = <<>>
  /\ sw = "poll" /\ got = Zero
  /\ quiet = 0
  /\ age = 0

\* What the line shows the receiver; it is looped back when far is 0.
Level == IF far = 0 THEN tx_o ELSE FarLevel

(***************************************************************************)
(* The software, one access at a time.                                     *)
(***************************************************************************)
\* Out of time: it does nothing but serve RX_DONE.
Urgent == age >= Slack

Poll(op) ==
  /\ sw = "poll"
  /\ op = ReadCfg
  /\ UNCHANGED <<sw, got>>

Fetch(op) ==
  /\ sw = "fetch"
  /\ op = ReadRdr
  /\ UNCHANGED <<sw, got>>

BugClear(op) ==                     \* RX_DONE is written back as it was read
  /\ sw = "got"
  /\ op = WriteCfg(TRUE, TRUE, FALSE)
  /\ sw' = "poll" /\ UNCHANGED got

\* wr(U1+CFG, 0x1u): TX_EN, and a zero for both flags.
Clear(op) ==
  /\ sw = "got"
  /\ op = WriteCfg(TRUE, FALSE, FALSE)
  /\ sw' = "poll" /\ UNCHANGED got

Send(op) ==
  /\ far = 0 /\ ~Urgent
  /\ sw = "poll" /\ quiet = 0
  /\ \E byte \in Alphabet : op = WriteTdr(byte)
  /\ UNCHANGED <<sw, got>>

Elsewhere(op) ==
  /\ ~Urgent
  /\ op = Idle
  /\ UNCHANGED <<sw, got>>

Receive(op) ==
  /\ op = Idle
  /\ sw' = CASE response.what = "cfg" /\ response.value.rx_done -> "fetch"
             [] response.what = "rdr" -> "got"
             [] OTHER -> sw
  /\ got' = IF response.what = "rdr" THEN response.value ELSE got

Software(op) ==
  IF response # Idle THEN Receive(op)
  ELSE Poll(op) \/ Fetch(op) \/ Clear(op) \/ Send(op) \/ Elsewhere(op)

Accesses ==
  {Idle, ReadCfg, ReadRdr} \cup {WriteTdr(byte) : byte \in Alphabet}
    \cup {WriteCfg(TRUE, rx, FALSE) : rx \in BOOLEAN}

-----------------------------------------------------------------------------
\* What is left of pending after op: g1() returns when it has cleared RX_DONE.
Rest(op) == IF op.what = "cfg" THEN Tail(pending) ELSE pending

Edge(op) ==
  /\ Software(op)
  /\ UartEdge(op, Level)
  /\ UNCHANGED far
  /\ quiet' = IF op.what = "tdr" THEN FrameCycles
              ELSE IF quiet = 0 THEN 0 ELSE quiet - 1
  /\ age' = IF ~cfg_q.rx_done THEN 0 ELSE IF Urgent THEN age ELSE age + 1
  /\ \/ /\ FarRests \/ FarHolds
        /\ pending' = IF tx_start_pulse(op) THEN Append(Rest(op), op.byte)
                      ELSE Rest(op)
     \/ /\ far # 0
        /\ \E byte \in Alphabet :
             FarSends(byte) /\ pending' = Append(Rest(op), byte)

Tick == \E op \in Accesses : Edge(op)

\* The clock never stops; the software's own pace is bounded by Slack.
Spec == Init /\ [][Tick]_vars /\ WF_vars(Tick)

-----------------------------------------------------------------------------
(***************************************************************************)
(* Properties.                                                             *)
(***************************************************************************)
\* What the properties need.  The line is understood, and the byte in RDR, read
\* and cleared in at most six accesses and answers, is gone when the next comes.
SlackFits == Slack + 6 <= Sample(DataBits + 1)
LinkFits == LineFits /\ SlackFits

TypeOK ==
  /\ cpb_q \in 0 .. BaudMod - 1
  /\ rdr_q \in Bytes /\ tdr_q \in Bytes /\ got \in Bytes
  /\ tx_shift_q \in Bytes /\ rx_shift_q \in Bytes
  /\ tx_bit_cnt_q \in 0 .. DataBits - 1 /\ rx_bit_cnt_q \in 0 .. DataBits - 1
  /\ tx_baud_cnt_q \in 0 .. cpb_q - 1 /\ rx_baud_cnt_q \in 0 .. cpb_q - 1
  /\ sw \in {"poll", "fetch", "got"}

\* g1() returns the bytes of the line in order, each as it was sent: no frame
\* is misread, none is overwritten before it is read, none is read twice.
ByteForByte == sw = "got" => pending # <<>> /\ got = Head(pending)

\* Nothing is lost silently: at most one byte waits in RDR while the next one
\* is on the line, and when line and receiver rest all have been returned or
\* are announced by RX_DONE.
NothingLost ==
  /\ Len(pending) <= 2
  /\ pending # <<>> =>
       \/ cfg_q.rx_done \/ rx_state_q # "RX_IDLE" \/ frame # <<>>
       \/ tx_state_q # "TX_IDLE" \/ 0 \in {Level, rx_sync1_q, rx_sync2_q}

\* Every byte t1() writes is accepted: the wait after the write is enough.
WriteAccepted ==
  [][\A byte \in Alphabet :
       Edge(WriteTdr(byte)) => tx_state_q = "TX_IDLE"]_vars

\* A byte on the line reaches the software.
Delivered == pending # <<>> ~> sw = "got"

=============================================================================
