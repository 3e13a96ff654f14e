----------------------------- MODULE HelloWorld -----------------------------
(***************************************************************************)
(* The jury test: teknotest/sw/src/helloworld.c on the UART of UartTek,    *)
(* against the host of teknotest/tb/teknotest_tb.sv.                       *)
(*                                                                         *)
(* The program sends R, waits for A, and sends its text with the zero that *)
(* ends it.  The host reads R, then sends A while it reads the text.  A    *)
(* statement like CFG |= 1 is a read and a write, with time between them.  *)
(***************************************************************************)
EXTENDS SerialLine, UartTek

CONSTANTS
  R, A, Nul,    \* the bytes
  Text,         \* "Hello World!"
  MsgSize,      \* bytes of msg, 16
  MaxIdle       \* cycles between two accesses of the program

ASSUME HelloAssumption ==
  /\ MaxIdle \in Nat
  /\ {R, A, Nul} \subseteq Bytes /\ R # A
  /\ Text \in Seq(Bytes \ {Nul}) /\ MsgSize \in Nat /\ MsgSize > Len(Text)

VARIABLES
  msg,                  \* of the program; what follows the zero is not set
  pc, index, cfg, ret,  \* where it is, its counter, CFG as read, its result
  idle,                 \* cycles since its last access
  cnt, bits, transcript \* uart_read: cycles since the start bit, bits, bytes

progVars == <<msg, pc, index, cfg, ret, idle>>
hostVars == <<cnt, bits, transcript>>
helloVars == <<tekVars, lineVars, progVars, hostVars>>

-----------------------------------------------------------------------------
(***************************************************************************)
(* The program.  pc names the access to make next, and for those made at   *)
(* several places also the byte they are about: R, A, or one of msg.       *)
(***************************************************************************)
Before(access, about) == pc = [access |-> access, about |-> about]
Goto(access, about) == pc' = [access |-> access, about |-> about]
Final == [access |-> "none", about |-> "none"]

SetUp(op) ==
  \/ Before("cpb", "R") /\ op = WriteCpb(Cpb) /\ Goto("cfg", "R")
  \/ Before("cfg", "R") /\ op = WriteCfg(FALSE, FALSE, FALSE) /\ Goto("tdr", "R")

PutByte(op) ==
  \E about \in {"R", "msg"} :
    /\ Before("tdr", about)
    /\ op = WriteTdr(IF about = "R" THEN R ELSE msg[index + 1])
    /\ Goto("read", about)

\* CFG |= 1 and CFG &= ~flag: the read, and the write of what was read.
Read(op) == pc.access \in {"read", "poll", "reread"} /\ op = ReadCfg /\ UNCHANGED pc

Start(op) ==
  \E about \in {"R", "msg"} :
    /\ Before("start", about)
    /\ op = WriteCfg(TRUE, cfg.rx_done, cfg.tx_done)
    /\ Goto("poll", about)

ClearFlag(op) ==
  \/ Before("clear", "R") /\ op = WriteCfg(cfg.tx_en, cfg.rx_done, FALSE) /\ Goto("poll", "A")
  \/ Before("clear", "A") /\ op = WriteCfg(cfg.tx_en, FALSE, cfg.tx_done) /\ Goto("rdr", "A")

BugStops(k) == k + 1 = MsgSize            \* no break at the zero
Stops(k) == msg[k + 1] = Nul \/ k + 1 = MsgSize

\* The end of the loop's body.
Advance(op) ==
  /\ Before("clear", "msg")
  /\ op = WriteCfg(cfg.tx_en, cfg.rx_done, FALSE)
  /\ IF Stops(index)
       THEN pc' = Final /\ ret' = 0 /\ UNCHANGED index
       ELSE Goto("tdr", "msg") /\ index' = index + 1 /\ UNCHANGED ret

GetByte(op) == Before("rdr", "A") /\ op = ReadRdr /\ UNCHANGED pc

Access(op) ==
  /\ \/ /\ SetUp(op) \/ PutByte(op) \/ Read(op) \/ Start(op) \/ ClearFlag(op) \/ GetByte(op)
        /\ UNCHANGED <<index, ret>>
     \/ Advance(op)
  /\ idle' = 0 /\ UNCHANGED <<msg, cfg>>

Away(op) ==
  /\ op = Idle
  /\ idle' = IF pc = Final THEN 0 ELSE idle + 1
  /\ idle < MaxIdle
  /\ UNCHANGED <<msg, pc, index, cfg, ret>>

Awaited == IF pc.about = "A" THEN response.value.rx_done ELSE response.value.tx_done

TakeAnswer(op) ==
  /\ op = Idle /\ idle' = 0
  /\ CASE response.what = "cfg" ->
            /\ cfg' = response.value
            /\ CASE pc.access = "read" -> Goto("start", pc.about)
                 [] pc.access = "poll" /\ Awaited -> Goto("reread", pc.about)
                 [] pc.access = "poll" /\ ~Awaited -> UNCHANGED pc
                 [] pc.access = "reread" -> Goto("clear", pc.about)
            /\ UNCHANGED <<index, ret>>
       [] response.what = "rdr" ->
            /\ IF response.value = A THEN Goto("tdr", "msg") /\ index' = 0 /\ UNCHANGED ret
               ELSE pc' = Final /\ ret' = 1 /\ UNCHANGED index
            /\ UNCHANGED cfg
       [] OTHER -> UNCHANGED <<pc, index, ret, cfg>>
  /\ UNCHANGED msg

Program(op) ==
  IF response # Idle THEN TakeAnswer(op) ELSE Access(op) \/ Away(op)

HelloAccesses ==
  {Idle, ReadCfg, ReadRdr, WriteCpb(Cpb)}
    \cup {WriteTdr(b) : b \in Bytes}
    \cup {WriteCfg(en, rx, tx) : en \in BOOLEAN, rx \in BOOLEAN, tx \in BOOLEAN}

-----------------------------------------------------------------------------
(***************************************************************************)
(* The host.                                                               *)
(***************************************************************************)
\* Bits are sampled in their middles, after one and a half bit.
MiddleOf(k) == far * k + (far \div 2)
Middles == {MiddleOf(k) : k \in 1 .. DataBits}
ReadCycles == far * (DataBits + 2)
ReadEnd == cnt = ReadCycles

uart_read ==
  IF cnt = 0
    THEN /\ cnt' = IF tx_o = 1 /\ tx_o' = 0 THEN 1 ELSE 0
         /\ bits' = <<>> /\ UNCHANGED transcript
    ELSE /\ cnt' = IF ReadEnd THEN 0 ELSE cnt + 1
         /\ bits' = IF cnt \in Middles THEN Append(bits, tx_o) ELSE bits
         /\ transcript' = IF ReadEnd THEN Append(transcript, bits) ELSE transcript

\* A, once the first byte has been read and is R.
Replies == ReadEnd /\ transcript = <<>> /\ bits = R

uart_write == IF Replies THEN FarSends(A) ELSE FarRests \/ FarHolds

-----------------------------------------------------------------------------
HelloEdge(op) ==
  /\ Program(op)
  /\ TekEdge(op, FarLevel)
  /\ uart_read /\ uart_write
  /\ UNCHANGED far

HelloTick == \E op \in HelloAccesses : HelloEdge(op)

Uninitialised == [1 .. MsgSize - Len(Text) - 1 -> Bytes]

HelloInit ==
  /\ TekInit(Cpb)
  /\ \E rest \in Uninitialised : msg = Text \o <<Nul>> \o rest
  /\ pc = [access |-> "cpb", about |-> "R"]
  /\ index = 0 /\ cfg = cfg_q /\ ret = -1 /\ idle = 0
  /\ far \in FarBits
  /\ cnt = 0 /\ bits = <<>> /\ transcript = <<>>
  /\ frame = <<>> /\ phase = 0

\* The clock never stops; the program's pace is bounded by MaxIdle.
HelloSpec == HelloInit /\ [][HelloTick]_helloVars /\ WF_helloVars(HelloTick)

-----------------------------------------------------------------------------
(***************************************************************************)
(* What the properties need of the host and of the program.                *)
(***************************************************************************)
\* A host is understood, and understands, when it samples every bit of a frame
\* inside that bit, has read it when the last one is over, and before the program
\* can start the next frame, at the earliest 12 cycles after this one.
Heeds(length) ==
  /\ \A k \in 1 .. DataBits :
       /\ k * Cpb < k * length + (length \div 2)
       /\ k * length + (length \div 2) <= (k + 1) * Cpb
  /\ (DataBits + 1) * Cpb < (DataBits + 2) * length
  /\ (DataBits + 2) * length < (DataBits + 2) * Cpb + 12

\* The program, with five accesses and answers and three pauses after its frame
\* is over, has cleared TX_DONE of R when the answer is complete.
Clears(length) ==
  (DataBits + 2) * Cpb + 3 * MaxIdle + 3
    <= (DataBits + 2) * length + Sample(DataBits + 1)

HelloFits == LineFits /\ \A length \in FarBits : Heeds(length) /\ Clears(length)

(***************************************************************************)
(* Properties.                                                             *)
(***************************************************************************)
\* Counters of the transmitter and receiver stay inside a bit and a byte, the
\* program inside its message.
HelloTypeOK ==
  /\ cpb_q = Cpb /\ {rdr_q, tdr_q, tx_shift_q, rx_shift_q} \subseteq Bytes
  /\ tx_bit_cnt_q \in 0 .. DataBits - 1 /\ rx_bit_cnt_q \in 0 .. DataBits - 1
  /\ tx_baud_cnt_q \in 0 .. cpb_q - 1 /\ rx_baud_cnt_q \in 0 .. cpb_q - 1
  /\ msg \in [1 .. MsgSize -> Bytes] /\ index \in 0 .. MsgSize - 1 /\ ret \in {-1, 0, 1}
  /\ Len(bits) <= DataBits /\ Len(frame) <= DataBits + 2

Dialogue == <<R>> \o Text \o <<Nul>>

\* What the host reads is the dialogue and nothing else: R before A is sent, the
\* text in order, its zero, and not one byte of msg that was never set.
HostReadsDialogue ==
  /\ Len(transcript) <= Len(Dialogue)
  /\ \A k \in 1 .. Len(transcript) : transcript[k] = Dialogue[k]

\* The two statements that clear TX_DONE of R write RX_DONE back as they read it;
\* the A of the host is not lost between them, nor read as another byte.
AnswerKept ==
  /\ ret # 1
  /\ /\ transcript # <<>> /\ frame = <<>> /\ rx_state_q = "RX_IDLE"
     /\ pc.about = "R" \/ (pc.about = "A" /\ pc.access # "rdr")
     => cfg_q.rx_done

\* main() returns 0, and the host has the whole dialogue.
Succeeds == <>[](ret = 0 /\ transcript = Dialogue)

=============================================================================
