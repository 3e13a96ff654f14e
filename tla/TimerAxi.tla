------------------------------ MODULE TimerAxi ------------------------------
(***************************************************************************)
(* rtl/timer_axi.sv: the timer behind its AXI4-Lite port.  A prescaler     *)
(* divides the clock by PRE + 1, the counter runs between 0 and ARE, and   *)
(* EVN counts the arrivals at its limit.  Software may write any register  *)
(* in any cycle the port is idle, also while the timer runs.               *)
(*                                                                         *)
(* One Tick is one clock edge: registers, prescaler, counter, event        *)
(* counter and port move at once.  clk and command record, for the         *)
(* properties alone, that an edge has passed and what software wrote at    *)
(* it.                                                                     *)
(***************************************************************************)
EXTENDS Naturals, AxiLitePort

CONSTANTS
  Modulus,   \* registers count modulo this number, 2^32 in the source
  Values     \* the words software writes

ASSUME TimerAssumption ==
  /\ Modulus \in Nat /\ Modulus > 1
  /\ Values \subseteq 0 .. Modulus - 1

VARIABLES
  tim_pre_q, tim_are_q, tim_ena_q, tim_mod_q,  \* registers software writes
  tim_cnt_q, tim_evn_q,                        \* counter, event counter
  pre_cnt_q,                                   \* prescaler
  state_q, read_data_q,                        \* AXI port
  clk, command                                 \* history

settings == <<tim_pre_q, tim_are_q, tim_ena_q, tim_mod_q>>
counters == <<tim_cnt_q, tim_evn_q, pre_cnt_q>>
vars == <<settings, counters, state_q, read_data_q, clk, command>>

Register == 0 .. Modulus - 1
Offsets == 0 .. 7                  \* addr[4:2]: PRE ARE CLR ENA MOD CNT EVN EVC

BugIncSaturates(n) == IF n = Modulus - 1 THEN n ELSE n + 1
BugIncWide(n) == n + 1                       \* a 33rd bit
\* 32-bit increment and decrement.
Inc(n) == IF n = Modulus - 1 THEN 0 ELSE n + 1
Dec(n) == IF n = 0 THEN Modulus - 1 ELSE n - 1

-----------------------------------------------------------------------------
BugPreTick == pre_cnt_q + 1 >= tim_pre_q     \* divides by PRE, not PRE + 1
pre_tick == pre_cnt_q = tim_pre_q
cnt_at_limit == tim_cnt_q = IF tim_mod_q THEN tim_are_q ELSE 0

write_strobe(m) == WriteTaken(state_q, m)
do_clr(m, off, data) == write_strobe(m) /\ off = 2 /\ data % 2 = 1
do_evc(m, off, data) == write_strobe(m) /\ off = 7 /\ data % 2 = 1

WriteRegisters(m, off, data) ==
  LET writes(o) == write_strobe(m) /\ off = o
  IN /\ tim_pre_q' = IF writes(0) THEN data ELSE tim_pre_q
     /\ tim_are_q' = IF writes(1) THEN data ELSE tim_are_q
     /\ tim_ena_q' = IF writes(3) THEN data % 2 = 1 ELSE tim_ena_q
     /\ tim_mod_q' = IF writes(4) THEN data % 2 = 1 ELSE tim_mod_q

\* The prescaler counts to PRE and is cleared while the timer is disabled.
Prescale ==
  pre_cnt_q' = IF tim_ena_q /\ ~pre_tick THEN Inc(pre_cnt_q) ELSE 0

BugCountStep(m, off, data) ==      \* any write holds the counter for a cycle
  tim_ena_q /\ pre_tick /\ ~write_strobe(m)
\* The counter moves at a tick of the prescaler, unless CLR is written.
CountStep(m, off, data) ==
  tim_ena_q /\ pre_tick /\ ~do_clr(m, off, data)

\* CLR wins over counting, EVC over the event of the same cycle.
Count(m, off, data) ==
  LET step == CountStep(m, off, data)
      reload == IF tim_mod_q THEN 0 ELSE tim_are_q
  IN /\ tim_cnt_q' = IF do_clr(m, off, data) THEN 0
                     ELSE IF ~step THEN tim_cnt_q
                     ELSE IF cnt_at_limit THEN reload
                     ELSE IF tim_mod_q THEN Inc(tim_cnt_q) ELSE Dec(tim_cnt_q)
     /\ tim_evn_q' = IF do_evc(m, off, data) THEN 0
                     ELSE IF step /\ cnt_at_limit THEN Inc(tim_evn_q)
                     ELSE tim_evn_q

Bit(b) == IF b THEN 1 ELSE 0
ReadMux(off) ==
  CASE off = 0 -> tim_pre_q
    [] off = 1 -> tim_are_q
    [] off = 3 -> Bit(tim_ena_q)
    [] off = 4 -> Bit(tim_mod_q)
    [] off = 5 -> tim_cnt_q
    [] off = 6 -> tim_evn_q
    [] OTHER -> 0

Port(m, off) ==
  /\ state_q' = PortNext(state_q, m)
  /\ read_data_q' = IF ReadTaken(state_q, m) THEN ReadMux(off) ELSE read_data_q

\* The order software gives at this edge: the register it writes, CLR and EVC
\* only with their bit set.
Command(m, off, data) ==
  CASE ~write_strobe(m) -> "none"
    [] write_strobe(m) /\ off = 0 -> "PRE"
    [] write_strobe(m) /\ off = 1 -> "ARE"
    [] write_strobe(m) /\ off = 2 /\ data % 2 = 1 -> "CLR"
    [] write_strobe(m) /\ off = 3 -> "ENA"
    [] write_strobe(m) /\ off = 4 -> "MOD"
    [] write_strobe(m) /\ off = 7 /\ data % 2 = 1 -> "EVC"
    [] OTHER -> "none"

-----------------------------------------------------------------------------
Init ==
  /\ tim_pre_q = 0
  /\ tim_are_q = Modulus - 1
  /\ tim_ena_q = FALSE
  /\ tim_mod_q = TRUE
  /\ tim_cnt_q = 0
  /\ tim_evn_q = 0
  /\ pre_cnt_q = 0
  /\ state_q = "S_IDLE"
  /\ read_data_q = 0
  /\ clk = FALSE
  /\ command = "none"

Edge(m, off, data) ==
  /\ WriteRegisters(m, off, data)
  /\ Prescale
  /\ Count(m, off, data)
  /\ Port(m, off)
  /\ clk' = ~clk
  /\ command' = Command(m, off, data)

Tick ==
  \E m \in BridgeSignals, off \in Offsets, data \in Values : Edge(m, off, data)

Reset ==
  /\ tim_pre_q' = 0
  /\ tim_are_q' = Modulus - 1
  /\ tim_ena_q' = FALSE
  /\ tim_mod_q' = TRUE
  /\ tim_cnt_q' = 0
  /\ tim_evn_q' = 0
  /\ pre_cnt_q' = 0
  /\ state_q' = "S_IDLE"
  /\ read_data_q' = 0
  /\ clk' = ~clk
  /\ command' = "reset"

Next == Tick \/ Reset

Spec == Init /\ [][Next]_vars

\* The clock never stops.
FairSpec == Spec /\ WF_vars(Tick)

-----------------------------------------------------------------------------
(***************************************************************************)
(* Properties.                                                             *)
(***************************************************************************)

\* Steps from a up to b, through the wrap-around if b lies below a.
Distance(a, b) == IF a <= b THEN b - a ELSE Modulus + b - a

\* Prescaler ticks before the one that counts the event.
TicksLeft == IF tim_mod_q THEN Distance(tim_cnt_q, tim_are_q) ELSE tim_cnt_q

\* Clock cycles to the prescaler's next tick.  Disabling the timer clears the
\* prescaler one cycle later, so a stopped timer has a whole tick to go.
CyclesToTick ==
  IF tim_ena_q THEN Distance(pre_cnt_q, tim_pre_q) ELSE tim_pre_q

Period == (tim_pre_q + 1) * (tim_are_q + 1)
Left == CyclesToTick + TicksLeft * (tim_pre_q + 1)

IT == INSTANCE IntervalTimer WITH
  running <- tim_ena_q,
  period <- Period,
  left <- Left,
  events <- tim_evn_q

\* Every register holds a value of its width.
TypeOK ==
  /\ tim_pre_q \in Register
  /\ tim_are_q \in Register
  /\ tim_cnt_q \in Register
  /\ tim_evn_q \in Register
  /\ pre_cnt_q \in Register
  /\ read_data_q \in Register
  /\ tim_ena_q \in BOOLEAN
  /\ tim_mod_q \in BOOLEAN
  /\ state_q \in PortStates
  /\ clk \in BOOLEAN
  /\ command \in IT!Commands

\* In both directions and after any history of writes, an enabled timer left
\* alone counts an event exactly every (PRE + 1) * (ARE + 1) cycles and none
\* in between, and its countdown to the next one never stalls or jumps.  Only
\* a write of PRE, ARE or MOD moves that event freely (a counter or prescaler
\* caught above its limit comes round through 2^32); CLR and stopping the
\* timer put it off by less than a period; and no event is lost but by CLR in
\* the cycle it is due.
ImplementsIntervalTimer == IT!Spec

\* Once software leaves an enabled timer alone, events keep coming: no
\* setting written before, and no moment of writing it, stops the counter.
Untouched == \E m \in BridgeSignals : ~write_strobe(m) /\ Edge(m, 0, 0)
EventsKeepComing ==
  (<>[][Untouched]_vars /\ <>[]tim_ena_q)
     => []<><<tim_evn_q' # tim_evn_q>>_vars

=============================================================================
