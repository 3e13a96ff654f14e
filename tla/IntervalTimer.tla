--------------------------- MODULE IntervalTimer ---------------------------
(***************************************************************************)
(* What timer_axi promises to software, without prescaler, counter,        *)
(* direction or wrap-around: a running timer counts an event every period  *)
(* clock cycles, the next one in left + 1 cycles.  Every step is one clock *)
(* cycle, so that a cycle in which the countdown stalls is not a stutter,  *)
(* and command says what software wrote in it: the countdown departs from  *)
(* the period only in a cycle with the write that makes it.                *)
(***************************************************************************)
EXTENDS Naturals

CONSTANT Modulus   \* events are counted modulo this number

VARIABLES
  clk,       \* parity of the clock cycles passed
  command,   \* the register software gave an order to in the last cycle
  running,   \* the timer is enabled
  period,    \* clock cycles from one event to the next
  left,      \* clock cycles before the one that counts the next event
  events     \* events counted since software last cleared them

vars == <<clk, command, running, period, left, events>>

\* No order, power-on reset, or the register written; CLR and EVC only with
\* their bit set.
Commands == {"none", "reset", "PRE", "ARE", "MOD", "ENA", "CLR", "EVC"}

Expires == running /\ left = 0
Counted ==
  IF ~Expires THEN events ELSE IF events = Modulus - 1 THEN 0 ELSE events + 1
Advanced ==
  IF ~running THEN left ELSE IF left = 0 THEN period - 1 ELSE left - 1

\* A clock cycle with command c.
Cycle(c) == clk' = ~clk /\ command' = c

Init ==
  /\ clk = FALSE
  /\ command = "none"
  /\ running = FALSE
  /\ period \in Nat \ {0}
  /\ left = period - 1
  /\ events = 0

\* Without an order a running timer is one cycle nearer to its next event, or
\* counts it and is a whole period away from the one after; a stopped timer
\* stands still.
Run ==
  /\ Cycle("none")
  /\ left' = Advanced
  /\ events' = Counted
  /\ UNCHANGED <<running, period>>

\* EVC clears the events; the count of cycles goes on.
Acknowledge ==
  /\ Cycle("EVC")
  /\ left' = Advanced
  /\ events' = 0
  /\ UNCHANGED <<running, period>>

\* ENA starts or stops the timer.  It starts where it stands; stopping it may
\* put the next event off, by less than a period.  The event due in the cycle
\* of the write still counts.
Switch ==
  /\ Cycle("ENA")
  /\ running' \in BOOLEAN
  /\ IF running /\ ~running'
       THEN left' \in Nat /\ left' < left + period
       ELSE left' = Advanced
  /\ events' = Counted
  /\ UNCHANGED period

\* PRE and ARE set the period, MOD the direction.  The event due in the cycle
\* of the write still counts; the next one may come at any time, since a
\* counter caught above its limit first wraps around.
Reprogram ==
  /\ \E register \in {"PRE", "ARE", "MOD"} : Cycle(register)
  /\ period' \in Nat \ {0}
  /\ command' = "MOD" => period' = period
  /\ left' \in Nat
  /\ events' = Counted
  /\ UNCHANGED running

\* CLR restarts the counter.  It puts the next event off by less than a
\* period, and the event due in the cycle of the write is not counted.
Restart ==
  /\ Cycle("CLR")
  /\ left' \in Nat
  /\ left' < left + period
  /\ UNCHANGED <<running, period, events>>

\* Power-on reset.
PowerOn ==
  /\ Cycle("reset")
  /\ running' = FALSE
  /\ period' \in Nat \ {0}
  /\ left' = period' - 1
  /\ events' = 0

Next == Run \/ Acknowledge \/ Switch \/ Reprogram \/ Restart \/ PowerOn

Spec == Init /\ [][Next]_vars

=============================================================================
