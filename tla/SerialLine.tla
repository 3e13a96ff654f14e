----------------------------- MODULE SerialLine -----------------------------
(***************************************************************************)
(* A UART at the end of a serial line, with a host at the far end whose    *)
(* bits may last longer or shorter than the UART's.  The host sends as     *)
(* uart_write() of teknotest/tb/teknotest_tb.sv does.                      *)
(***************************************************************************)
EXTENDS UartAxi

CONSTANTS
  Cpb,          \* what the software writes to CPB
  FarBits       \* clock cycles a bit of the far end may last

ASSUME LineAssumption == Cpb \in 1 .. BaudMod - 1 /\ FarBits \subseteq Nat \ {0}

VARIABLES
  far,          \* bit length of the far end
  frame, phase  \* levels the far end has still to send, cycles of the first

lineVars == <<far, frame, phase>>

\* What the far end shows: high when it has nothing to send.
FarLevel == IF frame = <<>> THEN 1 ELSE Head(frame)

FarRests == frame = <<>> /\ UNCHANGED <<frame, phase>>

FarSends(byte) ==
  /\ frame = <<>>
  /\ frame' = <<0>> \o byte \o <<1>>
  /\ phase' = far

FarHolds ==
  /\ frame # <<>>
  /\ frame' = IF phase = 1 THEN Tail(frame) ELSE frame
  /\ phase' = IF phase > 1 THEN phase - 1
              ELSE IF Len(frame) = 1 THEN 0 ELSE far

-----------------------------------------------------------------------------
(***************************************************************************)
(* What the properties need of the line.                                   *)
(***************************************************************************)
\* The cycle of a frame in which bit b is sampled (0 the start bit), counted from
\* the cycle the receiver saw it begin.
Half == Cpb \div 2
Sample(b) == Half + b * Cpb

\* A far end whose bits last length cycles is understood when the last data bit
\* is sampled in it, and not before, and the frame is not over before its stop
\* bit is sampled.
Tolerated(length) ==
  /\ DataBits * length <= Sample(DataBits)
  /\ Sample(DataBits + 1) <= (DataBits + 2) * length

LineFits == Cpb > 2 /\ \A length \in FarBits : Tolerated(length)

=============================================================================
