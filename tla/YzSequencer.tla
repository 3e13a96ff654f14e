---------------------------- MODULE YzSequencer ----------------------------
(***************************************************************************)
(* rtl/yz_accel.sv, control: the FSM and the loop counters that walk the   *)
(* shared multiplier through convolution, fully connected layer and        *)
(* argmax.  YzAccel adds the data.  One step is one clock edge, given the  *)
(* inputs start_i and sw_reset_i of the cycle; error_o is never set and is *)
(* left out.                                                               *)
(***************************************************************************)
EXTENDS Naturals

CONSTANTS
  K_H, K_W,      \* convolution kernel
  N_FILT,        \* filters
  OUT_H, OUT_W,  \* output plane of a filter
  FEAT,          \* inputs of the fully connected layer
  FC_OUT         \* classes

ASSUME SequencerAssumption ==
  /\ K_H \in Nat \ {0} /\ K_W \in Nat \ {0} /\ N_FILT \in Nat \ {0}
  /\ OUT_H \in Nat \ {0} /\ OUT_W \in Nat \ {0}
  /\ FEAT \in Nat \ {0} /\ FC_OUT \in Nat \ {0}

VARIABLES
  st,                            \* state of the FSM
  busy_o, done_o, done_pulse,    \* status; done_pulse drives irq_o
  cycle_cnt_o,                   \* cycles spent busy
  c, oy, ox,                     \* filter and output position
  ky, kx,                        \* kernel position
  f, ii,                         \* class and input of the FC layer
  am_f                           \* class argmax looks at

convVars == <<c, oy, ox, ky, kx>>
fcVars == <<f, ii>>
loopVars == <<convVars, fcVars, am_f>>
seqVars == <<st, busy_o, done_o, done_pulse, cycle_cnt_o, loopVars>>

States ==
  {"S_IDLE", "S_CONV_LOAD", "S_CONV_MAC", "S_CONV_STORE",
   "S_FC_LOAD", "S_FC_MAC", "S_FC_STORE", "S_ARGMAX", "S_DONE"}

SeqInit ==
  /\ st = "S_IDLE"
  /\ busy_o = FALSE
  /\ done_o = FALSE
  /\ done_pulse = FALSE
  /\ cycle_cnt_o = 0
  /\ c = 0 /\ oy = 0 /\ ox = 0 /\ ky = 0 /\ kx = 0
  /\ f = 0 /\ ii = 0 /\ am_f = 0

-----------------------------------------------------------------------------
\* What every busy state does besides moving the loops.
Busy ==
  /\ cycle_cnt_o' = cycle_cnt_o + 1
  /\ done_pulse' = FALSE
  /\ UNCHANGED <<busy_o, done_o>>

BugStart(start) ==                     \* done_o of the last run left standing
  /\ st = "S_IDLE"
  /\ start
  /\ st' = "S_CONV_LOAD"
  /\ busy_o' = TRUE
  /\ cycle_cnt_o' = 0
  /\ c' = 0 /\ oy' = 0 /\ ox' = 0
  /\ done_pulse' = FALSE
  /\ UNCHANGED <<done_o, ky, kx, fcVars, am_f>>

Start(start) ==
  /\ st = "S_IDLE"
  /\ start
  /\ st' = "S_CONV_LOAD"
  /\ busy_o' = TRUE
  /\ done_o' = FALSE
  /\ cycle_cnt_o' = 0
  /\ c' = 0 /\ oy' = 0 /\ ox' = 0
  /\ done_pulse' = FALSE
  /\ UNCHANGED <<ky, kx, fcVars, am_f>>

Wait(start) ==
  /\ st = "S_IDLE"
  /\ ~start
  /\ done_pulse' = FALSE
  /\ UNCHANGED <<st, busy_o, done_o, cycle_cnt_o, loopVars>>

ConvLoad ==
  /\ st = "S_CONV_LOAD"
  /\ st' = "S_CONV_MAC"
  /\ ky' = 0 /\ kx' = 0
  /\ Busy
  /\ UNCHANGED <<c, oy, ox, fcVars, am_f>>

BugConvMac ==                                  \* stops one row too early
  /\ st = "S_CONV_MAC"
  /\ kx' = IF kx < K_W - 1 THEN kx + 1 ELSE 0
  /\ IF kx < K_W - 1 THEN UNCHANGED <<ky, st>>
     ELSE IF ky + 1 < K_H - 1 THEN ky' = ky + 1 /\ UNCHANGED st
     ELSE st' = "S_CONV_STORE" /\ UNCHANGED ky
  /\ Busy
  /\ UNCHANGED <<c, oy, ox, fcVars, am_f>>

ConvMac ==
  /\ st = "S_CONV_MAC"
  /\ kx' = IF kx < K_W - 1 THEN kx + 1 ELSE 0
  /\ IF kx < K_W - 1 THEN UNCHANGED <<ky, st>>
     ELSE IF ky < K_H - 1 THEN ky' = ky + 1 /\ UNCHANGED st
     ELSE st' = "S_CONV_STORE" /\ UNCHANGED ky
  /\ Busy
  /\ UNCHANGED <<c, oy, ox, fcVars, am_f>>

LastPixel == ox >= OUT_W - 1 /\ oy >= OUT_H - 1 /\ c >= N_FILT - 1

ConvStore ==
  /\ st = "S_CONV_STORE"
  /\ ox' = IF ox < OUT_W - 1 THEN ox + 1 ELSE 0
  /\ oy' = IF ox < OUT_W - 1 THEN oy ELSE IF oy < OUT_H - 1 THEN oy + 1 ELSE 0
  /\ c' = IF ox < OUT_W - 1 \/ oy < OUT_H - 1 \/ LastPixel THEN c ELSE c + 1
  /\ st' = IF LastPixel THEN "S_FC_LOAD" ELSE "S_CONV_LOAD"
  /\ f' = IF LastPixel THEN 0 ELSE f
  /\ Busy
  /\ UNCHANGED <<ky, kx, ii, am_f>>

FcLoad ==
  /\ st = "S_FC_LOAD"
  /\ st' = "S_FC_MAC"
  /\ ii' = 0
  /\ Busy
  /\ UNCHANGED <<convVars, f, am_f>>

BugFcMac ==                              \* counts the inputs from one, not zero
  /\ st = "S_FC_MAC"
  /\ ii' = IF ii < FEAT THEN ii + 1 ELSE ii
  /\ st' = IF ii < FEAT THEN st ELSE "S_FC_STORE"
  /\ Busy
  /\ UNCHANGED <<convVars, f, am_f>>

FcMac ==
  /\ st = "S_FC_MAC"
  /\ ii' = IF ii < FEAT - 1 THEN ii + 1 ELSE ii
  /\ st' = IF ii < FEAT - 1 THEN st ELSE "S_FC_STORE"
  /\ Busy
  /\ UNCHANGED <<convVars, f, am_f>>

FcStore ==
  /\ st = "S_FC_STORE"
  /\ IF f < FC_OUT - 1
       THEN f' = f + 1 /\ st' = "S_FC_LOAD" /\ UNCHANGED am_f
       ELSE am_f' = 0 /\ st' = "S_ARGMAX" /\ UNCHANGED f
  /\ Busy
  /\ UNCHANGED <<convVars, ii>>

Argmax ==
  /\ st = "S_ARGMAX"
  /\ am_f' = IF am_f < FC_OUT - 1 THEN am_f + 1 ELSE am_f
  /\ st' = IF am_f < FC_OUT - 1 THEN st ELSE "S_DONE"
  /\ Busy
  /\ UNCHANGED <<convVars, fcVars>>

BugDone ==                                     \* busy_o left standing
  /\ st = "S_DONE"
  /\ st' = "S_IDLE"
  /\ done_o' = TRUE
  /\ done_pulse' = TRUE
  /\ cycle_cnt_o' = cycle_cnt_o + 1
  /\ UNCHANGED <<busy_o, loopVars>>

Done ==
  /\ st = "S_DONE"
  /\ st' = "S_IDLE"
  /\ busy_o' = FALSE
  /\ done_o' = TRUE
  /\ done_pulse' = TRUE
  /\ cycle_cnt_o' = cycle_cnt_o + 1
  /\ UNCHANGED loopVars

\* sw_reset_i cancels the run; the loop counters keep their values.
SoftReset ==
  /\ st' = "S_IDLE"
  /\ busy_o' = FALSE
  /\ done_o' = FALSE
  /\ done_pulse' = FALSE
  /\ UNCHANGED <<cycle_cnt_o, loopVars>>

SeqStep(start, sw_reset) ==
  IF sw_reset THEN SoftReset
  ELSE \/ Start(start) \/ Wait(start) \/ ConvLoad \/ ConvMac \/ ConvStore
       \/ FcLoad \/ FcMac \/ FcStore \/ Argmax \/ Done

\* rst_ni.
SeqReset ==
  /\ st' = "S_IDLE"
  /\ busy_o' = FALSE
  /\ done_o' = FALSE
  /\ done_pulse' = FALSE
  /\ cycle_cnt_o' = 0
  /\ c' = 0 /\ oy' = 0 /\ ox' = 0 /\ ky' = 0 /\ kx' = 0
  /\ f' = 0 /\ ii' = 0 /\ am_f' = 0

\* The FSM by itself: start_i and sw_reset_i come at any time.
SeqTick == \E start \in BOOLEAN, sw_reset \in BOOLEAN : SeqStep(start, sw_reset)
SeqNext == SeqTick \/ SeqReset
SeqSpec == SeqInit /\ [][SeqNext]_seqVars

-----------------------------------------------------------------------------
(***************************************************************************)
(* Properties.                                                             *)
(***************************************************************************)

\* Work of the layers in clock cycles: a bias load and a store around the
\* multiply-accumulates of every output, one cycle per class for argmax, and
\* the cycle that raises done.
ConvCost == K_H * K_W + 2
ConvCycles == ((N_FILT * OUT_H) * OUT_W) * ConvCost
FcCycles == FC_OUT * (FEAT + 2)
InferenceCycles == ConvCycles + FcCycles + FC_OUT + 1

StatusOK ==
  /\ st \in States
  /\ busy_o \in BOOLEAN
  /\ done_o \in BOOLEAN
  /\ done_pulse \in BOOLEAN

LoopsOK ==
  /\ cycle_cnt_o \in Nat
  /\ c \in 0 .. N_FILT - 1
  /\ oy \in 0 .. OUT_H - 1
  /\ ox \in 0 .. OUT_W - 1
  /\ ky \in 0 .. K_H - 1
  /\ kx \in 0 .. K_W - 1
  /\ f \in 0 .. FC_OUT - 1
  /\ ii \in 0 .. FEAT - 1
  /\ am_f \in 0 .. FC_OUT - 1

\* Every loop counter addresses its memory inside its bounds: no index is
\* ever truncated to a wrong cell.
TypeOK == StatusOK /\ LoopsOK

\* The cycles an inference has taken when it stands where it stands.
Pixel == (c * OUT_H + oy) * OUT_W + ox
Elapsed ==
  CASE st = "S_CONV_LOAD" -> Pixel * ConvCost
    [] st = "S_CONV_MAC" -> Pixel * ConvCost + 1 + ky * K_W + kx
    [] st = "S_CONV_STORE" -> Pixel * ConvCost + 1 + K_H * K_W
    [] st = "S_FC_LOAD" -> ConvCycles + f * (FEAT + 2)
    [] st = "S_FC_MAC" -> ConvCycles + f * (FEAT + 2) + 1 + ii
    [] st = "S_FC_STORE" -> ConvCycles + f * (FEAT + 2) + 1 + FEAT
    [] st = "S_ARGMAX" -> ConvCycles + FcCycles + am_f
    [] st = "S_DONE" -> ConvCycles + FcCycles + FC_OUT
    [] st = "S_IDLE" -> InferenceCycles

\* The cycle counter and the loops never drift apart, whatever was cancelled
\* and restarted: while busy, and when done, cycle_cnt_o is the number of
\* cycles the loops account for.
InStep ==
  /\ busy_o <=> st # "S_IDLE"
  /\ busy_o => ~done_o
  /\ busy_o \/ done_o => cycle_cnt_o = Elapsed

\* A finished inference has taken InferenceCycles, no more and no less, also
\* after resets and repeated starts in the middle of earlier ones.
ExactCycles == done_o => cycle_cnt_o = InferenceCycles

\* An inference that is not cancelled ends: busy does not last.
EventuallyDone == busy_o ~> ~busy_o

=============================================================================
