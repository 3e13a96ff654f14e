--------------------------- MODULE YzAccel_proofs ---------------------------
(***************************************************************************)
(* Proofs about the accelerator, for every shape of the network: the       *)
(* sequencer, the datapath on it, and the software whose accesses the two  *)
(* wrappers answer (YzWrappers_proofs goes on from here).                  *)
(***************************************************************************)
EXTENDS YzSoft, YzDriver, FiniteSetTheorems, SequenceTheorems, TLAPS

-----------------------------------------------------------------------------
(***************************************************************************)
(* The sequencer: the loops stay inside the memories.                      *)
(***************************************************************************)

\* State and flags keep their ranges over one clock edge.
LEMMA StepStatus ==
  ASSUME StatusOK, NEW start \in BOOLEAN, NEW sw_reset \in BOOLEAN,
         SeqStep(start, sw_reset)
  PROVE  StatusOK'
<1>1. CASE SoftReset
  BY <1>1 DEF SoftReset, Busy, StatusOK, States
<1>2. CASE Start(start)
  BY <1>2 DEF Start, Busy, StatusOK, States
<1>3. CASE Wait(start)
  BY <1>3 DEF Wait, Busy, StatusOK, States
<1>4. CASE ConvLoad
  BY <1>4 DEF ConvLoad, Busy, StatusOK, States
<1>5. CASE ConvMac
  BY <1>5 DEF ConvMac, Busy, StatusOK, States
<1>6. CASE ConvStore
  BY <1>6 DEF ConvStore, Busy, StatusOK, States
<1>7. CASE FcLoad
  BY <1>7 DEF FcLoad, Busy, StatusOK, States
<1>8. CASE FcMac
  BY <1>8 DEF FcMac, Busy, StatusOK, States
<1>9. CASE FcStore
  BY <1>9 DEF FcStore, Busy, StatusOK, States
<1>10. CASE Argmax
  BY <1>10 DEF Argmax, Busy, StatusOK, States
<1>11. CASE Done
  BY <1>11 DEF Done, Busy, StatusOK, States
<1> QED
  BY <1>1, <1>2, <1>3, <1>4, <1>5, <1>6, <1>7, <1>8, <1>9, <1>10, <1>11
     DEF SeqStep

\* The loop counters keep theirs.
LEMMA StepLoops ==
  ASSUME LoopsOK, NEW start \in BOOLEAN, NEW sw_reset \in BOOLEAN,
         SeqStep(start, sw_reset)
  PROVE  LoopsOK'
<1> USE SequencerAssumption DEF LoopsOK, loopVars, convVars, fcVars, Busy
<1>1. CASE SoftReset
  BY <1>1 DEF SoftReset
<1>2. CASE Start(start)
  BY <1>2 DEF Start
<1>3. CASE Wait(start)
  BY <1>3 DEF Wait
<1>4. CASE ConvLoad
  BY <1>4 DEF ConvLoad
<1>5. CASE ConvMac
  BY <1>5 DEF ConvMac
<1>6. CASE ConvStore
  BY <1>6 DEF ConvStore, LastPixel
<1>7. CASE FcLoad
  BY <1>7 DEF FcLoad
<1>8. CASE FcMac
  BY <1>8 DEF FcMac
<1>9. CASE FcStore
  BY <1>9 DEF FcStore
<1>10. CASE Argmax
  BY <1>10 DEF Argmax
<1>11. CASE Done
  BY <1>11 DEF Done
<1> QED
  BY <1>1, <1>2, <1>3, <1>4, <1>5, <1>6, <1>7, <1>8, <1>9, <1>10, <1>11
     DEF SeqStep

\* No loop counter ever leaves its memory, whatever is started, cancelled and
\* reset when.
THEOREM TypeCorrect == SeqSpec => []TypeOK
<1>1. SeqInit => TypeOK
  <2>1. SeqInit => StatusOK
    BY DEF SeqInit, StatusOK, States
  <2>2. SeqInit => LoopsOK
    BY SequencerAssumption DEF SeqInit, LoopsOK
  <2> QED BY <2>1, <2>2 DEF TypeOK
<1>2. TypeOK /\ [SeqNext]_seqVars => TypeOK'
  <2> SUFFICES ASSUME TypeOK, [SeqNext]_seqVars
               PROVE  TypeOK'
    OBVIOUS
  <2>1. CASE SeqTick
    BY <2>1, StepStatus, StepLoops DEF SeqTick, TypeOK
  <2>2. CASE SeqReset
    <3>1. StatusOK'
      BY <2>2 DEF SeqReset, StatusOK, States
    <3>2. LoopsOK'
      BY <2>2, SequencerAssumption DEF SeqReset, LoopsOK
    <3> QED BY <3>1, <3>2 DEF TypeOK
  <2>3. CASE UNCHANGED seqVars
    BY <2>3 DEF seqVars, loopVars, convVars, fcVars, TypeOK, StatusOK, LoopsOK
  <2> QED BY <2>1, <2>2, <2>3 DEF SeqNext
<1>3. QED BY <1>1, <1>2, PTL DEF SeqSpec

-----------------------------------------------------------------------------
(***************************************************************************)
(* Counting cycles.                                                        *)
(***************************************************************************)

\* One more of something that costs q.
LEMMA OneMore ==
  ASSUME NEW p \in Nat, NEW q \in Nat
  PROVE  (p + 1) * q = p * q + q /\ p * q \in Nat
  OBVIOUS

\* The costs are numbers.
LEMMA Costs ==
  /\ K_H * K_W \in Nat /\ ConvCost = K_H * K_W + 2 /\ ConvCost \in Nat
  /\ ConvCycles \in Nat /\ FcCycles \in Nat
<1>1. K_H * K_W \in Nat
  BY SequencerAssumption, OneMore
<1>2. N_FILT * OUT_H \in Nat
  BY SequencerAssumption, OneMore
<1>3. (N_FILT * OUT_H) * OUT_W \in Nat
  BY <1>2, SequencerAssumption, OneMore
<1>4. ConvCost \in Nat
  BY <1>1 DEF ConvCost
<1>5. ConvCycles \in Nat
  BY <1>3, <1>4, OneMore DEF ConvCycles
<1>6. FcCycles \in Nat
  BY SequencerAssumption, OneMore DEF FcCycles
<1> QED BY <1>1, <1>4, <1>5, <1>6 DEF ConvCost

\* The position of an output is a number, the next position is one further,
\* and one past the last are all N_FILT * OUT_H * OUT_W of them.
LEMMA NextPixel ==
  ASSUME TypeOK, ConvStore
  PROVE  /\ Pixel \in Nat
         /\ ~LastPixel => Pixel' = Pixel + 1
         /\ LastPixel => (N_FILT * OUT_H) * OUT_W = Pixel + 1
<1>1. /\ c \in Nat /\ oy \in Nat /\ ox \in Nat
      /\ OUT_W \in Nat /\ OUT_H \in Nat /\ N_FILT \in Nat
      /\ c <= N_FILT - 1 /\ oy <= OUT_H - 1 /\ ox <= OUT_W - 1
  BY SequencerAssumption DEF TypeOK, LoopsOK
<1>2. c * OUT_H \in Nat /\ (c + 1) * OUT_H = c * OUT_H + OUT_H
  BY <1>1, OneMore
<1>3. /\ (c * OUT_H + oy) * OUT_W \in Nat
      /\ (c * OUT_H + oy + 1) * OUT_W = (c * OUT_H + oy) * OUT_W + OUT_W
  BY <1>1, <1>2, OneMore
<1>4. CASE ox < OUT_W - 1
  <2>1. ox' = ox + 1 /\ oy' = oy /\ c' = c /\ ~LastPixel
    BY <1>1, <1>4 DEF ConvStore, LastPixel
  <2> QED BY <1>1, <1>3, <2>1 DEF Pixel
<1>5. CASE ox = OUT_W - 1 /\ oy < OUT_H - 1
  <2>1. ox' = 0 /\ oy' = oy + 1 /\ c' = c /\ ~LastPixel
    BY <1>1, <1>5 DEF ConvStore, LastPixel
  <2>2. Pixel' = (c * OUT_H + (oy + 1)) * OUT_W + 0
    BY <2>1 DEF Pixel
  <2>3. c * OUT_H + (oy + 1) = c * OUT_H + oy + 1
    BY <1>1, <1>2
  <2>4. Pixel' = (c * OUT_H + oy + 1) * OUT_W
    BY <1>1, <1>3, <2>2, <2>3
  <2> QED BY <1>1, <1>3, <1>5, <2>1, <2>4 DEF Pixel
<1>6. CASE ox = OUT_W - 1 /\ oy = OUT_H - 1
  <2>1. (c + 1) * OUT_H = c * OUT_H + oy + 1
    BY <1>1, <1>2, <1>6
  <2>2. ((c + 1) * OUT_H) * OUT_W = Pixel + 1
    BY <1>1, <1>3, <1>6, <2>1 DEF Pixel
  <2>3. CASE c < N_FILT - 1
    <3>1. ox' = 0 /\ oy' = 0 /\ c' = c + 1 /\ ~LastPixel
      BY <1>1, <1>6, <2>3 DEF ConvStore, LastPixel
    <3>2. Pixel' = ((c + 1) * OUT_H + 0) * OUT_W + 0
      BY <3>1 DEF Pixel
    <3>3. (c + 1) * OUT_H + 0 = (c + 1) * OUT_H
      BY <1>1, <1>2
    <3>4. Pixel' = ((c + 1) * OUT_H) * OUT_W
      BY <1>1, <1>3, <2>2, <3>2, <3>3 DEF Pixel
    <3> QED BY <1>1, <1>3, <2>2, <3>1, <3>4 DEF Pixel
  <2>4. CASE c = N_FILT - 1
    <3>1. LastPixel
      BY <1>1, <1>6, <2>4 DEF LastPixel
    <3>2. c + 1 = N_FILT
      BY <1>1, <2>4
    <3> QED BY <1>1, <1>3, <2>2, <3>1, <3>2 DEF Pixel
  <2> QED BY <1>1, <2>3, <2>4
<1> QED BY <1>1, <1>4, <1>5, <1>6

\* Every busy state costs the one cycle the counter counts.
LEMMA StepCounts ==
  ASSUME TypeOK, InStep, NEW start \in BOOLEAN, NEW sw_reset \in BOOLEAN,
         SeqStep(start, sw_reset)
  PROVE  InStep'
<1>1. /\ c \in Nat /\ oy \in Nat /\ ox \in Nat /\ ky \in Nat /\ kx \in Nat
      /\ f \in Nat /\ ii \in Nat /\ am_f \in Nat /\ cycle_cnt_o \in Nat
      /\ K_H \in Nat /\ K_W \in Nat /\ OUT_H \in Nat /\ OUT_W \in Nat
      /\ FEAT \in Nat /\ FC_OUT \in Nat
  BY SequencerAssumption DEF TypeOK, LoopsOK
<1>2. c * OUT_H \in Nat
  BY <1>1, OneMore
<1>3. (c * OUT_H + oy) * OUT_W \in Nat
  BY <1>1, <1>2, OneMore
<1>4. Pixel \in Nat
  BY <1>1, <1>3 DEF Pixel
<1>5. /\ Pixel * ConvCost \in Nat
      /\ (Pixel + 1) * ConvCost = Pixel * ConvCost + ConvCost
  BY <1>4, Costs, OneMore
<1>6. /\ f * (FEAT + 2) \in Nat
      /\ (f + 1) * (FEAT + 2) = f * (FEAT + 2) + (FEAT + 2)
  BY <1>1, OneMore
<1>7. CASE SoftReset
  BY <1>7 DEF SoftReset, InStep
<1>8. CASE Start(start)
  <2>1. c' = 0 /\ oy' = 0 /\ ox' = 0 /\ st' = "S_CONV_LOAD"
    BY <1>8 DEF Start
  <2>2. 0 * OUT_H = 0 /\ 0 * OUT_W = 0 /\ 0 * ConvCost = 0
    BY <1>1, Costs
  <2>3. Pixel' = (0 * OUT_H + 0) * OUT_W + 0
    BY <2>1 DEF Pixel
  <2>4. Pixel' = 0
    BY <2>2, <2>3
  <2>5. Elapsed' = 0
    BY <2>1, <2>2, <2>4 DEF Elapsed, ConvCost
  <2> QED BY <1>8, <2>5 DEF Start, InStep
<1>9. CASE Wait(start)
  <2>1. Elapsed' = Elapsed
    BY <1>9 DEF Wait, Elapsed, loopVars, convVars, fcVars
  <2> QED BY <1>9, <2>1 DEF Wait, InStep
<1>10. CASE ConvLoad
  <2>1. Pixel' = Pixel /\ Elapsed = Pixel * ConvCost
    BY <1>10 DEF ConvLoad, Pixel, Elapsed
  <2>2. 0 * K_W = 0
    BY <1>1
  <2>3. Elapsed' = Pixel * ConvCost + 1 + 0 * K_W + 0
    BY <1>10, <2>1 DEF ConvLoad, Elapsed, ConvCost
  <2>4. Elapsed' = Elapsed + 1
    BY <1>5, <2>1, <2>2, <2>3
  <2> QED BY <1>10, <2>4 DEF ConvLoad, Busy, InStep
<1>11. CASE ConvMac
  <2>1. Pixel' = Pixel /\ Elapsed = Pixel * ConvCost + 1 + ky * K_W + kx
    BY <1>11 DEF ConvMac, Pixel, Elapsed
  <2>2. ky * K_W \in Nat /\ (ky + 1) * K_W = ky * K_W + K_W
    BY <1>1, OneMore
  <2>3. kx <= K_W - 1 /\ ky <= K_H - 1
    BY <1>1 DEF TypeOK, LoopsOK
  <2>4. CASE kx < K_W - 1
    <3>1. Elapsed' = Pixel * ConvCost + 1 + ky * K_W + (kx + 1)
      BY <1>11, <2>1, <2>4 DEF ConvMac, Elapsed, ConvCost
    <3> QED BY <1>1, <1>5, <1>11, <2>1, <2>2, <3>1 DEF ConvMac, Busy, InStep
  <2>5. CASE kx = K_W - 1 /\ ky < K_H - 1
    <3>1. Elapsed' = Pixel * ConvCost + 1 + (ky + 1) * K_W + 0
      BY <1>1, <1>11, <2>1, <2>5 DEF ConvMac, Elapsed, ConvCost
    <3>2. Elapsed' = Elapsed + 1
      BY <1>1, <1>5, <2>1, <2>2, <2>5, <3>1
    <3> QED BY <1>11, <3>2 DEF ConvMac, Busy, InStep
  <2>6. CASE kx = K_W - 1 /\ ky = K_H - 1
    <3>1. st' = "S_CONV_STORE"
      BY <1>1, <1>11, <2>6 DEF ConvMac
    <3>2. Elapsed' = Pixel * ConvCost + 1 + K_H * K_W
      BY <2>1, <3>1 DEF Elapsed, ConvCost
    <3>3. ky + 1 = K_H
      BY <1>1, <2>6
    <3>4. K_H * K_W = ky * K_W + K_W
      BY <2>2, <3>3
    <3>5. Elapsed' = Elapsed + 1
      BY <1>1, <1>5, <2>1, <2>2, <2>6, <3>2, <3>4
    <3> QED BY <1>11, <3>1, <3>5 DEF ConvMac, Busy, InStep
  <2> QED BY <1>1, <2>3, <2>4, <2>5, <2>6
<1>12. CASE ConvStore
  <2>1. Elapsed = Pixel * ConvCost + 1 + K_H * K_W
    BY <1>12 DEF ConvStore, Elapsed
  <2>2. Elapsed + 1 = (Pixel + 1) * ConvCost
    BY <1>5, <2>1, Costs
  <2>3. CASE ~LastPixel
    <3>1. Elapsed' = (Pixel + 1) * ConvCost
      BY <1>12, <2>3, NextPixel DEF ConvStore, Elapsed, ConvCost
    <3> QED BY <1>12, <2>2, <2>3, <3>1 DEF ConvStore, Busy, InStep
  <2>4. CASE LastPixel
    <3>1. st' = "S_FC_LOAD" /\ f' = 0
      BY <1>12, <2>4 DEF ConvStore
    <3>2. ConvCycles = (Pixel + 1) * ConvCost
      BY <1>12, <2>4, NextPixel DEF ConvCycles
    <3>3. 0 * (FEAT + 2) = 0
      BY <1>1
    <3>4. Elapsed' = ConvCycles + 0 * (FEAT + 2)
      BY <3>1 DEF Elapsed, ConvCycles, ConvCost
    <3>5. Elapsed' = Elapsed + 1
      BY <2>2, <3>2, <3>3, <3>4, Costs
    <3> QED BY <1>12, <3>1, <3>5 DEF ConvStore, Busy, InStep
  <2> QED BY <2>3, <2>4
<1>13. CASE FcLoad
  <2>1. Elapsed' = Elapsed + 1
    BY <1>6, <1>13, Costs DEF FcLoad, Elapsed, convVars, ConvCycles, ConvCost
  <2> QED BY <1>13, <2>1 DEF FcLoad, Busy, InStep
<1>14. CASE FcMac
  <2>1. Elapsed = ConvCycles + f * (FEAT + 2) + 1 + ii
    BY <1>14 DEF FcMac, Elapsed
  <2>2. CASE ii < FEAT - 1
    <3>1. Elapsed' = ConvCycles + f * (FEAT + 2) + 1 + (ii + 1)
      BY <1>14, <2>2 DEF FcMac, Elapsed, ConvCycles, ConvCost
    <3> QED
      BY <1>1, <1>6, <1>14, <2>1, <2>2, <3>1, Costs DEF FcMac, Busy, InStep
  <2>3. CASE ii = FEAT - 1
    <3>1. st' = "S_FC_STORE" /\ f' = f
      BY <1>1, <1>14, <2>3 DEF FcMac
    <3>2. Elapsed' = ConvCycles + f * (FEAT + 2) + 1 + FEAT
      BY <3>1 DEF Elapsed, ConvCycles, ConvCost
    <3>3. Elapsed' = Elapsed + 1
      BY <1>1, <1>6, <2>1, <2>3, <3>2, Costs
    <3> QED BY <1>14, <3>1, <3>3 DEF FcMac, Busy, InStep
  <2> QED BY <1>1, <2>2, <2>3 DEF TypeOK, LoopsOK
<1>15. CASE FcStore
  <2>1. Elapsed = ConvCycles + f * (FEAT + 2) + 1 + FEAT
    BY <1>15 DEF FcStore, Elapsed
  <2>2. Elapsed + 1 = ConvCycles + (f + 1) * (FEAT + 2)
    BY <1>1, <1>6, <2>1, Costs
  <2>3. CASE f < FC_OUT - 1
    <3>1. Elapsed' = ConvCycles + (f + 1) * (FEAT + 2)
      BY <1>15, <2>3 DEF FcStore, Elapsed, ConvCycles, ConvCost
    <3> QED BY <1>15, <2>2, <2>3, <3>1 DEF FcStore, Busy, InStep
  <2>4. CASE f = FC_OUT - 1
    <3>1. st' = "S_ARGMAX" /\ am_f' = 0
      BY <1>1, <1>15, <2>4 DEF FcStore
    <3>2. f + 1 = FC_OUT
      BY <1>1, <2>4
    <3>3. FcCycles = (f + 1) * (FEAT + 2)
      BY <3>2 DEF FcCycles
    <3>4. Elapsed' = ConvCycles + FcCycles + 0
      BY <3>1 DEF Elapsed, ConvCycles, FcCycles, ConvCost
    <3>5. Elapsed' = Elapsed + 1
      BY <2>2, <3>3, <3>4, Costs
    <3> QED BY <1>15, <3>1, <3>5 DEF FcStore, Busy, InStep
  <2> QED BY <1>1, <2>3, <2>4 DEF TypeOK, LoopsOK
<1>16. CASE Argmax
  <2>1. Elapsed = ConvCycles + FcCycles + am_f
    BY <1>16 DEF Argmax, Elapsed
  <2>2. CASE am_f < FC_OUT - 1
    <3>1. Elapsed' = ConvCycles + FcCycles + (am_f + 1)
      BY <1>16, <2>2 DEF Argmax, Elapsed, ConvCycles, FcCycles, ConvCost
    <3> QED BY <1>1, <1>16, <2>1, <2>2, <3>1, Costs DEF Argmax, Busy, InStep
  <2>3. CASE am_f = FC_OUT - 1
    <3>1. st' = "S_DONE"
      BY <1>1, <1>16, <2>3 DEF Argmax
    <3>2. Elapsed' = ConvCycles + FcCycles + FC_OUT
      BY <3>1 DEF Elapsed, ConvCycles, FcCycles, ConvCost
    <3>3. Elapsed' = Elapsed + 1
      BY <1>1, <2>1, <2>3, <3>2, Costs
    <3> QED BY <1>16, <3>1, <3>3 DEF Argmax, Busy, InStep
  <2> QED BY <1>1, <2>2, <2>3 DEF TypeOK, LoopsOK
<1>17. CASE Done
  <2>1. Elapsed = ConvCycles + FcCycles + FC_OUT
    BY <1>17 DEF Done, Elapsed
  <2>2. Elapsed' = ConvCycles + FcCycles + FC_OUT + 1
    BY <1>17 DEF Done, Elapsed, InferenceCycles, ConvCycles, FcCycles, ConvCost
  <2> QED BY <1>1, <1>17, <2>1, <2>2, Costs DEF Done, InStep
<1> QED
  BY <1>7, <1>8, <1>9, <1>10, <1>11, <1>12, <1>13, <1>14, <1>15, <1>16, <1>17
     DEF SeqStep

\* The cycle counter and the loops never drift apart.
THEOREM InStepAlways == SeqSpec => []InStep
<1>1. SeqInit => InStep
  BY DEF SeqInit, InStep
<1>2. TypeOK /\ InStep /\ [SeqNext]_seqVars => InStep'
  <2> SUFFICES ASSUME TypeOK, InStep, [SeqNext]_seqVars
               PROVE  InStep'
    OBVIOUS
  <2>1. CASE SeqTick
    BY <2>1, StepCounts DEF SeqTick
  <2>2. CASE SeqReset
    BY <2>2 DEF SeqReset, InStep
  <2>3. CASE UNCHANGED seqVars
    <3>1. Elapsed' = Elapsed
      BY <2>3 DEF seqVars, loopVars, convVars, fcVars, Elapsed, Pixel,
                  ConvCycles, FcCycles, InferenceCycles, ConvCost
    <3> QED BY <2>3, <3>1 DEF seqVars, InStep
  <2> QED BY <2>1, <2>2, <2>3 DEF SeqNext
<1>3. QED BY <1>1, <1>2, TypeCorrect, PTL DEF SeqSpec

\* A finished inference has taken exactly InferenceCycles, for every network.
THEOREM ExactCyclesAlways == SeqSpec => []ExactCycles
<1>1. InStep => ExactCycles
  BY DEF InStep, ExactCycles, Elapsed
<1>2. QED BY <1>1, InStepAlways, PTL

\* For the network soc_top_axi.sv instantiates (10 x 8 kernels, 8 filters,
\* 25 x 20 outputs, 4000 features, 4 classes) that is 344013 cycles.
THEOREM SocInference ==
  ASSUME K_H = 10, K_W = 8, N_FILT = 8, OUT_H = 25, OUT_W = 20,
         FEAT = 4000, FC_OUT = 4
  PROVE  SeqSpec => [](done_o => cycle_cnt_o = 344013)
<1>1. InferenceCycles = 344013
  BY SMT DEF InferenceCycles, ConvCycles, FcCycles, ConvCost
<1>2. ExactCycles => (done_o => cycle_cnt_o = 344013)
  BY <1>1 DEF ExactCycles
<1>3. QED BY <1>2, ExactCyclesAlways, PTL

-----------------------------------------------------------------------------
(***************************************************************************)
(* The datapath: its indices.                                              *)
(***************************************************************************)

\* A row-major index of an m by n array is inside the array.
LEMMA RowMajor ==
  ASSUME NEW m \in Nat, NEW n \in Nat,
         NEW a \in 0 .. m - 1, NEW b \in 0 .. n - 1
  PROVE  a * n + b \in 0 .. m * n - 1
<1>1. a * n \in Nat /\ m * n \in Nat
  OBVIOUS
<1>2. (m - 1 - a) * n \in Nat
  OBVIOUS
<1>3. (m - 1 - a) * n = m * n - n - a * n
  OBVIOUS
<1> QED
  BY <1>1, <1>2, <1>3

\* The memories keep the sizes they were loaded with, actm its own.
Sized ==
  /\ DOMAIN imem = 0 .. IN_H * IN_W - 1
  /\ DOMAIN wconv = 0 .. (N_FILT * K_H) * K_W - 1
  /\ DOMAIN wfc = 0 .. FC_OUT * FEAT - 1
  /\ DOMAIN actm = 0 .. FEAT - 1

\* Loop counters within their loops form indices within the memories.
LEMMA IndicesFit ==
  ASSUME LoopsOK, Sized
  PROVE  InBounds
<1> USE SequencerAssumption, AccelAssumption
<1>1. ASSUME Inside(iy, ix) PROVE iy * IN_W + ix \in DOMAIN imem
  <2>1. iy \in 0 .. IN_H - 1 /\ ix \in 0 .. IN_W - 1
    BY <1>1 DEF Inside
  <2>2. iy * IN_W + ix \in 0 .. IN_H * IN_W - 1
    BY <2>1, RowMajor
  <2> QED BY <2>2 DEF Sized
<1>2. wc_idx \in DOMAIN wconv
  <2>1. c * K_H + ky \in 0 .. N_FILT * K_H - 1
    BY RowMajor DEF LoopsOK
  <2>2. N_FILT * K_H \in Nat /\ kx \in 0 .. K_W - 1
    BY DEF LoopsOK
  <2>3. (c * K_H + ky) * K_W + kx \in 0 .. (N_FILT * K_H) * K_W - 1
    BY <2>1, <2>2, RowMajor
  <2> QED BY <2>3 DEF wc_idx, Sized
<1>3. act_idx \in DOMAIN actm
  <2>1. c * OUT_H + oy \in 0 .. N_FILT * OUT_H - 1
    BY RowMajor DEF LoopsOK
  <2>2. N_FILT * OUT_H \in Nat /\ ox \in 0 .. OUT_W - 1
    BY DEF LoopsOK
  <2>3. (c * OUT_H + oy) * OUT_W + ox \in 0 .. (N_FILT * OUT_H) * OUT_W - 1
    BY <2>1, <2>2, RowMajor
  <2> QED BY <2>3 DEF act_idx, Sized
<1>4. wf_idx \in DOMAIN wfc /\ ii \in DOMAIN actm
  <2>1. f * FEAT + ii \in 0 .. FC_OUT * FEAT - 1
    BY RowMajor DEF LoopsOK
  <2> QED BY <2>1 DEF wf_idx, Sized, LoopsOK
<1> QED
  BY <1>1, <1>2, <1>3, <1>4 DEF InBounds

\* The datapath does nothing the sequencer of its own would not do.
LEMMA Sequences ==
  BenchSpec => SeqSpec
<1>1. BenchInit => SeqInit
  BY DEF BenchInit, AccelInit
<1>2. [BenchNext]_accelVars => [SeqNext]_seqVars
  BY DEF BenchNext, BenchTick, BenchReset, AccelStep, AccelReset, SeqNext,
         SeqTick, accelVars
<1> QED BY <1>1, <1>2, PTL DEF BenchSpec, SeqSpec

\* Writing an activation changes its value, never the size of the memory.
LEMMA SizedAlways == BenchSpec => []Sized
<1>1. BenchInit => Sized
  BY AccelAssumption DEF BenchInit, AccelInit, Sized, IsNetwork
<1>2. Sized /\ [BenchNext]_accelVars => Sized'
  <2> SUFFICES ASSUME Sized, [BenchNext]_accelVars PROVE Sized'
    OBVIOUS
  <2>1. UNCHANGED <<imem, wconv, wfc>>
    BY DEF BenchNext, BenchTick, BenchReset, accelVars, inputVars
  <2>2. DOMAIN actm' = DOMAIN actm
    BY DEF BenchNext, BenchTick, BenchReset, AccelStep, AccelReset, DataStep,
           accelVars, dataVars
  <2> QED BY <2>1, <2>2 DEF Sized
<1> QED BY <1>1, <1>2, PTL DEF BenchSpec

\* For every network: the datapath never indexes a memory outside its bounds,
\* so the truncation of the indices to $clog2 bits changes none of them.
THEOREM InBoundsAlways == BenchSpec => []InBounds
<1>1. TypeOK => LoopsOK
  BY DEF TypeOK
<1>2. LoopsOK /\ Sized => InBounds
  BY IndicesFit
<1> QED BY <1>1, <1>2, Sequences, SizedAlways, TypeCorrect, PTL

\* For every network the datapath takes the sequencer's cycles: what it
\* computes never changes how long it computes.
THEOREM DataIndependentCycles == BenchSpec => []ExactCycles
  BY Sequences, ExactCyclesAlways, PTL

-----------------------------------------------------------------------------
(***************************************************************************)
(* Natural numbers.                                                        *)
(***************************************************************************)

\* A set of numbers that is not empty has a least one.
LEMMA LeastNatural ==
  ASSUME NEW T, T \subseteq Nat, T # {}
  PROVE  \E x \in T : \A y \in T : x <= y
<1> DEFINE U == {0 .. n : n \in T}
           R == StrictSubsetOrdering(Nat)
<1>1. IsWellFoundedOn(R, FiniteSubsetsOf(Nat))
  BY FS_StrictSubsetOrderingWellFounded
<1>2. U \subseteq FiniteSubsetsOf(Nat) /\ U # {}
  <2>1. ASSUME NEW n \in T
        PROVE  0 .. n \in FiniteSubsetsOf(Nat)
    BY FS_Interval DEF FiniteSubsetsOf
  <2> QED BY <2>1
<1> HIDE DEF U, R
<1>3. PICK u \in U : \A v \in U : ~ (<<v, u>> \in R)
  BY <1>1, <1>2, WFMin, Zenon
<1>4. PICK x \in T : u = 0 .. x
  BY DEF U
<1>5. ASSUME NEW y \in T
      PROVE  x <= y
  <2>1. 0 .. y \in U
    BY DEF U
  <2>2. ~ (<<0 .. y, 0 .. x>> \in R)
    BY <1>3, <1>4, <2>1
  <2>3. ~ (0 .. y \subseteq 0 .. x /\ 0 .. y # 0 .. x)
    BY <2>2 DEF R, StrictSubsetOrdering
  <2> QED BY <2>3
<1>6. QED BY <1>5


-----------------------------------------------------------------------------
(***************************************************************************)
(* Arithmetic: two's complement, sums and indices.                         *)
(***************************************************************************)

\* A number is what quotient and remainder make of it.
LEMMA DivisionRemakes ==
  ASSUME NEW n \in Int, NEW d \in Nat \ {0}
  PROVE  /\ n = (n \div d) * d + (n % d)
         /\ n % d \in 0 .. d - 1 /\ n \div d \in Int
<1> DEFINE q == n \div d
           r == n % d
<1>1. q = n \div d /\ r = n % d
  OBVIOUS
<1> HIDE DEF q, r
<1>2. n = q * d + r /\ r \in 0 .. d - 1 /\ q \in Int
  BY <1>1, Z3
<1>3. QED BY <1>1, <1>2, Zenon

\* And in one way only.
LEMMA DivisionUnique ==
  ASSUME NEW n \in Int, NEW d \in Nat \ {0}, NEW q \in Int,
         NEW r \in 0 .. d - 1, n = q * d + r
  PROVE  n \div d = q /\ n % d = r
BY Z3

\* Adding multiples of the modulus does not change a remainder.
LEMMA SameRemainder ==
  ASSUME NEW b \in Int, NEW d \in Nat \ {0}, NEW z \in Int
  PROVE  (b + z * d) % d = b % d
<1> DEFINE q == b \div d
           r == b % d
<1>1. q = b \div d /\ r = b % d
  OBVIOUS
<1> HIDE DEF q, r
<1>2. b = q * d + r /\ r \in 0 .. d - 1 /\ q \in Int
  BY <1>1, DivisionRemakes, Zenon
<1>3. b + z * d = (q + z) * d + r /\ q + z \in Int /\ b + z * d \in Int
  BY <1>2
<1>4. (b + z * d) % d = r
  BY <1>2, <1>3, DivisionUnique, Zenon
<1>5. QED BY <1>1, <1>4

\* Two sums that wrap to the same number differ by a multiple of the modulus.
LEMMA Differ ==
  ASSUME NEW a \in Int, NEW b \in Int, NEW d \in Nat \ {0}, a % d = b % d
  PROVE  \E z \in Int : a = b + z * d
<1> DEFINE q == a \div d
           r == a % d
           p == b \div d
           s == b % d
<1>1. q = a \div d /\ r = a % d /\ p = b \div d /\ s = b % d /\ r = s
  OBVIOUS
<1> HIDE DEF q, r, p, s
<1>2. a = q * d + r /\ q \in Int /\ r \in 0 .. d - 1
  BY <1>1, DivisionRemakes, Zenon
<1>3. b = p * d + s /\ p \in Int
  BY <1>1, DivisionRemakes, Zenon
<1>4. q - p \in Int /\ a = b + (q - p) * d
  BY <1>1, <1>2, <1>3
<1>5. QED BY <1>4

\* What the width of acc makes of a number.
LEMMA WrapInt ==
  ASSUME NEW x \in Int
  PROVE  /\ Wrap(x) \in Int /\ Wrap(x) \in Signed
         /\ \E z \in Int : Wrap(x) = x + z * (2 * Half)
         /\ x \in Signed => Wrap(x) = x
<1> DEFINE d == 2 * Half
           q == (x + Half) \div d
           r == (x + Half) % d
<1>1. Half \in Int /\ d \in Nat \ {0} /\ x + Half \in Int
  BY PowersOfTwo
<1>2. q = (x + Half) \div d /\ r = (x + Half) % d /\ Wrap(x) = r - Half
  BY DEF Wrap
<1>3. d = 2 * Half
  OBVIOUS
<1> HIDE DEF q, r, d
<1>4. x + Half = q * d + r /\ r \in 0 .. d - 1 /\ q \in Int
  BY <1>1, <1>2, DivisionRemakes, Zenon
<1>5. Wrap(x) \in Int
  BY <1>1, <1>2, <1>4
<1>6. -q \in Int /\ Wrap(x) = x + (-q) * d
  BY <1>1, <1>2, <1>4
<1>7. ASSUME x \in Signed PROVE Wrap(x) = x
  <2>1. x + Half \in 0 .. d - 1 /\ 0 \in Int /\ x + Half = 0 * d + (x + Half)
    BY <1>1, <1>3, <1>7 DEF Signed
  <2>2. (x + Half) % d = x + Half
    BY <1>1, <2>1, DivisionUnique, Zenon
  <2> QED BY <1>1, <1>2, <2>2
<1>8. Wrap(x) \in Signed
  BY <1>1, <1>2, <1>3, <1>4 DEF Signed
<1>9. QED BY <1>3, <1>5, <1>6, <1>7, <1>8

\* Wrapping does not lose what a sum is modulo the width: acc may wrap at any
\* addition and the sum still agrees with the reference's.
LEMMA WrapAdds ==
  ASSUME NEW a \in Int, NEW b \in Int, NEW t \in Int, Wrap(a) = Wrap(b)
  PROVE  Wrap(Wrap(a + t)) = Wrap(b + t) /\ Wrap(a + t) = Wrap(b + t)
<1> DEFINE d == 2 * Half
<1>1. Half \in Int /\ d \in Nat \ {0}
  BY PowersOfTwo
<1>2. \A x : Wrap(x) = ((x + Half) % d) - Half
  BY DEF Wrap
<1>3. \A x \in Int : Wrap(x) \in Int /\ \E z \in Int : Wrap(x) = x + z * d
  BY WrapInt
<1> HIDE DEF d
<1>4. ASSUME NEW x \in Int, NEW y \in Int, NEW z \in Int, x = y + z * d
      PROVE  Wrap(x) = Wrap(y)
  <2> DEFINE u == x + Half
             v == y + Half
  <2>1. u \in Int /\ v \in Int /\ u = v + z * d
    BY <1>1, <1>4
  <2>2. Wrap(x) = (u % d) - Half /\ Wrap(y) = (v % d) - Half
    BY <1>2
  <2> HIDE DEF u, v
  <2>3. u % d = v % d
    <3>1. (v + z * d) % d = v % d
      BY <1>1, <2>1, SameRemainder, Zenon
    <3> QED BY <2>1, <3>1, Zenon
  <2> QED BY <2>2, <2>3
<1>5. (a + Half) % d = (b + Half) % d
  <2>1. (a + Half) % d \in Int /\ (b + Half) % d \in Int
    BY <1>1
  <2>2. ((a + Half) % d) - Half = ((b + Half) % d) - Half
    BY <1>2
  <2> HIDE DEF d
  <2> QED BY <1>1, <2>1, <2>2
<1>6. PICK z \in Int : a + Half = (b + Half) + z * d
  <2>1. a + Half \in Int /\ b + Half \in Int
    BY <1>1
  <2> QED BY <1>1, <1>5, <2>1, Differ, Zenon
<1>7. a + t \in Int /\ b + t \in Int /\ a + t = (b + t) + z * d
  BY <1>1, <1>6
<1>8. Wrap(a + t) = Wrap(b + t)
  BY <1>4, <1>7, Zenon
<1>9. PICK y \in Int : Wrap(a + t) = (a + t) + y * d
  BY <1>3, <1>7
<1>10. Wrap(Wrap(a + t)) = Wrap(a + t)
  <2> DEFINE w == Wrap(a + t)
  <2>1. w \in Int /\ w = (a + t) + y * d
    BY <1>3, <1>7, <1>9
  <2> HIDE DEF w
  <2>2. Wrap(w) = Wrap(a + t)
    BY <1>4, <1>7, <2>1
  <2> QED BY <2>2 DEF w
<1>11. QED BY <1>8, <1>10

\* What acc has been after each addition.
LEMMA RunningIs ==
  ASSUME NEW bias \in Int, NEW len \in Nat, NEW term,
         \A t \in 0 .. len - 1 : term[t] \in Int
  PROVE  /\ Running(bias, term, len) \in [0 .. len -> Int]
         /\ Running(bias, term, len)[0] = bias
         /\ \A n \in 0 .. len - 1 :
              Running(bias, term, len)[n + 1]
                = Running(bias, term, len)[n] + term[n]
<1> DEFINE Sums(g, n) ==
             /\ g \in [0 .. n -> Int] /\ g[0] = bias
             /\ \A i \in 0 .. n - 1 : g[i + 1] = g[i] + term[i]
           T == {n \in Nat : n <= len /\ ~ \E g : Sums(g, n)}
<1>1. T = {}
  <2>1. SUFFICES ASSUME T # {} PROVE FALSE
    OBVIOUS
  <2>2. PICK x \in T : \A y \in T : x <= y
    <3>1. T \subseteq Nat
      OBVIOUS
    <3> HIDE DEF T
    <3> QED BY <2>1, <3>1, LeastNatural
  <2>3. x \in Nat /\ x <= len /\ ~ \E g : Sums(g, x)
    OBVIOUS
  <2>4. x # 0
    <3>1. Sums([i \in 0 .. 0 |-> bias], 0)
      OBVIOUS
    <3> QED BY <2>3, <3>1
  <2>5. x - 1 \in Nat /\ x - 1 \notin T
    <3>1. x - 1 \in Nat
      BY <2>3, <2>4
    <3> HIDE DEF T
    <3>2. ASSUME x - 1 \in T PROVE FALSE
      <4>1. x <= x - 1
        BY <2>2, <3>2
      <4> QED BY <2>3, <4>1
    <3> QED BY <3>1, <3>2
  <2>6. PICK g : Sums(g, x - 1)
    BY <2>3, <2>5
  <2> DEFINE h == [i \in 0 .. x |-> IF i = x THEN g[x - 1] + term[x - 1]
                                    ELSE g[i]]
  <2>7. h \in [0 .. x -> Int] /\ h[0] = bias
    BY <2>3, <2>4, <2>5, <2>6
  <2>8. ASSUME NEW i \in 0 .. x - 1 PROVE h[i + 1] = h[i] + term[i]
    <3>1. CASE i = x - 1
      BY <2>3, <2>4, <3>1
    <3>2. CASE i < x - 1
      BY <2>3, <2>6, <3>2
    <3> QED BY <2>3, <3>1, <3>2
  <2>9. Sums(h, x)
    BY <2>7, <2>8
  <2> QED BY <2>3, <2>9
<1>2. PICK g : Sums(g, len)
  <2>1. len \in Nat /\ len <= len /\ len \notin T
    <3> HIDE DEF T
    <3> QED BY <1>1
  <2> HIDE DEF Sums
  <2> QED BY <2>1
<1> DEFINE Unfolds(s) ==
             s = [n \in 0 .. len |-> IF n = 0 THEN bias
                                     ELSE s[n - 1] + term[n - 1]]
<1>3. Unfolds(g)
  <2>1. ASSUME NEW n \in 0 .. len
        PROVE  g[n] = IF n = 0 THEN bias ELSE g[n - 1] + term[n - 1]
    <3>1. CASE n # 0
      <4>1. n - 1 \in 0 .. len - 1 /\ (n - 1) + 1 = n
        BY <3>1
      <4> QED BY <1>2, <3>1, <4>1
    <3> QED BY <1>2, <3>1
  <2> QED BY <1>2, <2>1
<1> DEFINE s == Running(bias, term, len)
<1>4. s = CHOOSE x : Unfolds(x)
  BY DEF Running
<1> HIDE DEF s
<1>5. Unfolds(s)
  <2> HIDE DEF Unfolds
  <2> QED BY <1>3, <1>4, Zenon
<1>6. s[0] = bias
  BY <1>5
<1>7. ASSUME NEW n \in 0 .. len - 1 PROVE s[n + 1] = s[n] + term[n]
  <2>1. n + 1 \in 0 .. len /\ n + 1 # 0 /\ (n + 1) - 1 = n
    OBVIOUS
  <2> QED BY <1>5, <2>1
<1>8. s = g
  <2> DEFINE E == {n \in Nat : n <= len /\ s[n] # g[n]}
  <2>1. E = {}
    <3>1. SUFFICES ASSUME E # {} PROVE FALSE
      OBVIOUS
    <3>2. PICK x \in E : \A y \in E : x <= y
      <4>1. E \subseteq Nat
        OBVIOUS
      <4> HIDE DEF E
      <4> QED BY <3>1, <4>1, LeastNatural
    <3>3. x \in Nat /\ x <= len /\ s[x] # g[x] /\ x # 0
      BY <1>2, <1>6
    <3>4. x - 1 \in 0 .. len - 1 /\ x - 1 \notin E /\ (x - 1) + 1 = x
      BY <3>2, <3>3
    <3>5. s[x - 1] = g[x - 1]
      BY <3>4
    <3> QED BY <1>2, <1>7, <3>3, <3>4, <3>5
  <2>2. \A n \in 0 .. len : s[n] = g[n]
    BY <2>1
  <2>3. DOMAIN s = 0 .. len
    BY <1>5
  <2> QED BY <1>2, <1>5, <2>2
<1>9. QED BY <1>2, <1>6, <1>7, <1>8 DEF s

-----------------------------------------------------------------------------
(***************************************************************************)
(* The datapath computes what gen_golden.py computes, with every finished  *)
(* sum cut to the width of acc; where the sums fit that is the same.       *)
(***************************************************************************)
WrapAct(m) == [i \in 0 .. FEAT - 1 |-> GoldClamp(Wrap(GoldSums(m)[i]))]

WrapFc(m, k) ==
  Running(m.bfc[k],
          [i \in 0 .. FEAT - 1 |-> WrapAct(m)[i] * m.wfc[k * FEAT + i]], FEAT)

WrapLogit(m) == [k \in 0 .. FC_OUT - 1 |-> Wrap(WrapFc(m, k)[FEAT])]

\* The first n activations, and the first n logits, are these.
ActsDone(m, n) == \A i \in 0 .. n - 1 : actm[i] = WrapAct(m)[i]
LogitsDone(m, n) == \A k \in 0 .. n - 1 : logitm[k] = WrapLogit(m)[k]

\* The scan for the largest logit has seen the first n of them.
Scanned(logit, n) ==
  /\ am_best \in Int /\ am_idx \in 0 .. n /\ am_idx \in 0 .. FC_OUT - 1
  /\ \A k \in 0 .. n - 1 :
       logit[k] < am_best \/ (logit[k] = am_best /\ am_idx <= k)
  /\ am_best = logit[am_idx] \/ (am_best = -Half /\ am_idx = 0)

Right(m) ==
  /\ logitm = WrapLogit(m)
  /\ argmax_o = GoldArgmax(WrapLogit(m))

\* acc is a sum modulo the width; after the last addition, which wraps, it is
\* the sum cut to the width.
ConvComputes(m) ==
  /\ st \in {"S_CONV_LOAD", "S_CONV_MAC", "S_CONV_STORE"} => ActsDone(m, Pixel)
  /\ st = "S_CONV_MAC" =>
       /\ acc \in Int
       /\ Wrap(acc) = Wrap(GoldConv(m, c, oy, ox)[ky * K_W + kx])
  /\ st = "S_CONV_STORE" => acc = Wrap(GoldConv(m, c, oy, ox)[K_H * K_W])

FcComputes(m) ==
  /\ st \in {"S_FC_LOAD", "S_FC_MAC", "S_FC_STORE"} =>
       ActsDone(m, FEAT) /\ LogitsDone(m, f)
  /\ st = "S_FC_MAC" => acc \in Int /\ Wrap(acc) = Wrap(WrapFc(m, f)[ii])
  /\ st = "S_FC_STORE" => acc = Wrap(WrapFc(m, f)[FEAT])

ArgmaxComputes(m) ==
  /\ st = "S_ARGMAX" => LogitsDone(m, FC_OUT) /\ Scanned(WrapLogit(m), am_f)
  /\ st = "S_DONE" => Right(m)

\* logitm is a memory of FC_OUT words from the start.
LogitsSized == logitm = [k \in 0 .. FC_OUT - 1 |-> logitm[k]]

\* What a run on the network m has computed, wherever it stands.
Computes(m) == ConvComputes(m) /\ FcComputes(m) /\ ArgmaxComputes(m)

\* Row-major indices come apart again.
LEMMA RowsApart ==
  ASSUME NEW a \in Nat, NEW n \in Nat \ {0}, NEW b \in 0 .. n - 1
  PROVE  a * n + b \in Nat /\ (a * n + b) \div n = a /\ (a * n + b) % n = b
<1> DEFINE i == a * n + b
<1>1. a * n \in Nat
  OBVIOUS
<1>2. i \in Nat /\ i = a * n + b
  BY <1>1
<1> HIDE DEF i
<1>3. i \div n = a /\ i % n = b
  BY <1>2, DivisionUnique
<1>4. QED BY <1>2, <1>3 DEF i

\* So does a tap's number in its kernel, and a pixel's number in its plane.
LEMMA Apart ==
  ASSUME NEW n \in Nat \ {0}, NEW h \in Nat, NEW t \in 0 .. h * n - 1
  PROVE  t \div n \in 0 .. h - 1 /\ t % n \in 0 .. n - 1
<1> DEFINE q == t \div n
           r == t % n
<1>1. q = t \div n /\ r = t % n
  OBVIOUS
<1>0. h * n \in Nat
  OBVIOUS
<1>2. t \in Int /\ 0 <= t /\ t < h * n
  BY <1>0
<1> HIDE DEF q, r
<1>3. t = q * n + r /\ q \in Int /\ r \in 0 .. n - 1
  BY <1>1, <1>2, DivisionRemakes, Zenon
<1>4. q >= 0
  <2>1. SUFFICES ASSUME q <= -1 PROVE FALSE
    BY <1>3
  <2>2. (-1 - q) * n \in Nat /\ (-1 - q) * n = -n - q * n
    BY <2>1, <1>3
  <2> QED BY <1>2, <1>3, <2>2
<1>5. q < h
  <2>1. SUFFICES ASSUME q >= h PROVE FALSE
    BY <1>3
  <2>2. (q - h) * n \in Nat /\ (q - h) * n = q * n - h * n
    BY <2>1, <1>3
  <2> QED BY <1>0, <1>2, <1>3, <2>2
<1>6. QED BY <1>1, <1>3, <1>4, <1>5

\* A tap is a number, inside the plane or not.
LEMMA TapInt ==
  ASSUME NEW m, IsNetwork(m), NEW y \in Int, NEW x \in Int
  PROVE  Tap(m.imem, y, x) \in Int
<1>1. ASSUME Inside(y, x) PROVE m.imem[y * IN_W + x] \in Int
  <2>1. y * IN_W + x \in 0 .. IN_H * IN_W - 1
    BY <1>1, AccelAssumption, RowMajor DEF Inside
  <2> QED BY <2>1 DEF IsNetwork
<1>2. QED BY <1>1 DEF Tap

\* The taps of every filter are numbers.
LEMMA TapsInt ==
  ASSUME NEW m, IsNetwork(m), NEW k \in 0 .. N_FILT - 1, NEW y \in Int,
         NEW x \in Int
  PROVE  \A t \in 0 .. K_H * K_W - 1 : GoldTaps(m, k, y, x)[t] \in Int
<1> USE SequencerAssumption, AccelAssumption
<1>1. SUFFICES ASSUME NEW t \in 0 .. K_H * K_W - 1
               PROVE  GoldTaps(m, k, y, x)[t] \in Int
  OBVIOUS
<1> DEFINE q == t \div K_W
           r == t % K_W
<1>2. q \in 0 .. K_H - 1 /\ r \in 0 .. K_W - 1
  BY Apart
<1>3. GoldTaps(m, k, y, x)[t]
        = Tap(m.imem, y * STRIDE - PAD_H + q, x * STRIDE - PAD_W + r)
            * m.wconv[(k * K_H + q) * K_W + r]
  BY DEF GoldTaps
<1> HIDE DEF q, r
<1>4. Tap(m.imem, y * STRIDE - PAD_H + q, x * STRIDE - PAD_W + r) \in Int
  <2>1. y * STRIDE - PAD_H + q \in Int /\ x * STRIDE - PAD_W + r \in Int
    BY <1>2
  <2> QED BY <2>1, TapInt
<1>5. m.wconv[(k * K_H + q) * K_W + r] \in Int
  <2>1. k * K_H + q \in 0 .. N_FILT * K_H - 1
    BY <1>2, RowMajor
  <2>2. N_FILT * K_H \in Nat
    OBVIOUS
  <2>3. (k * K_H + q) * K_W + r \in 0 .. (N_FILT * K_H) * K_W - 1
    BY <1>2, <2>1, <2>2, RowMajor
  <2> QED BY <2>3 DEF IsNetwork
<1>6. QED BY <1>3, <1>4, <1>5

\* The sums of a convolution.
LEMMA ConvIs ==
  ASSUME NEW m, IsNetwork(m), NEW k \in 0 .. N_FILT - 1, NEW y \in Int,
         NEW x \in Int
  PROVE  /\ GoldConv(m, k, y, x) \in [0 .. K_H * K_W -> Int]
         /\ GoldConv(m, k, y, x)[0] = m.bconv[k] /\ m.bconv[k] \in Int
         /\ \A t \in 0 .. K_H * K_W - 1 :
              GoldConv(m, k, y, x)[t + 1]
                = GoldConv(m, k, y, x)[t] + GoldTaps(m, k, y, x)[t]
<1>1. m.bconv[k] \in Int
  BY DEF IsNetwork
<1>2. K_H * K_W \in Nat
  BY SequencerAssumption
<1>3. \A t \in 0 .. K_H * K_W - 1 : GoldTaps(m, k, y, x)[t] \in Int
  BY TapsInt
<1> DEFINE term == GoldTaps(m, k, y, x)
           bias == m.bconv[k]
           len == K_H * K_W
<1>4. /\ Running(bias, term, len) \in [0 .. len -> Int]
      /\ Running(bias, term, len)[0] = bias
      /\ \A n \in 0 .. len - 1 :
           Running(bias, term, len)[n + 1]
             = Running(bias, term, len)[n] + term[n]
  <2> HIDE DEF term, bias, len
  <2>1. bias \in Int /\ len \in Nat /\ \A n \in 0 .. len - 1 : term[n] \in Int
    BY <1>1, <1>2, <1>3 DEF term, bias, len
  <2> QED BY <2>1, RunningIs
<1>5. QED BY <1>1, <1>4 DEF GoldConv

\* Requantisation stays within an activation.
LEMMA ClampInt ==
  ASSUME NEW a \in Int
  PROVE  GoldClamp(a) \in Int
<1> DEFINE d == 2 ^ SHIFT
           r == IF a < 0 THEN 0 ELSE a
<1>1. d \in Nat \ {0} /\ r \in Int /\ ActMax \in Int
  BY PowersOfTwo, AccelAssumption
<1>2. GoldClamp(a) = IF r \div d > ActMax THEN ActMax ELSE r \div d
  BY DEF GoldClamp
<1> HIDE DEF d, r
<1>3. r \div d \in Int
  BY <1>1, DivisionRemakes, Zenon
<1>4. QED BY <1>1, <1>2, <1>3

\* The number of a pixel tells its filter, row and column.
LEMMA PixelIs ==
  ASSUME LoopsOK, NEW m
  PROVE  /\ Pixel \in 0 .. FEAT - 1
         /\ GoldSums(m)[Pixel] = GoldConv(m, c, oy, ox)[K_H * K_W]
<1> USE SequencerAssumption, AccelAssumption
<1>1. c \in Nat /\ oy \in 0 .. OUT_H - 1 /\ ox \in 0 .. OUT_W - 1
  BY DEF LoopsOK
<1>2. Pixel \in 0 .. FEAT - 1
  <2>1. c * OUT_H + oy \in 0 .. N_FILT * OUT_H - 1
    BY RowMajor DEF LoopsOK
  <2>2. N_FILT * OUT_H \in Nat /\ ox \in 0 .. OUT_W - 1
    BY DEF LoopsOK
  <2>3. (c * OUT_H + oy) * OUT_W + ox \in 0 .. (N_FILT * OUT_H) * OUT_W - 1
    BY <2>1, <2>2, RowMajor
  <2> QED BY <2>3 DEF Pixel
<1>3. c * OUT_H + oy \in Nat
  BY <1>1, RowsApart
<1>4. Pixel \div OUT_W = c * OUT_H + oy /\ Pixel % OUT_W = ox
  BY <1>1, <1>3, RowsApart DEF Pixel
<1>5. (Pixel \div OUT_W) % OUT_H = oy
  <2>1. (c * OUT_H + oy) % OUT_H = oy
    BY <1>1, RowsApart
  <2> QED BY <1>4, <2>1
<1>6. Pixel \div (OUT_H * OUT_W) = c
  <2>1. oy * OUT_W + ox \in 0 .. OUT_H * OUT_W - 1
    BY <1>1, RowMajor
  <2>2. Pixel = c * (OUT_H * OUT_W) + (oy * OUT_W + ox)
    <3>1. (c * OUT_H + oy) * OUT_W = c * (OUT_H * OUT_W) + oy * OUT_W
      BY <1>1
    <3>2. c * (OUT_H * OUT_W) \in Int /\ oy * OUT_W \in Int
      BY <1>1
    <3> QED BY <1>1, <3>1, <3>2 DEF Pixel
  <2>3. OUT_H * OUT_W \in Nat \ {0}
    OBVIOUS
  <2> QED BY <1>1, <2>1, <2>2, <2>3, RowsApart
<1>7. QED BY <1>2, <1>4, <1>5, <1>6 DEF GoldSums

\* A feature's filter, row and column.
LEMMA PlaceIs ==
  ASSUME NEW i \in 0 .. FEAT - 1
  PROVE  /\ i \div (OUT_H * OUT_W) \in 0 .. N_FILT - 1
         /\ (i \div OUT_W) % OUT_H \in Int /\ i % OUT_W \in Int
<1> USE SequencerAssumption, AccelAssumption
<1> DEFINE d == OUT_H * OUT_W
           q == i \div OUT_W
<1>1. d \in Nat \ {0} /\ FEAT = N_FILT * d
  OBVIOUS
<1>2. i \div d \in 0 .. N_FILT - 1
  <2> HIDE DEF d
  <2> QED BY <1>1, Apart
<1>3. q \in Int /\ i % OUT_W \in Int
  <2>1. q \in Int /\ i % OUT_W \in 0 .. OUT_W - 1
    BY DivisionRemakes
  <2> QED BY <2>1
<1>4. q % OUT_H \in Int
  <2> HIDE DEF q
  <2>1. q % OUT_H \in 0 .. OUT_H - 1
    BY <1>3, DivisionRemakes
  <2> QED BY <2>1
<1>5. QED BY <1>2, <1>3, <1>4

\* A sum of the reference is the sum of some filter somewhere.
LEMMA SumIs ==
  ASSUME NEW m, NEW i \in 0 .. FEAT - 1
  PROVE  \E k \in 0 .. N_FILT - 1 : \E y \in Int : \E x \in Int :
           GoldSums(m)[i] = GoldConv(m, k, y, x)[K_H * K_W]
<1> DEFINE k == i \div (OUT_H * OUT_W)
           y == (i \div OUT_W) % OUT_H
           x == i % OUT_W
<1>1. GoldSums(m)[i] = GoldConv(m, k, y, x)[K_H * K_W]
  BY DEF GoldSums
<1>2. k \in 0 .. N_FILT - 1 /\ y \in Int /\ x \in Int
  BY PlaceIs
<1> HIDE DEF k, y, x
<1>3. QED BY <1>1, <1>2

\* The reference's sums and activations are numbers.
LEMMA GoldInt ==
  ASSUME NEW m, IsNetwork(m), NEW i \in 0 .. FEAT - 1
  PROVE  /\ GoldSums(m)[i] \in Int /\ GoldAct(m)[i] \in Int
         /\ GoldAct(m)[i] = GoldClamp(GoldSums(m)[i])
<1>1. PICK k \in 0 .. N_FILT - 1, y \in Int, x \in Int :
        GoldSums(m)[i] = GoldConv(m, k, y, x)[K_H * K_W]
  BY SumIs
<1>2. GoldConv(m, k, y, x)[K_H * K_W] \in Int
  <2>1. K_H * K_W \in 0 .. K_H * K_W
    BY SequencerAssumption
  <2> QED BY <2>1, ConvIs
<1>3. GoldAct(m)[i] = GoldClamp(GoldSums(m)[i])
  BY DEF GoldAct
<1>4. QED BY <1>1, <1>2, <1>3, ClampInt

\* So are the activations of finished sums cut to the width of acc.
LEMMA WrapActInt ==
  ASSUME NEW m, IsNetwork(m), NEW i \in 0 .. FEAT - 1
  PROVE  /\ WrapAct(m)[i] \in Int
         /\ WrapAct(m)[i] = GoldClamp(Wrap(GoldSums(m)[i]))
<1>1. WrapAct(m)[i] = GoldClamp(Wrap(GoldSums(m)[i]))
  BY DEF WrapAct
<1>2. Wrap(GoldSums(m)[i]) \in Int
  BY GoldInt, WrapInt
<1>3. QED BY <1>1, <1>2, ClampInt

\* The sums of the fully connected layer.
LEMMA FcIs ==
  ASSUME NEW m, IsNetwork(m), NEW k \in 0 .. FC_OUT - 1
  PROVE  /\ WrapFc(m, k) \in [0 .. FEAT -> Int]
         /\ WrapFc(m, k)[0] = m.bfc[k] /\ m.bfc[k] \in Int
         /\ \A i \in 0 .. FEAT - 1 :
              /\ WrapAct(m)[i] * m.wfc[k * FEAT + i] \in Int
              /\ WrapFc(m, k)[i + 1]
                   = WrapFc(m, k)[i] + WrapAct(m)[i] * m.wfc[k * FEAT + i]
<1> USE SequencerAssumption
<1> DEFINE bias == m.bfc[k]
           term == [i \in 0 .. FEAT - 1 |-> WrapAct(m)[i] * m.wfc[k * FEAT + i]]
<1>1. bias \in Int
  BY DEF IsNetwork
<1>2. ASSUME NEW i \in 0 .. FEAT - 1
      PROVE  /\ term[i] = WrapAct(m)[i] * m.wfc[k * FEAT + i]
             /\ term[i] \in Int
  <2>1. k * FEAT + i \in 0 .. FC_OUT * FEAT - 1
    BY RowMajor
  <2>2. m.wfc[k * FEAT + i] \in Int
    BY <2>1 DEF IsNetwork
  <2> QED BY <2>2, WrapActInt
<1>3. WrapFc(m, k) = Running(bias, term, FEAT)
  BY DEF WrapFc
<1> HIDE DEF bias, term
<1>4. /\ Running(bias, term, FEAT) \in [0 .. FEAT -> Int]
      /\ Running(bias, term, FEAT)[0] = bias
      /\ \A n \in 0 .. FEAT - 1 :
           Running(bias, term, FEAT)[n + 1]
             = Running(bias, term, FEAT)[n] + term[n]
  <2>1. FEAT \in Nat /\ \A i \in 0 .. FEAT - 1 : term[i] \in Int
    BY <1>2
  <2> QED BY <1>1, <2>1, RunningIs
<1>5. m.bfc[k] = bias
  BY DEF bias
<1>6. QED BY <1>1, <1>2, <1>3, <1>4, <1>5

\* The next of the sums.
LEMMA FcNext ==
  ASSUME NEW m, IsNetwork(m), NEW k \in 0 .. FC_OUT - 1, NEW i \in 0 .. FEAT - 1
  PROVE  /\ WrapAct(m)[i] * m.wfc[k * FEAT + i] \in Int
         /\ WrapFc(m, k)[i + 1] = WrapFc(m, k)[i] + WrapAct(m)[i] * m.wfc[k * FEAT + i]
BY FcIs

\* The memories the datapath works on are the network's.
LEMMA FromNetwork ==
  ASSUME NEW m, Loaded = m
  PROVE  /\ imem = m.imem /\ wconv = m.wconv /\ bconv = m.bconv
         /\ wfc = m.wfc /\ bfc = m.bfc
BY DEF Loaded

\* Clearing the kernel loops and loading the bias begins a pixel.
LEMMA ConvLoadComputes ==
  ASSUME NEW m, IsNetwork(m), LoopsOK, Computes(m), Loaded = m,
         ConvLoad, DataStep
  PROVE  Computes(m)'
<1>1. /\ st = "S_CONV_LOAD" /\ st' = "S_CONV_MAC" /\ ky' = 0 /\ kx' = 0
      /\ c' = c /\ oy' = oy /\ ox' = ox
  BY DEF ConvLoad
<1>2. acc' = m.bconv[c] /\ actm' = actm
  BY <1>1, FromNetwork DEF DataStep
<1>3. c \in 0 .. N_FILT - 1 /\ oy \in Int /\ ox \in Int
  BY SequencerAssumption DEF LoopsOK
<1>4. acc' \in Int /\ acc' = GoldConv(m, c, oy, ox)[0]
  <2>1. GoldConv(m, c, oy, ox)[0] = m.bconv[c] /\ m.bconv[c] \in Int
    BY <1>3, ConvIs
  <2> QED BY <1>2, <2>1
<1>5. ky' * K_W + kx' = 0
  BY <1>1, SequencerAssumption
<1>6. ActsDone(m, Pixel)
  BY <1>1 DEF Computes, ConvComputes
<1>7. ActsDone(m, Pixel)'
  BY <1>1, <1>2, <1>6 DEF ActsDone, Pixel
<1>8. QED
  BY <1>1, <1>4, <1>5, <1>7
     DEF Computes, ConvComputes, FcComputes, ArgmaxComputes

\* What the multiplier is given in the loops is the reference's tap.
LEMMA ConvProduct ==
  ASSUME NEW m, IsNetwork(m), LoopsOK, Loaded = m
  PROVE  /\ ky * K_W + kx \in 0 .. K_H * K_W - 1
         /\ product_conv = GoldTaps(m, c, oy, ox)[ky * K_W + kx]
         /\ product_conv \in Int
<1> USE SequencerAssumption
<1>1. ky \in 0 .. K_H - 1 /\ kx \in 0 .. K_W - 1 /\ ky \in Nat
  BY DEF LoopsOK
<1> DEFINE t == ky * K_W + kx
<1>2. t \in 0 .. K_H * K_W - 1
  BY <1>1, RowMajor
<1>3. t \div K_W = ky /\ t % K_W = kx
  BY <1>1, RowsApart
<1> HIDE DEF t
<1>4. GoldTaps(m, c, oy, ox)[t]
        = Tap(m.imem, oy * STRIDE - PAD_H + ky, ox * STRIDE - PAD_W + kx)
            * m.wconv[(c * K_H + ky) * K_W + kx]
  BY <1>2, <1>3 DEF GoldTaps
<1>5. product_conv = GoldTaps(m, c, oy, ox)[t]
  BY <1>4, FromNetwork DEF product_conv, iy, ix, wc_idx
<1>6. GoldTaps(m, c, oy, ox)[t] \in Int
  <2>1. c \in 0 .. N_FILT - 1 /\ oy \in Int /\ ox \in Int
    BY DEF LoopsOK
  <2> QED BY <1>2, <2>1, TapsInt
<1>7. QED BY <1>2, <1>5, <1>6 DEF t

\* A multiply-accumulate adds the next tap; the last one leaves the sum.
LEMMA ConvMacComputes ==
  ASSUME NEW m, IsNetwork(m), LoopsOK, Computes(m), Loaded = m,
         ConvMac, DataStep
  PROVE  Computes(m)'
<1> USE SequencerAssumption
<1> DEFINE t == ky * K_W + kx
           sum == GoldConv(m, c, oy, ox)
<1>1. /\ st = "S_CONV_MAC" /\ c' = c /\ oy' = oy /\ ox' = ox
  BY DEF ConvMac
<1>2. acc' = Wrap(acc + product_conv) /\ actm' = actm
  BY <1>1 DEF DataStep
<1>3. c \in 0 .. N_FILT - 1 /\ oy \in Int /\ ox \in Int
  BY DEF LoopsOK
<1>4. acc \in Int /\ Wrap(acc) = Wrap(sum[t])
  BY <1>1 DEF Computes, ConvComputes
<1>5. /\ sum \in [0 .. K_H * K_W -> Int] /\ K_H * K_W \in Nat
      /\ \A n \in 0 .. K_H * K_W - 1 :
           sum[n + 1] = sum[n] + GoldTaps(m, c, oy, ox)[n]
  <2>1. K_H * K_W \in Nat
    OBVIOUS
  <2>2. /\ sum \in [0 .. K_H * K_W -> Int]
        /\ \A n \in 0 .. K_H * K_W - 1 :
             sum[n + 1] = sum[n] + GoldTaps(m, c, oy, ox)[n]
    BY <1>3, ConvIs
  <2> QED BY <2>1, <2>2
<1>6. t \in 0 .. K_H * K_W - 1 /\ sum[t + 1] = sum[t] + product_conv
  BY <1>5, ConvProduct
<1>7. product_conv \in Int /\ sum[t] \in Int /\ sum[t + 1] \in Int
  <2> HIDE DEF sum, t
  <2> QED BY <1>5, <1>6, ConvProduct
<1>8. /\ Wrap(acc') = Wrap(sum[t + 1]) /\ acc' = Wrap(sum[t + 1])
      /\ acc' \in Int
  <2> HIDE DEF sum, t
  <2>1. Wrap(Wrap(acc + product_conv)) = Wrap(sum[t] + product_conv)
        /\ Wrap(acc + product_conv) = Wrap(sum[t] + product_conv)
    BY <1>4, <1>7, WrapAdds
  <2> QED BY <1>2, <1>6, <1>7, <2>1, WrapInt
<1>9. ActsDone(m, Pixel)'
  <2>1. ActsDone(m, Pixel)
    BY <1>1 DEF Computes, ConvComputes
  <2> QED BY <1>1, <1>2, <2>1 DEF ActsDone, Pixel
<1>10. ky \in 0 .. K_H - 1 /\ kx \in 0 .. K_W - 1 /\ ky * K_W \in Nat
  BY DEF LoopsOK
<1>11. ASSUME st' = "S_CONV_MAC", ky' * K_W + kx' = t + 1
       PROVE  Computes(m)'
  <2>1. /\ acc' \in Int
        /\ Wrap(acc') = Wrap(GoldConv(m, c', oy', ox')[ky' * K_W + kx'])
    BY <1>1, <1>8, <1>11
  <2> QED
    BY <1>9, <1>11, <2>1 DEF Computes, ConvComputes, FcComputes, ArgmaxComputes
<1>12. CASE kx < K_W - 1
  <2>1. st' = "S_CONV_MAC" /\ ky' = ky /\ kx' = kx + 1
    BY <1>1, <1>12 DEF ConvMac
  <2> QED BY <1>10, <1>11, <2>1
<1>13. CASE kx = K_W - 1 /\ ky < K_H - 1
  <2>1. st' = "S_CONV_MAC" /\ ky' = ky + 1 /\ kx' = 0
    BY <1>1, <1>13 DEF ConvMac
  <2>2. (ky + 1) * K_W = ky * K_W + K_W
    BY <1>10
  <2>3. ky' * K_W + kx' = t + 1
    BY <1>10, <1>13, <2>1, <2>2
  <2> QED BY <1>11, <2>1, <2>3
<1>14. CASE kx = K_W - 1 /\ ky = K_H - 1
  <2>1. st' = "S_CONV_STORE"
    BY <1>1, <1>14 DEF ConvMac
  <2>2. t + 1 = K_H * K_W
    <3>1. (K_H - 1) * K_W = K_H * K_W - K_W
      OBVIOUS
    <3> QED BY <1>5, <1>10, <1>14, <3>1
  <2>4. acc' = Wrap(sum[K_H * K_W])
    BY <1>8, <2>2
  <2>5. acc' = Wrap(GoldConv(m, c', oy', ox')[K_H * K_W])
    BY <1>1, <2>4
  <2> QED
    BY <1>9, <2>1, <2>5 DEF Computes, ConvComputes, FcComputes, ArgmaxComputes
<1>15. QED BY <1>10, <1>12, <1>13, <1>14

\* Storing the requantised sum finishes a pixel, the last one the layer.
LEMMA ConvStoreComputes ==
  ASSUME NEW m, IsNetwork(m), TypeOK, DOMAIN actm = 0 .. FEAT - 1,
         Computes(m), ConvStore, DataStep
  PROVE  Computes(m)'
<1> USE SequencerAssumption
<1>1. st = "S_CONV_STORE"
  BY DEF ConvStore
<1>2. /\ ActsDone(m, Pixel) /\ acc = Wrap(GoldConv(m, c, oy, ox)[K_H * K_W])
  BY <1>1 DEF Computes, ConvComputes
<1>3. LoopsOK
  BY DEF TypeOK
<1>4. Pixel \in 0 .. FEAT - 1 /\ acc = Wrap(GoldSums(m)[Pixel])
  BY <1>2, <1>3, PixelIs
<1>5. actm' = [actm EXCEPT ![Pixel] = Requant(acc)]
  BY <1>1 DEF DataStep, act_idx, Pixel
<1>6. Requant(acc) = WrapAct(m)[Pixel]
  <2>1. WrapAct(m)[Pixel] = GoldClamp(acc)
    BY <1>4, WrapActInt
  <2> QED BY <2>1 DEF Requant, GoldClamp
<1>7. \A i \in 0 .. Pixel : actm'[i] = WrapAct(m)[i]
  <2>1. SUFFICES ASSUME NEW i \in 0 .. Pixel PROVE actm'[i] = WrapAct(m)[i]
    OBVIOUS
  <2>2. i \in 0 .. FEAT - 1
    BY <1>4
  <2>3. actm'[i] = IF i = Pixel THEN Requant(acc) ELSE actm[i]
    BY <1>4, <1>5, <2>2
  <2>4. CASE i = Pixel
    BY <1>6, <2>3, <2>4
  <2>5. CASE i # Pixel
    <3>1. i \in 0 .. Pixel - 1
      BY <1>4, <2>5
    <3> QED BY <1>2, <2>3, <2>5, <3>1 DEF ActsDone
  <2> QED BY <2>4, <2>5
<1>8. CASE ~LastPixel
  <2>1. st' = "S_CONV_LOAD" /\ Pixel' = Pixel + 1
    BY <1>8, NextPixel DEF ConvStore
  <2>2. ActsDone(m, Pixel)'
    <3>1. SUFFICES ASSUME NEW i \in 0 .. Pixel' - 1
                   PROVE  actm'[i] = WrapAct(m)[i]
      BY DEF ActsDone
    <3> QED BY <1>4, <1>7, <2>1
  <2> QED
    BY <2>1, <2>2 DEF Computes, ConvComputes, FcComputes, ArgmaxComputes
<1>9. CASE LastPixel
  <2>1. st' = "S_FC_LOAD" /\ f' = 0
    BY <1>9 DEF ConvStore
  <2>2. FEAT = Pixel + 1
    BY <1>9, NextPixel, AccelAssumption
  <2>3. ActsDone(m, FEAT)'
    <3>1. SUFFICES ASSUME NEW i \in 0 .. FEAT - 1
                   PROVE  actm'[i] = WrapAct(m)[i]
      BY DEF ActsDone
    <3> QED BY <1>4, <1>7, <2>2
  <2>4. LogitsDone(m, f)'
    BY <2>1 DEF LogitsDone
  <2> QED
    BY <2>1, <2>3, <2>4 DEF Computes, ConvComputes, FcComputes, ArgmaxComputes
<1>10. QED BY <1>8, <1>9

\* Loading the bias begins a class.
LEMMA FcLoadComputes ==
  ASSUME NEW m, IsNetwork(m), LoopsOK, Computes(m), Loaded = m, FcLoad, DataStep
  PROVE  Computes(m)'
<1>1. st = "S_FC_LOAD" /\ st' = "S_FC_MAC" /\ ii' = 0 /\ f' = f
  BY DEF FcLoad, fcVars
<1>2. acc' = m.bfc[f] /\ UNCHANGED <<actm, logitm>>
  BY <1>1, FromNetwork DEF DataStep
<1>3. f \in 0 .. FC_OUT - 1
  BY DEF LoopsOK
<1>4. acc' \in Int /\ acc' = WrapFc(m, f)[0]
  BY <1>2, <1>3, FcIs
<1>5. ActsDone(m, FEAT)' /\ LogitsDone(m, f)'
  <2>1. ActsDone(m, FEAT) /\ LogitsDone(m, f)
    BY <1>1 DEF Computes, FcComputes
  <2> QED BY <1>1, <1>2, <2>1 DEF ActsDone, LogitsDone
<1>6. QED
  BY <1>1, <1>4, <1>5 DEF Computes, ConvComputes, FcComputes, ArgmaxComputes

\* A multiply-accumulate adds the next activation; the last leaves the logit.
LEMMA FcMacComputes ==
  ASSUME NEW m, IsNetwork(m), LoopsOK, Computes(m), Loaded = m,
         FcMac, DataStep
  PROVE  Computes(m)'
<1> USE SequencerAssumption
<1> DEFINE sum == WrapFc(m, f)
           term == WrapAct(m)[ii] * m.wfc[f * FEAT + ii]
<1>1. st = "S_FC_MAC" /\ f' = f
  BY DEF FcMac
<1>2. /\ ActsDone(m, FEAT) /\ LogitsDone(m, f)
      /\ acc \in Int /\ Wrap(acc) = Wrap(sum[ii])
  BY <1>1 DEF Computes, FcComputes
<1>3. f \in 0 .. FC_OUT - 1 /\ ii \in 0 .. FEAT - 1
  BY DEF LoopsOK
<1>4. product_fc = term
  <2>1. actm[ii] = WrapAct(m)[ii]
    BY <1>2, <1>3 DEF ActsDone
  <2> QED BY <2>1, FromNetwork DEF product_fc, wf_idx
<1>5. /\ acc' = Wrap(acc + term) /\ UNCHANGED <<actm, logitm>>
  BY <1>1, <1>4 DEF DataStep
<1>6. /\ sum \in [0 .. FEAT -> Int] /\ term \in Int
      /\ sum[ii + 1] = sum[ii] + term
  <2>1. sum \in [0 .. FEAT -> Int]
    BY <1>3, FcIs, Zenon
  <2>2. term \in Int /\ sum[ii + 1] = sum[ii] + term
    <3> HIDE SequencerAssumption
    <3> QED BY <1>3, FcNext
  <2> QED BY <2>1, <2>2
<1>7. sum[ii] \in Int /\ sum[ii + 1] \in Int
  <2> HIDE DEF sum
  <2> QED BY <1>3, <1>6
<1>8. /\ Wrap(acc') = Wrap(sum[ii + 1]) /\ acc' = Wrap(sum[ii + 1])
      /\ acc' \in Int
  <2> HIDE DEF sum, term
  <2>1. Wrap(Wrap(acc + term)) = Wrap(sum[ii] + term)
        /\ Wrap(acc + term) = Wrap(sum[ii] + term)
    BY <1>2, <1>6, <1>7, WrapAdds
  <2> QED BY <1>5, <1>6, <1>7, <2>1, WrapInt
<1>9. ActsDone(m, FEAT)' /\ LogitsDone(m, f)'
  BY <1>1, <1>2, <1>5 DEF ActsDone, LogitsDone
<1>10. CASE ii < FEAT - 1
  <2>1. st' = "S_FC_MAC" /\ ii' = ii + 1
    BY <1>1, <1>10 DEF FcMac
  <2>2. acc' \in Int /\ Wrap(acc') = Wrap(WrapFc(m, f')[ii'])
    BY <1>1, <1>8, <2>1
  <2> QED
    BY <1>9, <2>1, <2>2 DEF Computes, ConvComputes, FcComputes, ArgmaxComputes
<1>11. CASE ii = FEAT - 1
  <2>1. st' = "S_FC_STORE" /\ ii + 1 = FEAT
    BY <1>1, <1>3, <1>11 DEF FcMac
  <2>3. acc' = Wrap(sum[FEAT])
    BY <1>8, <2>1
  <2>4. acc' = Wrap(WrapFc(m, f')[FEAT])
    BY <1>1, <2>3
  <2> QED
    BY <1>9, <2>1, <2>4 DEF Computes, ConvComputes, FcComputes, ArgmaxComputes
<1>12. QED BY <1>3, <1>10, <1>11

\* The logits are numbers of the width of acc.
LEMMA LogitInt ==
  ASSUME NEW m, IsNetwork(m)
  PROVE  \A k \in 0 .. FC_OUT - 1 :
           WrapLogit(m)[k] \in Int /\ -Half <= WrapLogit(m)[k]
<1>1. ASSUME NEW k \in 0 .. FC_OUT - 1 PROVE WrapFc(m, k)[FEAT] \in Int
  <2>1. FEAT \in 0 .. FEAT
    BY SequencerAssumption
  <2> QED BY <2>1, FcIs
<1>2. \A k \in 0 .. FC_OUT - 1 : WrapLogit(m)[k] \in Signed
  BY <1>1, WrapInt DEF WrapLogit
<1>3. Half \in Int
  BY PowersOfTwo
<1>4. QED BY <1>2, <1>3 DEF Signed

\* Storing a sum finishes a class; the last begins the search.
LEMMA FcStoreComputes ==
  ASSUME NEW m, LoopsOK, LogitsSized, Computes(m), FcStore, DataStep
  PROVE  Computes(m)'
<1> USE SequencerAssumption
<1>1. st = "S_FC_STORE" /\ f \in 0 .. FC_OUT - 1
  BY DEF FcStore, LoopsOK
<1>2. /\ ActsDone(m, FEAT) /\ LogitsDone(m, f)
      /\ acc = Wrap(WrapFc(m, f)[FEAT])
  BY <1>1 DEF Computes, FcComputes
<1>3. actm' = actm /\ logitm' = [logitm EXCEPT ![f] = acc]
  BY <1>1 DEF DataStep
<1>4. \A k \in 0 .. f : logitm'[k] = WrapLogit(m)[k]
  <2>1. SUFFICES ASSUME NEW k \in 0 .. f PROVE logitm'[k] = WrapLogit(m)[k]
    OBVIOUS
  <2>2. DOMAIN logitm = 0 .. FC_OUT - 1
    BY DEF LogitsSized
  <2>3. k \in 0 .. FC_OUT - 1 /\ logitm'[k] = IF k = f THEN acc ELSE logitm[k]
    BY <1>1, <1>3, <2>2
  <2>4. CASE k = f
    BY <1>1, <1>2, <2>3, <2>4 DEF WrapLogit
  <2>5. CASE k # f
    <3>1. k \in 0 .. f - 1
      BY <1>1, <2>5
    <3> QED BY <1>2, <2>3, <2>5, <3>1 DEF LogitsDone
  <2> QED BY <2>4, <2>5
<1>5. ActsDone(m, FEAT)'
  BY <1>2, <1>3 DEF ActsDone
<1>6. CASE f < FC_OUT - 1
  <2>1. st' = "S_FC_LOAD" /\ f' = f + 1
    BY <1>1, <1>6 DEF FcStore
  <2>2. LogitsDone(m, f)'
    <3>1. SUFFICES ASSUME NEW k \in 0 .. f' - 1
                   PROVE  logitm'[k] = WrapLogit(m)[k]
      BY DEF LogitsDone
    <3> QED BY <1>1, <1>4, <2>1
  <2> QED
    BY <1>5, <2>1, <2>2 DEF Computes, ConvComputes, FcComputes, ArgmaxComputes
<1>7. CASE f = FC_OUT - 1
  <2>1. st' = "S_ARGMAX" /\ am_f' = 0
    BY <1>1, <1>7 DEF FcStore
  <2>2. LogitsDone(m, FC_OUT)'
    <3>1. SUFFICES ASSUME NEW k \in 0 .. FC_OUT - 1
                   PROVE  logitm'[k] = WrapLogit(m)[k]
      BY DEF LogitsDone
    <3> QED BY <1>1, <1>4, <1>7
  <2>3. am_best' = -Half /\ am_idx' = 0
    BY <1>1, <1>7 DEF DataStep
  <2>4. -Half \in Int
    BY PowersOfTwo
  <2>5. Scanned(WrapLogit(m), am_f)'
    BY <2>1, <2>3, <2>4 DEF Scanned
  <2> QED
    BY <2>1, <2>2, <2>5 DEF Computes, ConvComputes, FcComputes, ArgmaxComputes
<1>8. QED BY <1>1, <1>6, <1>7

\* The first of the largest is one index.
LEMMA ArgmaxIs ==
  ASSUME NEW logit, DOMAIN logit = 0 .. FC_OUT - 1, NEW k \in 0 .. FC_OUT - 1,
         \A n \in 0 .. FC_OUT - 1 : logit[n] \in Int,
         \A n \in 0 .. FC_OUT - 1 :
           logit[n] < logit[k] \/ (logit[n] = logit[k] /\ k <= n)
  PROVE  GoldArgmax(logit) = k
<1> DEFINE First(x) ==
             \A n \in DOMAIN logit :
               logit[n] < logit[x] \/ (logit[n] = logit[x] /\ x <= n)
<1>1. k \in DOMAIN logit /\ First(k)
  OBVIOUS
<1>2. ASSUME NEW x \in DOMAIN logit, First(x) PROVE x = k
  <2>1. x \in 0 .. FC_OUT - 1 /\ logit[x] \in Int /\ logit[k] \in Int
    BY SequencerAssumption
  <2>2. logit[k] < logit[x] \/ (logit[k] = logit[x] /\ x <= k)
    BY <1>2
  <2>3. logit[x] < logit[k] \/ (logit[x] = logit[k] /\ k <= x)
    BY <2>1
  <2> QED BY <2>1, <2>2, <2>3, SequencerAssumption
<1>3. GoldArgmax(logit) = CHOOSE x \in DOMAIN logit : First(x)
  BY DEF GoldArgmax
<1> HIDE DEF First
<1>4. QED BY <1>1, <1>2, <1>3

\* A cycle of the search looks at one more logit; the last settles the class.
LEMMA SearchComputes ==
  ASSUME NEW m, IsNetwork(m), LoopsOK, LogitsSized, Computes(m), Argmax,
         DataStep
  PROVE  Computes(m)'
<1> USE SequencerAssumption
<1> DEFINE logit == WrapLogit(m)
<1>1. st = "S_ARGMAX" /\ am_f \in 0 .. FC_OUT - 1
  BY DEF Argmax, LoopsOK
<1>2. LogitsDone(m, FC_OUT) /\ Scanned(logit, am_f)
  BY <1>1 DEF Computes, ArgmaxComputes
<1>3. \A k \in 0 .. FC_OUT - 1 :
        logit[k] \in Int /\ -Half <= logit[k] /\ logitm[k] = logit[k]
  BY <1>2, LogitInt DEF LogitsDone
<1>4. /\ logitm' = logitm
      /\ am_best' = IF Better THEN logitm[am_f] ELSE am_best
      /\ am_idx' = IF Better THEN am_f ELSE am_idx
      /\ am_f = FC_OUT - 1 => argmax_o' = am_idx'
  BY <1>1 DEF DataStep
<1>5. Better <=> logit[am_f] > am_best
  BY <1>1, <1>3 DEF Better
<1> DEFINE Seen(n) ==
             /\ am_best' \in Int /\ am_idx' \in 0 .. n
             /\ am_idx' \in 0 .. FC_OUT - 1
             /\ \A k \in 0 .. n - 1 :
                  logit[k] < am_best' \/ (logit[k] = am_best' /\ am_idx' <= k)
             /\ am_best' = logit[am_idx'] \/ (am_best' = -Half /\ am_idx' = 0)
<1>6. Seen(am_f + 1)
  <2> HIDE DEF logit
  <2>1. CASE Better
    <3>1. am_best' = logit[am_f] /\ am_idx' = am_f /\ logit[am_f] > am_best
      BY <1>1, <1>3, <1>4, <1>5, <2>1
    <3>2. am_best' \in Int /\ am_best \in Int
      BY <1>1, <1>2, <1>3, <3>1 DEF Scanned
    <3>3. ASSUME NEW k \in 0 .. am_f
          PROVE  logit[k] < am_best' \/ (logit[k] = am_best' /\ am_idx' <= k)
      <4>1. CASE k = am_f
        BY <1>1, <3>1, <4>1
      <4>2. CASE k # am_f
        <5>1. k \in 0 .. am_f - 1 /\ k \in 0 .. FC_OUT - 1
          BY <1>1, <4>2
        <5>2. logit[k] <= am_best /\ logit[k] \in Int
          BY <1>2, <1>3, <3>2, <5>1 DEF Scanned
        <5> QED BY <3>1, <3>2, <5>2
      <4> QED BY <4>1, <4>2
    <3> QED BY <1>1, <3>1, <3>2, <3>3
  <2>2. CASE ~Better
    <3>1. am_best' = am_best /\ am_idx' = am_idx /\ ~ (logit[am_f] > am_best)
      BY <1>4, <1>5, <2>2
    <3>2. am_best \in Int /\ am_idx \in 0 .. am_f /\ am_idx \in 0 .. FC_OUT - 1
      BY <1>2 DEF Scanned
    <3>3. ASSUME NEW k \in 0 .. am_f
          PROVE  logit[k] < am_best \/ (logit[k] = am_best /\ am_idx <= k)
      <4>1. CASE k = am_f
        BY <1>1, <1>3, <3>1, <3>2, <4>1
      <4>2. CASE k # am_f
        <5>1. k \in 0 .. am_f - 1
          BY <1>1, <4>2
        <5> QED BY <1>2, <5>1 DEF Scanned
      <4> QED BY <4>1, <4>2
    <3>4. am_best = logit[am_idx] \/ (am_best = -Half /\ am_idx = 0)
      BY <1>2 DEF Scanned
    <3> QED BY <1>1, <3>1, <3>2, <3>3, <3>4
  <2> QED BY <2>1, <2>2
<1>7. CASE am_f < FC_OUT - 1
  <2>1. st' = "S_ARGMAX" /\ am_f' = am_f + 1
    BY <1>1, <1>7 DEF Argmax
  <2>2. Scanned(WrapLogit(m), am_f)'
    BY <1>6, <2>1 DEF Scanned
  <2>3. LogitsDone(m, FC_OUT)'
    BY <1>2, <1>4 DEF LogitsDone
  <2> QED
    BY <2>1, <2>2, <2>3 DEF Computes, ConvComputes, FcComputes, ArgmaxComputes
<1>8. CASE am_f = FC_OUT - 1
  <2>1. st' = "S_DONE"
    BY <1>1, <1>8 DEF Argmax
  <2>2. logitm' = WrapLogit(m)
    BY <1>3, <1>4 DEF LogitsSized, WrapLogit
  <2>3. argmax_o' = GoldArgmax(logit)
    <3>1. DOMAIN logit = 0 .. FC_OUT - 1
      BY DEF WrapLogit
    <3> HIDE DEF logit
    <3>2. am_best' \in Int /\ am_idx' \in 0 .. FC_OUT - 1
      BY <1>6
    <3>3. \A k \in 0 .. FC_OUT - 1 :
            logit[k] < am_best' \/ (logit[k] = am_best' /\ am_idx' <= k)
      BY <1>6, <1>8
    <3>4. am_best' = logit[am_idx']
      <4>1. CASE am_best' = -Half /\ am_idx' = 0
        <5>1. 0 \in 0 .. FC_OUT - 1
          OBVIOUS
        <5>2. logit[0] \in Int /\ -Half <= logit[0]
          BY <1>3, <5>1
        <5>3. logit[0] <= -Half
          BY <3>3, <4>1, <5>1, <5>2
        <5> QED BY <3>2, <4>1, <5>2, <5>3
      <4> QED BY <1>6, <4>1
    <3>5. \A n \in 0 .. FC_OUT - 1 :
            \/ logit[n] < logit[am_idx']
            \/ logit[n] = logit[am_idx'] /\ am_idx' <= n
      BY <3>3, <3>4
    <3>6. GoldArgmax(logit) = am_idx'
      BY <1>3, <3>1, <3>2, <3>5, ArgmaxIs
    <3> QED BY <1>4, <1>8, <3>6
  <2> QED
    BY <2>1, <2>2, <2>3
       DEF Computes, ConvComputes, FcComputes, ArgmaxComputes, Right
<1>9. QED BY <1>1, <1>7, <1>8

\* The logits and the class stand once the search is over, until a run that
\* has not been cancelled stores other logits.
LEMMA ResultStays ==
  ASSUME NEW m, Right(m), DataStep, st \in {"S_IDLE", "S_DONE"}
  PROVE  Right(m)'
<1>1. UNCHANGED <<logitm, argmax_o>>
  BY DEF DataStep
<1>2. QED BY <1>1 DEF Right

\* A run begins with the first pixel.
LEMMA StartComputes ==
  ASSUME NEW m, NEW start, Start(start)
  PROVE  Computes(m)'
<1>1. st' = "S_CONV_LOAD" /\ c' = 0 /\ oy' = 0 /\ ox' = 0
  BY DEF Start
<1>2. 0 * OUT_H = 0 /\ 0 * OUT_W = 0
  BY SequencerAssumption
<1>3. Pixel' = (0 * OUT_H + 0) * OUT_W + 0
  BY <1>1 DEF Pixel
<1>4. Pixel' = 0
  BY <1>2, <1>3
<1>5. ActsDone(m, Pixel)'
  BY <1>4 DEF ActsDone
<1>6. QED
  BY <1>1, <1>5 DEF Computes, ConvComputes, FcComputes, ArgmaxComputes

\* Where no run is, nothing has to have been computed.
LEMMA IdleComputes ==
  ASSUME NEW m, st = "S_IDLE"
  PROVE  Computes(m)
BY DEF Computes, ConvComputes, FcComputes, ArgmaxComputes

\* One clock edge: as long as the memories hold the network m while a run is
\* on, the run computes what the reference computes on m.
LEMMA ComputesStep ==
  ASSUME NEW m, IsNetwork(m), TypeOK, DOMAIN actm = 0 .. FEAT - 1,
         LogitsSized, Computes(m), st # "S_IDLE" => Loaded = m,
         NEW start, NEW sw_reset, AccelStep(start, sw_reset)
  PROVE  /\ Computes(m)'
         /\ st = "S_DONE" /\ ~sw_reset => Right(m)'
<1>1. LoopsOK
  BY DEF TypeOK
<1>2. CASE sw_reset
  <2>1. st' = "S_IDLE"
    BY <1>2 DEF AccelStep, SeqStep, SoftReset
  <2>2. Computes(m)'
    BY <2>1 DEF Computes, ConvComputes, FcComputes, ArgmaxComputes
  <2> QED BY <1>2, <2>2
<1>3. CASE ~sw_reset
  <2>1. DataStep
    BY <1>3 DEF AccelStep
  <2>2. st = "S_DONE" => Right(m)'
    <3>1. st = "S_DONE" => Right(m)
      BY DEF Computes, ArgmaxComputes
    <3> QED BY <2>1, <3>1, ResultStays
  <2>3. ASSUME Start(start) PROVE Computes(m)'
    BY <2>3, StartComputes
  <2>4. ASSUME Wait(start) \/ Done PROVE Computes(m)'
    <3>1. st' = "S_IDLE"
      BY <2>4 DEF Wait, Done
    <3> QED BY <3>1 DEF Computes, ConvComputes, FcComputes, ArgmaxComputes
  <2>5. ASSUME ConvLoad PROVE Computes(m)'
    <3>1. Loaded = m
      BY <2>5 DEF ConvLoad
    <3> QED BY <1>1, <2>1, <2>5, <3>1, ConvLoadComputes
  <2>6. ASSUME ConvMac PROVE Computes(m)'
    <3>1. Loaded = m
      BY <2>6 DEF ConvMac
    <3> QED BY <1>1, <2>1, <2>6, <3>1, ConvMacComputes
  <2>7. ASSUME ConvStore PROVE Computes(m)'
    BY <2>1, <2>7, ConvStoreComputes
  <2>8. ASSUME FcLoad PROVE Computes(m)'
    <3>1. Loaded = m
      BY <2>8 DEF FcLoad
    <3> QED BY <1>1, <2>1, <2>8, <3>1, FcLoadComputes
  <2>9. ASSUME FcMac PROVE Computes(m)'
    <3>1. Loaded = m
      BY <2>9 DEF FcMac
    <3> QED BY <1>1, <2>1, <2>9, <3>1, FcMacComputes
  <2>10. ASSUME FcStore PROVE Computes(m)'
    BY <1>1, <2>1, <2>10, FcStoreComputes
  <2>11. ASSUME Argmax PROVE Computes(m)'
    BY <1>1, <2>1, <2>11, SearchComputes
  <2>12. Computes(m)'
    BY <1>3, <2>3, <2>4, <2>5, <2>6, <2>7, <2>8, <2>9, <2>10, <2>11
       DEF AccelStep, SeqStep
  <2> QED BY <2>2, <2>12
<1>4. QED BY <1>2, <1>3

\* The memory of logits keeps its size.
LEMMA LogitsStep ==
  ASSUME LogitsSized, UNCHANGED logitm \/ DataStep
  PROVE  LogitsSized'
BY DEF LogitsSized, DataStep

\* Where the reference's sums fit, cutting them changes nothing.
LEMMA WrapExact ==
  ASSUME NEW m, IsNetwork(m), Fits(m)
  PROVE  WrapLogit(m) = GoldLogit(m)
<1>1. WrapAct(m) = GoldAct(m)
  <2>1. ASSUME NEW i \in 0 .. FEAT - 1
        PROVE  GoldClamp(Wrap(GoldSums(m)[i])) = GoldClamp(GoldSums(m)[i])
    <3>1. GoldSums(m)[i] \in Int /\ GoldSums(m)[i] \in Signed
      BY GoldInt DEF Fits
    <3> QED BY <3>1, WrapInt
  <2> QED BY <2>1 DEF WrapAct, GoldAct
<1>2. \A k : WrapFc(m, k) = GoldFc(m, k)
  BY <1>1 DEF WrapFc, GoldFc
<1>3. ASSUME NEW k \in 0 .. FC_OUT - 1
      PROVE  Wrap(WrapFc(m, k)[FEAT]) = GoldFc(m, k)[FEAT]
  <2>1. WrapFc(m, k)[FEAT] \in Int
    <3>1. FEAT \in 0 .. FEAT
      BY SequencerAssumption
    <3> QED BY <3>1, FcIs
  <2>2. WrapFc(m, k)[FEAT] = GoldFc(m, k)[FEAT]
    BY <1>2
  <2>3. GoldFc(m, k)[FEAT] \in Signed
    BY DEF Fits, GoldLogit
  <2> QED BY <2>1, <2>2, <2>3, WrapInt
<1>4. QED BY <1>3 DEF WrapLogit, GoldLogit

\* The test bench's memories hold a network.
NetworkLoaded == IsNetwork(Loaded)

\* What the test bench's runs have computed, in every state.
DInv ==
  /\ NetworkLoaded /\ LogitsSized
  /\ Computes(Loaded) /\ (done_o => Right(Loaded))

\* One step of the test bench.
LEMMA BenchStep ==
  ASSUME TypeOK, InStep, Sized, DInv, [BenchNext]_accelVars
  PROVE  DInv'
<1>1. UNCHANGED inputVars
  BY DEF BenchNext, BenchTick, BenchReset, accelVars
<1>2. PICK m : m = Loaded
  OBVIOUS
<1>3. Loaded' = m
  BY <1>1, <1>2 DEF Loaded, inputVars
<1>4. /\ IsNetwork(m) /\ LogitsSized
      /\ Computes(m) /\ (done_o => Right(m))
  BY <1>2 DEF DInv, NetworkLoaded
<1>5. NetworkLoaded'
  BY <1>3, <1>4 DEF NetworkLoaded
<1>6. LogitsSized'
  <2>1. UNCHANGED logitm \/ DataStep
    BY DEF BenchNext, BenchTick, BenchReset, AccelStep, AccelReset, accelVars,
           dataVars
  <2> QED BY <1>4, <2>1, LogitsStep
<1>7. Computes(m)' /\ (done_o' => Right(m)')
  <2>1. ASSUME NEW start \in BOOLEAN, NEW sw_reset \in BOOLEAN,
               AccelStep(start, sw_reset)
        PROVE  Computes(m)' /\ (done_o' => Right(m)')
    <3>1. /\ Computes(m)'
          /\ st = "S_DONE" /\ ~sw_reset => Right(m)'
      BY <1>2, <1>4, <2>1, ComputesStep DEF Sized
    <3>2. CASE done_o' /\ st # "S_DONE"
      <4>1. done_o /\ st = "S_IDLE" /\ ~sw_reset
        BY <2>1, <3>2
           DEF AccelStep, SeqStep, SoftReset, Start, Wait, ConvLoad, ConvMac,
               ConvStore, FcLoad, FcMac, FcStore, Argmax, Done, Busy, InStep
      <4>2. DataStep
        BY <2>1, <4>1 DEF AccelStep
      <4> QED BY <1>4, <3>1, <4>1, <4>2, ResultStays
    <3>3. done_o' => ~sw_reset
      BY <2>1 DEF AccelStep, SeqStep, SoftReset
    <3> QED BY <3>1, <3>2, <3>3
  <2>2. CASE AccelReset
    <3>1. st' = "S_IDLE" /\ ~done_o'
      BY <2>2 DEF AccelReset, SeqReset
    <3> QED
      BY <3>1 DEF Computes, ConvComputes, FcComputes, ArgmaxComputes
  <2>3. CASE UNCHANGED accelVars
    <3>1. UNCHANGED <<seqVars, dataVars>>
      BY <2>3 DEF accelVars
    <3> QED
      BY <1>4, <3>1 DEF Computes, ConvComputes, FcComputes, ArgmaxComputes,
         ActsDone, LogitsDone, Scanned, Right, Pixel, seqVars, loopVars,
         convVars, fcVars, dataVars
  <2> QED BY <2>1, <2>2, <2>3 DEF BenchNext, BenchTick, BenchReset
<1>8. Computes(Loaded)'
  BY <1>3, <1>7 DEF Computes, ConvComputes, FcComputes, ArgmaxComputes,
     ActsDone, LogitsDone
<1>9. done_o' => Right(Loaded)'
  BY <1>3, <1>7 DEF Right
<1>10. QED BY <1>5, <1>6, <1>8, <1>9 DEF DInv

\* What the datapath computes is DInv, in every state of the test bench.
LEMMA ComputesAlways == BenchSpec => []DInv
<1>1. BenchInit => DInv
  <2> SUFFICES ASSUME BenchInit PROVE DInv
    OBVIOUS
  <2>1. st = "S_IDLE" /\ ~done_o
    BY DEF BenchInit, AccelInit, SeqInit
  <2>2. LogitsSized
    BY DEF BenchInit, AccelInit, LogitsSized
  <2>3. NetworkLoaded
    BY AccelAssumption DEF BenchInit, NetworkLoaded, Loaded, IsNetwork
  <2>4. Computes(Loaded)
    BY <2>1, IdleComputes
  <2> QED BY <2>1, <2>2, <2>3, <2>4 DEF DInv
<1>2. TypeOK /\ InStep /\ Sized /\ DInv /\ [BenchNext]_accelVars => DInv'
  BY BenchStep
<1>3. QED
  BY <1>1, <1>2, Sequences, TypeCorrect, InStepAlways, SizedAlways, PTL
     DEF BenchSpec

\* sw/yz/README_yz.md's claim, for every network whose sums fit acc, however
\* often acc wraps on the way, from any power-up contents and whatever was
\* started, cancelled and reset before: logits and class are bit for bit those
\* of gen_golden.py.
THEOREM BitExactAlways == BenchSpec => []BitExact
<1>1. DInv => BitExact
  BY WrapExact DEF DInv, NetworkLoaded, BitExact, Right
<1>2. QED BY <1>1, ComputesAlways, PTL

-----------------------------------------------------------------------------
(***************************************************************************)
(* Networks that fit.  Fits speaks of sums; what the repository's tools    *)
(* write is bytes, with biases far below the width of acc.                 *)
(***************************************************************************)
Within(B) == -B .. B

\* A running sum of n terms within T of a bias within B.
LEMMA RunningBounded ==
  ASSUME NEW B \in Nat, NEW bound \in Nat, NEW bias \in Within(B),
         NEW len \in Nat, NEW term,
         \A t \in 0 .. len - 1 : term[t] \in Within(bound)
  PROVE  Running(bias, term, len)[len] \in Within(B + len * bound)
<1> DEFINE s == Running(bias, term, len)
           T == {n \in Nat : n <= len /\ s[n] \notin Within(B + n * bound)}
<1>1. /\ bias \in Int /\ \A t \in 0 .. len - 1 : term[t] \in Int
  BY DEF Within
<1>2. /\ s \in [0 .. len -> Int] /\ s[0] = bias
      /\ \A n \in 0 .. len - 1 : s[n + 1] = s[n] + term[n]
  BY <1>1, RunningIs
<1> HIDE DEF s
<1>3. T = {}
  <2>1. SUFFICES ASSUME T # {} PROVE FALSE
    OBVIOUS
  <2>2. PICK x \in T : \A y \in T : x <= y
    <3>1. T \subseteq Nat
      OBVIOUS
    <3> HIDE DEF T
    <3> QED BY <2>1, <3>1, LeastNatural
  <2>3. x \in Nat /\ x <= len /\ s[x] \notin Within(B + x * bound)
    OBVIOUS
  <2>4. x # 0
    <3>1. B + 0 * bound = B
      OBVIOUS
    <3> QED BY <1>2, <2>3, <3>1
  <2>5. /\ x - 1 \in Nat /\ x - 1 \in 0 .. len - 1 /\ x - 1 \notin T
        /\ (x - 1) + 1 = x
    BY <2>2, <2>3, <2>4
  <2>6. PICK n \in Nat : n = x - 1
    BY <2>5
  <2>7. s[n] \in Within(B + n * bound) /\ s[n + 1] = s[n] + term[n]
    BY <1>2, <2>5, <2>6
  <2>8. s[n] \in Int /\ term[n] \in Within(bound)
    BY <1>2, <2>5, <2>6
  <2>9. (n + 1) * bound = n * bound + bound /\ n * bound \in Nat
    BY OneMore
  <2>10. s[n + 1] \in Within(B + (n + 1) * bound)
    <3> DEFINE p == n * bound
               v == s[n]
               w == term[n]
    <3>1. p \in Nat /\ v \in -(B + p) .. B + p /\ w \in -bound .. bound
      BY <2>7, <2>8, <2>9 DEF Within
    <3> HIDE DEF p, v, w
    <3>2. v + w \in -(B + (p + bound)) .. B + (p + bound)
      BY <3>1
    <3>3. s[n + 1] = v + w /\ (n + 1) * bound = p + bound
      BY <2>7, <2>9 DEF p, v, w
    <3> QED BY <3>2, <3>3 DEF Within
  <2> QED BY <2>3, <2>5, <2>6, <2>10
<1>4. len \in Nat /\ len <= len /\ len \notin T
  <2> HIDE DEF T
  <2> QED BY <1>3
<1>5. QED BY <1>4 DEF s

\* A number is within its bounds.
LEMMA Bounded ==
  ASSUME NEW B \in Nat, NEW p \in Int, p <= B, -B <= p
  PROVE  p \in Within(B)
BY DEF Within

\* The product of two bytes, and of an activation and a byte.
Byte == -128 .. 127
MaxProduct == 16384
LEMMA ByteProducts ==
  ASSUME NEW a \in Byte \cup 0 .. 127, NEW b \in Byte
  PROVE  a * b \in Within(MaxProduct)
<1>1. a \in Int /\ b \in Int /\ -128 <= a /\ a <= 127 /\ -128 <= b /\ b <= 127
  BY DEF Byte
<1>2. a * b <= 16384 /\ -16384 <= a * b /\ a * b \in Int
  BY <1>1, Z3
<1> DEFINE p == a * b
<1>3. p <= 16384 /\ -16384 <= p /\ p \in Int
  BY <1>2
<1> HIDE DEF p
<1>4. p <= MaxProduct /\ -MaxProduct <= p /\ MaxProduct \in Nat
  BY <1>3 DEF MaxProduct
<1>6. p \in Within(MaxProduct)
  BY <1>3, <1>4, Bounded
<1>5. QED BY <1>6 DEF p

\* A quotient of natural numbers is one.
LEMMA QuotientNat ==
  ASSUME NEW n \in Nat, NEW d \in Nat \ {0}
  PROVE  n \div d \in Nat
<1> DEFINE q == n \div d
           r == n % d
<1>1. n = q * d + r /\ r \in 0 .. d - 1 /\ q \in Int
  BY DivisionRemakes
<1> HIDE DEF q, r
<1>2. q < 0 => q * d <= -d
  BY <1>1, Z3
<1>3. q \in Nat
  <2> DEFINE p == q * d
  <2>1. n = p + r /\ (q < 0 => p <= -d)
    BY <1>1, <1>2
  <2>2. p \in Int
    BY <1>1
  <2> HIDE DEF p
  <2> QED BY <1>1, <2>1, <2>2
<1>4. QED BY <1>3 DEF q

\* A network of bytes with biases within B, and an accumulator with room for
\* the biases and one product per tap, and per feature.
ByteNetwork(m, B) ==
  /\ IsNetwork(m)
  /\ \A i \in 0 .. IN_H * IN_W - 1 : m.imem[i] \in Byte
  /\ \A i \in 0 .. (N_FILT * K_H) * K_W - 1 : m.wconv[i] \in Byte
  /\ \A i \in 0 .. FC_OUT * FEAT - 1 : m.wfc[i] \in Byte
  /\ \A k \in 0 .. N_FILT - 1 : m.bconv[k] \in Within(B)
  /\ \A k \in 0 .. FC_OUT - 1 : m.bfc[k] \in Within(B)
Room(B, n) == B + n * MaxProduct < Half

\* Such a network fits such an accumulator.
LEMMA BytesFit ==
  ASSUME NEW m, NEW B \in Nat, ByteNetwork(m, B), ActMax <= 127,
         Room(B, K_H * K_W), Room(B, FEAT)
  PROVE  Fits(m)
<1>sizes. /\ N_FILT \in Nat \ {0} /\ FC_OUT \in Nat \ {0}
          /\ FEAT \in Nat \ {0} /\ K_H \in Nat \ {0} /\ K_W \in Nat \ {0}
          /\ IN_H \in Nat \ {0} /\ IN_W \in Nat \ {0}
          /\ Half \in Nat
  BY SequencerAssumption, AccelAssumption, PowersOfTwo
<1>1. K_H * K_W \in Nat /\ MaxProduct \in Nat
  BY <1>sizes DEF MaxProduct
<1>2. ASSUME NEW n \in Nat, Room(B, n), NEW v \in Within(B + n * MaxProduct)
      PROVE  v \in Signed
  <2> DEFINE N == n * MaxProduct
  <2>1. N \in Nat /\ B + N < Half /\ v \in Within(B + N)
    BY <1>1, <1>2 DEF Room
  <2> HIDE DEF N
  <2> QED BY <1>sizes, <2>1 DEF Within, Signed
<1>3. ASSUME NEW k \in 0 .. N_FILT - 1, NEW y \in Int, NEW x \in Int,
             NEW t \in 0 .. K_H * K_W - 1
      PROVE  GoldTaps(m, k, y, x)[t] \in Within(MaxProduct)
  <2> DEFINE q == t \div K_W
             r == t % K_W
             a == Tap(m.imem, y * STRIDE - PAD_H + q, x * STRIDE - PAD_W + r)
             b == m.wconv[(k * K_H + q) * K_W + r]
  <2>1. q \in 0 .. K_H - 1 /\ r \in 0 .. K_W - 1
    <3>1. K_W \in Nat \ {0} /\ K_H \in Nat /\ t \in 0 .. K_H * K_W - 1
      BY <1>3, <1>sizes
    <3> QED BY <3>1, Apart
  <2>2. GoldTaps(m, k, y, x)[t] = a * b
    BY DEF GoldTaps
  <2> HIDE DEF q, r
  <2>3. (k * K_H + q) * K_W + r \in 0 .. (N_FILT * K_H) * K_W - 1
    <3>1. k * K_H + q \in 0 .. N_FILT * K_H - 1
      BY <1>sizes, <2>1, RowMajor
    <3> DEFINE p == k * K_H + q
               n == N_FILT * K_H
    <3>2. n \in Nat /\ p \in 0 .. n - 1
      BY <1>sizes, <3>1
    <3> HIDE DEF p, n
    <3>3. p * K_W + r \in 0 .. n * K_W - 1
      BY <1>sizes, <2>1, <3>2, RowMajor
    <3> QED BY <3>3 DEF p, n
  <2>4. b \in Byte
    BY <2>3 DEF ByteNetwork
  <2>5. a \in Byte
    <3>1. ASSUME NEW u, NEW v, Inside(u, v) PROVE m.imem[u * IN_W + v] \in Byte
      <4>1. u * IN_W + v \in 0 .. IN_H * IN_W - 1
        BY <1>sizes, <3>1, RowMajor DEF Inside
      <4> QED BY <4>1 DEF ByteNetwork
    <3>2. 0 \in Byte
      BY DEF Byte
    <3>3. \A u, v : Tap(m.imem, u, v) \in Byte
      <4> HIDE DEF a, b
      <4> QED BY <3>1, <3>2, Zenon DEF Tap
    <3> QED BY <3>3, Zenon
  <2> HIDE DEF a, b
  <2> QED BY <2>2, <2>4, <2>5, ByteProducts
<1>4. ASSUME NEW i \in 0 .. FEAT - 1 PROVE GoldSums(m)[i] \in Signed
  <2>1. PICK k \in 0 .. N_FILT - 1, y \in Int, x \in Int :
          GoldSums(m)[i] = GoldConv(m, k, y, x)[K_H * K_W]
    BY SumIs, Zenon
  <2>2. m.bconv[k] \in Within(B)
    BY DEF ByteNetwork
  <2>3. \A t \in 0 .. K_H * K_W - 1 : GoldTaps(m, k, y, x)[t] \in Within(MaxProduct)
    BY <1>3, Zenon
  <2> DEFINE n == K_H * K_W
             term == GoldTaps(m, k, y, x)
             bias == m.bconv[k]
  <2>4. GoldSums(m)[i] = Running(bias, term, n)[n]
    BY <2>1 DEF GoldConv
  <2>5. n \in Nat /\ bias \in Within(B) /\ Room(B, n)
        /\ \A t \in 0 .. n - 1 : term[t] \in Within(MaxProduct)
    BY <1>1, <2>2, <2>3
  <2> HIDE DEF n, term, bias
  <2>6. Running(bias, term, n)[n] \in Within(B + n * MaxProduct)
    BY <1>1, <2>5, RunningBounded
  <2> QED BY <1>2, <2>4, <2>5, <2>6
<1>5. ASSUME NEW i \in 0 .. FEAT - 1 PROVE GoldAct(m)[i] \in 0 .. 127
  <2>1. GoldAct(m)[i] = GoldClamp(GoldSums(m)[i]) /\ GoldSums(m)[i] \in Int
    BY GoldInt DEF ByteNetwork
  <2> DEFINE a == GoldSums(m)[i]
             r == IF a < 0 THEN 0 ELSE a
             d == 2 ^ SHIFT
  <2>2. GoldAct(m)[i] = IF r \div d > ActMax THEN ActMax ELSE r \div d
    BY <2>1 DEF GoldClamp
  <2>3. r \in Nat /\ d \in Nat \ {0}
    BY <2>1, PowersOfTwo
  <2> HIDE DEF r, d
  <2>4. r \div d \in Nat
    BY <2>3, QuotientNat
  <2> QED BY <2>2, <2>4, AccelAssumption
<1>6. ASSUME NEW k \in 0 .. FC_OUT - 1 PROVE GoldLogit(m)[k] \in Signed
  <2> DEFINE term == [i \in 0 .. FEAT - 1 |-> GoldAct(m)[i] * m.wfc[k * FEAT + i]]
             bias == m.bfc[k]
  <2>1. bias \in Within(B)
    BY DEF ByteNetwork
  <2>2. ASSUME NEW i \in 0 .. FEAT - 1 PROVE term[i] \in Within(MaxProduct)
    <3>1. k * FEAT + i \in 0 .. FC_OUT * FEAT - 1
      BY <1>sizes, RowMajor
    <3>2. m.wfc[k * FEAT + i] \in Byte
      BY <3>1 DEF ByteNetwork
    <3> DEFINE a == GoldAct(m)[i]
               w == m.wfc[k * FEAT + i]
    <3>3. a \in Byte \cup 0 .. 127 /\ w \in Byte
      BY <1>5, <3>2
    <3> HIDE DEF a, w
    <3>4. a * w \in Within(MaxProduct)
      BY <3>3, ByteProducts
    <3>5. term[i] = a * w
      BY DEF a, w
    <3> HIDE DEF term
    <3> QED BY <3>4, <3>5
  <2>3. GoldLogit(m)[k] = Running(bias, term, FEAT)[FEAT]
    BY DEF GoldLogit, GoldFc
  <2> HIDE DEF term, bias
  <2>4. Running(bias, term, FEAT)[FEAT] \in Within(B + FEAT * MaxProduct)
    BY <1>1, <1>sizes, <2>1, <2>2, RunningBounded
  <2> QED BY <1>sizes, <1>2, <2>3, <2>4
<1>7. QED BY <1>4, <1>6 DEF Fits

\* The hypothesis Fits of the theorems costs nothing: with the kernel and the
\* features of soc_top_axi.sv's network and 32-bit sums (Half is 2 to the 31),
\* every network of bytes fits whose biases are within a billion; those of
\* gen_golden.py are within 1000.
THEOREM SocNetworksFit ==
  ASSUME NEW m, ByteNetwork(m, 1000000000), K_H = 10, K_W = 8, FEAT = 4000,
         ActMax = 127, Half = 2147483648
  PROVE  Fits(m)
<1>1. /\ Room(1000000000, K_H * K_W) /\ Room(1000000000, FEAT)
      /\ ActMax <= 127 /\ 1000000000 \in Nat
  BY DEF Room, MaxProduct
<1>2. QED BY <1>1, BytesFit

-----------------------------------------------------------------------------
(***************************************************************************)
(* The C program computes what the datapath computes.                      *)
(***************************************************************************)

\* A number printed as a residue and read back is the number, as long as it has
\* the width.
LEMMA ReadBack ==
  ASSUME NEW half \in Nat \ {0}, NEW v \in -half .. half - 1
  PROVE  (((v % (2 * half)) + half) % (2 * half)) - half = v
<1> DEFINE d == 2 * half
           q == v \div d
           u == v % d
<1>1. d \in Nat \ {0} /\ v \in Int /\ v + half \in 0 .. d - 1
  OBVIOUS
<1>2. q = v \div d /\ u = v % d
  OBVIOUS
<1>3. d = 2 * half
  OBVIOUS
<1> HIDE DEF q, u, d
<1>4. v = q * d + u /\ u \in 0 .. d - 1 /\ q \in Int
  BY <1>1, <1>2, DivisionRemakes, Zenon
<1>5. (v + half) + (-q) * d = u + half /\ -q \in Int /\ v + half \in Int
  BY <1>1, <1>4
<1>6. ((v + half) + (-q) * d) % d = (v + half) % d
  BY <1>1, <1>5, SameRemainder, Zenon
<1>7. (v + half) % d = v + half
  <2>1. v + half = 0 * d + (v + half) /\ 0 \in Int
    BY <1>1
  <2> QED BY <1>1, <1>5, <2>1, DivisionUnique, Zenon
<1>8. (u + half) % d = v + half
  BY <1>5, <1>6, <1>7, Zenon
<1>9. ((u + half) % d) - half = v
  BY <1>1, <1>8
<1>10. QED BY <1>2, <1>3, <1>9, Zenon

\* So the files of a network are long enough and bring back its arrays.
LEMMA FilesBack ==
  ASSUME NEW n \in Nat, NEW a \in [0 .. n - 1 -> Int]
  PROVE  /\ (\A i \in 0 .. n - 1 : a[i] \in SignedByte) =>
               /\ Loads(Printed(a, n, ByteHalf), n)
               /\ load8(Printed(a, n, ByteHalf), n) = a
         /\ (\A i \in 0 .. n - 1 : a[i] \in Signed) =>
               /\ Loads(Printed(a, n, Half), n)
               /\ load32(Printed(a, n, Half), n) = a
<1>1. ASSUME NEW half PROVE Len(Printed(a, n, half)) = n
  BY DEF Printed
<1>2. ASSUME NEW half, NEW j \in 0 .. n - 1
      PROVE  Printed(a, n, half)[j + 1] = a[j] % (2 * half)
  <2>1. j + 1 \in 1 .. n /\ (j + 1) - 1 = j
    OBVIOUS
  <2> QED BY <2>1 DEF Printed
<1>3. ASSUME \A i \in 0 .. n - 1 : a[i] \in SignedByte
      PROVE  load8(Printed(a, n, ByteHalf), n) = a
  <2>1. ASSUME NEW j \in 0 .. n - 1
        PROVE  Int8(Printed(a, n, ByteHalf)[j + 1]) = a[j]
    <3>1. a[j] \in -ByteHalf .. ByteHalf - 1
      BY <1>3 DEF SignedByte
    <3>2. (((a[j] % (2 * ByteHalf)) + ByteHalf) % (2 * ByteHalf)) - ByteHalf = a[j]
      BY <3>1, ReadBack, SoftAssumption, Zenon
    <3> QED BY <1>2, <3>2, Zenon DEF Int8
  <2> QED BY <2>1 DEF load8
<1>4. ASSUME \A i \in 0 .. n - 1 : a[i] \in Signed
      PROVE  load32(Printed(a, n, Half), n) = a
  <2>1. ASSUME NEW j \in 0 .. n - 1
        PROVE  Wrap(Printed(a, n, Half)[j + 1]) = a[j]
    <3>1. a[j] \in -Half .. Half - 1
      BY <1>4 DEF Signed
    <3>2. (((a[j] % (2 * Half)) + Half) % (2 * Half)) - Half = a[j]
      BY <3>1, ReadBack, PowersOfTwo, Zenon
    <3> QED BY <1>2, <3>2, Zenon DEF Wrap
  <2> QED BY <2>1 DEF load32
<1>5. QED BY <1>1, <1>3, <1>4 DEF Loads

\* An accumulation that wraps at every addition, or adds nothing, ends with the
\* sum cut to the width of acc.
LEMMA AccumulateIs ==
  ASSUME NEW bias \in Signed, NEW n \in Nat, NEW taken, NEW term, NEW full,
         \A t \in 0 .. n - 1 :
           full[t] \in Int /\ full[t] = IF t \in taken THEN term[t] ELSE 0
  PROVE  Accumulate(bias, n, taken, term) = Wrap(Running(bias, full, n)[n])
<1> DEFINE s == Running(bias, full, n)
           Unfolds(g) ==
             g = [j \in 0 .. n |->
                    IF j = 0 THEN bias
                    ELSE IF j - 1 \in taken THEN Wrap(g[j - 1] + term[j - 1])
                         ELSE g[j - 1]]
           g == CHOOSE x : Unfolds(x)
           w == [j \in 0 .. n |-> Wrap(s[j])]
<1>1. bias \in Int /\ Wrap(bias) = bias
  BY WrapInt, PowersOfTwo DEF Signed
<1>2. /\ s \in [0 .. n -> Int] /\ s[0] = bias
      /\ \A t \in 0 .. n - 1 : s[t + 1] = s[t] + full[t]
  BY <1>1, RunningIs
<1>3. Accumulate(bias, n, taken, term) = g[n]
  BY DEF Accumulate
<1> HIDE DEF s, g
\* The next of them.
<1>4. ASSUME NEW t \in 0 .. n - 1
      PROVE  Wrap(s[t + 1])
               = IF t \in taken THEN Wrap(Wrap(s[t]) + term[t]) ELSE Wrap(s[t])
  <2>1. s[t] \in Int /\ full[t] \in Int /\ s[t + 1] = s[t] + full[t]
    BY <1>2
  <2>2. CASE t \in taken
    <3>1. full[t] = term[t]
      BY <2>2
    <3>2. Wrap(s[t]) \in Int /\ Wrap(Wrap(s[t])) = Wrap(s[t])
      BY <2>1, WrapInt
    <3>3. Wrap(Wrap(s[t]) + full[t]) = Wrap(s[t] + full[t])
      BY <2>1, <3>2, WrapAdds
    <3> QED BY <2>1, <2>2, <3>1, <3>3
  <2>3. CASE t \notin taken
    <3>1. full[t] = 0
      BY <2>3
    <3>2. s[t + 1] = s[t]
      BY <2>1, <3>1
    <3> QED BY <2>3, <3>2
  <2> QED BY <2>2, <2>3
<1>5. Unfolds(w)
  <2>1. ASSUME NEW j \in 0 .. n
        PROVE  w[j] = IF j = 0 THEN bias
                      ELSE IF j - 1 \in taken THEN Wrap(w[j - 1] + term[j - 1])
                           ELSE w[j - 1]
    <3>1. CASE j = 0
      BY <1>1, <1>2, <3>1
    <3>2. CASE j # 0
      <4>1. PICK t \in 0 .. n - 1 : t = j - 1 /\ j = t + 1
        BY <3>2
      <4>2. w[j] = Wrap(s[t + 1]) /\ w[j - 1] = Wrap(s[t])
        BY <4>1
      <4> HIDE DEF w
      <4> QED BY <1>4, <3>2, <4>1, <4>2
    <3> QED BY <3>1, <3>2
  <2> QED BY <2>1
<1>6. Unfolds(g)
  <2> HIDE DEF Unfolds
  <2> QED BY <1>5, Zenon DEF g
<1>7. g[n] = w[n]
  <2> DEFINE E == {j \in Nat : j <= n /\ g[j] # w[j]}
  <2>1. E = {}
    <3>1. SUFFICES ASSUME E # {} PROVE FALSE
      OBVIOUS
    <3>2. PICK x \in E : \A y \in E : x <= y
      <4>1. E \subseteq Nat
        OBVIOUS
      <4> HIDE DEF E
      <4> QED BY <3>1, <4>1, LeastNatural
    <3>3. x \in Nat /\ x <= n /\ g[x] # w[x]
      OBVIOUS
    <3>4. \A j \in 0 .. n :
            g[j] = IF j = 0 THEN bias
                   ELSE IF j - 1 \in taken THEN Wrap(g[j - 1] + term[j - 1])
                        ELSE g[j - 1]
      BY <1>6
    <3>5. \A j \in 0 .. n :
            w[j] = IF j = 0 THEN bias
                   ELSE IF j - 1 \in taken THEN Wrap(w[j - 1] + term[j - 1])
                        ELSE w[j - 1]
      BY <1>5
    <3> HIDE DEF w, Unfolds
    <3>6. x # 0
      BY <3>3, <3>4, <3>5
    <3>7. x - 1 \in Nat /\ x - 1 <= n /\ x - 1 \notin E
      BY <3>2, <3>3, <3>6
    <3>8. g[x - 1] = w[x - 1]
      BY <3>7
    <3> QED BY <3>3, <3>4, <3>5, <3>6, <3>8
  <2>2. n \in Nat /\ n <= n
    OBVIOUS
  <2> HIDE DEF w
  <2> QED BY <2>1, <2>2
<1>8. QED BY <1>3, <1>7 DEF s

\* The program skips the taps outside the plane, where the reference adds 0.
LEMMA SoftConvIs ==
  ASSUME NEW m, IsNetwork(m), OfWidth(m), NEW k \in 0 .. N_FILT - 1,
         NEW y \in Int, NEW x \in Int
  PROVE  SoftConv(m.imem, m.wconv, m.bconv, k, y, x)
           = Wrap(GoldConv(m, k, y, x)[K_H * K_W])
<1> USE SequencerAssumption, AccelAssumption
<1> DEFINE Y(t) == y * STRIDE - PAD_H + (t \div K_W)
           X(t) == x * STRIDE - PAD_W + (t % K_W)
           n == K_H * K_W
           taken == {t \in 0 .. n - 1 : /\ Y(t) >= 0 /\ Y(t) < IN_H
                                        /\ X(t) >= 0 /\ X(t) < IN_W}
           term == [t \in taken |->
                      m.imem[Y(t) * IN_W + X(t)] * m.wconv[k * K_H * K_W + t]]
           full == GoldTaps(m, k, y, x)
<1>1. SoftConv(m.imem, m.wconv, m.bconv, k, y, x)
        = Accumulate(m.bconv[k], n, taken, term)
  BY DEF SoftConv
<1>2. m.bconv[k] \in Signed /\ n \in Nat
  BY DEF OfWidth
<1>3. ASSUME NEW t \in 0 .. n - 1
      PROVE  full[t] \in Int /\ full[t] = IF t \in taken THEN term[t] ELSE 0
  <2> DEFINE q == t \div K_W
             r == t % K_W
  <2>1. q \in 0 .. K_H - 1 /\ r \in 0 .. K_W - 1
    BY Apart
  <2>2. t = q * K_W + r
    BY DivisionRemakes
  <2>3. full[t] \in Int
    BY TapsInt
  <2>4. full[t] = Tap(m.imem, Y(t), X(t)) * m.wconv[(k * K_H + q) * K_W + r]
    BY DEF GoldTaps
  <2>5. (k * K_H + q) * K_W + r = k * K_H * K_W + t
    <3> HIDE DEF q, r
    <3>1. (k * K_H + q) * K_W = k * K_H * K_W + q * K_W
      BY <2>1
    <3>2. k * K_H * K_W \in Int /\ q * K_W \in Int
      BY <2>1
    <3> QED BY <2>1, <2>2, <3>1, <3>2
  <2>6. m.wconv[k * K_H * K_W + t] \in Int
    <3> HIDE DEF q, r
    <3>1. k * K_H + q \in 0 .. N_FILT * K_H - 1
      BY <2>1, RowMajor
    <3>2. (k * K_H + q) * K_W + r \in 0 .. (N_FILT * K_H) * K_W - 1
      BY <2>1, <3>1, RowMajor
    <3> QED BY <2>5, <3>2 DEF IsNetwork
  <2>7. Y(t) \in Int /\ X(t) \in Int
    <3> HIDE DEF n
    <3>1. y * STRIDE \in Int /\ x * STRIDE \in Int
      OBVIOUS
    <3> QED BY <2>1, <3>1
  <2>8. Inside(Y(t), X(t)) <=> t \in taken
    <3> HIDE DEF q, r
    <3> QED BY <2>7 DEF Inside
  <2>9. CASE t \in taken
    <3>1. Tap(m.imem, Y(t), X(t)) = m.imem[Y(t) * IN_W + X(t)]
      BY <2>8, <2>9 DEF Tap
    <3>2. term[t] = m.imem[Y(t) * IN_W + X(t)] * m.wconv[k * K_H * K_W + t]
      BY <2>9
    <3> QED BY <2>3, <2>4, <2>5, <2>9, <3>1, <3>2
  <2>10. CASE t \notin taken
    <3>1. Tap(m.imem, Y(t), X(t)) = 0
      BY <2>8, <2>10 DEF Tap
    <3> QED BY <2>3, <2>4, <2>5, <2>6, <2>10, <3>1
  <2> QED BY <2>9, <2>10
<1>4. GoldConv(m, k, y, x) = Running(m.bconv[k], full, n)
  BY DEF GoldConv
<1> HIDE DEF n, taken, term, full
<1>5. Accumulate(m.bconv[k], n, taken, term)
        = Wrap(Running(m.bconv[k], full, n)[n])
  BY <1>2, <1>3, AccumulateIs
<1>6. QED BY <1>1, <1>4, <1>5 DEF n

\* ReLU, shift and clamp leave what the cast to a byte keeps.
LEMMA SoftActIs ==
  ASSUME NEW sum \in Int
  PROVE  SoftAct(sum) = GoldClamp(sum)
<1> DEFINE d == 2 ^ SHIFT
           r == IF sum < 0 THEN 0 ELSE sum
           v == IF r \div d > ActMax THEN ActMax ELSE r \div d
<1>1. SoftAct(sum) = Int8(v) /\ GoldClamp(sum) = v
  BY DEF SoftAct, GoldClamp
<1>2. r \in Nat /\ d \in Nat \ {0} /\ ActMax \in Nat
  BY PowersOfTwo, AccelAssumption
<1> HIDE DEF r, d
<1>3. v \in 0 .. ActMax
  <2>1. r \div d \in Nat
    BY <1>2, QuotientNat
  <2> QED BY <1>2, <2>1
<1> HIDE DEF v
<1>4. Int8(v) = v
  <2> DEFINE D == 2 * ByteHalf
  <2>1. /\ ByteHalf \in Nat \ {0} /\ D \in Nat \ {0} /\ v + ByteHalf \in 0 .. D - 1
        /\ v + ByteHalf \in Int
    BY <1>2, <1>3, SoftAssumption
  <2> HIDE DEF D
  <2>2. v + ByteHalf = 0 * D + (v + ByteHalf) /\ 0 \in Int
    BY <2>1
  <2>3. (v + ByteHalf) % D = v + ByteHalf
    BY <2>1, <2>2, DivisionUnique, Zenon
  <2>4. ((v + ByteHalf) % D) - ByteHalf = v
    BY <1>2, <1>3, <2>1, <2>3
  <2> QED BY <2>4 DEF Int8, D
<1>5. QED BY <1>1, <1>4

\* The logits of the program are the datapath's.
LEMMA RunIs ==
  ASSUME NEW m, IsNetwork(m), OfWidth(m)
  PROVE  run(m.imem, m.wconv, m.bconv, m.wfc, m.bfc) = WrapLogit(m)
<1> USE SequencerAssumption, AccelAssumption
<1> DEFINE act == [j \in 0 .. FEAT - 1 |->
                     SoftAct(SoftConv(m.imem, m.wconv, m.bconv,
                                      j \div (OUT_H * OUT_W),
                                      (j \div OUT_W) % OUT_H, j % OUT_W))]
<1>1. run(m.imem, m.wconv, m.bconv, m.wfc, m.bfc)
        = [k \in 0 .. FC_OUT - 1 |-> SoftFc(act, m.wfc, m.bfc, k)]
  BY DEF run
<1>2. act = WrapAct(m)
  <2>1. ASSUME NEW j \in 0 .. FEAT - 1
        PROVE  SoftAct(SoftConv(m.imem, m.wconv, m.bconv, j \div (OUT_H * OUT_W),
                                (j \div OUT_W) % OUT_H, j % OUT_W))
                 = GoldClamp(Wrap(GoldSums(m)[j]))
    <3> DEFINE k == j \div (OUT_H * OUT_W)
               y == (j \div OUT_W) % OUT_H
               x == j % OUT_W
    <3>1. k \in 0 .. N_FILT - 1 /\ y \in Int /\ x \in Int
      BY PlaceIs
    <3>2. GoldSums(m)[j] = GoldConv(m, k, y, x)[K_H * K_W]
      BY DEF GoldSums
    <3> HIDE DEF k, y, x
    <3>3. SoftConv(m.imem, m.wconv, m.bconv, k, y, x) = Wrap(GoldSums(m)[j])
      BY <3>1, <3>2, SoftConvIs
    <3>4. Wrap(GoldSums(m)[j]) \in Int
      BY GoldInt, WrapInt
    <3>5. SoftAct(SoftConv(m.imem, m.wconv, m.bconv, k, y, x))
            = GoldClamp(Wrap(GoldSums(m)[j]))
      BY <3>3, <3>4, SoftActIs
    <3> QED BY <3>5 DEF k, y, x
  <2> QED BY <2>1 DEF WrapAct
<1> HIDE DEF act
<1>3. ASSUME NEW k \in 0 .. FC_OUT - 1
      PROVE  SoftFc(act, m.wfc, m.bfc, k) = Wrap(WrapFc(m, k)[FEAT])
  <2> DEFINE term == [j \in 0 .. FEAT - 1 |-> act[j] * m.wfc[k * FEAT + j]]
             bias == m.bfc[k]
             all == 0 .. FEAT - 1
  <2>1. SoftFc(act, m.wfc, m.bfc, k) = Accumulate(bias, FEAT, all, term)
    BY DEF SoftFc
  <2>2. WrapFc(m, k) = Running(bias, term, FEAT)
    BY <1>2 DEF WrapFc
  <2>3. bias \in Signed
    BY DEF OfWidth
  <2>4. ASSUME NEW t \in 0 .. FEAT - 1
        PROVE  term[t] \in Int /\ term[t] = IF t \in all THEN term[t] ELSE 0
    <3>1. term[t] = WrapAct(m)[t] * m.wfc[k * FEAT + t]
      BY <1>2
    <3>2. WrapAct(m)[t] * m.wfc[k * FEAT + t] \in Int
      BY FcNext
    <3> HIDE DEF term
    <3> QED BY <3>1, <3>2
  <2> HIDE DEF bias, all, term
  <2>5. Accumulate(bias, FEAT, all, term) = Wrap(Running(bias, term, FEAT)[FEAT])
    BY <2>3, <2>4, AccumulateIs
  <2> QED BY <2>1, <2>2, <2>5
<1>4. QED BY <1>1, <1>3 DEF WrapLogit

\* The program's class is the first of the largest logits.
LEMMA SoftArgmaxIs ==
  ASSUME NEW logit, DOMAIN logit = 0 .. FC_OUT - 1,
         \A n \in 0 .. FC_OUT - 1 : logit[n] \in Int
  PROVE  SoftArgmax(logit) = GoldArgmax(logit)
<1> USE SequencerAssumption
<1> DEFINE N == FC_OUT - 1
           Unfolds(g) ==
             g = [k \in 0 .. N |->
                    IF k = 0 THEN 0
                    ELSE IF logit[k] > logit[g[k - 1]] THEN k ELSE g[k - 1]]
           First(a, k) ==
             /\ a \in 0 .. k
             /\ \A n \in 0 .. k :
                  logit[n] < logit[a] \/ (logit[n] = logit[a] /\ a <= n)
           am == CHOOSE g : Unfolds(g)
<1>1. SoftArgmax(logit) = am[N]
  BY DEF SoftArgmax
<1>2. N \in Nat
  OBVIOUS
<1> HIDE DEF am, N
<1>3. \A k \in 0 .. N : logit[k] \in Int
  BY DEF N
\* The first greatest of one logit more.
<1>4. ASSUME NEW k \in 0 .. N, k # 0, NEW a, First(a, k - 1)
      PROVE  First(IF logit[k] > logit[a] THEN k ELSE a, k)
  <2>1. a \in 0 .. k - 1 /\ a \in 0 .. N
    BY <1>2, <1>4
  <2>2. logit[a] \in Int /\ logit[k] \in Int
    BY <1>3, <2>1
  <2>3. ASSUME NEW n \in 0 .. k, n # k
        PROVE  /\ logit[n] \in Int
               /\ logit[n] < logit[a] \/ (logit[n] = logit[a] /\ a <= n)
    <3>1. n \in 0 .. k - 1 /\ n \in 0 .. N
      BY <1>2, <2>3
    <3> QED BY <1>3, <1>4, <3>1
  <2>4. CASE logit[k] > logit[a]
    <3>1. ASSUME NEW n \in 0 .. k
          PROVE  logit[n] < logit[k] \/ (logit[n] = logit[k] /\ k <= n)
      <4>1. CASE n = k
        BY <4>1
      <4>2. CASE n # k
        BY <2>2, <2>3, <2>4, <4>2
      <4> QED BY <4>1, <4>2
    <3> QED BY <2>4, <3>1
  <2>5. CASE ~(logit[k] > logit[a])
    <3>1. ASSUME NEW n \in 0 .. k
          PROVE  logit[n] < logit[a] \/ (logit[n] = logit[a] /\ a <= n)
      <4>1. CASE n = k
        BY <2>1, <2>2, <2>5, <4>1
      <4>2. CASE n # k
        BY <2>3, <4>2
      <4> QED BY <4>1, <4>2
    <3>2. a \in 0 .. k
      BY <2>1
    <3> QED BY <2>5, <3>1, <3>2
  <2> QED BY <2>4, <2>5
<1>5. First(0, 0)
  BY <1>2, <1>3
<1>6. ASSUME NEW k \in 0 .. N, NEW a, NEW b, First(a, k), First(b, k)
      PROVE  a = b
  <2>1. a \in 0 .. N /\ b \in 0 .. N /\ a \in 0 .. k /\ b \in 0 .. k
    BY <1>2, <1>6
  <2>2. logit[a] \in Int /\ logit[b] \in Int
    BY <1>3, <2>1
  <2>3. logit[b] < logit[a] \/ (logit[b] = logit[a] /\ a <= b)
    BY <1>6, <2>1
  <2>4. logit[a] < logit[b] \/ (logit[a] = logit[b] /\ b <= a)
    BY <1>6, <2>1
  <2> QED BY <2>1, <2>2, <2>3, <2>4
<1> HIDE DEF First
<1>7. ASSUME NEW k \in 0 .. N PROVE \E a : First(a, k)
  <2> DEFINE T == {n \in Nat : n <= N /\ ~ \E a : First(a, n)}
  <2>1. T = {}
    <3>1. SUFFICES ASSUME T # {} PROVE FALSE
      OBVIOUS
    <3>2. PICK x \in T : \A y \in T : x <= y
      <4>1. T \subseteq Nat
        OBVIOUS
      <4> HIDE DEF T
      <4> QED BY <3>1, <4>1, LeastNatural
    <3>3. x \in Nat /\ x <= N /\ ~ \E a : First(a, x)
      OBVIOUS
    <3>4. x # 0
      BY <1>5, <3>3
    <3>5. x - 1 \in Nat /\ x - 1 <= N /\ x - 1 \notin T
      BY <1>2, <3>2, <3>3, <3>4
    <3>6. PICK a : First(a, x - 1)
      BY <3>5
    <3>7. x \in 0 .. N
      BY <1>2, <3>3
    <3> QED BY <1>4, <3>3, <3>4, <3>6, <3>7
  <2>2. k \in Nat /\ k <= N
    BY <1>2
  <2> QED BY <2>1, <2>2
<1> DEFINE w == [k \in 0 .. N |-> CHOOSE a : First(a, k)]
<1>8. ASSUME NEW k \in 0 .. N PROVE First(w[k], k)
  <2>1. w[k] = CHOOSE a : First(a, k)
    OBVIOUS
  <2> HIDE DEF w
  <2> QED BY <1>7, <2>1, Zenon
<1>9. Unfolds(w)
  <2>1. ASSUME NEW k \in 0 .. N
        PROVE  w[k] = IF k = 0 THEN 0
                      ELSE IF logit[k] > logit[w[k - 1]] THEN k ELSE w[k - 1]
    <3> HIDE DEF w
    <3>1. CASE k = 0
      BY <1>5, <1>6, <1>8, <3>1
    <3>2. CASE k # 0
      <4>1. k - 1 \in 0 .. N
        BY <1>2, <3>2
      <4>2. First(w[k - 1], k - 1)
        BY <1>8, <4>1
      <4>3. First(IF logit[k] > logit[w[k - 1]] THEN k ELSE w[k - 1], k)
        BY <1>4, <3>2, <4>2
      <4> QED BY <1>6, <1>8, <3>2, <4>3
    <3> QED BY <3>1, <3>2
  <2>2. w = [k \in 0 .. N |-> w[k]]
    OBVIOUS
  <2> HIDE DEF w
  <2> QED BY <2>1, <2>2
<1>10. Unfolds(am)
  <2> HIDE DEF Unfolds
  <2> QED BY <1>9, Zenon DEF am
<1>11. First(am[N], N)
  <2> DEFINE T == {n \in Nat : n <= N /\ ~First(am[n], n)}
  <2>1. T = {}
    <3>1. SUFFICES ASSUME T # {} PROVE FALSE
      OBVIOUS
    <3>2. PICK x \in T : \A y \in T : x <= y
      <4>1. T \subseteq Nat
        OBVIOUS
      <4> HIDE DEF T
      <4> QED BY <3>1, <4>1, LeastNatural
    <3>3. x \in 0 .. N /\ ~First(am[x], x)
      BY <1>2
    <3>4. am[x] = IF x = 0 THEN 0
                  ELSE IF logit[x] > logit[am[x - 1]] THEN x ELSE am[x - 1]
      BY <1>10, <3>3
    <3>5. x # 0
      BY <1>5, <3>3, <3>4
    <3>6. x - 1 \in Nat /\ x - 1 <= N /\ x - 1 \notin T
      BY <1>2, <3>2, <3>3, <3>5
    <3>7. First(am[x - 1], x - 1)
      BY <3>6
    <3> QED BY <1>4, <3>3, <3>4, <3>5, <3>7
  <2>2. N \in Nat /\ N <= N
    BY <1>2
  <2> QED BY <2>1, <2>2
<1>12. /\ am[N] \in 0 .. FC_OUT - 1
       /\ \A n \in 0 .. FC_OUT - 1 :
            logit[n] < logit[am[N]] \/ (logit[n] = logit[am[N]] /\ am[N] <= n)
  BY <1>11 DEF First, N
<1>13. QED BY <1>1, <1>12, ArgmaxIs

\* The memories of the test bench have the widths of the hardware's.
WidthsLoaded == OfWidth(Loaded)
LEMMA WidthsAlways == BenchSpec => []WidthsLoaded
<1>1. BenchInit => WidthsLoaded
  BY SoftAssumption DEF BenchInit, WidthsLoaded, Loaded, OfWidth
<1>2. WidthsLoaded /\ [BenchNext]_accelVars => WidthsLoaded'
  <2>1. [BenchNext]_accelVars => UNCHANGED inputVars
    BY DEF BenchNext, BenchTick, BenchReset, accelVars
  <2>2. UNCHANGED inputVars => Loaded' = Loaded
    BY DEF inputVars, Loaded
  <2>3. Loaded' = Loaded /\ WidthsLoaded => WidthsLoaded'
    BY DEF WidthsLoaded, OfWidth
  <2> QED BY <2>1, <2>2, <2>3
<1>3. QED BY <1>1, <1>2, PTL DEF BenchSpec

\* The cycles of an inference beyond the program's iterations.
LEMMA CyclesAre ==
  InferenceCycles
    = (ConvMacs + FcMacs) + 2 * ((N_FILT * OUT_H) * OUT_W) + 3 * FC_OUT + 1
<1> DEFINE pixels == (N_FILT * OUT_H) * OUT_W
           taps == K_H * K_W
<1>1. /\ pixels \in Nat /\ taps \in Nat /\ FC_OUT \in Nat /\ FEAT \in Nat
  BY SequencerAssumption
<1>2. InferenceCycles = pixels * (taps + 2) + FC_OUT * (FEAT + 2) + FC_OUT + 1
  BY DEF InferenceCycles, ConvCycles, ConvCost, FcCycles
<1>3. ConvMacs = pixels * taps /\ FcMacs = FC_OUT * FEAT
  BY DEF ConvMacs, FcMacs
<1> HIDE DEF pixels, taps
<1>4. /\ pixels * (taps + 2) = pixels * taps + 2 * pixels
      /\ FC_OUT * (FEAT + 2) = FC_OUT * FEAT + 2 * FC_OUT
      /\ pixels * taps \in Nat /\ FC_OUT * FEAT \in Nat
  BY <1>1
<1>5. InferenceCycles = (ConvMacs + FcMacs) + 2 * pixels + 3 * FC_OUT + 1
  BY <1>1, <1>2, <1>3, <1>4
<1>6. QED BY <1>5 DEF pixels

\* The program, given the files of a network, ends well with the datapath's
\* logits and class.
LEMMA SoftMainIs ==
  ASSUME NEW m, IsNetwork(m), OfWidth(m)
  PROVE  SoftMain(Files(m))
           = [returned |-> 0, logit |-> WrapLogit(m),
              argmax |-> GoldArgmax(WrapLogit(m)), macs |-> ConvMacs + FcMacs]
<1> USE SequencerAssumption, AccelAssumption
<1>1. /\ IN_H * IN_W \in Nat /\ (N_FILT * K_H) * K_W \in Nat /\ N_FILT \in Nat
      /\ FC_OUT * FEAT \in Nat /\ FC_OUT \in Nat
  OBVIOUS
<1>2. /\ Loads(Files(m).inp, IN_H * IN_W) /\ load8(Files(m).inp, IN_H * IN_W) = m.imem
  BY <1>1, FilesBack DEF Files, IsNetwork, OfWidth
<1>3. /\ Loads(Files(m).wconv, (N_FILT * K_H) * K_W)
      /\ load8(Files(m).wconv, (N_FILT * K_H) * K_W) = m.wconv
  BY <1>1, FilesBack DEF Files, IsNetwork, OfWidth
<1>4. Loads(Files(m).bconv, N_FILT) /\ load32(Files(m).bconv, N_FILT) = m.bconv
  BY <1>1, FilesBack DEF Files, IsNetwork, OfWidth
<1>5. /\ Loads(Files(m).wfc, FC_OUT * FEAT)
      /\ load8(Files(m).wfc, FC_OUT * FEAT) = m.wfc
  BY <1>1, FilesBack DEF Files, IsNetwork, OfWidth
<1>6. Loads(Files(m).bfc, FC_OUT) /\ load32(Files(m).bfc, FC_OUT) = m.bfc
  BY <1>1, FilesBack DEF Files, IsNetwork, OfWidth
<1>7. run(m.imem, m.wconv, m.bconv, m.wfc, m.bfc) = WrapLogit(m)
  BY RunIs
<1>8. SoftArgmax(WrapLogit(m)) = GoldArgmax(WrapLogit(m))
  <2>1. DOMAIN WrapLogit(m) = 0 .. FC_OUT - 1
    BY DEF WrapLogit
  <2>2. \A k \in 0 .. FC_OUT - 1 : WrapLogit(m)[k] \in Int
    BY LogitInt
  <2> QED BY <2>1, <2>2, SoftArgmaxIs
<1>9. QED BY <1>2, <1>3, <1>4, <1>5, <1>6, <1>7, <1>8, Zenon DEF SoftMain

\* The claim of yz_soft.c l.5-6, for every network of the memories' widths, final
\* sums that leave 32 bits included, and every power-up contents and sequence of
\* starts, cancellations and resets: the C program prints what the hardware
\* computes, and counts its cycles less its loads, stores and class search.
THEOREM SoftwareAgreesAlways == BenchSpec => []SoftwareAgrees
<1>1. DInv /\ WidthsLoaded /\ ExactCycles => SoftwareAgrees
  <2> SUFFICES ASSUME DInv, WidthsLoaded, ExactCycles, done_o
               PROVE  LET out == SoftMain(Files(Loaded)) IN
                        /\ out.returned = 0 /\ out.logit = logitm
                        /\ out.argmax = argmax_o
                        /\ cycle_cnt_o = out.macs + 2 * ((N_FILT * OUT_H) * OUT_W)
                                           + 3 * FC_OUT + 1
    BY DEF SoftwareAgrees
  <2>1. SoftMain(Files(Loaded))
          = [returned |-> 0, logit |-> WrapLogit(Loaded),
             argmax |-> GoldArgmax(WrapLogit(Loaded)), macs |-> ConvMacs + FcMacs]
    BY SoftMainIs DEF DInv, NetworkLoaded, WidthsLoaded
  <2>2. logitm = WrapLogit(Loaded) /\ argmax_o = GoldArgmax(WrapLogit(Loaded))
    BY DEF DInv, Right
  <2>3. cycle_cnt_o
          = (ConvMacs + FcMacs) + 2 * ((N_FILT * OUT_H) * OUT_W) + 3 * FC_OUT + 1
    BY CyclesAre DEF ExactCycles
  <2> QED BY <2>1, <2>2, <2>3
<1>2. QED
  BY <1>1, ComputesAlways, WidthsAlways, DataIndependentCycles, PTL

-----------------------------------------------------------------------------
(***************************************************************************)
(* The driver's writes.                                                    *)
(***************************************************************************)

CellSet == [region : 0 .. 4, addr : Nat, data : Int]

\* The cells of a memory, and all those an inference on image needs.
CellsOf(region, mem) ==
  {[region |-> region, addr |-> a, data |-> mem[a]] : a \in DOMAIN mem}
WeightCells ==
  CellsOf(1, Weights.wconv) \cup CellsOf(2, Weights.bconv)
    \cup CellsOf(3, Weights.wfc) \cup CellsOf(4, Weights.bfc)
Wanted(image) == CellsOf(0, image) \cup WeightCells

\* The loop over a memory writes each of its cells.
LEMMA CellsAre ==
  ASSUME NEW r \in 0 .. 4, NEW n \in Nat, NEW mem \in [0 .. n - 1 -> Int]
  PROVE  /\ Cells(r, mem) \in Seq(CellSet)
         /\ Range(Cells(r, mem)) = CellsOf(r, mem)
         /\ CellsOf(r, mem) \subseteq CellSet
<1>1. DOMAIN mem = 0 .. n - 1 /\ Cardinality(0 .. n - 1) = n
  BY FS_Interval
<1>2. Cells(r, mem)
        = [i \in 1 .. n |-> [region |-> r, addr |-> i - 1, data |-> mem[i - 1]]]
  BY <1>1 DEF Cells
<1> DEFINE s == Cells(r, mem)
<1>3. ASSUME NEW i \in 1 .. n
      PROVE  /\ s[i] = [region |-> r, addr |-> i - 1, data |-> mem[i - 1]]
             /\ s[i] \in CellSet /\ i - 1 \in 0 .. n - 1
  <2>1. i - 1 \in 0 .. n - 1 /\ i - 1 \in Nat /\ mem[i - 1] \in Int
    OBVIOUS
  <2>2. s[i] = [region |-> r, addr |-> i - 1, data |-> mem[i - 1]]
    BY <1>2
  <2> QED BY <2>1, <2>2 DEF CellSet
<1>4. DOMAIN s = 1 .. n /\ s \in [1 .. n -> CellSet]
  <2>1. s = [i \in 1 .. n |-> s[i]]
    BY <1>2
  <2> HIDE DEF s
  <2> QED BY <1>3, <2>1
<1>5. s \in Seq(CellSet)
  <2> HIDE DEF s
  <2> QED BY <1>4
<1>6. ASSUME NEW x \in Range(s) PROVE x \in CellsOf(r, mem)
  <2> HIDE DEF s
  <2>1. PICK i \in 1 .. n : x = s[i]
    BY <1>4 DEF Range
  <2> QED BY <1>1, <1>3, <2>1 DEF CellsOf
<1>7. ASSUME NEW x \in CellsOf(r, mem) PROVE x \in Range(s)
  <2>1. PICK a \in 0 .. n - 1 : x = [region |-> r, addr |-> a, data |-> mem[a]]
    BY <1>1 DEF CellsOf
  <2>2. a + 1 \in 1 .. n /\ (a + 1) - 1 = a
    OBVIOUS
  <2>3. x = s[a + 1]
    BY <1>3, <2>1, <2>2
  <2> HIDE DEF s
  <2> QED BY <1>4, <2>2, <2>3 DEF Range
<1>8. CellsOf(r, mem) \subseteq CellSet
  <2> HIDE DEF s
  <2> QED BY <1>5, <1>7, RangeOfSeq
<1>9. QED BY <1>5, <1>6, <1>7, <1>8

\* The sizes of the memories are numbers.
LEMMA Sizes ==
  /\ IN_H * IN_W \in Nat \ {0} /\ (N_FILT * K_H) * K_W \in Nat
  /\ FC_OUT * FEAT \in Nat
<1>1. N_FILT * K_H \in Nat
  BY SequencerAssumption
<1>2. QED BY <1>1, SequencerAssumption, AccelAssumption

\* What the driver writes for an image, and for the first.
LEMMA WritesAre ==
  ASSUME NEW image \in Images
  PROVE  /\ ImageWrites(image) \in Seq(CellSet)
         /\ Range(ImageWrites(image)) = CellsOf(0, image)
         /\ WeightWrites \o ImageWrites(image) \in Seq(CellSet)
         /\ Range(WeightWrites \o ImageWrites(image)) = Wanted(image)
         /\ Wanted(image) \subseteq CellSet
<1>1. /\ image \in [0 .. IN_H * IN_W - 1 -> Int]
      /\ Weights.wconv \in [0 .. (N_FILT * K_H) * K_W - 1 -> Int]
      /\ Weights.bconv \in [0 .. N_FILT - 1 -> Int]
      /\ Weights.wfc \in [0 .. FC_OUT * FEAT - 1 -> Int]
      /\ Weights.bfc \in [0 .. FC_OUT - 1 -> Int]
  BY DriverAssumption DEF IsNetwork, Network
<1> DEFINE s0 == Cells(0, image)
           s1 == Cells(1, Weights.wconv)
           s2 == Cells(2, Weights.bconv)
           s3 == Cells(3, Weights.wfc)
           s4 == Cells(4, Weights.bfc)
<1>2. /\ s0 \in Seq(CellSet) /\ Range(s0) = CellsOf(0, image)
      /\ CellsOf(0, image) \subseteq CellSet
  <2>1. 0 \in 0 .. 4
    OBVIOUS
  <2> HIDE DEF s0
  <2> QED BY <1>1, <2>1, Sizes, CellsAre DEF s0
<1>3. /\ s1 \in Seq(CellSet) /\ Range(s1) = CellsOf(1, Weights.wconv)
      /\ CellsOf(1, Weights.wconv) \subseteq CellSet
  <2> DEFINE n == (N_FILT * K_H) * K_W
  <2>1. n \in Nat /\ Weights.wconv \in [0 .. n - 1 -> Int] /\ 1 \in 0 .. 4
    BY <1>1, Sizes
  <2> HIDE DEF n
  <2> QED BY <2>1, CellsAre
<1>4. /\ s2 \in Seq(CellSet) /\ Range(s2) = CellsOf(2, Weights.bconv)
      /\ CellsOf(2, Weights.bconv) \subseteq CellSet
  BY <1>1, SequencerAssumption, CellsAre
<1>5. /\ s3 \in Seq(CellSet) /\ Range(s3) = CellsOf(3, Weights.wfc)
      /\ CellsOf(3, Weights.wfc) \subseteq CellSet
  <2> DEFINE n == FC_OUT * FEAT
  <2>1. n \in Nat /\ Weights.wfc \in [0 .. n - 1 -> Int] /\ 3 \in 0 .. 4
    BY <1>1, Sizes
  <2> HIDE DEF n
  <2> QED BY <2>1, CellsAre
<1>6. /\ s4 \in Seq(CellSet) /\ Range(s4) = CellsOf(4, Weights.bfc)
      /\ CellsOf(4, Weights.bfc) \subseteq CellSet
  <2> DEFINE n == FC_OUT
  <2>1. n \in Nat /\ Weights.bfc \in [0 .. n - 1 -> Int] /\ 4 \in 0 .. 4
    BY <1>1, SequencerAssumption
  <2> HIDE DEF n
  <2> QED BY <2>1, CellsAre
<1>7. ImageWrites(image) = s0 /\ WeightWrites = ((s1 \o s2) \o s3) \o s4
  BY DEF ImageWrites, WeightWrites
<1> DEFINE t2 == s1 \o s2
           t3 == t2 \o s3
           t4 == t3 \o s4
<1>8. WeightWrites = t4
  BY <1>7
<1>9. t4 \in Seq(CellSet)
      /\ Range(t4) = ((Range(s1) \cup Range(s2)) \cup Range(s3)) \cup Range(s4)
  <2> HIDE DEF s0, s1, s2, s3, s4
  <2>1. t2 \in Seq(CellSet) /\ Range(t2) = Range(s1) \cup Range(s2)
    BY <1>3, <1>4, ConcatProperties, RangeConcatenation
  <2> HIDE DEF t2
  <2>2. t3 \in Seq(CellSet) /\ Range(t3) = Range(t2) \cup Range(s3)
    BY <1>5, <2>1, ConcatProperties, RangeConcatenation
  <2> HIDE DEF t3
  <2>3. t4 \in Seq(CellSet) /\ Range(t4) = Range(t3) \cup Range(s4)
    BY <1>6, <2>2, ConcatProperties, RangeConcatenation
  <2> QED BY <2>1, <2>2, <2>3
<1> HIDE DEF s0, s1, s2, s3, s4, t4
<1>11. /\ WeightWrites \in Seq(CellSet) /\ Range(WeightWrites) = WeightCells
  BY <1>3, <1>4, <1>5, <1>6, <1>8, <1>9, Zenon DEF WeightCells
<1>12. /\ WeightWrites \o ImageWrites(image) \in Seq(CellSet)
       /\ Range(WeightWrites \o ImageWrites(image))
            = WeightCells \cup CellsOf(0, image)
  <2> DEFINE w == WeightWrites
             v == ImageWrites(image)
  <2>1. /\ w \in Seq(CellSet) /\ Range(w) = WeightCells
        /\ v \in Seq(CellSet) /\ Range(v) = CellsOf(0, image)
    BY <1>2, <1>7, <1>11
  <2> HIDE DEF w, v
  <2>2. w \o v \in Seq(CellSet) /\ Range(w \o v) = Range(w) \cup Range(v)
    BY <2>1, ConcatProperties, RangeConcatenation
  <2> QED BY <2>1, <2>2 DEF w, v
<1>13. Wanted(image) \subseteq CellSet
  BY <1>2, <1>3, <1>4, <1>5, <1>6 DEF Wanted, WeightCells
<1>14. WeightCells \cup CellsOf(0, image) = Wanted(image)
  BY DEF Wanted
<1>15. QED BY <1>2, <1>7, <1>12, <1>13, <1>14

\* Taking the next write off the list.
LEMMA NextWrite ==
  ASSUME NEW s \in Seq(CellSet), s # <<>>
  PROVE  /\ Head(s) \in Range(s) /\ Head(s) \in CellSet
         /\ Tail(s) \in Seq(CellSet)
         /\ Range(s) = {Head(s)} \cup Range(Tail(s))
<1>1. Len(s) \in Nat \ {0} /\ DOMAIN s = 1 .. Len(s) /\ s[1] = Head(s)
  BY EmptySeq, LenProperties
<1>2. /\ Tail(s) \in Seq(CellSet) /\ Head(s) \in CellSet
      /\ Len(Tail(s)) = Len(s) - 1
      /\ \A i \in 1 .. Len(Tail(s)) : Tail(s)[i] = s[i + 1]
  BY HeadTailProperties
<1>3. DOMAIN Tail(s) = 1 .. Len(s) - 1
  BY <1>2, LenProperties
<1>4. ASSUME NEW i \in 1 .. Len(s)
      PROVE  s[i] = Head(s) \/ s[i] \in Range(Tail(s))
  <2>1. CASE i = 1
    BY <1>1, <2>1
  <2>2. CASE i # 1
    <3>1. i - 1 \in 1 .. Len(s) - 1 /\ (i - 1) + 1 = i
      BY <1>1, <2>2
    <3>2. s[i] = Tail(s)[i - 1]
      BY <1>2, <3>1
    <3> QED BY <1>3, <3>1, <3>2 DEF Range
  <2> QED BY <2>1, <2>2
<1>5. ASSUME NEW i \in 1 .. Len(s) - 1 PROVE Tail(s)[i] \in Range(s)
  <2>1. i + 1 \in 1 .. Len(s)
    BY <1>1
  <2> QED BY <1>1, <1>2, <2>1 DEF Range
<1>6. Head(s) \in Range(s)
  <2>1. 1 \in DOMAIN s
    BY <1>1
  <2> QED BY <1>1, <2>1 DEF Range
<1>7. QED BY <1>1, <1>2, <1>3, <1>4, <1>5, <1>6 DEF Range

\* The five memories keep their sizes.
Shapes ==
  /\ imem = [i \in 0 .. IN_H * IN_W - 1 |-> imem[i]]
  /\ wconv = [i \in 0 .. (N_FILT * K_H) * K_W - 1 |-> wconv[i]]
  /\ bconv = [k \in 0 .. N_FILT - 1 |-> bconv[k]]
  /\ wfc = [i \in 0 .. FC_OUT * FEAT - 1 |-> wfc[i]]
  /\ bfc = [k \in 0 .. FC_OUT - 1 |-> bfc[k]]

\* Writing a cell of a memory.
LEMMA OneCell ==
  ASSUME NEW D, NEW mem, mem = [i \in D |-> mem[i]], NEW a, NEW d
  PROVE  /\ [mem EXCEPT ![a] = d] = [i \in D |-> [mem EXCEPT ![a] = d][i]]
         /\ \A i \in D : [mem EXCEPT ![a] = d][i] = IF i = a THEN d ELSE mem[i]
<1>1. [mem EXCEPT ![a] = d] = [i \in DOMAIN mem |-> IF i = a THEN d ELSE mem[i]]
  OBVIOUS
<1>2. DOMAIN mem = D
  OBVIOUS
<1>3. [mem EXCEPT ![a] = d] = [i \in D |-> IF i = a THEN d ELSE mem[i]]
  BY <1>1, <1>2
<1> DEFINE w == [mem EXCEPT ![a] = d]
<1>4. w = [i \in D |-> IF i = a THEN d ELSE mem[i]]
  BY <1>3
<1> HIDE DEF w
<1>5. w = [i \in D |-> w[i]] /\ \A i \in D : w[i] = IF i = a THEN d ELSE mem[i]
  BY <1>4
<1>6. QED BY <1>5 DEF w

\* No write changes a size.
LEMMA ShapesStep ==
  ASSUME Shapes, NEW w, MemoriesWith(w)
  PROVE  Shapes'
<1>1. imem' = [i \in 0 .. IN_H * IN_W - 1 |-> imem'[i]]
  BY OneCell DEF Shapes, MemoriesWith
<1>2. wconv' = [i \in 0 .. (N_FILT * K_H) * K_W - 1 |-> wconv'[i]]
  BY OneCell DEF Shapes, MemoriesWith
<1>3. bconv' = [k \in 0 .. N_FILT - 1 |-> bconv'[k]]
  BY OneCell DEF Shapes, MemoriesWith
<1>4. wfc' = [i \in 0 .. FC_OUT * FEAT - 1 |-> wfc'[i]]
  BY OneCell DEF Shapes, MemoriesWith
<1>5. bfc' = [k \in 0 .. FC_OUT - 1 |-> bfc'[k]]
  BY OneCell DEF Shapes, MemoriesWith
<1>6. QED BY <1>1, <1>2, <1>3, <1>4, <1>5 DEF Shapes

\* What a cell that is wanted says.
LEMMA WantedIs ==
  ASSUME NEW image \in Images, NEW cell \in Wanted(image)
  PROVE  /\ cell.region \in 0 .. 4
         /\ cell.region = 0 =>
              cell.addr \in 0 .. IN_H * IN_W - 1 /\ cell.data = image[cell.addr]
         /\ cell.region = 1 => /\ cell.addr \in 0 .. (N_FILT * K_H) * K_W - 1
                               /\ cell.data = Weights.wconv[cell.addr]
         /\ cell.region = 2 => /\ cell.addr \in 0 .. N_FILT - 1
                               /\ cell.data = Weights.bconv[cell.addr]
         /\ cell.region = 3 => /\ cell.addr \in 0 .. FC_OUT * FEAT - 1
                               /\ cell.data = Weights.wfc[cell.addr]
         /\ cell.region = 4 => /\ cell.addr \in 0 .. FC_OUT - 1
                               /\ cell.data = Weights.bfc[cell.addr]
<1>1. /\ DOMAIN image = 0 .. IN_H * IN_W - 1
      /\ DOMAIN Weights.wconv = 0 .. (N_FILT * K_H) * K_W - 1
      /\ DOMAIN Weights.bconv = 0 .. N_FILT - 1
      /\ DOMAIN Weights.wfc = 0 .. FC_OUT * FEAT - 1
      /\ DOMAIN Weights.bfc = 0 .. FC_OUT - 1
  BY DriverAssumption DEF IsNetwork, Network
<1>2. \/ cell \in CellsOf(0, image) \/ cell \in CellsOf(1, Weights.wconv)
      \/ cell \in CellsOf(2, Weights.bconv) \/ cell \in CellsOf(3, Weights.wfc)
      \/ cell \in CellsOf(4, Weights.bfc)
  BY DEF Wanted, WeightCells
<1>3. ASSUME NEW r, NEW mem, cell \in CellsOf(r, mem)
      PROVE  /\ cell.region = r /\ cell.addr \in DOMAIN mem
             /\ cell.data = mem[cell.addr]
  BY <1>3 DEF CellsOf
<1>4. CASE cell \in CellsOf(0, image)
  <2>1. /\ cell.region = 0 /\ cell.addr \in DOMAIN image
        /\ cell.data = image[cell.addr]
    BY <1>3, <1>4
  <2> QED BY <1>1, <2>1
<1>5. CASE cell \in CellsOf(1, Weights.wconv)
  <2>1. /\ cell.region = 1 /\ cell.addr \in DOMAIN Weights.wconv
        /\ cell.data = Weights.wconv[cell.addr]
    BY <1>3, <1>5
  <2> QED BY <1>1, <2>1
<1>6. CASE cell \in CellsOf(2, Weights.bconv)
  <2>1. /\ cell.region = 2 /\ cell.addr \in DOMAIN Weights.bconv
        /\ cell.data = Weights.bconv[cell.addr]
    BY <1>3, <1>6
  <2> QED BY <1>1, <2>1
<1>7. CASE cell \in CellsOf(3, Weights.wfc)
  <2>1. /\ cell.region = 3 /\ cell.addr \in DOMAIN Weights.wfc
        /\ cell.data = Weights.wfc[cell.addr]
    BY <1>3, <1>7
  <2> QED BY <1>1, <2>1
<1>8. CASE cell \in CellsOf(4, Weights.bfc)
  <2>1. /\ cell.region = 4 /\ cell.addr \in DOMAIN Weights.bfc
        /\ cell.data = Weights.bfc[cell.addr]
    BY <1>3, <1>8
  <2> QED BY <1>1, <2>1
<1>9. QED BY <1>2, <1>4, <1>5, <1>6, <1>7, <1>8

\* The cell's memory holds what is wanted there; input is the memory that the
\* writes of images go to.
Stored(input, cell) ==
  /\ cell.region = 0 => input[cell.addr] = cell.data
  /\ cell.region = 1 => wconv[cell.addr] = cell.data
  /\ cell.region = 2 => bconv[cell.addr] = cell.data
  /\ cell.region = 3 => wfc[cell.addr] = cell.data
  /\ cell.region = 4 => bfc[cell.addr] = cell.data

\* A write port that only ever holds wanted writes spoils no cell.
RightWrite(w, image) == w = Idle \/ \E cell \in Wanted(image) : w = WriteOf(cell)

\* A memory after a wanted write: the cell written, and no other, changes, and
\* to what is wanted.
LEMMA WriteSpoilsNothing ==
  ASSUME NEW image \in Images, NEW cell \in Wanted(image), NEW w,
         RightWrite(w, image), NEW r, cell.region = r, NEW D, NEW mem, NEW mem2,
         mem = [i \in D |-> mem[i]], cell.addr \in D,
         mem2 = IF w.what = "write" /\ w.region = r
                  THEN [mem EXCEPT ![w.addr] = w.data] ELSE mem,
         mem[cell.addr] = cell.data \/ w = WriteOf(cell)
  PROVE  mem2[cell.addr] = cell.data
<1>1. CASE w = Idle
  <2>1. w.what # "write" /\ w # WriteOf(cell)
    BY <1>1 DEF Idle, WriteOf, Write
  <2> QED BY <2>1
<1>2. ASSUME NEW other \in Wanted(image), w = WriteOf(other)
      PROVE  mem2[cell.addr] = cell.data
  <2>1. /\ w.what = "write" /\ w.region = other.region
        /\ w.addr = other.addr /\ w.data = other.data
    BY <1>2 DEF WriteOf, Write
  <2>2. CASE other.region # r
    <3>1. w # WriteOf(cell)
      <4>1. WriteOf(cell).region = r
        BY DEF WriteOf, Write
      <4> QED BY <2>1, <2>2, <4>1
    <3> QED BY <2>1, <2>2, <3>1
  <2>3. CASE other.region = r /\ other.addr = cell.addr
    <3>1. other.data = cell.data
      BY <2>3, WantedIs
    <3>2. mem2 = [mem EXCEPT ![cell.addr] = cell.data]
      BY <2>1, <2>3, <3>1
    <3> QED BY <3>2, OneCell
  <2>4. CASE other.region = r /\ other.addr # cell.addr
    <3>1. w # WriteOf(cell)
      <4>1. WriteOf(cell).addr = cell.addr
        BY DEF WriteOf, Write
      <4> QED BY <2>1, <2>4, <4>1
    <3>2. mem2 = [mem EXCEPT ![other.addr] = other.data]
      BY <2>1, <2>4
    <3>3. mem2[cell.addr] = mem[cell.addr]
      BY <2>4, <3>2, OneCell
    <3> QED BY <3>1, <3>3
  <2> QED BY <2>2, <2>3, <2>4
<1>3. QED BY <1>1, <1>2 DEF RightWrite

\* The write port of the datapath stores what it is given, and spoils nothing.
LEMMA PortStores ==
  ASSUME NEW image \in Images, NEW cell \in Wanted(image), Shapes, NEW w,
         MemoriesWith(w), RightWrite(w, image)
  PROVE  /\ cell.region = 0 /\ (imem[cell.addr] = cell.data \/ w = WriteOf(cell))
              => imem'[cell.addr] = cell.data
         /\ \A in : cell.region # 0 /\ (Stored(in, cell) \/ w = WriteOf(cell))
              => Stored(in, cell)'
<1>1. ASSUME cell.region = 0, imem[cell.addr] = cell.data \/ w = WriteOf(cell)
      PROVE  imem'[cell.addr] = cell.data
  <2> DEFINE D == 0 .. IN_H * IN_W - 1
  <2>1. imem' = IF w.what = "write" /\ w.region = 0
                  THEN [imem EXCEPT ![w.addr] = w.data] ELSE imem
    BY DEF MemoriesWith
  <2>2. imem = [i \in D |-> imem[i]] /\ cell.addr \in D
    BY <1>1, WantedIs DEF Shapes
  <2> HIDE DEF D
  <2> QED BY <1>1, <2>1, <2>2, WriteSpoilsNothing
<1>2. ASSUME NEW in, cell.region = 1, Stored(in, cell) \/ w = WriteOf(cell)
      PROVE  Stored(in, cell)'
  <2> DEFINE D == 0 .. (N_FILT * K_H) * K_W - 1
  <2>1. wconv' = IF w.what = "write" /\ w.region = 1
                  THEN [wconv EXCEPT ![w.addr] = w.data] ELSE wconv
    BY DEF MemoriesWith
  <2>2. wconv = [i \in D |-> wconv[i]] /\ cell.addr \in D
    BY <1>2, WantedIs DEF Shapes
  <2>3. wconv[cell.addr] = cell.data \/ w = WriteOf(cell)
    BY <1>2 DEF Stored
  <2> HIDE DEF D
  <2>4. wconv'[cell.addr] = cell.data
    BY <1>2, <2>1, <2>2, <2>3, WriteSpoilsNothing
  <2> QED BY <1>2, <2>4 DEF Stored
<1>3. ASSUME NEW in, cell.region = 2, Stored(in, cell) \/ w = WriteOf(cell)
      PROVE  Stored(in, cell)'
  <2> DEFINE D == 0 .. N_FILT - 1
  <2>1. bconv' = IF w.what = "write" /\ w.region = 2
                  THEN [bconv EXCEPT ![w.addr] = w.data] ELSE bconv
    BY DEF MemoriesWith
  <2>2. bconv = [i \in D |-> bconv[i]] /\ cell.addr \in D
    BY <1>3, WantedIs DEF Shapes
  <2>3. bconv[cell.addr] = cell.data \/ w = WriteOf(cell)
    BY <1>3 DEF Stored
  <2> HIDE DEF D
  <2>4. bconv'[cell.addr] = cell.data
    BY <1>3, <2>1, <2>2, <2>3, WriteSpoilsNothing
  <2> QED BY <1>3, <2>4 DEF Stored
<1>4. ASSUME NEW in, cell.region = 3, Stored(in, cell) \/ w = WriteOf(cell)
      PROVE  Stored(in, cell)'
  <2> DEFINE D == 0 .. FC_OUT * FEAT - 1
  <2>1. wfc' = IF w.what = "write" /\ w.region = 3
                  THEN [wfc EXCEPT ![w.addr] = w.data] ELSE wfc
    BY DEF MemoriesWith
  <2>2. wfc = [i \in D |-> wfc[i]] /\ cell.addr \in D
    BY <1>4, WantedIs DEF Shapes
  <2>3. wfc[cell.addr] = cell.data \/ w = WriteOf(cell)
    BY <1>4 DEF Stored
  <2> HIDE DEF D
  <2>4. wfc'[cell.addr] = cell.data
    BY <1>4, <2>1, <2>2, <2>3, WriteSpoilsNothing
  <2> QED BY <1>4, <2>4 DEF Stored
<1>5. ASSUME NEW in, cell.region = 4, Stored(in, cell) \/ w = WriteOf(cell)
      PROVE  Stored(in, cell)'
  <2> DEFINE D == 0 .. FC_OUT - 1
  <2>1. bfc' = IF w.what = "write" /\ w.region = 4
                  THEN [bfc EXCEPT ![w.addr] = w.data] ELSE bfc
    BY DEF MemoriesWith
  <2>2. bfc = [i \in D |-> bfc[i]] /\ cell.addr \in D
    BY <1>5, WantedIs DEF Shapes
  <2>3. bfc[cell.addr] = cell.data \/ w = WriteOf(cell)
    BY <1>5 DEF Stored
  <2> HIDE DEF D
  <2>4. bfc'[cell.addr] = cell.data
    BY <1>5, <2>1, <2>2, <2>3, WriteSpoilsNothing
  <2> QED BY <1>5, <2>4 DEF Stored
<1>6. cell.region \in 0 .. 4
  BY WantedIs
<1>7. QED BY <1>1, <1>2, <1>3, <1>4, <1>5, <1>6

\* A cell of a memory that is wanted is wanted.
LEMMA CellWanted ==
  ASSUME NEW r, NEW n, NEW mem, DOMAIN mem = 0 .. n - 1, NEW a \in 0 .. n - 1
  PROVE  [region |-> r, addr |-> a, data |-> mem[a]] \in CellsOf(r, mem)
BY DEF CellsOf

\* Once every wanted cell is stored the weights are the network's, and input
\* holds the image.
LEMMA AllStored ==
  ASSUME NEW image \in Images, NEW in, Shapes,
         \A cell \in Wanted(image) : Stored(in, cell)
  PROVE  /\ \A i \in 0 .. IN_H * IN_W - 1 : in[i] = image[i]
         /\ wconv = Weights.wconv /\ bconv = Weights.bconv
         /\ wfc = Weights.wfc /\ bfc = Weights.bfc
<1>1. /\ image = [i \in 0 .. IN_H * IN_W - 1 |-> image[i]]
      /\ Weights.wconv
           = [i \in 0 .. (N_FILT * K_H) * K_W - 1 |-> Weights.wconv[i]]
      /\ Weights.bconv = [k \in 0 .. N_FILT - 1 |-> Weights.bconv[k]]
      /\ Weights.wfc = [i \in 0 .. FC_OUT * FEAT - 1 |-> Weights.wfc[i]]
      /\ Weights.bfc = [k \in 0 .. FC_OUT - 1 |-> Weights.bfc[k]]
  BY DriverAssumption DEF IsNetwork, Network
<1>2. ASSUME NEW r, NEW mem, CellsOf(r, mem) \subseteq Wanted(image),
             NEW n, DOMAIN mem = 0 .. n - 1, NEW a \in 0 .. n - 1
      PROVE  \E cell \in Wanted(image) :
               /\ cell.region = r /\ cell.addr = a /\ cell.data = mem[a]
               /\ Stored(in, cell)
  BY <1>2, CellWanted
<1>3. /\ CellsOf(0, image) \subseteq Wanted(image)
      /\ CellsOf(1, Weights.wconv) \subseteq Wanted(image)
      /\ CellsOf(2, Weights.bconv) \subseteq Wanted(image)
      /\ CellsOf(3, Weights.wfc) \subseteq Wanted(image)
      /\ CellsOf(4, Weights.bfc) \subseteq Wanted(image)
  BY DEF Wanted, WeightCells
<1>4. ASSUME NEW i \in 0 .. IN_H * IN_W - 1 PROVE in[i] = image[i]
  <2>1. \E cell \in Wanted(image) :
          /\ cell.region = 0 /\ cell.addr = i /\ cell.data = image[i]
          /\ Stored(in, cell)
    <3> DEFINE n == IN_H * IN_W
    <3>1. DOMAIN image = 0 .. n - 1 /\ i \in 0 .. n - 1
      BY <1>1
    <3> HIDE DEF n
    <3>2. [region |-> 0, addr |-> i, data |-> image[i]] \in Wanted(image)
      BY <1>3, <3>1, CellWanted
    <3> QED BY <3>2
  <2> QED BY <2>1 DEF Stored
<1>5. ASSUME NEW i \in 0 .. (N_FILT * K_H) * K_W - 1
      PROVE  wconv[i] = Weights.wconv[i]
  <2>1. \E cell \in Wanted(image) :
          /\ cell.region = 1 /\ cell.addr = i /\ cell.data = Weights.wconv[i]
          /\ Stored(in, cell)
    <3> DEFINE n == (N_FILT * K_H) * K_W
    <3>1. DOMAIN Weights.wconv = 0 .. n - 1 /\ i \in 0 .. n - 1
      BY <1>1
    <3> HIDE DEF n
    <3>2. CellsOf(1, Weights.wconv) \subseteq Wanted(image)
      BY <1>3
    <3> QED BY <1>2, <3>1, <3>2
  <2> QED BY <2>1 DEF Stored
<1>6. ASSUME NEW i \in 0 .. N_FILT - 1 PROVE bconv[i] = Weights.bconv[i]
  <2>1. \E cell \in Wanted(image) :
          /\ cell.region = 2 /\ cell.addr = i /\ cell.data = Weights.bconv[i]
          /\ Stored(in, cell)
    <3>1. DOMAIN Weights.bconv = 0 .. N_FILT - 1
      BY <1>1
    <3>2. CellsOf(2, Weights.bconv) \subseteq Wanted(image)
      BY <1>3
    <3> QED BY <1>2, <3>1, <3>2
  <2> QED BY <2>1 DEF Stored
<1>7. ASSUME NEW i \in 0 .. FC_OUT * FEAT - 1 PROVE wfc[i] = Weights.wfc[i]
  <2>1. \E cell \in Wanted(image) :
          /\ cell.region = 3 /\ cell.addr = i /\ cell.data = Weights.wfc[i]
          /\ Stored(in, cell)
    <3> DEFINE n == FC_OUT * FEAT
    <3>1. DOMAIN Weights.wfc = 0 .. n - 1 /\ i \in 0 .. n - 1
      BY <1>1
    <3> HIDE DEF n
    <3>2. CellsOf(3, Weights.wfc) \subseteq Wanted(image)
      BY <1>3
    <3> QED BY <1>2, <3>1, <3>2
  <2> QED BY <2>1 DEF Stored
<1>8. ASSUME NEW i \in 0 .. FC_OUT - 1 PROVE bfc[i] = Weights.bfc[i]
  <2>1. \E cell \in Wanted(image) :
          /\ cell.region = 4 /\ cell.addr = i /\ cell.data = Weights.bfc[i]
          /\ Stored(in, cell)
    <3>1. DOMAIN Weights.bfc = 0 .. FC_OUT - 1
      BY <1>1
    <3>2. CellsOf(4, Weights.bfc) \subseteq Wanted(image)
      BY <1>3
    <3> QED BY <1>2, <3>1, <3>2
  <2> QED BY <2>1 DEF Stored
<1>9. wconv = Weights.wconv
  BY <1>1, <1>5 DEF Shapes
<1>10. bconv = Weights.bconv
  BY <1>1, <1>6 DEF Shapes
<1>11. wfc = Weights.wfc
  BY <1>1, <1>7 DEF Shapes
<1>12. bfc = Weights.bfc
  BY <1>1, <1>8 DEF Shapes
<1>13. QED BY <1>4, <1>9, <1>10, <1>11, <1>12

\* The driver's list of writes and the write port it feeds.
Loading(port) ==
  /\ job \in Images
  /\ todo \in Seq(CellSet) /\ Range(todo) \subseteq Wanted(job)
  /\ sw # "prepare" => todo = <<>>
  /\ RightWrite(port, job)
  /\ port # Idle => sw = "prepare" /\ response = [what |-> "written"]
  /\ response.what = "status" => sw = "await"

\* What the driver begins with, and begins again with after a reset.
LEMMA LoadBegins ==
  ASSUME NEW image \in Images, sw = "prepare", job = image, response = Idle,
         todo = WeightWrites \o ImageWrites(image)
  PROVE  Loading(Idle) /\ \A cell \in Wanted(job) : cell \in Range(todo)
<1>1. Idle.what = "none"
  BY DEF Idle
<1>2. QED BY <1>1, WritesAre DEF Loading, RightWrite

\* No cell is left to write.
LEMMA NothingLeft == Range(<<>>) = {}
BY DEF Range

\* After a step each cell the driver wants is still to be written, or just being
\* written, or had been taken off its list before.
Accounted(port2) ==
  \A cell \in Wanted(job') :
    \/ cell \in Range(todo') \/ port2 = WriteOf(cell)
    \/ cell \in Wanted(job) /\ cell \notin Range(todo)

\* The driver takes no write off its list that does not go to the port, and
\* a new image takes none of the weights back.
LEMMA LoadStep ==
  ASSUME NEW port, NEW port2, Loading(port), NEW op, DriverStep(op),
         CsrStep(op), port2 = IF op.what = "write" THEN op ELSE Idle
  PROVE  Loading(port2)' /\ Accounted(port2)
<1>0. /\ op.what = "status" <=> response'.what = "status"
      /\ op.what = "write" => response' = [what |-> "written"]
  BY DEF CsrStep, Answer, Idle
<1>1. ASSUME UNCHANGED <<todo, job>>, sw' # "prepare" => todo = <<>>,
             op.what # "write", op.what = "status" => sw' = "await"
      PROVE  Loading(port2)' /\ Accounted(port2)
  <2>1. port2 = Idle
    BY <1>1
  <2>2. Loading(port2)'
    BY <1>0, <1>1, <2>1 DEF Loading, RightWrite
  <2>3. Wanted(job') = Wanted(job)
    BY <1>1
  <2> QED BY <1>1, <2>2, <2>3 DEF Accounted
<1>2. CASE response # Idle
  <2>1. op = Idle /\ Receive
    BY <1>2 DEF DriverStep
  <2>2. op.what = "none"
    BY <2>1 DEF Idle
  <2>3. UNCHANGED <<todo, job>> /\ (sw = "prepare" => sw' = "prepare")
    BY <2>1 DEF Receive, Loading
  <2>4. sw' # "prepare" => todo = <<>>
    BY <2>3 DEF Loading
  <2> QED BY <1>1, <2>2, <2>3, <2>4
<1>3. ASSUME Load(op)
      PROVE  Loading(port2)' /\ Accounted(port2)
  <2>1. /\ sw = "prepare" /\ todo # <<>> /\ op = WriteOf(Head(todo))
        /\ todo' = Tail(todo) /\ UNCHANGED <<sw, job>>
    BY <1>3 DEF Load
  <2>2. /\ Head(todo) \in Range(todo) /\ Tail(todo) \in Seq(CellSet)
        /\ Range(todo) = {Head(todo)} \cup Range(Tail(todo))
    BY <2>1, NextWrite DEF Loading
  <2>3. op.what = "write" /\ op.what # "status"
    BY <2>1 DEF WriteOf, Write
  <2>4. port2 = WriteOf(Head(todo)) /\ Head(todo) \in Wanted(job)
    BY <2>1, <2>2, <2>3 DEF Loading
  <2>5. RightWrite(port2, job')
    BY <2>1, <2>4 DEF RightWrite
  <2>6. Range(Tail(todo)) \subseteq Wanted(job)
    BY <2>2 DEF Loading
  <2>7. Loading(port2)'
    BY <1>0, <2>1, <2>2, <2>3, <2>5, <2>6 DEF Loading, RightWrite
  <2>8. ASSUME NEW cell \in Wanted(job')
        PROVE  \/ cell \in Range(todo') \/ port2 = WriteOf(cell)
               \/ cell \in Wanted(job) /\ cell \notin Range(todo)
    BY <2>1, <2>2, <2>4
  <2> QED BY <2>7, <2>8 DEF Accounted
<1>4. ASSUME NextJob(op) \/ Release(op)
      PROVE  Loading(port2)' /\ Accounted(port2)
  <2>1. PICK image \in Images : Prepare(image)
    BY <1>4 DEF NextJob, Release
  <2>2. sw # "prepare" /\ op.what \in {"none", "ctrl"}
    BY <1>4 DEF NextJob, Release, Idle, Ctrl
  <2>3. todo = <<>>
    BY <2>2 DEF Loading
  <2>4. sw' = "prepare" /\ job' = image /\ todo' = ImageWrites(image)
    BY <2>1 DEF Prepare
  <2>5. port2 = Idle
    BY <2>2
  <2>6. /\ ImageWrites(image) \in Seq(CellSet)
        /\ Range(ImageWrites(image)) = CellsOf(0, image)
    BY WritesAre
  <2>7. Range(ImageWrites(image)) \subseteq Wanted(image)
    BY <2>6 DEF Wanted
  <2>8. Loading(port2)'
    BY <1>0, <2>2, <2>4, <2>5, <2>6, <2>7 DEF Loading, RightWrite
  <2>9. ASSUME NEW cell \in Wanted(job')
        PROVE  \/ cell \in Range(todo')
               \/ cell \in Wanted(job) /\ cell \notin Range(todo)
    BY <2>3, <2>4, <2>6, NothingLeft DEF Wanted
  <2> QED BY <2>8, <2>9 DEF Accounted
<1>5. ASSUME StartRun(op)
      PROVE  Loading(port2)' /\ Accounted(port2)
  <2>1. op.what = "ctrl" /\ todo = <<>> /\ UNCHANGED <<todo, job>>
    BY <1>5 DEF StartRun, Ctrl
  <2> QED BY <1>1, <2>1
<1>6. ASSUME Cancel(op) \/ Collect(op)
      PROVE  Loading(port2)' /\ Accounted(port2)
  <2>1. /\ op.what \in {"ctrl", "logit"} /\ sw # "prepare"
        /\ UNCHANGED <<todo, job>>
    BY <1>6 DEF Cancel, Collect, Ctrl, ReadLogit
  <2>2. todo = <<>>
    BY <2>1 DEF Loading
  <2> QED BY <1>1, <2>1, <2>2
<1>7. ASSUME Poll(op)
      PROVE  Loading(port2)' /\ Accounted(port2)
  <2>1. op.what = "status" /\ sw' = "await" /\ UNCHANGED <<sw, todo, job>>
    BY <1>7 DEF Poll, ReadStatus
  <2>2. todo = <<>>
    BY <2>1 DEF Loading
  <2> QED BY <1>1, <2>1, <2>2
<1>8. ASSUME TakeInterrupt(op)
      PROVE  Loading(port2)' /\ Accounted(port2)
  <2>1. op.what = "none" /\ sw = "await" /\ UNCHANGED <<todo, job>>
    BY <1>8 DEF TakeInterrupt, Idle
  <2>2. todo = <<>>
    BY <2>1 DEF Loading
  <2> QED BY <1>1, <2>1, <2>2
<1>9. ASSUME op = Idle, UNCHANGED <<sw, todo, job>>
      PROVE  Loading(port2)' /\ Accounted(port2)
  <2>1. op.what = "none"
    BY <1>9 DEF Idle
  <2>2. sw' # "prepare" => todo = <<>>
    BY <1>9 DEF Loading
  <2> QED BY <1>1, <1>9, <2>1, <2>2
<1>10. QED
  BY <1>2, <1>3, <1>4, <1>5, <1>6, <1>7, <1>8, <1>9 DEF DriverStep, Access

\* The step begins another job, with nothing read yet and no run on.
NewJob(op) ==
  /\ response = Idle /\ (NextJob(op) \/ Release(op))
  /\ sw \in {"collect", "cancel"} /\ sw' = "prepare"
  /\ result' = <<>> /\ response'.what \notin {"logit", "status"}

\* Every other step of the driver goes on with its job.
LEMMA SameJob ==
  ASSUME NEW op, DriverStep(op), CsrStep(op)
  PROVE  UNCHANGED job \/ NewJob(op)
<1>1. CASE response # Idle
  BY <1>1 DEF DriverStep, Receive
<1>2. ASSUME response = Idle, NextJob(op) \/ Release(op) PROVE NewJob(op)
  <2>1. op.what \in {"none", "ctrl"}
    BY <1>2 DEF NextJob, Release, Idle, Ctrl
  <2>2. response'.what \notin {"logit", "status"}
    BY <2>1 DEF CsrStep, Answer, Idle
  <2> QED BY <1>2, <2>2 DEF NewJob, NextJob, Release, Prepare
<1>3. ASSUME response = Idle, ~(NextJob(op) \/ Release(op))
      PROVE  UNCHANGED job
  BY <1>3 DEF DriverStep, Access, Load, StartRun, Poll, Collect, Cancel,
     TakeInterrupt
<1>4. QED BY <1>1, <1>2, <1>3

\* What the driver has read, and is reading, of the answer on the network m.
Reads(m) ==
  /\ response.what = "logit" =>
       /\ sw = "collect" /\ Len(result) < FC_OUT
       /\ response.value = WrapLogit(m)[Len(result)]
  /\ result \in Seq(Int) /\ Len(result) <= FC_OUT
  /\ \A k \in 1 .. Len(result) : result[k] = WrapLogit(m)[k - 1]

\* A job that begins has read nothing.
LEMMA ReadsNothing ==
  ASSUME NEW m, result = <<>>, response.what # "logit"
  PROVE  Reads(m)
BY EmptySeq, SequencerAssumption DEF Reads

\* The driver reads the logits in their order, as long as what it reads is
\* right.
LEMMA ReadsStep ==
  ASSUME NEW m, IsNetwork(m), Reads(m), sw = "collect" => Right(m),
         NEW op, DriverStep(op), CsrStep(op)
  PROVE  Reads(m)'
<1>1. op.what = "logit" <=> response'.what = "logit"
  BY DEF CsrStep, Answer, Idle
<1>2. CASE response # Idle
  <2>1. op = Idle /\ Receive
    BY <1>2 DEF DriverStep
  <2>2. response'.what # "logit"
    BY <1>1, <2>1 DEF Idle
  <2>3. CASE response.what # "logit"
    <3>1. result' = result
      BY <2>1, <2>3 DEF Receive
    <3> QED BY <2>2, <3>1 DEF Reads
  <2>4. CASE response.what = "logit"
    <3> DEFINE n == Len(result)
               v == response.value
    <3>1. result' = Append(result, v)
      BY <2>1, <2>4 DEF Receive
    <3>2. n \in Nat /\ n < FC_OUT /\ v = WrapLogit(m)[n] /\ result \in Seq(Int)
      BY <2>4, LenProperties DEF Reads
    <3>3. n \in 0 .. FC_OUT - 1
      BY <3>2, SequencerAssumption
    <3>4. v \in Int
      BY <3>2, <3>3, LogitInt
    <3>5. /\ result' \in Seq(Int) /\ Len(result') = n + 1
          /\ \A k \in 1 .. n : result'[k] = result[k]
          /\ result'[n + 1] = v
      BY <3>1, <3>2, <3>4, AppendProperties
    <3>6. ASSUME NEW k \in 1 .. n + 1 PROVE result'[k] = WrapLogit(m)[k - 1]
      <4>1. CASE k \in 1 .. n
        BY <3>5, <4>1 DEF Reads
      <4>2. CASE k = n + 1
        BY <3>2, <3>5, <4>2
      <4> QED BY <3>2, <4>1, <4>2
    <3>7. n + 1 <= FC_OUT
      BY <3>3, SequencerAssumption
    <3> QED BY <2>2, <3>5, <3>6, <3>7 DEF Reads
  <2> QED BY <2>3, <2>4
<1>3. ASSUME UNCHANGED result, op.what # "logit" PROVE Reads(m)'
  BY <1>1, <1>3 DEF Reads
<1>4. ASSUME Collect(op) PROVE Reads(m)'
  <2>1. /\ sw = "collect" /\ Len(result) < FC_OUT
        /\ op = ReadLogit(Len(result)) /\ UNCHANGED <<sw, result>>
    BY <1>4 DEF Collect
  <2>2. op.what = "logit" /\ op.index = Len(result)
    BY <2>1 DEF ReadLogit
  <2>3. response'.value = logitm[Len(result)]
    BY <2>2 DEF CsrStep, Answer
  <2>4. logitm = WrapLogit(m)
    BY <2>1 DEF Right
  <2> QED BY <2>1, <2>3, <2>4 DEF Reads
<1>5. ASSUME response = Idle, NextJob(op) \/ Release(op) PROVE Reads(m)'
  <2>1. op.what \in {"none", "ctrl"} /\ result' = <<>>
    BY <1>5 DEF NextJob, Release, Idle, Ctrl, Prepare
  <2> QED BY <1>1, <2>1, EmptySeq, SequencerAssumption DEF Reads
<1>6. ASSUME Load(op) PROVE Reads(m)'
  BY <1>3, <1>6 DEF Load, WriteOf, Write
<1>7. ASSUME StartRun(op) \/ Cancel(op) PROVE Reads(m)'
  <2>1. op.what = "ctrl" /\ UNCHANGED result
    BY <1>7 DEF StartRun, Cancel, Ctrl
  <2> QED BY <1>3, <2>1
<1>8. ASSUME Poll(op) PROVE Reads(m)'
  BY <1>3, <1>8 DEF Poll, ReadStatus
<1>9. ASSUME op = Idle, UNCHANGED result PROVE Reads(m)'
  BY <1>3, <1>9 DEF Idle
<1>10. CASE response = Idle
  BY <1>4, <1>5, <1>6, <1>7, <1>8, <1>9, <1>10
     DEF DriverStep, Access, TakeInterrupt
<1>11. QED BY <1>2, <1>10

\* What is read of the right answer is what is expected.
LEMMA ReadsGolden ==
  ASSUME job \in Images, \A m : m = Network(job) => Reads(m),
         \A image \in Images : Fits(Network(image))
  PROVE  ResultIsGolden
<1>1. Reads(Network(job))
  OBVIOUS
<1>2. Golden[job] = WrapLogit(Network(job))
  BY WrapExact, DriverAssumption DEF Golden
<1>3. QED BY <1>1, <1>2 DEF ResultIsGolden, Reads


=============================================================================
