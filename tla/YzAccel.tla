------------------------------ MODULE YzAccel ------------------------------
(***************************************************************************)
(* rtl/yz_accel.sv, the datapath on top of YzSequencer: one shared signed  *)
(* multiply-accumulate unit computes, layer by layer, what                 *)
(* sw/yz/gen_golden.py computes with loops over whole arrays.              *)
(*                                                                         *)
(* The memories hold what $readmemh or the write port put there; here they *)
(* are loaded before the clock starts (the standalone test bench), YzTop   *)
(* drives the write port.  Every index the datapath forms is inside its    *)
(* memory (InBounds), so the truncation of indices to $clog2 bits never    *)
(* shows.                                                                  *)
(***************************************************************************)
EXTENDS YzSequencer, Integers

CONSTANTS
  IN_H, IN_W,     \* input plane
  STRIDE, PAD_H, PAD_W,
  SHIFT,          \* requantisation
  ActMax,         \* largest activation, 127
  AccBits,        \* width of acc and of a logit, 32
  Contents,       \* what the memories may be loaded with
  PowerUp         \* values of the memory cells nothing initialises

\* A network and an input, of the sizes of the memories.
IsNetwork(m) ==
  /\ m.imem \in [0 .. IN_H * IN_W - 1 -> Int]
  /\ m.wconv \in [0 .. (N_FILT * K_H) * K_W - 1 -> Int]
  /\ m.bconv \in [0 .. N_FILT - 1 -> Int]
  /\ m.wfc \in [0 .. FC_OUT * FEAT - 1 -> Int]
  /\ m.bfc \in [0 .. FC_OUT - 1 -> Int]

ASSUME AccelAssumption ==
  /\ IN_H \in Nat \ {0} /\ IN_W \in Nat \ {0}
  /\ STRIDE \in Nat \ {0} /\ PAD_H \in Nat /\ PAD_W \in Nat
  /\ SHIFT \in Nat /\ ActMax \in Nat /\ AccBits \in Nat \ {0}
  /\ FEAT = (N_FILT * OUT_H) * OUT_W
  /\ \A m \in Contents : IsNetwork(m)

VARIABLES
  imem, wconv, bconv, wfc, bfc,   \* input, weights and biases
  actm, logitm,                   \* activations and logits; never reset
  acc,                            \* accumulator
  am_best, am_idx, argmax_o       \* argmax scan and its result

inputVars == <<imem, wconv, bconv, wfc, bfc>>
dataVars == <<actm, logitm, acc, am_best, am_idx, argmax_o>>
accelVars == <<seqVars, inputVars, dataVars>>

Half == 2 ^ (AccBits - 1)

\* A power of two is a positive number, which the provers do not know of ^.
ASSUME PowersOfTwo == 2 ^ SHIFT \in Nat \ {0} /\ Half \in Nat \ {0}

Signed == -Half .. Half - 1
Wrap(x) == ((x + Half) % (2 * Half)) - Half

-----------------------------------------------------------------------------
(***************************************************************************)
(* The reference, gen_golden.py: unbounded integers, whole arrays.         *)
(***************************************************************************)
Inside(y, x) == y \in 0 .. IN_H - 1 /\ x \in 0 .. IN_W - 1

\* SAME padding: a tap outside the plane counts 0.
Tap(in, y, x) == IF Inside(y, x) THEN in[y * IN_W + x] ELSE 0

BugRequant(a) == LET t == a \div (2 ^ SHIFT) IN IF t > ActMax THEN ActMax ELSE t

Requant(a) ==
  LET t == (IF a < 0 THEN 0 ELSE a) \div (2 ^ SHIFT) IN
    IF t > ActMax THEN ActMax ELSE t

\* acc = bias, then acc += term[0], acc += term[1], ...: what acc has been
\* after each of the additions.
Running(bias, term, len) ==
  LET acc_after[n \in 0 .. len] ==
        IF n = 0 THEN bias ELSE acc_after[n - 1] + term[n - 1]
  IN  acc_after

\* The taps of a kernel, row by row.
GoldTaps(m, k, y, x) ==
  [t \in 0 .. K_H * K_W - 1 |->
     Tap(m.imem, y * STRIDE - PAD_H + (t \div K_W), x * STRIDE - PAD_W + (t % K_W))
       * m.wconv[(k * K_H + (t \div K_W)) * K_W + (t % K_W)]]

GoldConv(m, k, y, x) == Running(m.bconv[k], GoldTaps(m, k, y, x), K_H * K_W)

\* The convolution sums in the order of the feature vector.
GoldSums(m) ==
  [i \in 0 .. FEAT - 1 |->
     GoldConv(m, i \div (OUT_H * OUT_W), (i \div OUT_W) % OUT_H, i % OUT_W)[K_H * K_W]]

\* ReLU, sra, clamp8.
GoldClamp(sum) ==
  LET shifted == (IF sum < 0 THEN 0 ELSE sum) \div (2 ^ SHIFT)
  IN  IF shifted > ActMax THEN ActMax ELSE shifted

GoldAct(m) == [i \in 0 .. FEAT - 1 |-> GoldClamp(GoldSums(m)[i])]

GoldFc(m, k) ==
  LET act == GoldAct(m)
  IN  Running(m.bfc[k], [i \in 0 .. FEAT - 1 |-> act[i] * m.wfc[k * FEAT + i]], FEAT)

GoldLogit(m) == [k \in 0 .. FC_OUT - 1 |-> GoldFc(m, k)[FEAT]]

\* Python's max over the indices: the first of the largest.
GoldArgmax(logit) ==
  CHOOSE k \in DOMAIN logit :
    \A n \in DOMAIN logit : logit[n] < logit[k] \/ (logit[n] = logit[k] /\ k <= n)

-----------------------------------------------------------------------------
(***************************************************************************)
(* Combinational operands.                                                 *)
(***************************************************************************)
iy == oy * STRIDE - PAD_H + ky
ix == ox * STRIDE - PAD_W + kx
wc_idx == (c * K_H + ky) * K_W + kx
act_idx == (c * OUT_H + oy) * OUT_W + ox
wf_idx == f * FEAT + ii

BugProductConv == imem[((iy * IN_W) + ix) % (IN_H * IN_W)] * wconv[wc_idx]

product_conv == Tap(imem, iy, ix) * wconv[wc_idx]
product_fc == actm[ii] * wfc[wf_idx]

Better == logitm[am_f] > am_best

(***************************************************************************)
(* The data registers at a clock edge without sw_reset_i.                  *)
(***************************************************************************)
DataStep ==
  /\ acc' = CASE st = "S_CONV_LOAD" -> bconv[c]
              [] st = "S_CONV_MAC" -> Wrap(acc + product_conv)
              [] st = "S_FC_LOAD" -> bfc[f]
              [] st = "S_FC_MAC" -> Wrap(acc + product_fc)
              [] OTHER -> acc
  /\ actm' = IF st = "S_CONV_STORE"
               THEN [actm EXCEPT ![act_idx] = Requant(acc)] ELSE actm
  /\ logitm' = IF st = "S_FC_STORE" THEN [logitm EXCEPT ![f] = acc] ELSE logitm
  /\ am_best' = CASE st = "S_FC_STORE" /\ f = FC_OUT - 1 -> -Half
                  [] st = "S_ARGMAX" /\ Better -> logitm[am_f]
                  [] OTHER -> am_best
  /\ am_idx' = CASE st = "S_FC_STORE" /\ f = FC_OUT - 1 -> 0
                 [] st = "S_ARGMAX" /\ Better -> am_f
                 [] OTHER -> am_idx
  /\ argmax_o' = IF st = "S_ARGMAX" /\ am_f = FC_OUT - 1
                   THEN (IF Better THEN am_f ELSE am_idx) ELSE argmax_o

AccelStep(start, sw_reset) ==
  /\ SeqStep(start, sw_reset)
  /\ IF sw_reset THEN UNCHANGED dataVars ELSE DataStep

\* rst_ni clears the registers; the memories keep their contents.
AccelReset ==
  /\ SeqReset
  /\ acc' = 0 /\ am_best' = 0 /\ am_idx' = 0 /\ argmax_o' = 0
  /\ UNCHANGED <<actm, logitm>>

AccelInit ==
  /\ SeqInit
  /\ acc = 0 /\ am_best = 0 /\ am_idx = 0 /\ argmax_o = 0
  /\ actm \in {[i \in 0 .. FEAT - 1 |-> v] : v \in PowerUp}
  /\ logitm \in {[i \in 0 .. FC_OUT - 1 |-> v] : v \in PowerUp}

\* The memories as loaded by $readmemh.
Loaded == [imem |-> imem, wconv |-> wconv, bconv |-> bconv,
           wfc |-> wfc, bfc |-> bfc]

BenchInit ==
  /\ AccelInit
  /\ \E m \in Contents : /\ imem = m.imem
                         /\ wconv = m.wconv /\ bconv = m.bconv
                         /\ wfc = m.wfc /\ bfc = m.bfc

\* tb/yz_accel_tb.sv, with start and reset at any time instead of once.
BenchTick == \E start \in BOOLEAN, sw_reset \in BOOLEAN :
               AccelStep(start, sw_reset) /\ UNCHANGED inputVars
BenchReset == AccelReset /\ UNCHANGED inputVars
BenchNext == BenchTick \/ BenchReset
BenchSpec == BenchInit /\ [][BenchNext]_accelVars

\* The clock never stops.
BenchFairSpec == BenchSpec /\ WF_accelVars(BenchTick)

-----------------------------------------------------------------------------
(***************************************************************************)
(* Properties.                                                             *)
(***************************************************************************)

\* Every register and memory cell keeps its width.
DataOK ==
  /\ acc \in Signed /\ am_best \in Signed
  /\ am_idx \in 0 .. FC_OUT - 1 /\ argmax_o \in 0 .. FC_OUT - 1
  /\ logitm \in [0 .. FC_OUT - 1 -> Signed]
  /\ actm \in [0 .. FEAT - 1 -> 0 .. ActMax]

\* No index the datapath forms leaves its memory, in any state.
InBounds ==
  /\ st = "S_CONV_MAC" /\ Inside(iy, ix) => iy * IN_W + ix \in DOMAIN imem
  /\ st = "S_CONV_MAC" => wc_idx \in DOMAIN wconv
  /\ st = "S_CONV_STORE" => act_idx \in DOMAIN actm
  /\ st = "S_FC_MAC" => wf_idx \in DOMAIN wfc /\ ii \in DOMAIN actm

\* A bound of the claim: the reference's numbers fit the hardware's widths.
\* Partial sums may not fit: they wrap, and wrap back.
Fits(m) ==
  /\ \A i \in 0 .. FEAT - 1 : GoldSums(m)[i] \in Signed
  /\ \A k \in 0 .. FC_OUT - 1 : GoldLogit(m)[k] \in Signed

\* sw/yz/README_yz.md: hardware and golden model are identical bit for bit.
\* After any number of cancelled runs, resets and repeated starts, with any
\* power-up contents, the logits and the class are the reference's.
BitExact ==
  done_o /\ Fits(Loaded) =>
    /\ logitm = GoldLogit(Loaded)
    /\ argmax_o = GoldArgmax(GoldLogit(Loaded))

=============================================================================
