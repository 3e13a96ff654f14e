------------------------------- MODULE YzSoft -------------------------------
(***************************************************************************)
(* sw/yz/yz_soft.c and its core without stdio, yz_soft_core.c: the network *)
(* in plain C, which measures what the accelerator saves and claims to be  *)
(* bit for bit the same.  Its loops are folds in the order of the code,    *)
(* over int32_t that wraps as the compiled additions do, also where a      *)
(* partial sum overflows (which C leaves undefined).                       *)
(***************************************************************************)
EXTENDS YzAccel, Sequences

CONSTANT ByteBits   \* width of an int8_t, 8

ByteHalf == 2 ^ (ByteBits - 1)
SignedByte == -ByteHalf .. ByteHalf - 1

\* The datapath's memories hold signed bytes, and biases of the width of acc.
OfWidth(m) ==
  /\ \A i \in 0 .. IN_H * IN_W - 1 : m.imem[i] \in SignedByte
  /\ \A i \in 0 .. (N_FILT * K_H) * K_W - 1 : m.wconv[i] \in SignedByte
  /\ \A i \in 0 .. FC_OUT * FEAT - 1 : m.wfc[i] \in SignedByte
  /\ \A k \in 0 .. N_FILT - 1 : m.bconv[k] \in Signed
  /\ \A k \in 0 .. FC_OUT - 1 : m.bfc[k] \in Signed

ASSUME SoftAssumption ==
  /\ ByteBits \in Nat \ {0} /\ ByteHalf \in Nat \ {0} /\ ActMax < ByteHalf
  /\ \A m \in Contents : OfWidth(m)

\* The cast to int8_t.
BugInt8(v) == v % (2 * ByteHalf)   \* unsigned char
Int8(v) == ((v + ByteHalf) % (2 * ByteHalf)) - ByteHalf

\* What gen_golden.py prints of an array, and $readmemh and load8 read: the
\* residue modulo twice the half.
Printed(a, n, half) == [j \in 1 .. n |-> a[j - 1] % (2 * half)]
Files(m) ==
  [inp |-> Printed(m.imem, IN_H * IN_W, ByteHalf),
   wconv |-> Printed(m.wconv, (N_FILT * K_H) * K_W, ByteHalf),
   bconv |-> Printed(m.bconv, N_FILT, Half),
   wfc |-> Printed(m.wfc, FC_OUT * FEAT, ByteHalf),
   bfc |-> Printed(m.bfc, FC_OUT, Half)]

\* load8 and load32 fail on a file that ends early.
Loads(file, n) == Len(file) >= n
load8(file, n) == [j \in 0 .. n - 1 |-> Int8(file[j + 1])]
load32(file, n) == [j \in 0 .. n - 1 |-> Wrap(file[j + 1])]

\* for (j = 0; j < n; j++) if (j is in taken) acc += term[j];
Accumulate(bias, n, taken, term) ==
  LET sum[j \in 0 .. n] ==
        IF j = 0 THEN bias
        ELSE IF j - 1 \in taken THEN Wrap(sum[j - 1] + term[j - 1]) ELSE sum[j - 1]
  IN  sum[n]

SoftConv(inp, w, b, k, y, x) ==
  LET Y(t) == y * STRIDE - PAD_H + (t \div K_W)
      X(t) == x * STRIDE - PAD_W + (t % K_W)
      taken == {t \in 0 .. K_H * K_W - 1 :
                  Y(t) >= 0 /\ Y(t) < IN_H /\ X(t) >= 0 /\ X(t) < IN_W}
  IN  Accumulate(b[k], K_H * K_W, taken,
        [t \in taken |-> inp[Y(t) * IN_W + X(t)] * w[k * K_H * K_W + t]])

\* ReLU, shift, clamp, cast.
SoftAct(sum) ==
  LET relu == IF sum < 0 THEN 0 ELSE sum
      q == relu \div (2 ^ SHIFT)
  IN  Int8(IF q > ActMax THEN ActMax ELSE q)

SoftFc(act, w, b, k) ==
  Accumulate(b[k], FEAT, 0 .. FEAT - 1,
    [j \in 0 .. FEAT - 1 |-> act[j] * w[k * FEAT + j]])

\* int am = 0; for (f = 1; f < FC_OUT; f++) if (logit[f] > logit[am]) am = f;
BugSoftArgmax(logit) ==   \* >= for >
  LET am[k \in 0 .. FC_OUT - 1] ==
        IF k = 0 THEN 0 ELSE IF logit[k] >= logit[am[k - 1]] THEN k ELSE am[k - 1]
  IN  am[FC_OUT - 1]
SoftArgmax(logit) ==
  LET am[k \in 0 .. FC_OUT - 1] ==
        IF k = 0 THEN 0 ELSE IF logit[k] > logit[am[k - 1]] THEN k ELSE am[k - 1]
  IN  am[FC_OUT - 1]

\* run() of yz_soft_core.c.
run(inp, wc, bc, wf, bf) ==
  LET act == [j \in 0 .. FEAT - 1 |->
                SoftAct(SoftConv(inp, wc, bc, j \div (OUT_H * OUT_W),
                                 (j \div OUT_W) % OUT_H, j % OUT_W))]
  IN  [k \in 0 .. FC_OUT - 1 |-> SoftFc(act, wf, bf, k)]

\* The iterations main() counts: padded taps too.
ConvMacs == ((N_FILT * OUT_H) * OUT_W) * (K_H * K_W)
FcMacs == FC_OUT * FEAT

\* main(): what it returns and prints.
SoftMain(files) ==
  IF /\ Loads(files.inp, IN_H * IN_W)
     /\ Loads(files.wconv, (N_FILT * K_H) * K_W) /\ Loads(files.bconv, N_FILT)
     /\ Loads(files.wfc, FC_OUT * FEAT) /\ Loads(files.bfc, FC_OUT)
  THEN LET logit == run(load8(files.inp, IN_H * IN_W),
                        load8(files.wconv, (N_FILT * K_H) * K_W),
                        load32(files.bconv, N_FILT),
                        load8(files.wfc, FC_OUT * FEAT),
                        load32(files.bfc, FC_OUT))
       IN  [returned |-> 0, logit |-> logit, argmax |-> SoftArgmax(logit),
            macs |-> ConvMacs + FcMacs]
  ELSE [returned |-> 1]

-----------------------------------------------------------------------------
\* yz_soft.c l.5-6: the C program, given the files the memories were loaded
\* from, prints the logits and the class of the hardware bit for bit, also for
\* a network whose final sums leave 32 bits, where neither is the reference's;
\* and its iteration count is the hardware's cycles less its loads and stores,
\* its class search and its last state.
SoftwareAgrees ==
  done_o =>
    LET out == SoftMain(Files(Loaded)) IN
      /\ out.returned = 0
      /\ out.logit = logitm
      /\ out.argmax = argmax_o
      /\ cycle_cnt_o = out.macs + 2 * ((N_FILT * OUT_H) * OUT_W) + 3 * FC_OUT + 1

=============================================================================
