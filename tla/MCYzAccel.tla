----------------------------- MODULE MCYzAccel -----------------------------
(***************************************************************************)
(* A network with every feature of the SoC's: stride 2, padding on both    *)
(* sides, two filters, a class count that is no power of two.  AccBits is  *)
(* 5, so that partial sums overflow in some of the networks.               *)
(***************************************************************************)
EXTENDS YzSoft

Images == {[i \in 0 .. 5 |-> i % 3], [i \in 0 .. 5 |-> IF i = 4 THEN 3 ELSE -2],
           [i \in 0 .. 5 |-> 3 - i]}

\* The second sums +15 and -15 in an order that leaves the five bits; in the
\* third the final sums leave them.
Networks ==
  {[wconv |-> [i \in 0 .. 11 |-> ((i * 5) % 7) - 3], bconv |-> [k \in 0 .. 1 |-> 4 * k],
    wfc |-> [i \in 0 .. 11 |-> ((i * 3) % 5) - 2], bfc |-> [k \in 0 .. 2 |-> 1 - k]],
   [wconv |-> [i \in 0 .. 11 |-> IF i % 2 = 0 THEN 3 ELSE -3],
    bconv |-> [k \in 0 .. 1 |-> 14 - k],
    wfc |-> [i \in 0 .. 11 |-> IF i % 4 < 2 THEN 3 ELSE -3],
    bfc |-> [k \in 0 .. 2 |-> 5]],
   [wconv |-> [i \in 0 .. 11 |-> 3], bconv |-> [k \in 0 .. 1 |-> 9],
    wfc |-> [i \in 0 .. 11 |-> IF i < 6 THEN 3 ELSE -3], bfc |-> [k \in 0 .. 2 |-> k]]}

MCContents ==
  {[imem |-> im, wconv |-> n.wconv, bconv |-> n.bconv, wfc |-> n.wfc, bfc |-> n.bfc] :
     im \in Images, n \in Networks}

=============================================================================
