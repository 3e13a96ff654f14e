------------------------------ MODULE MCYzTop ------------------------------
(***************************************************************************)
(* The smallest network that still has two pixels, a kernel of two and two *)
(* classes; it tells the two images, and their mixtures, apart.            *)
(***************************************************************************)
EXTENDS YzTop
MCImages == {[i \in 0 .. 1 |-> i], [i \in 0 .. 1 |-> 1 - i]}
MCWeights ==
  [wconv |-> [i \in 0 .. 1 |-> i + 1], bconv |-> [k \in {0} |-> 0],
   wfc |-> [i \in 0 .. 3 |-> IF i \in {0, 3} THEN 1 ELSE 0],
   bfc |-> [k \in 0 .. 1 |-> k]]

\* The proofs assume of a network only that its final sums fit acc.
ASSUME McFits == \A image \in Images : Fits(Network(image))
=============================================================================
