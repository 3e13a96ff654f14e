---------------------------- MODULE MCYzTopSram ----------------------------
(***************************************************************************)
(* The network of MCYzTop behind the SRAM buffer.                          *)
(***************************************************************************)
EXTENDS YzTopSram
MCImages == {[i \in 0 .. 1 |-> i], [i \in 0 .. 1 |-> 1 - i]}
MCWeights ==
  [wconv |-> [i \in 0 .. 1 |-> i + 1], bconv |-> [k \in {0} |-> 0],
   wfc |-> [i \in 0 .. 3 |-> IF i \in {0, 3} THEN 1 ELSE 0],
   bfc |-> [k \in 0 .. 1 |-> k]]

\* The proofs assume of a network only that its final sums fit acc.
ASSUME McFits == \A image \in Images : Fits(Network(image))

\* What the proofs assume of the SRAM wrapper's driver and buffer.
ASSUME McDriver == WaitsForIrq /\ ~Cancels /\ N_IN <= SramWords
=============================================================================
