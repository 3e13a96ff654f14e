---------------------------- MODULE MCStreamDemo ----------------------------
(***************************************************************************)
(* Images of three bytes, two weights, two biases, two classes; the second *)
(* image is a tie, the third holds a preamble.                             *)
(***************************************************************************)
EXTENDS StreamDemo

McFile == <<3, 5, 0, 0, 1, 2, 1, 7, 0, 2>>
McPayloads == {<<0, 255, 85>>, <<129, 130, 4>>, <<170, 85, 7>>}
McStrays == {9, 170}

\* A stand-in for the accelerator that depends on all it is given.
McInfer(w, x) ==
  <<w.wconv[1] * x[1] + x[3] + w.bconv[1][1] + 2 * w.bconv[1][4],
    w.wfc[1] * x[2] + x[3] + w.bfc[1][1] + 3 * w.bfc[1][2] - w.bfc[1][4]>>

=============================================================================
