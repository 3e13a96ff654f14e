----------------------------- MODULE MCIrqTest -----------------------------
(***************************************************************************)
(* Instance of IrqTest for TLC: two fast lines, software, timer and        *)
(* external interrupts, one line that does not exist, and a 2 x 2 product  *)
(* with its expected result, as matrix.h lists one of 10 x 10.             *)
(***************************************************************************)
EXTENDS IrqTest

McLines == {0, 3, 7, 11, 26, 31}
McRndLines == {26, 31}
McMat1 == <<<<2, 3>>, <<1, 4>>>>
McMat2 == <<<<5, 1>>, <<2, 6>>>>
McExpected == <<<<16, 20>>, <<13, 25>>>>

\* What the proofs assume of the expected result.
McSums ==
  [r \in 1 .. Dim |-> [c \in 1 .. Dim |->
     LET sum[k \in 0 .. Dim] ==
           IF k = 0 THEN 0 ELSE sum[k - 1] + Mat1[r][k] * Mat2[k][c]
     IN  sum]]
ASSUME McExpectedIsProduct == IsProduct(McSums)

=============================================================================
