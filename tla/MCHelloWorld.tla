---------------------------- MODULE MCHelloWorld ----------------------------
(***************************************************************************)
(* Bytes of two bits; a text of four bytes and one byte of msg never set.  *)
(***************************************************************************)
EXTENDS HelloWorld

McR == <<0, 1>>
McA == <<1, 0>>
McNul == <<0, 0>>
McText == <<<<1, 1>>, <<0, 1>>, <<1, 0>>, <<1, 0>>>>

\* The instance meets the hypothesis of the theorems, and no other bit time would.
ASSUME McHelloFits ==
  /\ HelloFits
  /\ \A length \in 1 .. BaudMod - 1 :
       Tolerated(length) /\ Heeds(length) <=> length \in FarBits

=============================================================================
