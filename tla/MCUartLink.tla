----------------------------- MODULE MCUartLink -----------------------------
(***************************************************************************)
(* Bytes of two bits at eight cycles a bit.                                *)
(***************************************************************************)
EXTENDS UartLink
MCAlphabet == {<<0, 1>>, <<1, 0>>, <<0, 0>>}

\* Seven and ten cycles are the shortest and the longest bit the receiver
\* understands, and 22 is the longest the software may be away.
ASSUME McFits ==
  /\ LinkFits
  /\ \A length \in 1 .. BaudMod : Tolerated(length) <=> length \in 7 .. 10
  /\ Slack + 7 > Sample(DataBits + 1)
=============================================================================
