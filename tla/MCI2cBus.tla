------------------------------ MODULE MCI2cBus ------------------------------
(***************************************************************************)
(* Instance of I2cBus for TLC: bytes of two bits, so two addresses, one of *)
(* which a device answers; words of two bytes.                             *)
(***************************************************************************)
EXTENDS I2cBus

Bits(high, low) == [b \in {0, 1} |-> IF b = 1 THEN high ELSE low]
Pair(first, second) == [k \in {0, 1} |-> IF k = 0 THEN first ELSE second]

McAddresses == {[b \in {1} |-> v] : v \in {0, 1}}
McDevices == {[b \in {1} |-> 1]}
McCounts == {0, 3}
McWords == {Pair(Bits(0, 1), Bits(1, 0))}
McPowerUp == {Pair(Bits(0, 0), Bits(0, 0))}

=============================================================================
