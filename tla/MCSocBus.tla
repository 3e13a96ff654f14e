----------------------------- MODULE MCSocBus -----------------------------
(***************************************************************************)
(* Instances of SocBus for TLC: the programs the core runs.                *)
(***************************************************************************)
EXTENDS SocBus

\* Loads drive no data and no strobes the slaves look at.
Load(a) == [we |-> FALSE, addr |-> a, wdata |-> ZeroWord, be |-> {}]
Stores(A) == {r \in Requests : r.we /\ r.addr \in A}
Loads(A) == {Load(a) : a \in A}

\* Memory instance: two DRAM words, one of them stored to with every word and
\* every mask, and GPIO_ODR.
DramPair == {131072, 131076}
MemoryAddrs == DramPair \cup {1073741828}
MemoryProgram ==
  {r \in Stores({131072}) : r.be # {}} \cup Loads(MemoryAddrs)
    \cup {r \in Stores({131076, 1073741828}) : r.be = Lanes}

\* Neither instance folds two words onto each other.
ASSUME DramIsApart == DramApart

\* Routing instance: registers of every block, all regions of the
\* accelerator window that answer, and one DRAM word.
ReadWrite ==
  {131072,                       \* DRAM 0x0002_0000
   1073741824, 1073741828,       \* GPIO_IDR, GPIO_ODR
   1073745920,                   \* TIM_PRE    0x4000_1000
   1073750016, 1073754112,       \* UART0, UART1 0x4000_2000, 0x4000_3000
   1073758208,                   \* I2C        0x4000_4000
   1342177280, 1342177284}       \* YZ CTRL, STATUS 0x5000_0000
WriteOnly == {1343225856, 1347420160}  \* YZ input 0x5010_0000, bfc 0x5050_0000
ReadOnly == {1348468736}               \* YZ logits 0x5060_0000
RoutingAddrs == ReadWrite \cup WriteOnly \cup ReadOnly
RoutingProgram ==
  {r \in Stores(ReadWrite \cup WriteOnly) : r.be = Lanes}
    \cup Loads(ReadWrite \cup ReadOnly)

\* A program that reads a constant the linker left in IRAM (0x0001_0000), for
\* the divergence README.md describes; no run uses it.
IramAddrs == {65536, 131072, 1073741828}
IramProgram ==
  {r \in Stores({131072, 1073741828}) : r.be = Lanes} \cup Loads(IramAddrs)

=============================================================================
