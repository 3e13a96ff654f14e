------------------------------- MODULE SocBus -------------------------------
(***************************************************************************)
(* rtl/soc_top_axi.sv: the data side of the SoC.  The core's OBI data port *)
(* goes through the bridge (ObiAxiBridge) and an address decoder to the    *)
(* slaves: DRAM (rtl/ram_axi.sv over the SRAM macro), the five register    *)
(* blocks, and the accelerator window of rtl/yz_top.sv, which holds two    *)
(* ports (CSR and data).                                                   *)
(*                                                                         *)
(* One Tick is one clock edge: every FSM of the data side moves at once,   *)
(* on the combinational signals of the cycle that ends.                    *)
(***************************************************************************)
EXTENDS ObiAxiBridge, AxiLitePort

CONSTANTS
  Program,    \* the loads and stores the core issues
  DoutHeld,   \* the macro keeps dout0 until the next read (simulation model)
  MaxAge      \* bound on the history variable age

ASSUME SocBusAssumption ==
  /\ Program \subseteq Requests
  /\ DoutHeld \in BOOLEAN
  /\ MaxAge \in Nat \ {0}

\* What a load can return: a DRAM word, or the register of a device.
Results == {NoReq} \cup Words \cup [reg : Addrs \cup {0}]

\* "No request" is no pending request of LoadStore either.
ASSUME NoReqAssumption ==
  NoReq \notin [req : Requests, done : BOOLEAN, val : Results]

VARIABLES
  dreq,     \* request the core presents on the data port, NoReq if none
  slave_q,  \* state of each slave's FSM
  readq,    \* per register block: the register its read_data_q was read from,
            \* kept while the response is pending (not visible otherwise)
  sram,     \* contents of the DRAM macro
  dout0,    \* read output of the DRAM macro
  \* History variables: the core's view of the accepted request.
  waiting,  \* the request granted and not yet answered
  age,      \* clock cycles since the grant, at most MaxAge
  hits,     \* how often each slave has taken the request (0, 1, 2 = more)
  result    \* what the load just answered returned

memVars == <<sram, dout0>>
coreVars == <<dreq, waiting, age, hits, result>>
vars == <<bridgeVars, slave_q, readq, memVars, coreVars>>

-----------------------------------------------------------------------------
(***************************************************************************)
(* Address decoder.  addr[31:24], addr[17], addr[31:12] and, inside the    *)
(* accelerator window, addr[23:20].                                        *)
(***************************************************************************)
Blocks == {"gpio", "timer", "uart0", "uart1", "i2c"}
YzPorts == {"yz_csr", "yz_data"}
Ports == Blocks \cup YzPorts
Slaves == Ports \cup {"dram"}

Top8(a) == a \div 16777216              \* addr[31:24]
Bit17(a) == (a \div 131072) % 2         \* addr[17]
Page(a) == a \div 4096                  \* addr[31:12]
Region(a) == (a \div 1048576) % 16      \* addr[23:20]

\* 20'h40000 .. 20'h40004
BlockPage ==
  [gpio |-> 262144, timer |-> 262145, uart0 |-> 262146,
   uart1 |-> 262147, i2c |-> 262148]

sel_dram(a) == Top8(a) = 0 /\ Bit17(a) = 1
sel_yz(a) == Top8(a) = 80               \* 8'h50
BugSelBlock(b, a) == Page(a) \div 2 = BlockPage[b] \div 2  \* drops addr[12]
sel_block(b, a) == Page(a) = BlockPage[b]

\* A CSR select that forgets the region of the accelerator window.
BugSel(s, a) ==
  \/ s = "dram" /\ sel_dram(a)
  \/ s \in Blocks /\ sel_block(s, a)
  \/ s = "yz_csr" /\ sel_yz(a)
  \/ s = "yz_data" /\ sel_yz(a) /\ Region(a) # 0

\* The sel_* wires.  Both address channels of the bridge carry addr_q.
Sel(s, a) ==
  \/ s = "dram" /\ sel_dram(a)
  \/ s \in Blocks /\ sel_block(s, a)
  \/ s = "yz_csr" /\ sel_yz(a) /\ Region(a) = 0
  \/ s = "yz_data" /\ sel_yz(a) /\ Region(a) # 0

\* yz_top takes writes in regions 1..5 (mem_wr_sel) and reads in 6
\* (log_rd_sel) on its data port; the other slaves decode no further.
BugTakesReads(s, a) == s = "yz_data" => Region(a) = 5
TakesWrites(s, a) == s = "yz_data" => Region(a) \in 1 .. 5
TakesReads(s, a) == s = "yz_data" => Region(a) = 6

\* The conditional chain of the response mux serves the first slave selected.
MuxRank ==
  [dram |-> 1, gpio |-> 2, timer |-> 3, uart0 |-> 4, uart1 |-> 5, i2c |-> 6,
   yz_csr |-> 7, yz_data |-> 7]
Muxed(s, a) ==
  Sel(s, a) /\ \A t \in Slaves : Sel(t, a) => MuxRank[s] <= MuxRank[t]

\* The program can reach a slave at this address, in this direction.
Mapped(a, we) ==
  \E s \in Slaves :
    Sel(s, a) /\ IF we THEN TakesWrites(s, a) ELSE TakesReads(s, a)
ProgramMapped == \A r \in Program : Mapped(r.addr, r.we)

-----------------------------------------------------------------------------
(***************************************************************************)
(* Bus signals of the cycle.                                               *)
(***************************************************************************)
\* What slave s sees of the bridge: every valid and ready gated by sel_*; in
\* yz_top the readys of the data port are gated by the window alone.
Addressed(s, a) == Sel(s, a) \/ (s = "yz_data" /\ sel_yz(a))
SlaveIn(s) ==
  [awvalid |-> axi_awvalid /\ Sel(s, addr_q) /\ TakesWrites(s, addr_q),
   wvalid |-> axi_wvalid /\ Sel(s, addr_q) /\ TakesWrites(s, addr_q),
   arvalid |-> axi_arvalid /\ Sel(s, addr_q) /\ TakesReads(s, addr_q),
   bready |-> axi_bready /\ Addressed(s, addr_q),
   rready |-> axi_rready /\ Addressed(s, addr_q)]

do_write == WriteTaken(slave_q["dram"], SlaveIn("dram"))
do_read == ReadTaken(slave_q["dram"], SlaveIn("dram"))

SlaveTakesWrite(s) ==
  IF s = "dram" THEN do_write ELSE WriteTaken(slave_q[s], SlaveIn(s))
SlaveTakesRead(s) ==
  IF s = "dram" THEN do_read ELSE ReadTaken(slave_q[s], SlaveIn(s))
SlaveArReady(s) ==
  IF s = "dram" THEN do_read ELSE axi_arready(slave_q[s], SlaveIn(s))

m_awready == \E s \in Slaves : Muxed(s, addr_q) /\ SlaveTakesWrite(s)
m_wready == \E s \in Slaves : Muxed(s, addr_q) /\ SlaveTakesWrite(s)
m_arready == \E s \in Slaves : Muxed(s, addr_q) /\ SlaveArReady(s)
m_bvalid == \E s \in Slaves : Muxed(s, addr_q) /\ axi_bvalid(slave_q[s])
m_rvalid == \E s \in Slaves : Muxed(s, addr_q) /\ axi_rvalid(slave_q[s])

\* The data the bridge sees: DRAM's dout0, or the read_data_q of the block
\* served, of which the model keeps the register it was read from.
m_rdata ==
  IF Muxed("dram", addr_q) THEN dout0
  ELSE [reg |-> readq[CHOOSE s \in Ports : Muxed(s, addr_q)]]

data_gnt == obi_gnt(dreq)
data_rvalid == obi_rvalid(m_bvalid, m_rvalid)

-----------------------------------------------------------------------------
(***************************************************************************)
(* DRAM: addr[9:2] indexes the macro, whatever the size parameter says.    *)
(* Only the words the program can name are represented.                    *)
(***************************************************************************)
WordAddr(a) == (a \div 4) % 256
SramIndices == {WordAddr(a) : a \in {b \in Addrs : sel_dram(b)}}

BugMergeWhole(old, new, be) == new                \* wmask0 tied high
BugMergeLanes(old, new, be) == [i \in be |-> new[i]]  \* other lanes lost

\* wmask0: byte lane i is written when its strobe is set.
Merge(old, new, be) ==
  [i \in DOMAIN old |-> IF i \in be THEN new[i] ELSE old[i]]

SramWrite ==
  sram' = IF do_write
            THEN [sram EXCEPT ![WordAddr(addr_q)] = Merge(@, wdata_q, wstrb_q)]
            ELSE sram

\* The read strobed one cycle late, when sram_addr0 is back to its default.
BugSramRead ==
  dout0' = IF slave_q["dram"] = "S_READ_WAIT" THEN sram[0] ELSE dout0

\* A read drives dout0 half a cycle after the edge that takes the address;
\* at the edges after that the simulation model holds it and the vendor's
\* model makes it unknown.
SramRead ==
  IF do_read THEN dout0' = sram[WordAddr(addr_q)]
  ELSE IF DoutHeld THEN dout0' = dout0
  ELSE dout0' \in Words

\* ram_axi's FSM: a read waits one cycle more than the shared port.
DramNext(st, m) ==
  CASE ReadTaken(st, m) -> "S_READ_WAIT"
    [] st = "S_READ_WAIT" -> "S_READ_RESP"
    [] OTHER -> PortNext(st, m)

DramStep == SramWrite /\ SramRead

SlaveStep ==
  /\ slave_q' = [s \in Slaves |->
                   IF s = "dram" THEN DramNext(slave_q[s], SlaveIn(s))
                   ELSE PortNext(slave_q[s], SlaveIn(s))]
  /\ readq' = [s \in Ports |->
                 IF SlaveTakesRead(s) THEN addr_q
                 ELSE IF slave_q'[s] = "S_IDLE" THEN 0 ELSE readq[s]]

-----------------------------------------------------------------------------
(***************************************************************************)
(* The core.  It holds a request until it is granted and may present the   *)
(* next one in the following cycle, while the answer is outstanding.       *)
(***************************************************************************)
CorePresents ==
  IF dreq = NoReq \/ data_gnt
    THEN dreq' \in Program \cup {NoReq}
    ELSE dreq' = dreq

\* The history variables follow grant and answer.
CoreObserves ==
  /\ waiting' = IF data_gnt THEN dreq
                ELSE IF data_rvalid THEN NoReq ELSE waiting
  /\ age' = IF data_gnt THEN 1
            ELSE IF waiting = NoReq \/ data_rvalid THEN 0
            ELSE IF age < MaxAge THEN age + 1 ELSE age
  /\ hits' = IF data_gnt \/ data_rvalid THEN [s \in Slaves |-> 0]
             ELSE [s \in Slaves |->
                     IF hits[s] < 2 /\ (SlaveTakesWrite(s) \/ SlaveTakesRead(s))
                       THEN hits[s] + 1 ELSE hits[s]]
  /\ result' = IF data_rvalid /\ state_q = "S_READ_R" THEN m_rdata
               ELSE IF data_gnt \/ data_rvalid THEN NoReq ELSE result

-----------------------------------------------------------------------------
Init ==
  /\ BridgeInit
  /\ dreq = NoReq
  /\ slave_q = [s \in Slaves |-> "S_IDLE"]
  /\ readq = [s \in Ports |-> 0]
  /\ waiting = NoReq
  /\ age = 0
  /\ hits = [s \in Slaves |-> 0]
  /\ result = NoReq
  /\ sram \in [SramIndices -> Words]
  /\ dout0 \in Words

Tick ==
  /\ BridgeStep(dreq, m_awready, m_wready, m_bvalid, m_arready, m_rvalid)
  /\ SlaveStep
  /\ DramStep
  /\ CorePresents
  /\ CoreObserves

\* rst_ni reaches every FSM and the core; the SRAM macro has no reset.
Reset ==
  /\ BridgeReset
  /\ dreq' = NoReq
  /\ slave_q' = [s \in Slaves |-> "S_IDLE"]
  /\ readq' = [s \in Ports |-> 0]
  /\ waiting' = NoReq
  /\ age' = 0
  /\ hits' = [s \in Slaves |-> 0]
  /\ result' = NoReq
  /\ UNCHANGED memVars

Next == Tick \/ Reset

Spec == Init /\ [][Next]_vars

\* The clock never stops.
FairSpec == Spec /\ WF_vars(Tick)

-----------------------------------------------------------------------------
(***************************************************************************)
(* Properties.                                                             *)
(***************************************************************************)
SlaveStates == PortStates \cup {"S_READ_WAIT"}

\* Every register, and every history variable, holds a value of its range.
TypeOK ==
  /\ BridgeTypeOK
  /\ dreq \in Program \cup {NoReq}
  /\ slave_q \in [Slaves -> SlaveStates]
  /\ readq \in [Ports -> Addrs \cup {0}]
  /\ sram \in [SramIndices -> Words]
  /\ dout0 \in Words
  /\ waiting \in Program \cup {NoReq}
  /\ age \in 0 .. MaxAge
  /\ hits \in [Slaves -> 0 .. 2]
  /\ result \in Results

\* The state the bridge must be in while slave s is in state st: the two FSMs
\* of a transfer never disagree on which channel is next.
Agrees(s, st) ==
  CASE st = "S_IDLE" -> TRUE
    [] st = "S_WRITE_RESP" -> state_q = "S_WRITE_RESP"
    [] st = "S_READ_WAIT" -> state_q = "S_READ_R" /\ s = "dram"
    [] st = "S_READ_RESP" -> state_q = "S_READ_R"

\* Bridge, slaves and core agree on the transfer in progress.  This is the
\* inductive invariant behind BusAgreement, ExactlyOnce and AnsweredInTime.
Transfer ==
  /\ ~axi_aw_done /\ ~axi_w_done
  /\ state_q = "S_IDLE" <=> waiting = NoReq
  /\ waiting # NoReq =>
       /\ addr_q = waiting.addr
       /\ waiting.we <=> state_q \in {"S_WRITE_AW", "S_WRITE_RESP"}
  /\ \A s \in Slaves :
       /\ hits[s] = IF slave_q[s] = "S_IDLE" THEN 0 ELSE 1
       /\ slave_q[s] # "S_IDLE" => Sel(s, addr_q) /\ Agrees(s, slave_q[s])
  /\ state_q \in {"S_WRITE_RESP", "S_READ_R"} =>
       \E s \in Slaves : slave_q[s] # "S_IDLE"

\* A slave that is not idle is the one the latched address selects, is alone,
\* and is in the phase of the transfer the bridge is in: a response can
\* neither be lost nor be taken from another slave (decoder and mux of
\* soc_top_axi against the FSMs of bridge and slaves).
BusAgreement ==
  \A s \in Slaves :
    slave_q[s] # "S_IDLE" =>
      /\ Sel(s, addr_q)
      /\ \A t \in Slaves \ {s} : slave_q[t] = "S_IDLE"
      /\ Agrees(s, slave_q[s])

\* The memory map of soc_top_axi's and yz_top's headers: 0x0002_0000 ..
\* 0x0002_1FFF, 0x4000_0000 .. 0x4000_0007, 0x4000_1000 .. 0x4000_101F,
\* 0x4000_2000 .. 0x4000_2013, 0x4000_3000 .. 0x4000_3013, 0x4000_4000 ..
\* 0x4000_4013, 0x5000_0000 .. 0x5000_001F and 0x5010_0000 .. 0x506F_FFFF.
DocFirst ==
  [dram |-> 131072, gpio |-> 1073741824, timer |-> 1073745920,
   uart0 |-> 1073750016, uart1 |-> 1073754112, i2c |-> 1073758208,
   yz_csr |-> 1342177280, yz_data |-> 1343225856]
DocLast ==
  [dram |-> 139263, gpio |-> 1073741831, timer |-> 1073745951,
   uart0 |-> 1073750035, uart1 |-> 1073754131, i2c |-> 1073758227,
   yz_csr |-> 1342177311, yz_data |-> 1349517311]
Documented(s, a) == DocFirst[s] <= a /\ a <= DocLast[s]

\* When the core is answered, the slave the documented memory map gives its
\* address to has taken the request exactly once and no other slave has taken
\* it: no store or read-with-side-effect is repeated, dropped or misrouted
\* (decoder, fan-out and mux against the FSMs of bridge and slaves).
ExactlyOnce ==
  data_rvalid =>
    /\ waiting # NoReq
    /\ \A s \in Slaves :
         Documented(s, waiting.addr) =>
           \A t \in Slaves : hits[t] = IF t = s THEN 1 ELSE 0

\* If the program keeps to mapped addresses, a granted request is answered
\* two cycles after its grant and a DRAM load after three: no state of the
\* slaves makes the core wait longer.
AnsweredInTime ==
  waiting # NoReq =>
    age <= IF sel_dram(waiting.addr) /\ ~waiting.we THEN 3 ELSE 2

\* In the cycle DRAM answers a load, dout0 is the addressed word ("SRAM dout
\* hazir" in ram_axi): nothing the bus does between the read and the answer
\* disturbs it.
DoutReady ==
  slave_q["dram"] = "S_READ_RESP" => dout0 = sram[WordAddr(addr_q)]

\* A request the core presents is eventually granted (or reset away).
EventuallyGranted == dreq # NoReq ~> (data_gnt \/ dreq = NoReq)

\* A request the bridge accepted is eventually answered (or reset away): the
\* data port cannot hang.
EventuallyAnswered == waiting # NoReq ~> waiting = NoReq

-----------------------------------------------------------------------------
(***************************************************************************)
(* The data side implements LoadStore.  The documented DRAM is the 8 KB    *)
(* from 0x0002_0000: 2048 words, word k at 0x0002_0000 + 4k.               *)
(***************************************************************************)
DramBase == 131072
DramBytes == 8192
DramCellOf ==
  [a \in {b \in Addrs : DramBase <= b /\ b < DramBase + DramBytes} |->
     (a - DramBase) \div 4]

\* A request has taken effect once its slave left S_IDLE for it.
Performed == \E s \in Slaves : slave_q[s] # "S_IDLE"

PendBar ==
  IF waiting = NoReq THEN NoReq
  ELSE [req |-> waiting,
        done |-> Performed,
        val |-> IF Performed /\ ~waiting.we THEN m_rdata ELSE NoReq]

\* The documented words, as the macro holds them: 256 words in all.
MemBar == [c \in {DramCellOf[a] : a \in DOMAIN DramCellOf} |-> sram[c % 256]]

LS == INSTANCE LoadStore WITH
  Requests <- Program,
  CellOf <- DramCellOf,
  None <- NoReq,
  mem <- MemBar,
  pend <- PendBar

\* What the program must keep to for that: it uses the DRAM window only at
\* documented addresses, and no two words 1 KB apart (ram_axi wraps there).
DramApart ==
  /\ \A a \in Addrs : sel_dram(a) => a \in DOMAIN DramCellOf
  /\ \A a, b \in DOMAIN DramCellOf :
       WordAddr(a) = WordAddr(b) => DramCellOf[a] = DramCellOf[b]

\* Every behaviour of bus, decoder and slaves is one of LoadStore.
ImplementsLoadStore == LS!Spec

=============================================================================
