--------------------------- MODULE SocBus_proofs ---------------------------
(***************************************************************************)
(* Proofs about SocBus, for every set of addresses, every program, every   *)
(* number of byte lanes and both models of the SRAM macro.                 *)
(***************************************************************************)
EXTENDS SocBus, TLAPS

-----------------------------------------------------------------------------
(***************************************************************************)
(* The decoder.                                                            *)
(***************************************************************************)

\* Every slave the decoder knows.
LEMMA SlaveCases ==
  ASSUME NEW s \in Slaves
  PROVE  \/ s = "dram" \/ s = "gpio" \/ s = "timer" \/ s = "uart0"
         \/ s = "uart1" \/ s = "i2c" \/ s = "yz_csr" \/ s = "yz_data"
  BY DEF Slaves, Ports, Blocks, YzPorts

\* No address selects two slaves (the windows of soc_top_axi's decoder and of
\* yz_top are disjoint), so the order of the response mux does not matter.
LEMMA SelUnique ==
  ASSUME NEW a \in Nat, NEW s \in Slaves, NEW t \in Slaves,
         Sel(s, a), Sel(t, a)
  PROVE  s = t
<1>1. ASSUME sel_dram(a), NEW b \in Blocks, sel_block(b, a)
      PROVE  FALSE
  <2>1. BlockPage[b] >= 262144
    BY DEF Blocks, BlockPage
  <2> QED BY <1>1, <2>1 DEF sel_dram, sel_block, Top8, Page
<1>2. ASSUME sel_yz(a), NEW b \in Blocks, sel_block(b, a)
      PROVE  FALSE
  <2>1. BlockPage[b] \in 262144 .. 262148
    BY DEF Blocks, BlockPage
  <2> QED BY <1>2, <2>1 DEF sel_yz, sel_block, Top8, Page
<1>3. ~(sel_dram(a) /\ sel_yz(a))
  BY DEF sel_dram, sel_yz
<1>4. ASSUME NEW b \in Blocks, NEW c \in Blocks,
             sel_block(b, a), sel_block(c, a)
      PROVE  b = c
  BY <1>4 DEF sel_block, Blocks, BlockPage
<1>5. QED
  BY <1>1, <1>2, <1>3, <1>4, SlaveCases DEF Sel, Blocks

\* Hence the mux serves exactly the slave the decoder selects.
LEMMA MuxedIsSel ==
  ASSUME NEW a \in Nat, NEW s \in Slaves
  PROVE  Muxed(s, a) <=> Sel(s, a)
<1>1. MuxRank[s] \in Nat
  BY SlaveCases DEF MuxRank
<1>2. QED
  BY <1>1, SelUnique DEF Muxed

-----------------------------------------------------------------------------
(***************************************************************************)
(* Type correctness.                                                       *)
(***************************************************************************)

\* The bytes a store leaves in a word.
LEMMA MergeType ==
  ASSUME NEW old \in Words, NEW new \in Words, NEW be
  PROVE  Merge(old, new, be) \in Words
  BY DEF Merge, Words

\* The reset value of the data register is a word.
LEMMA ZeroWordType == ZeroWord \in Words
  BY BridgeAssumption DEF ZeroWord, Words

\* Every register of the data side keeps a value of its range.
THEOREM TypeCorrect == Spec => []TypeOK
<1> USE BridgeAssumption, SocBusAssumption DEF Results
<1>1. Init => TypeOK
  <2> SUFFICES ASSUME Init
               PROVE  TypeOK
    OBVIOUS
  <2>1. BridgeTypeOK
    BY ZeroWordType
       DEF Init, BridgeInit, BridgeTypeOK, BridgeStates, Strobes
  <2>2. slave_q \in [Slaves -> SlaveStates] /\ hits \in [Slaves -> 0 .. 2]
    BY DEF Init, SlaveStates, PortStates
  <2>3. readq \in [Ports -> Addrs \cup {0}] /\ age \in 0 .. MaxAge
    BY DEF Init
  <2> QED BY <2>1, <2>2, <2>3 DEF Init, TypeOK
<1>2. TypeOK /\ [Next]_vars => TypeOK'
  <2> SUFFICES ASSUME TypeOK, [Next]_vars
               PROVE  TypeOK'
    OBVIOUS
  <2>1. CASE Tick
    <3> USE <2>1 DEF Tick
    <3>1. BridgeTypeOK'
      <4>1. ASSUME dreq # NoReq
            PROVE  /\ dreq.addr \in Addrs
                   /\ dreq.wdata \in Words
                   /\ dreq.be \in Strobes
        BY <4>1 DEF TypeOK, Requests
      <4>2. QED
        BY <4>1 DEF TypeOK, BridgeTypeOK, BridgeStates, BridgeStep, Accept,
                    WriteAddrData, WriteResp, ReadAddr, ReadResp
    <3>2. (dreq \in Program \cup {NoReq})'
      BY DEF TypeOK, CorePresents
    <3>3. (slave_q \in [Slaves -> SlaveStates])'
      BY DEF TypeOK, SlaveStep, SlaveStates, PortStates, DramNext, PortNext
    <3>4. (readq \in [Ports -> Addrs \cup {0}])'
      BY DEF TypeOK, BridgeTypeOK, SlaveStep
    <3>5. (sram \in [SramIndices -> Words])'
      BY MergeType DEF TypeOK, BridgeTypeOK, DramStep, SramWrite
    <3>6. (dout0 \in Words)'
      <4>1. CASE do_read
        <5>1. addr_q \in Addrs /\ sel_dram(addr_q)
          BY <4>1 DEF do_read, ReadTaken, SlaveIn, Sel, Blocks, TypeOK,
                      BridgeTypeOK, sel_dram, Bit17
        <5>2. WordAddr(addr_q) \in SramIndices
          BY <5>1 DEF SramIndices
        <5> QED BY <4>1, <5>2 DEF TypeOK, DramStep, SramRead
      <4>2. CASE ~do_read
        BY <4>2 DEF TypeOK, DramStep, SramRead
      <4> QED BY <4>1, <4>2
    <3>7. (waiting \in Program \cup {NoReq})'
      BY DEF TypeOK, CoreObserves, data_gnt, obi_gnt
    <3>8. (age \in 0 .. MaxAge)'
      BY DEF TypeOK, CoreObserves
    <3>9. (hits \in [Slaves -> 0 .. 2])'
      BY DEF TypeOK, CoreObserves
    <3>10. (result \in Results)'
      <4>1. CASE data_rvalid /\ state_q = "S_READ_R"
        <5>1. PICK s \in Slaves : Muxed(s, addr_q)
          BY <4>1 DEF data_rvalid, obi_rvalid, m_rvalid
        <5>2. CASE Muxed("dram", addr_q)
          BY <4>1, <5>2 DEF TypeOK, CoreObserves, m_rdata
        <5>3. CASE ~Muxed("dram", addr_q)
          <6>1. \E p \in Ports : Muxed(p, addr_q)
            BY <5>1, <5>3 DEF Slaves
          <6>2. (CHOOSE p \in Ports : Muxed(p, addr_q)) \in Ports
            BY <6>1
          <6>3. m_rdata \in [reg : Addrs \cup {0}]
            BY <5>3, <6>2 DEF m_rdata, TypeOK
          <6> QED BY <4>1, <6>3 DEF CoreObserves
        <5> QED BY <5>2, <5>3
      <4>2. CASE ~(data_rvalid /\ state_q = "S_READ_R")
        BY <4>2 DEF TypeOK, CoreObserves
      <4> QED BY <4>1, <4>2
    <3> QED
      BY <3>1, <3>2, <3>3, <3>4, <3>5, <3>6, <3>7, <3>8, <3>9, <3>10
         DEF TypeOK
  <2>2. CASE Reset
    <3> USE <2>2 DEF Reset
    <3>1. BridgeTypeOK'
      BY ZeroWordType DEF BridgeReset, BridgeTypeOK, BridgeStates, Strobes
    <3>2. (slave_q \in [Slaves -> SlaveStates] /\ hits \in [Slaves -> 0 .. 2])'
      BY DEF SlaveStates, PortStates
    <3>3. (readq \in [Ports -> Addrs \cup {0}] /\ age \in 0 .. MaxAge)'
      OBVIOUS
    <3> QED BY <3>1, <3>2, <3>3 DEF memVars, TypeOK
  <2>3. CASE UNCHANGED vars
    BY <2>3 DEF vars, bridgeVars, memVars, coreVars, TypeOK, BridgeTypeOK
  <2> QED BY <2>1, <2>2, <2>3 DEF Next
<1>3. QED BY <1>1, <1>2, PTL DEF Spec

-----------------------------------------------------------------------------
(***************************************************************************)
(* Bridge, slaves and core agree.  One lemma per state of the bridge says  *)
(* what a Tick does to the slaves; TransferStep puts them together.        *)
(***************************************************************************)
Inv == TypeOK /\ Transfer

\* No slave is taken while the bridge drives no address.
LEMMA NothingTaken ==
  ASSUME ~axi_awvalid, ~axi_arvalid, NEW s \in Slaves
  PROVE  ~SlaveTakesWrite(s) /\ ~SlaveTakesRead(s)
  BY DEF SlaveTakesWrite, SlaveTakesRead, do_write, do_read, WriteTaken,
         ReadTaken, SlaveIn

\* Before the bridge has had its handshake every slave is idle.
LEMMA AllIdle ==
  ASSUME Inv, state_q \in {"S_IDLE", "S_WRITE_AW", "S_READ_AR"},
         NEW s \in Slaves
  PROVE  slave_q[s] = "S_IDLE" /\ hits[s] = 0
  BY DEF Inv, TypeOK, Transfer, Agrees, SlaveStates, PortStates

\* The latched address is one the decoder lemmas speak of.
LEMMA BridgeAddr == ASSUME Inv PROVE addr_q \in Nat
  BY BridgeAssumption DEF Inv, TypeOK, BridgeTypeOK

\* While a response is due the slave concerned is the only one not idle.
LEMMA OneBusy ==
  ASSUME Inv, NEW s \in Slaves, NEW t \in Slaves,
         slave_q[s] # "S_IDLE", slave_q[t] # "S_IDLE"
  PROVE  s = t
  BY SelUnique, BridgeAddr DEF Inv, Transfer

\* In S_IDLE no slave moves, and a grant starts a transfer.
LEMMA TickIdle ==
  ASSUME Inv, Tick, state_q = "S_IDLE"
  PROVE  Transfer'
<1> USE DEF Tick
<1>1. ~axi_awvalid /\ ~axi_arvalid
  BY DEF axi_awvalid, axi_arvalid
<1>2. \A s \in Slaves : slave_q'[s] = "S_IDLE" /\ hits'[s] = 0
  <2> TAKE s \in Slaves
  <2>1. slave_q[s] = "S_IDLE" /\ hits[s] = 0
    BY AllIdle
  <2>2. ~SlaveTakesWrite(s) /\ ~SlaveTakesRead(s)
    BY <1>1, NothingTaken
  <2>3. slave_q'[s] = "S_IDLE"
    BY <2>1, <1>1 DEF SlaveStep, DramNext, PortNext, WriteTaken, ReadTaken,
                      SlaveIn
  <2>4. hits'[s] = 0
    BY <2>1, <2>2 DEF CoreObserves
  <2> QED BY <2>3, <2>4
<1>3. Accept(dreq)
  BY DEF BridgeStep, WriteAddrData, WriteResp, ReadAddr, ReadResp
<1>4. ~data_rvalid
  BY DEF data_rvalid, obi_rvalid
<1>5. CASE dreq = NoReq
  <2>1. waiting = NoReq
    BY DEF Inv, Transfer
  <2>2. waiting' = NoReq /\ state_q' = "S_IDLE"
    BY <1>3, <1>4, <1>5, <2>1 DEF CoreObserves, data_gnt, obi_gnt, Accept
  <2> QED BY <1>2, <1>3, <2>2 DEF Transfer, Accept
<1>6. CASE dreq # NoReq
  <2>1. waiting' = dreq
    BY <1>6 DEF CoreObserves, data_gnt, obi_gnt
  <2>2. dreq \in Requests /\ dreq.we \in BOOLEAN
    BY <1>6, SocBusAssumption DEF Inv, TypeOK, Requests
  <2> QED BY <1>2, <1>3, <1>6, <2>1, <2>2 DEF Transfer, Accept
<1>7. QED BY <1>5, <1>6

\* In S_WRITE_AW the selected slave, if any, takes the store and bridge and
\* slave enter their response states together.
LEMMA TickWriteAddr ==
  ASSUME Inv, Tick, state_q = "S_WRITE_AW"
  PROVE  Transfer'
<1> USE DEF Tick
<1>1. WriteAddrData(m_awready, m_wready)
  BY DEF BridgeStep, Accept, WriteResp, ReadAddr, ReadResp
<1>2. axi_awvalid /\ axi_wvalid /\ ~axi_arvalid
  BY DEF Inv, Transfer, axi_awvalid, axi_wvalid, axi_arvalid
<1>3. ~data_gnt /\ ~data_rvalid
  BY DEF data_gnt, obi_gnt, data_rvalid, obi_rvalid
<1>4. waiting' = waiting /\ waiting # NoReq /\ addr_q' = addr_q
  BY <1>1, <1>3 DEF CoreObserves, Inv, Transfer, WriteAddrData
<1>5. ~axi_aw_done' /\ ~axi_w_done'
  BY <1>1, <1>2 DEF WriteAddrData, m_awready, m_wready, Inv, Transfer
<1>6. ASSUME NEW s \in Slaves
      PROVE  IF Sel(s, addr_q) /\ TakesWrites(s, addr_q)
               THEN slave_q'[s] = "S_WRITE_RESP" /\ hits'[s] = 1
               ELSE slave_q'[s] = "S_IDLE" /\ hits'[s] = 0
  <2>1. slave_q[s] = "S_IDLE" /\ hits[s] = 0
    BY AllIdle
  <2>2. SlaveTakesWrite(s) <=> Sel(s, addr_q) /\ TakesWrites(s, addr_q)
    BY <1>2, <2>1 DEF SlaveTakesWrite, do_write, WriteTaken, SlaveIn
  <2>3. ~SlaveTakesRead(s)
    BY <1>2 DEF SlaveTakesRead, do_read, ReadTaken, SlaveIn
  <2>4. hits'[s] = IF SlaveTakesWrite(s) THEN 1 ELSE 0
    BY <1>3, <2>1, <2>3 DEF CoreObserves
  <2>5. slave_q'[s] = IF SlaveTakesWrite(s) THEN "S_WRITE_RESP" ELSE "S_IDLE"
    BY <1>2, <2>1, <2>2
       DEF SlaveStep, DramNext, PortNext, WriteTaken, ReadTaken, SlaveIn
  <2> QED BY <2>2, <2>4, <2>5
<1>7. m_awready <=> \E s \in Slaves : Sel(s, addr_q) /\ TakesWrites(s, addr_q)
  <2>1. ASSUME NEW s \in Slaves
        PROVE  Muxed(s, addr_q) /\ SlaveTakesWrite(s)
                 <=> Sel(s, addr_q) /\ TakesWrites(s, addr_q)
    BY <1>2, AllIdle, MuxedIsSel, BridgeAddr
       DEF SlaveTakesWrite, do_write, WriteTaken, SlaveIn
  <2> QED BY <2>1 DEF m_awready
<1>8. state_q' = IF m_awready THEN "S_WRITE_RESP" ELSE "S_WRITE_AW"
  BY <1>1, <1>2 DEF WriteAddrData, m_awready, m_wready, Inv, Transfer
<1>9. waiting.we /\ addr_q = waiting.addr
  BY <1>4 DEF Inv, Transfer
<1>10. QED
  BY <1>4, <1>5, <1>6, <1>7, <1>8, <1>9 DEF Transfer, Agrees, Sel

\* In S_READ_AR the selected slave, if any, takes the load.
LEMMA TickReadAddr ==
  ASSUME Inv, Tick, state_q = "S_READ_AR"
  PROVE  Transfer'
<1> USE DEF Tick
<1>1. ReadAddr(m_arready)
  BY DEF BridgeStep, Accept, WriteResp, WriteAddrData, ReadResp
<1>2. ~axi_awvalid /\ ~axi_wvalid /\ axi_arvalid
  BY DEF axi_awvalid, axi_wvalid, axi_arvalid
<1>3. ~data_gnt /\ ~data_rvalid
  BY DEF data_gnt, obi_gnt, data_rvalid, obi_rvalid
<1>4. waiting' = waiting /\ waiting # NoReq /\ addr_q' = addr_q
  BY <1>1, <1>3 DEF CoreObserves, Inv, Transfer, ReadAddr
<1>5. ~axi_aw_done' /\ ~axi_w_done'
  BY <1>1 DEF ReadAddr, Inv, Transfer
<1>6. ASSUME NEW s \in Slaves
      PROVE  IF Sel(s, addr_q) /\ TakesReads(s, addr_q)
               THEN /\ slave_q'[s] = IF s = "dram" THEN "S_READ_WAIT"
                                                  ELSE "S_READ_RESP"
                    /\ hits'[s] = 1
               ELSE slave_q'[s] = "S_IDLE" /\ hits'[s] = 0
  <2>1. slave_q[s] = "S_IDLE" /\ hits[s] = 0
    BY AllIdle
  <2>2. SlaveTakesRead(s) <=> Sel(s, addr_q) /\ TakesReads(s, addr_q)
    BY <1>2, <2>1 DEF SlaveTakesRead, do_read, ReadTaken, SlaveIn
  <2>3. ~SlaveTakesWrite(s)
    BY <1>2 DEF SlaveTakesWrite, do_write, WriteTaken, SlaveIn
  <2>4. hits'[s] = IF SlaveTakesRead(s) THEN 1 ELSE 0
    BY <1>3, <2>1, <2>3 DEF CoreObserves
  <2>5. slave_q'[s] = IF ~SlaveTakesRead(s) THEN "S_IDLE"
                      ELSE IF s = "dram" THEN "S_READ_WAIT" ELSE "S_READ_RESP"
    BY <1>2, <2>1, <2>2
       DEF SlaveStep, DramNext, PortNext, WriteTaken, ReadTaken, SlaveIn
  <2> QED BY <2>2, <2>4, <2>5
<1>7. m_arready <=> \E s \in Slaves : Sel(s, addr_q) /\ TakesReads(s, addr_q)
  <2>1. ASSUME NEW s \in Slaves
        PROVE  Muxed(s, addr_q) /\ SlaveArReady(s)
                 <=> Sel(s, addr_q) /\ TakesReads(s, addr_q)
    BY <1>2, AllIdle, MuxedIsSel, BridgeAddr
       DEF SlaveArReady, do_read, ReadTaken, axi_arready, SlaveIn
  <2> QED BY <2>1 DEF m_arready
<1>8. state_q' = IF m_arready THEN "S_READ_R" ELSE "S_READ_AR"
  BY <1>1, <1>2 DEF ReadAddr
<1>9. ~waiting.we /\ addr_q = waiting.addr
  BY <1>4 DEF Inv, Transfer
<1>10. QED
  BY <1>4, <1>5, <1>6, <1>7, <1>8, <1>9 DEF Transfer, Agrees, Sel

\* In S_WRITE_RESP the store is answered and every FSM returns to idle.
LEMMA TickWriteResp ==
  ASSUME Inv, Tick, state_q = "S_WRITE_RESP"
  PROVE  Transfer'
<1> USE DEF Tick
<1>1. WriteResp(m_bvalid)
  BY DEF BridgeStep, Accept, WriteAddrData, ReadAddr, ReadResp
<1>2. ~axi_awvalid /\ ~axi_wvalid /\ ~axi_arvalid /\ axi_bready
  BY DEF axi_awvalid, axi_wvalid, axi_arvalid, axi_bready
<1>3. PICK s \in Slaves : slave_q[s] # "S_IDLE"
  BY DEF Inv, Transfer
<1>4. slave_q[s] = "S_WRITE_RESP" /\ Sel(s, addr_q)
  BY <1>3 DEF Inv, Transfer, TypeOK, SlaveStates, PortStates, Agrees
<1>5. m_bvalid
  BY <1>4, MuxedIsSel, BridgeAddr DEF m_bvalid, axi_bvalid
<1>6. data_rvalid /\ ~data_gnt
  BY <1>5 DEF data_rvalid, obi_rvalid, data_gnt, obi_gnt
<1>7. \A t \in Slaves : slave_q'[t] = "S_IDLE" /\ hits'[t] = 0
  <2> TAKE t \in Slaves
  <2>1. t # s => slave_q[t] = "S_IDLE"
    BY <1>3, OneBusy
  <2>2. slave_q'[t] = "S_IDLE"
    BY <1>2, <1>4, <2>1 DEF SlaveStep, DramNext, PortNext, WriteTaken,
                            ReadTaken, SlaveIn, Addressed
  <2>3. hits'[t] = 0
    BY <1>6 DEF CoreObserves
  <2> QED BY <2>2, <2>3
<1>8. state_q' = "S_IDLE" /\ waiting' = NoReq /\ ~axi_aw_done' /\ ~axi_w_done'
  BY <1>1, <1>5, <1>6 DEF WriteResp, CoreObserves, Inv, Transfer
<1>9. QED
  BY <1>7, <1>8 DEF Transfer

\* In S_READ_R a register block answers at once and DRAM one cycle later.
LEMMA TickReadResp ==
  ASSUME Inv, Tick, state_q = "S_READ_R"
  PROVE  Transfer'
<1> USE DEF Tick
<1>1. ReadResp(m_rvalid)
  BY DEF BridgeStep, Accept, WriteAddrData, ReadAddr, WriteResp
<1>2. ~axi_awvalid /\ ~axi_wvalid /\ ~axi_arvalid /\ axi_rready
  BY DEF axi_awvalid, axi_wvalid, axi_arvalid, axi_rready
<1>3. PICK s \in Slaves : slave_q[s] # "S_IDLE"
  BY DEF Inv, Transfer
<1>4. /\ Sel(s, addr_q)
      /\ \/ slave_q[s] = "S_READ_RESP"
         \/ slave_q[s] = "S_READ_WAIT" /\ s = "dram"
  BY <1>3 DEF Inv, Transfer, TypeOK, SlaveStates, PortStates, Agrees
<1>5. ~data_gnt /\ (data_rvalid <=> m_rvalid)
  BY DEF data_rvalid, obi_rvalid, data_gnt, obi_gnt
<1>6. \A t \in Slaves : t # s => slave_q[t] = "S_IDLE"
  BY <1>3, OneBusy
<1>7. \A t \in Slaves : ~SlaveTakesWrite(t) /\ ~SlaveTakesRead(t)
  BY <1>2, NothingTaken
<1>8. ~axi_aw_done' /\ ~axi_w_done' /\ addr_q' = addr_q
  BY <1>1 DEF ReadResp, Inv, Transfer
<1>9. CASE slave_q[s] = "S_READ_RESP"
  <2>1. m_rvalid
    BY <1>4, <1>9, MuxedIsSel, BridgeAddr DEF m_rvalid, axi_rvalid
  <2>2. \A t \in Slaves : slave_q'[t] = "S_IDLE" /\ hits'[t] = 0
    <3> TAKE t \in Slaves
    <3>1. slave_q'[t] = "S_IDLE"
      BY <1>2, <1>4, <1>6, <1>9
         DEF SlaveStep, DramNext, PortNext, WriteTaken, ReadTaken, SlaveIn,
             Addressed
    <3>2. hits'[t] = 0
      BY <1>5, <2>1 DEF CoreObserves
    <3> QED BY <3>1, <3>2
  <2>3. state_q' = "S_IDLE" /\ waiting' = NoReq
    BY <1>1, <1>5, <2>1 DEF ReadResp, CoreObserves
  <2> QED BY <1>8, <2>2, <2>3 DEF Transfer
<1>10. CASE slave_q[s] = "S_READ_WAIT" /\ s = "dram"
  <2>1. ~m_rvalid
    BY <1>6, <1>10 DEF m_rvalid, axi_rvalid
  <2>2. \A t \in Slaves :
          /\ slave_q'[t] = IF t = s THEN "S_READ_RESP" ELSE "S_IDLE"
          /\ hits'[t] = hits[t]
    <3> TAKE t \in Slaves
    <3>1. slave_q'[t] = IF t = s THEN "S_READ_RESP" ELSE "S_IDLE"
      BY <1>2, <1>6, <1>10
         DEF SlaveStep, DramNext, PortNext, WriteTaken, ReadTaken, SlaveIn
    <3>2. hits'[t] = hits[t]
      BY <1>5, <1>7, <2>1 DEF CoreObserves
    <3> QED BY <3>1, <3>2
  <2>3. state_q' = "S_READ_R" /\ waiting' = waiting
    BY <1>1, <1>5, <2>1 DEF ReadResp, CoreObserves
  <2>4. \A t \in Slaves : hits[t] = IF t = s THEN 1 ELSE 0
    BY <1>3, <1>6 DEF Inv, Transfer
  <2>5. waiting # NoReq /\ addr_q = waiting.addr /\ ~waiting.we
    BY DEF Inv, Transfer
  <2> QED BY <1>4, <1>8, <2>2, <2>3, <2>4, <2>5 DEF Transfer, Agrees, Sel
<1>11. QED BY <1>4, <1>9, <1>10

\* Transfer holds in every reachable state.
THEOREM TransferAlways == Spec => []Transfer
<1>1. Init => Transfer
  BY DEF Init, BridgeInit, Transfer, Agrees
<1>2. Inv /\ [Next]_vars => Transfer'
  <2> SUFFICES ASSUME Inv, [Next]_vars
               PROVE  Transfer'
    OBVIOUS
  <2>1. CASE Tick
    <3>1. state_q \in BridgeStates
      BY DEF Inv, TypeOK, BridgeTypeOK
    <3> QED
      BY <2>1, <3>1, TickIdle, TickWriteAddr, TickReadAddr, TickWriteResp,
         TickReadResp DEF BridgeStates
  <2>2. CASE Reset
    BY <2>2 DEF Reset, BridgeReset, Transfer, Agrees
  <2>3. CASE UNCHANGED vars
    BY <2>3 DEF vars, bridgeVars, coreVars, Inv, Transfer, Agrees
  <2> QED BY <2>1, <2>2, <2>3 DEF Next
<1>3. QED
  BY <1>1, <1>2, TypeCorrect, PTL DEF Spec, Inv

-----------------------------------------------------------------------------
(***************************************************************************)
(* What follows from Transfer.                                             *)
(***************************************************************************)

\* A slave that is not idle is the selected one, alone, and in the phase of
\* the transfer the bridge is in (decoder, mux and FSMs of the data side).
THEOREM BusAgreementAlways == Spec => []BusAgreement
<1>1. Inv => BusAgreement
  BY OneBusy DEF Inv, Transfer, BusAgreement
<1>2. QED BY <1>1, TypeCorrect, TransferAlways, PTL DEF Inv

\* The decoder selects the slave the memory map documents.
LEMMA WindowIsSel ==
  ASSUME NEW a \in Nat, NEW s \in Slaves, Documented(s, a)
  PROVE  Sel(s, a)
<1>1. CASE s = "dram"
  <2>1. a >= 131072 /\ a <= 139263
    BY <1>1, SMT DEF Documented, DocFirst, DocLast
  <2>2. sel_dram(a)
    BY <2>1, SMT DEF sel_dram, Top8, Bit17
  <2> QED BY <1>1, <2>2 DEF Sel
<1>2. CASE s = "yz_csr"
  <2>1. a >= 1342177280 /\ a <= 1342177311
    BY <1>2, SMT DEF Documented, DocFirst, DocLast
  <2>2. sel_yz(a) /\ Region(a) = 0
    BY <2>1, SMT DEF sel_yz, Top8, Region
  <2> QED BY <1>2, <2>2 DEF Sel
<1>3. CASE s = "yz_data"
  <2>1. a >= 1343225856 /\ a <= 1349517311
    BY <1>3, SMT DEF Documented, DocFirst, DocLast
  <2>2. sel_yz(a) /\ Region(a) # 0
    BY <2>1, SMT DEF sel_yz, Top8, Region
  <2> QED BY <1>3, <2>2 DEF Sel
<1>4. CASE s \in Blocks
  <2>1. Page(a) = BlockPage[s]
    BY <1>4, SMT DEF Blocks, Documented, DocFirst, DocLast, BlockPage, Page
  <2> QED BY <1>4, <2>1 DEF Sel, sel_block
<1>5. QED BY <1>1, <1>2, <1>3, <1>4 DEF Slaves, Ports, YzPorts

\* Every answered load or store was taken exactly once, by the slave the
\* documented memory map gives its address to and by no other.
THEOREM ExactlyOnceAlways == Spec => []ExactlyOnce
<1>1. Inv => ExactlyOnce
  <2> SUFFICES ASSUME Inv, data_rvalid
               PROVE  /\ waiting # NoReq
                      /\ \A s \in Slaves :
                           Documented(s, waiting.addr) =>
                             \A t \in Slaves : hits[t] = IF t = s THEN 1 ELSE 0
    BY DEF ExactlyOnce
  <2>1. state_q \in {"S_WRITE_RESP", "S_READ_R"}
    BY DEF data_rvalid, obi_rvalid
  <2>2. waiting # NoReq /\ addr_q = waiting.addr
    BY <2>1 DEF Inv, Transfer
  <2>3. PICK b \in Slaves : slave_q[b] # "S_IDLE"
    BY <2>1 DEF Inv, Transfer
  <2>4. Sel(b, addr_q)
    BY <2>3 DEF Inv, Transfer
  <2>5. ASSUME NEW s \in Slaves, Documented(s, addr_q), NEW t \in Slaves
        PROVE  hits[t] = IF t = s THEN 1 ELSE 0
    <3>1. Sel(s, addr_q)
      BY <2>5, WindowIsSel, BridgeAddr
    <3>2. b = s
      BY <2>4, <3>1, SelUnique, BridgeAddr
    <3> QED BY <2>3, <3>2, OneBusy DEF Inv, Transfer
  <2> QED BY <2>2, <2>5
<1>2. QED BY <1>1, TypeCorrect, TransferAlways, PTL DEF Inv

-----------------------------------------------------------------------------
(***************************************************************************)
(* Latency.                                                                *)
(***************************************************************************)

\* The age of a transfer in each phase.
Timing ==
  /\ state_q \in {"S_WRITE_AW", "S_READ_AR"} => age <= 1
  /\ state_q = "S_WRITE_RESP" => age <= 2
  /\ state_q = "S_READ_R" =>
       age <= IF slave_q["dram"] = "S_READ_RESP" THEN 3 ELSE 2

\* One clock edge adds at most one to the age of a transfer.
LEMMA AgeStep ==
  ASSUME Inv, Tick
  PROVE  /\ age' \in Nat
         /\ age' <= age + 1
         /\ data_gnt => age' = 1
<1>1. age \in Nat /\ MaxAge \in Nat
  BY SocBusAssumption DEF Inv, TypeOK
<1>2. QED BY <1>1 DEF Tick, CoreObserves

\* If the program keeps to mapped addresses, a load or a store is answered
\* within two cycles of its grant, a DRAM load within three.
THEOREM AnsweredInTimeAlways ==
  ASSUME ProgramMapped
  PROVE  Spec => []AnsweredInTime
<1>1. Init => Timing
  BY DEF Init, BridgeInit, Timing
<1>2. Inv /\ Transfer' /\ Timing /\ [Next]_vars => Timing'
  <2> SUFFICES ASSUME Inv, Transfer', Timing, [Next]_vars
               PROVE  Timing'
    OBVIOUS
  <2>1. CASE Tick
    <3> USE <2>1 DEF Tick
    <3>1. age \in Nat
      BY DEF Inv, TypeOK
    <3>2. CASE state_q = "S_IDLE"
      <4>1. Accept(dreq)
        BY <3>2 DEF BridgeStep, WriteAddrData, WriteResp, ReadAddr, ReadResp
      <4>2. CASE dreq = NoReq
        BY <4>1, <4>2, <3>2 DEF Accept, Timing
      <4>3. CASE dreq # NoReq
        <5>1. age' = 1
          BY <4>3, <3>2, AgeStep DEF data_gnt, obi_gnt
        <5> QED BY <4>1, <4>3, <5>1 DEF Accept, Timing
      <4> QED BY <4>2, <4>3
    <3>3. CASE state_q = "S_WRITE_AW"
      <4>1. WriteAddrData(m_awready, m_wready)
        BY <3>3 DEF BridgeStep, Accept, WriteResp, ReadAddr, ReadResp
      <4>2. waiting \in Program /\ waiting.we /\ addr_q = waiting.addr
        BY <3>3 DEF Inv, Transfer, TypeOK
      <4>3. PICK s \in Slaves : Sel(s, addr_q) /\ TakesWrites(s, addr_q)
        BY <4>2 DEF ProgramMapped, Mapped
      <4>4. SlaveTakesWrite(s) /\ Muxed(s, addr_q)
        BY <3>3, <4>3, AllIdle, MuxedIsSel, BridgeAddr
           DEF SlaveTakesWrite, do_write, WriteTaken, SlaveIn, axi_awvalid,
               axi_wvalid, Inv, Transfer
      <4>5. m_awready /\ m_wready
        BY <4>4 DEF m_awready, m_wready
      <4>6. state_q' = "S_WRITE_RESP"
        BY <3>3, <4>1, <4>5
           DEF WriteAddrData, axi_awvalid, axi_wvalid, Inv, Transfer
      <4>7. age <= 1 /\ age' <= 2
        BY <3>1, <3>3, AgeStep DEF Timing
      <4> QED BY <4>6, <4>7 DEF Timing
    <3>4. CASE state_q = "S_READ_AR"
      <4>1. ReadAddr(m_arready)
        BY <3>4 DEF BridgeStep, Accept, WriteResp, WriteAddrData, ReadResp
      <4>2. waiting \in Program /\ ~waiting.we /\ addr_q = waiting.addr
        BY <3>4 DEF Inv, Transfer, TypeOK
      <4>3. PICK s \in Slaves : Sel(s, addr_q) /\ TakesReads(s, addr_q)
        BY <4>2 DEF ProgramMapped, Mapped
      <4>4. SlaveArReady(s) /\ Muxed(s, addr_q)
        BY <3>4, <4>3, AllIdle, MuxedIsSel, BridgeAddr
           DEF SlaveArReady, do_read, ReadTaken, axi_arready, SlaveIn,
               axi_arvalid, axi_awvalid
      <4>5. m_arready
        BY <4>4 DEF m_arready
      <4>6. state_q' = "S_READ_R"
        BY <3>4, <4>1, <4>5 DEF ReadAddr, axi_arvalid
      <4>7. age <= 1 /\ age' <= 2 /\ age' \in Nat
        BY <3>1, <3>4, AgeStep DEF Timing
      <4> QED BY <4>6, <4>7 DEF Timing
    <3>5. CASE state_q = "S_WRITE_RESP"
      <4>1. WriteResp(m_bvalid)
        BY <3>5 DEF BridgeStep, Accept, WriteAddrData, ReadAddr, ReadResp
      <4>2. PICK s \in Slaves : slave_q[s] # "S_IDLE"
        BY <3>5 DEF Inv, Transfer
      <4>3. slave_q[s] = "S_WRITE_RESP" /\ Sel(s, addr_q)
        BY <3>5, <4>2 DEF Inv, Transfer, TypeOK, SlaveStates, PortStates, Agrees
      <4>4. m_bvalid
        BY <4>3, MuxedIsSel, BridgeAddr DEF m_bvalid, axi_bvalid
      <4> QED BY <4>1, <4>4 DEF WriteResp, Timing
    <3>6. CASE state_q = "S_READ_R"
      <4>1. ReadResp(m_rvalid)
        BY <3>6 DEF BridgeStep, Accept, WriteAddrData, ReadAddr, WriteResp
      <4>2. PICK s \in Slaves : slave_q[s] # "S_IDLE"
        BY <3>6 DEF Inv, Transfer
      <4>3. /\ Sel(s, addr_q)
            /\ \/ slave_q[s] = "S_READ_RESP"
               \/ slave_q[s] = "S_READ_WAIT" /\ s = "dram"
        BY <3>6, <4>2 DEF Inv, Transfer, TypeOK, SlaveStates, PortStates, Agrees
      <4>4. CASE slave_q[s] = "S_READ_RESP"
        <5>1. m_rvalid
          BY <4>3, <4>4, MuxedIsSel, BridgeAddr DEF m_rvalid, axi_rvalid
        <5> QED BY <4>1, <5>1 DEF ReadResp, Timing
      <4>5. CASE slave_q[s] = "S_READ_WAIT" /\ s = "dram"
        <5>1. slave_q'["dram"] = "S_READ_RESP"
          BY <4>5 DEF SlaveStep, DramNext, ReadTaken
        <5>2. age <= 2 /\ age' <= 3
          BY <3>1, <3>6, <4>5, AgeStep DEF Timing
        <5>3. state_q' \in {"S_READ_R", "S_IDLE"}
          BY <3>6, <4>1 DEF ReadResp
        <5> QED BY <5>1, <5>2, <5>3 DEF Timing
      <4> QED BY <4>3, <4>4, <4>5
    <3> QED
      BY <3>2, <3>3, <3>4, <3>5, <3>6 DEF Inv, TypeOK, BridgeTypeOK, BridgeStates
  <2>2. CASE Reset
    BY <2>2 DEF Reset, BridgeReset, Timing
  <2>3. CASE UNCHANGED vars
    BY <2>3 DEF vars, bridgeVars, coreVars, Timing
  <2> QED BY <2>1, <2>2, <2>3 DEF Next
<1>3. Inv /\ Timing => AnsweredInTime
  <2> SUFFICES ASSUME Inv, Timing, waiting # NoReq
               PROVE  age <= IF sel_dram(waiting.addr) /\ ~waiting.we
                               THEN 3 ELSE 2
    BY DEF AnsweredInTime
  <2>1. age \in Nat /\ state_q \in BridgeStates /\ state_q # "S_IDLE"
    BY DEF Inv, TypeOK, BridgeTypeOK, Transfer
  <2>2. slave_q["dram"] = "S_READ_RESP" =>
          sel_dram(waiting.addr) /\ ~waiting.we
    <3> SUFFICES ASSUME slave_q["dram"] = "S_READ_RESP"
                 PROVE  sel_dram(waiting.addr) /\ ~waiting.we
      OBVIOUS
    <3>1. "dram" \in Slaves
      BY DEF Slaves
    <3>2. Sel("dram", addr_q) /\ Agrees("dram", "S_READ_RESP")
      BY <3>1 DEF Inv, Transfer
    <3>3. sel_dram(addr_q)
      BY <3>2 DEF Sel, Blocks
    <3>4. state_q = "S_READ_R"
      BY <3>2 DEF Agrees
    <3> QED BY <3>3, <3>4 DEF Inv, Transfer
  <2> QED BY <2>1, <2>2 DEF Timing, BridgeStates
<1>4. QED
  BY <1>1, <1>2, <1>3, TypeCorrect, TransferAlways, PTL DEF Spec, Inv

-----------------------------------------------------------------------------
(***************************************************************************)
(* The data side implements LoadStore: Issue at the grant, Perform at the  *)
(* edge at which the slave takes the request, Answer at the edge that ends *)
(* the response; every other edge is a stuttering step.                    *)
(***************************************************************************)

\* The bridge drives the data and the strobes of the store in progress.
Latched ==
  waiting # NoReq => wdata_q = waiting.wdata /\ wstrb_q = waiting.be

\* wdata_q and wstrb_q are written at the grant and at no other edge.
LEMMA LatchedAlways == Spec => []Latched
<1>1. Init => Latched
  BY DEF Init, Latched
<1>2. Inv /\ Latched /\ [Next]_vars => Latched'
  <2> SUFFICES ASSUME Inv, Latched, [Next]_vars
               PROVE  Latched'
    OBVIOUS
  <2>1. CASE Tick
    <3>1. CASE data_gnt
      <4>1. Accept(dreq) /\ dreq # NoReq
        BY <2>1, <3>1 DEF data_gnt, obi_gnt, Tick, BridgeStep, WriteAddrData,
                          WriteResp, ReadAddr, ReadResp
      <4> QED BY <2>1, <3>1, <4>1 DEF Accept, Tick, CoreObserves, Latched
    <3>2. CASE ~data_gnt
      <4>1. UNCHANGED <<wdata_q, wstrb_q>>
        BY <2>1, <3>2 DEF data_gnt, obi_gnt, Tick, BridgeStep, Accept,
                          WriteAddrData, WriteResp, ReadAddr, ReadResp
      <4> QED BY <2>1, <3>2, <4>1 DEF Tick, CoreObserves, Latched
    <3> QED BY <3>1, <3>2
  <2>2. CASE Reset
    BY <2>2 DEF Reset, Latched
  <2>3. CASE UNCHANGED vars
    BY <2>3 DEF vars, bridgeVars, coreVars, Latched
  <2> QED BY <2>1, <2>2, <2>3 DEF Next
<1>3. QED
  BY <1>1, <1>2, TypeCorrect, TransferAlways, PTL DEF Spec, Inv

\* A documented DRAM address selects DRAM, and the macro keeps its word at
\* the index the mapping looks at.
LEMMA CellIsWord ==
  ASSUME NEW a \in DOMAIN DramCellOf
  PROVE  /\ a \in Addrs /\ a \in Nat
         /\ sel_dram(a)
         /\ DramCellOf[a] % 256 = WordAddr(a)
<1>1. a \in Addrs /\ a \in Nat /\ a >= 131072 /\ a < 139264
  BY BridgeAssumption DEF DramCellOf, DramBase, DramBytes
<1>2. sel_dram(a)
  BY <1>1 DEF sel_dram, Top8, Bit17
<1>3. DramCellOf[a] = (a - 131072) \div 4
  BY <1>1 DEF DramCellOf, DramBase, DramBytes
<1>4. ((a - 131072) \div 4) % 256 = (a \div 4) % 256
  BY <1>1
<1>5. QED BY <1>1, <1>2, <1>3, <1>4 DEF WordAddr

\* The bytes a store leaves, in the two modules.
LEMMA StoredIsMerge ==
  ASSUME NEW old, NEW new, NEW be
  PROVE  LS!Stored(old, new, be) = Merge(old, new, be)
  BY DEF LS!Stored, Merge

\* A request has taken effect exactly while the bridge waits for its answer.
AnswerDue == state_q \in {"S_WRITE_RESP", "S_READ_R"}
LEMMA PerformedIs == Inv => (Performed <=> AnswerDue)
<1> SUFFICES ASSUME Inv
             PROVE  Performed <=> AnswerDue
  OBVIOUS
<1>1. state_q \in BridgeStates
  BY DEF Inv, TypeOK, BridgeTypeOK
<1>2. CASE state_q \in {"S_WRITE_RESP", "S_READ_R"}
  BY <1>2 DEF Inv, Transfer, Performed, AnswerDue
<1>3. CASE state_q \in {"S_IDLE", "S_WRITE_AW", "S_READ_AR"}
  <2>1. \A s \in Slaves : slave_q[s] = "S_IDLE"
    BY <1>3, AllIdle
  <2> QED BY <1>3, <2>1 DEF Performed, AnswerDue
<1>4. QED BY <1>1, <1>2, <1>3 DEF BridgeStates

\* The same after a step.
LEMMA PerformedIsNext == Inv' => (Performed' <=> AnswerDue')
<1>1. (Inv => (Performed <=> AnswerDue))'
  BY PerformedIs, PTL
<1>2. QED BY <1>1

\* A Tick in which DRAM takes no store leaves memory alone.
LEMMA MemKept ==
  ASSUME Tick, ~do_write
  PROVE  MemBar' = MemBar
  BY DEF Tick, DramStep, SramWrite, MemBar

\* A grant is an Issue; without one S_IDLE stutters.
LEMMA StepIdle ==
  ASSUME Inv, Inv', Tick, state_q = "S_IDLE"
  PROVE  LS!Next \/ UNCHANGED LS!vars
<1> USE DEF Tick
<1>1. Accept(dreq)
  BY DEF BridgeStep, WriteAddrData, WriteResp, ReadAddr, ReadResp
<1>2. ~data_rvalid /\ waiting = NoReq /\ PendBar = NoReq
  BY DEF data_rvalid, obi_rvalid, Inv, Transfer, PendBar
<1>3. ~do_write
  BY NothingTaken DEF Slaves, SlaveTakesWrite, axi_awvalid, axi_arvalid
<1>4. MemBar' = MemBar
  BY <1>3, MemKept
<1>5. CASE dreq = NoReq
  <2>1. waiting' = NoReq /\ result' = result
    BY <1>2, <1>5 DEF CoreObserves, data_gnt, obi_gnt
  <2>2. PendBar' = NoReq
    BY <2>1 DEF PendBar
  <2> QED BY <1>2, <1>4, <2>1, <2>2 DEF LS!vars
<1>6. CASE dreq # NoReq
  <2>1. waiting' = dreq /\ result' = NoReq
    BY <1>2, <1>6 DEF CoreObserves, data_gnt, obi_gnt
  <2>2. dreq \in Program
    BY <1>6 DEF Inv, TypeOK
  <2>3. state_q' \in {"S_WRITE_AW", "S_READ_AR"}
    BY <1>1, <1>6 DEF Accept
  <2>4. ~Performed'
    BY <2>3, PerformedIsNext DEF AnswerDue
  <2>5. PendBar' = [req |-> dreq, done |-> FALSE, val |-> NoReq]
    BY <1>6, <2>1, <2>4 DEF PendBar, Performed
  <2>6. LS!Issue(dreq)
    BY <1>2, <1>4, <2>1, <2>5 DEF LS!Issue
  <2> QED BY <2>2, <2>6 DEF LS!Next
<1>7. QED BY <1>5, <1>6

\* A request that waits for its slave stays as it is, and the edge at which
\* the slave takes it performs it.
LEMMA PendKept ==
  ASSUME Inv, Tick, Performed' = Performed, waiting' = waiting,
         ~do_write, ~data_gnt, ~data_rvalid,
         Performed /\ waiting # NoReq /\ ~waiting.we => m_rdata' = m_rdata
  PROVE  UNCHANGED LS!vars
<1>1. MemBar' = MemBar
  BY MemKept
<1>2. result' = result
  BY DEF Tick, CoreObserves
<1>3. PendBar' = PendBar
  BY DEF PendBar
<1>4. QED BY <1>1, <1>2, <1>3 DEF LS!vars

\* A store into one of the macro's words is a store into one cell.
LEMMA StoreInMem ==
  ASSUME TypeOK, DramApart, NEW a \in DOMAIN DramCellOf, NEW d, NEW be,
         sram' = [sram EXCEPT ![WordAddr(a)] = Merge(@, d, be)]
  PROVE  MemBar' = [MemBar EXCEPT ![DramCellOf[a]] = LS!Stored(@, d, be)]
<1> DEFINE C == {DramCellOf[b] : b \in DOMAIN DramCellOf}
           Old == MemBar[DramCellOf[a]]
<1>1. ASSUME NEW c \in C
      PROVE  /\ c % 256 \in SramIndices
             /\ c % 256 = WordAddr(a) <=> c = DramCellOf[a]
  <2>1. PICK b \in DOMAIN DramCellOf : c = DramCellOf[b]
    OBVIOUS
  <2>2. c % 256 = WordAddr(b) /\ DramCellOf[a] % 256 = WordAddr(a)
    BY <2>1, CellIsWord
  <2>3. WordAddr(b) \in SramIndices
    BY CellIsWord DEF SramIndices
  <2> QED BY <2>1, <2>2, <2>3 DEF DramApart
<1>2. Old = sram[WordAddr(a)]
  BY CellIsWord DEF MemBar
<1>3. ASSUME NEW c \in C
      PROVE  sram'[c % 256] = IF c = DramCellOf[a] THEN Merge(Old, d, be)
                                                  ELSE sram[c % 256]
  <2>1. DOMAIN sram = SramIndices
    BY DEF TypeOK
  <2> QED BY <1>1, <1>2, <2>1
<1>4. MemBar' = [c \in C |-> sram'[c % 256]]
  BY DEF MemBar
<1>5. [MemBar EXCEPT ![DramCellOf[a]] = Merge(@, d, be)]
        = [c \in C |-> IF c = DramCellOf[a] THEN Merge(Old, d, be)
                                           ELSE sram[c % 256]]
  BY DEF MemBar
<1>6. MemBar' = [MemBar EXCEPT ![DramCellOf[a]] = Merge(@, d, be)]
  BY <1>3, <1>4, <1>5
<1>7. QED BY <1>6 DEF LS!Stored, Merge

\* A pending request is not "no request".
LEMMA PendingIsSome ==
  ASSUME NEW r \in Requests, NEW d \in BOOLEAN, NEW v \in Results
  PROVE  [req |-> r, done |-> d, val |-> v] # NoReq
  BY NoReqAssumption

\* When a pending request takes effect as LoadStore says, the step is Perform.
LEMMA PerformStep ==
  ASSUME NEW r \in Requests, NEW v,
         PendBar = [req |-> r, done |-> FALSE, val |-> NoReq],
         PendBar' = [req |-> r, done |-> TRUE, val |-> v],
         v = IF r.we THEN NoReq ELSE LS!Loaded(r.addr),
         MemBar' = IF r.we /\ r.addr \in DOMAIN DramCellOf
                     THEN [MemBar EXCEPT ![DramCellOf[r.addr]] =
                             LS!Stored(@, r.wdata, r.be)]
                     ELSE MemBar,
         result' = result
  PROVE  LS!Perform
<1>1. PendBar # NoReq
  BY PendingIsSome DEF Results
<1>2. ~PendBar.done /\ PendBar.req = r
  OBVIOUS
<1>3. QED BY <1>1, <1>2 DEF LS!Perform

\* The edge at which a slave takes the store performs it.
LEMMA StepWriteAddr ==
  ASSUME Inv, Inv', Latched, DramApart, Tick, state_q = "S_WRITE_AW"
  PROVE  LS!Next \/ UNCHANGED LS!vars
<1> USE DEF Tick
<1>1. WriteAddrData(m_awready, m_wready)
  BY DEF BridgeStep, Accept, WriteResp, ReadAddr, ReadResp
<1>2. axi_awvalid /\ axi_wvalid /\ ~axi_arvalid
  BY DEF Inv, Transfer, axi_awvalid, axi_wvalid, axi_arvalid
<1>3. ~data_gnt /\ ~data_rvalid
  BY DEF data_gnt, obi_gnt, data_rvalid, obi_rvalid
<1>4. /\ waiting # NoReq /\ waiting \in Requests
      /\ waiting.we /\ addr_q = waiting.addr
      /\ wdata_q = waiting.wdata /\ wstrb_q = waiting.be
      /\ waiting' = waiting
  BY <1>3, SocBusAssumption
     DEF Inv, TypeOK, Transfer, Latched, CoreObserves
<1>5. ~Performed /\ "dram" \in Slaves
  BY PerformedIs DEF AnswerDue, Slaves
<1>6. do_write <=> sel_dram(addr_q)
  BY <1>2, <1>5, AllIdle
     DEF do_write, WriteTaken, SlaveIn, Sel, Blocks, TakesWrites
<1>7. CASE ~m_awready
  <2>1. ~do_write
    <3>1. do_write => Muxed("dram", addr_q) /\ SlaveTakesWrite("dram")
      BY <1>5, <1>6, MuxedIsSel, BridgeAddr DEF Sel, SlaveTakesWrite
    <3> QED BY <1>5, <1>7, <3>1 DEF m_awready
  <2>2. state_q' = "S_WRITE_AW"
    BY <1>1, <1>7 DEF WriteAddrData, m_awready, m_wready, Inv, Transfer
  <2>3. ~Performed'
    BY <2>2, PerformedIsNext DEF AnswerDue
  <2>4. Performed' = Performed
    BY <1>5, <2>3 DEF Performed
  <2> QED BY <1>3, <1>4, <1>5, <2>1, <2>4, PendKept
<1>8. CASE m_awready
  <2>1. state_q' = "S_WRITE_RESP"
    BY <1>1, <1>2, <1>8 DEF WriteAddrData, m_awready, m_wready, Inv, Transfer
  <2>2. Performed'
    BY <2>1, PerformedIsNext DEF AnswerDue
  <2>3. PendBar = [req |-> waiting, done |-> FALSE, val |-> NoReq]
    BY <1>4, <1>5 DEF PendBar, Performed
  <2>4. PendBar' = [req |-> waiting, done |-> TRUE, val |-> NoReq]
    BY <1>4, <2>2 DEF PendBar, Performed
  <2>5. result' = result
    BY <1>3 DEF CoreObserves
  <2>6. addr_q \in DOMAIN DramCellOf <=> sel_dram(addr_q)
    BY <1>4, CellIsWord DEF DramApart, Requests
  <2>7. MemBar' = IF addr_q \in DOMAIN DramCellOf
                    THEN [MemBar EXCEPT ![DramCellOf[addr_q]] =
                            LS!Stored(@, wdata_q, wstrb_q)]
                    ELSE MemBar
    <3>1. CASE sel_dram(addr_q)
      <4>1. sram' = [sram EXCEPT ![WordAddr(addr_q)] =
                       Merge(@, wdata_q, wstrb_q)]
        BY <1>6, <3>1 DEF DramStep, SramWrite
      <4> QED BY <2>6, <3>1, <4>1, StoreInMem DEF Inv
    <3>2. CASE ~sel_dram(addr_q)
      BY <1>6, <2>6, <3>2, MemKept
    <3> QED BY <3>1, <3>2
  <2>8. LS!Perform
    BY <1>4, <2>3, <2>4, <2>5, <2>7, PerformStep
  <2> QED BY <2>8 DEF LS!Next
<1>9. QED BY <1>7, <1>8

\* The edge at which a slave takes the load performs it: DRAM drives the
\* addressed word, a block names the register.
LEMMA StepReadAddr ==
  ASSUME Inv, Inv', DramApart, Tick, state_q = "S_READ_AR"
  PROVE  LS!Next \/ UNCHANGED LS!vars
<1> USE DEF Tick
<1>1. ReadAddr(m_arready)
  BY DEF BridgeStep, Accept, WriteResp, WriteAddrData, ReadResp
<1>2. ~axi_awvalid /\ ~axi_wvalid /\ axi_arvalid
  BY DEF axi_awvalid, axi_wvalid, axi_arvalid
<1>3. ~data_gnt /\ ~data_rvalid /\ ~do_write
  BY <1>2 DEF data_gnt, obi_gnt, data_rvalid, obi_rvalid, do_write,
              WriteTaken, SlaveIn
<1>4. /\ waiting # NoReq /\ waiting \in Requests
      /\ ~waiting.we /\ addr_q = waiting.addr
      /\ waiting' = waiting /\ addr_q' = addr_q
  BY <1>1, <1>3, SocBusAssumption
     DEF Inv, TypeOK, Transfer, CoreObserves, ReadAddr
<1>5. ~Performed /\ "dram" \in Slaves
  BY PerformedIs DEF AnswerDue, Slaves
<1>6. MemBar' = MemBar /\ result' = result
  BY <1>3, MemKept DEF CoreObserves
<1>7. CASE ~m_arready
  <2>1. state_q' = "S_READ_AR"
    BY <1>1, <1>7 DEF ReadAddr
  <2>2. ~Performed'
    BY <2>1, PerformedIsNext DEF AnswerDue
  <2>3. Performed' = Performed
    BY <1>5, <2>2 DEF Performed
  <2> QED BY <1>3, <1>4, <1>5, <2>3, PendKept
<1>8. CASE m_arready
  <2>1. state_q' = "S_READ_R"
    BY <1>1, <1>2, <1>8 DEF ReadAddr
  <2>2. Performed'
    BY <2>1, PerformedIsNext DEF AnswerDue
  <2>3. PendBar = [req |-> waiting, done |-> FALSE, val |-> NoReq]
    BY <1>4, <1>5 DEF PendBar, Performed
  <2>4. PendBar' = [req |-> waiting, done |-> TRUE, val |-> m_rdata']
    BY <1>4, <2>2 DEF PendBar, Performed
  <2>5. addr_q \in DOMAIN DramCellOf <=> sel_dram(addr_q)
    BY <1>4, CellIsWord DEF DramApart, Requests
  <2>6. Muxed("dram", addr_q) <=> sel_dram(addr_q)
    BY <1>5, MuxedIsSel, BridgeAddr DEF Sel, Blocks
  <2>7. m_rdata' = LS!Loaded(addr_q)
    <3>1. CASE sel_dram(addr_q)
      <4>1. do_read
        BY <1>2, <1>5, <3>1, AllIdle
           DEF do_read, ReadTaken, SlaveIn, Sel, TakesReads
      <4>2. dout0' = sram[WordAddr(addr_q)]
        BY <4>1 DEF DramStep, SramRead
      <4>3. MemBar[DramCellOf[addr_q]] = sram[WordAddr(addr_q)]
        BY <2>5, <3>1, CellIsWord DEF MemBar
      <4>4. m_rdata' = dout0'
        BY <1>4, <2>6, <3>1 DEF m_rdata, Muxed, Sel
      <4> QED BY <2>5, <3>1, <4>2, <4>3, <4>4 DEF LS!Loaded
    <3>2. CASE ~sel_dram(addr_q)
      <4>1. PICK s \in Slaves : Muxed(s, addr_q) /\ SlaveArReady(s)
        BY <1>8 DEF m_arready
      <4>2. s \in Ports
        BY <2>6, <3>2, <4>1 DEF Slaves
      <4>3. (CHOOSE p \in Ports : Muxed(p, addr_q)) = s
        <5>1. \A p \in Ports : Muxed(p, addr_q) => p = s
          BY <4>1, SelUnique, BridgeAddr DEF Slaves, Muxed
        <5> QED BY <4>1, <4>2, <5>1
      <4>4. SlaveTakesRead(s)
        BY <1>2, <2>6, <3>2, <4>1
           DEF SlaveArReady, SlaveTakesRead, axi_arready, ReadTaken, SlaveIn
      <4>5. readq'[s] = addr_q
        BY <4>2, <4>4 DEF SlaveStep
      <4>6. m_rdata' = [reg |-> readq'[s]]
        BY <1>4, <2>6, <3>2, <4>3 DEF m_rdata, Muxed, Sel
      <4> QED BY <2>5, <3>2, <4>5, <4>6 DEF LS!Loaded
    <3> QED BY <3>1, <3>2
  <2>8. LS!Perform
    BY <1>4, <1>6, <2>3, <2>4, <2>7, PerformStep
  <2> QED BY <2>8 DEF LS!Next
<1>9. QED BY <1>7, <1>8

\* The end of a response hands the core what the request read.
LEMMA AnswerStep ==
  ASSUME Inv, Inv', Tick, data_rvalid
  PROVE  LS!Answer
<1> USE DEF Tick
<1>1. state_q \in {"S_WRITE_RESP", "S_READ_R"} /\ ~data_gnt
  BY DEF data_rvalid, obi_rvalid, data_gnt, obi_gnt
<1>2. /\ waiting # NoReq /\ waiting \in Requests
      /\ waiting.we <=> state_q = "S_WRITE_RESP"
  BY <1>1, SocBusAssumption DEF Inv, TypeOK, Transfer
<1>3. Performed
  BY <1>1, PerformedIs DEF AnswerDue
<1>4. ~do_write
  BY <1>1, NothingTaken DEF Slaves, SlaveTakesWrite, axi_awvalid, axi_arvalid
<1>5. MemBar' = MemBar
  BY <1>4, MemKept
<1>6. waiting' = NoReq /\ result' = IF waiting.we THEN NoReq ELSE m_rdata
  BY <1>1, <1>2 DEF CoreObserves
<1>7. result' \in Results
  BY DEF Inv, TypeOK
<1>8. PendBar = [req |-> waiting, done |-> TRUE, val |-> result']
  BY <1>2, <1>3, <1>6 DEF PendBar, Performed
<1>9. PendBar # NoReq
  BY <1>2, <1>7, <1>8, PendingIsSome
<1>10. PendBar' = NoReq
  BY <1>6 DEF PendBar
<1>11. QED BY <1>5, <1>8, <1>9, <1>10 DEF LS!Answer

\* A store's response lasts one cycle.
LEMMA StepWriteResp ==
  ASSUME Inv, Inv', Tick, state_q = "S_WRITE_RESP"
  PROVE  LS!Next \/ UNCHANGED LS!vars
<1>1. PICK s \in Slaves : slave_q[s] # "S_IDLE"
  BY DEF Inv, Transfer
<1>2. slave_q[s] = "S_WRITE_RESP" /\ Sel(s, addr_q)
  BY <1>1 DEF Inv, Transfer, TypeOK, SlaveStates, PortStates, Agrees
<1>3. data_rvalid
  BY <1>2, MuxedIsSel, BridgeAddr
     DEF data_rvalid, obi_rvalid, m_bvalid, axi_bvalid
<1>4. QED BY <1>3, AnswerStep DEF LS!Next

\* A load's response lasts one cycle, DRAM's two; between the two the macro
\* holds the word.
LEMMA StepReadResp ==
  ASSUME Inv, Inv', DoutHeld, Tick, state_q = "S_READ_R"
  PROVE  LS!Next \/ UNCHANGED LS!vars
<1>1. CASE m_rvalid
  <2>1. data_rvalid
    BY <1>1 DEF data_rvalid, obi_rvalid
  <2> QED BY <2>1, AnswerStep DEF LS!Next
<1>2. CASE ~m_rvalid
  <2> USE DEF Tick
  <2>1. ReadResp(m_rvalid)
    BY DEF BridgeStep, Accept, WriteAddrData, ReadAddr, WriteResp
  <2>2. state_q' = "S_READ_R" /\ addr_q' = addr_q
    BY <1>2, <2>1 DEF ReadResp
  <2>3. ~data_gnt /\ ~data_rvalid
    BY <1>2 DEF data_gnt, obi_gnt, data_rvalid, obi_rvalid
  <2>4. waiting' = waiting
    BY <2>3 DEF CoreObserves, Inv, Transfer
  <2>5. "dram" \in Slaves /\ ~do_write /\ ~do_read
    BY DEF Slaves, do_write, do_read, WriteTaken, ReadTaken, SlaveIn,
           axi_awvalid, axi_arvalid
  <2>6. PICK s \in Slaves : slave_q[s] # "S_IDLE"
    BY DEF Inv, Transfer
  <2>7. /\ Sel(s, addr_q)
        /\ \/ slave_q[s] = "S_READ_RESP"
           \/ slave_q[s] = "S_READ_WAIT" /\ s = "dram"
    BY <2>6 DEF Inv, Transfer, TypeOK, SlaveStates, PortStates, Agrees
  <2>8. slave_q[s] # "S_READ_RESP"
    BY <1>2, <2>7, MuxedIsSel, BridgeAddr DEF m_rvalid, axi_rvalid
  <2>9. Muxed("dram", addr_q)
    BY <2>5, <2>7, <2>8, MuxedIsSel, BridgeAddr
  <2>10. m_rdata = dout0 /\ m_rdata' = dout0'
    BY <2>2, <2>9 DEF m_rdata, Muxed, Sel
  <2>11. dout0' = dout0
    BY <2>5 DEF DramStep, SramRead
  <2>12. Performed /\ Performed'
    BY <2>2, PerformedIs, PerformedIsNext DEF AnswerDue
  <2>13. Performed' = Performed
    BY <2>12 DEF Performed
  <2> QED BY <2>3, <2>4, <2>5, <2>10, <2>11, <2>13, PendKept
<1>3. QED BY <1>1, <1>2

\* Every behaviour of core, bridge, decoder, slaves and SRAM macro is one of
\* LoadStore: loads and stores take effect one at a time and exactly once, a
\* store changes the bytes its strobes select and nothing else, and a DRAM
\* load returns the word last stored.  The macro holds its output, and the
\* program keeps to words ram_axi does not fold onto each other.
THEOREM ImplementsLoadStoreAlways ==
  ASSUME DoutHeld, DramApart
  PROVE  Spec => ImplementsLoadStore
<1>1. Init => LS!Init
  <2> SUFFICES ASSUME Init
               PROVE  LS!Init
    OBVIOUS
  <2>1. ASSUME NEW c \in {DramCellOf[a] : a \in DOMAIN DramCellOf}
        PROVE  sram[c % 256] \in Words
    <3>1. PICK a \in DOMAIN DramCellOf : c = DramCellOf[a]
      OBVIOUS
    <3>2. c % 256 \in SramIndices
      BY <3>1, CellIsWord DEF SramIndices
    <3> QED BY <3>2 DEF Init
  <2>2. MemBar \in [LS!Cells -> Words]
    BY <2>1 DEF MemBar, LS!Cells
  <2> QED BY <2>2 DEF Init, PendBar, LS!Init
<1>2. Inv /\ Inv' /\ Latched /\ [Next]_vars => [LS!Next]_LS!vars
  <2> SUFFICES ASSUME Inv, Inv', Latched, [Next]_vars
               PROVE  LS!Next \/ UNCHANGED LS!vars
    BY DEF LS!vars
  <2>1. CASE Tick
    <3>1. state_q \in BridgeStates
      BY DEF Inv, TypeOK, BridgeTypeOK
    <3> QED
      BY <2>1, <3>1, StepIdle, StepWriteAddr, StepReadAddr, StepWriteResp,
         StepReadResp DEF BridgeStates
  <2>2. CASE Reset
    BY <2>2 DEF Reset, memVars, PendBar, MemBar, LS!Reset, LS!Next
  <2>3. CASE UNCHANGED vars
    BY <2>3 DEF vars, bridgeVars, memVars, coreVars, PendBar, Performed,
                MemBar, m_rdata, Muxed, Sel, LS!vars
  <2> QED BY <2>1, <2>2, <2>3 DEF Next
<1>3. QED
  BY <1>1, <1>2, TypeCorrect, TransferAlways, LatchedAlways, PTL
     DEF Spec, Inv, ImplementsLoadStore, LS!Spec

=============================================================================
