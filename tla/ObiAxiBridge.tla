---------------------------- MODULE ObiAxiBridge ----------------------------
(***************************************************************************)
(* rtl/obi_to_axi_lite.sv: the bridge between the core's OBI data port and *)
(* the AXI4-Lite bus.  It accepts one OBI request at a time, drives AW and *)
(* W (or AR), waits for B (or R) and hands the answer back to the core.    *)
(*                                                                         *)
(* The module holds the registers of the bridge, its combinational outputs *)
(* and what one clock edge does to the registers.  The modules that use it *)
(* supply the core and the slaves.                                         *)
(***************************************************************************)
EXTENDS Naturals

CONSTANTS
  Addrs,     \* the addresses the core uses
  Lanes,     \* the byte lanes of the bus: four in the source
  Bytes,     \* the values of a byte
  NoReq      \* "no request"

Words == [Lanes -> Bytes]
ZeroWord == [l \in Lanes |-> 0]
Strobes == SUBSET Lanes

\* What the core presents on obi_we_i, obi_addr_i, obi_wdata_i, obi_be_i.
Requests == [we : BOOLEAN, addr : Addrs, wdata : Words, be : Strobes]

ASSUME BridgeAssumption ==
  /\ Addrs \subseteq Nat
  /\ 0 \in Bytes
  /\ NoReq \notin Requests

VARIABLES
  state_q,      \* state of the main FSM
  addr_q,       \* latched OBI address
  wdata_q,      \* latched OBI write data
  wstrb_q,      \* latched OBI byte enables
  axi_aw_done,  \* the AW handshake has taken place
  axi_w_done    \* the W handshake has taken place

bridgeVars == <<state_q, addr_q, wdata_q, wstrb_q, axi_aw_done, axi_w_done>>

\* S_WRITE_W of the source's enumeration is never assigned to state_q.
BridgeStates ==
  {"S_IDLE", "S_WRITE_AW", "S_WRITE_RESP", "S_READ_AR", "S_READ_R"}

BridgeTypeOK ==
  /\ state_q \in BridgeStates
  /\ addr_q \in Addrs \cup {0}
  /\ wdata_q \in Words
  /\ wstrb_q \in Strobes
  /\ axi_aw_done \in BOOLEAN
  /\ axi_w_done \in BOOLEAN

\* The registers at power-up.
BridgeInit ==
  /\ state_q = "S_IDLE"
  /\ addr_q = 0
  /\ wdata_q = ZeroWord
  /\ wstrb_q = {}
  /\ axi_aw_done = FALSE
  /\ axi_w_done = FALSE

-----------------------------------------------------------------------------
(***************************************************************************)
(* Combinational outputs.                                                  *)
(***************************************************************************)
obi_gnt(req) == state_q = "S_IDLE" /\ req # NoReq
obi_rvalid(bvalid, rvalid) ==
  \/ state_q = "S_WRITE_RESP" /\ bvalid
  \/ state_q = "S_READ_R" /\ rvalid

axi_awvalid == state_q = "S_WRITE_AW" /\ ~axi_aw_done
axi_wvalid == state_q = "S_WRITE_AW" /\ ~axi_w_done
axi_arvalid == state_q = "S_READ_AR"
BugBready == axi_awvalid                     \* tied to the wrong channel
axi_bready == state_q = "S_WRITE_RESP"
axi_rready == state_q = "S_READ_R"

-----------------------------------------------------------------------------
(***************************************************************************)
(* One clock edge, one action per state of the FSM.                        *)
(***************************************************************************)
Accept(req) ==
  /\ state_q = "S_IDLE"
  /\ axi_aw_done' = FALSE
  /\ axi_w_done' = FALSE
  /\ IF req = NoReq
       THEN UNCHANGED <<state_q, addr_q, wdata_q, wstrb_q>>
       ELSE /\ addr_q' = req.addr
            /\ wdata_q' = req.wdata
            /\ wstrb_q' = req.be
            /\ state_q' = IF req.we THEN "S_WRITE_AW" ELSE "S_READ_AR"

\* The handshake flags looked at one cycle late.
BugWriteAddrData(awready, wready) ==
  /\ state_q = "S_WRITE_AW"
  /\ state_q' = IF axi_aw_done /\ axi_w_done THEN "S_WRITE_RESP" ELSE state_q
  /\ axi_aw_done' = (axi_aw_done \/ (axi_awvalid /\ awready))
  /\ axi_w_done' = (axi_w_done \/ (axi_wvalid /\ wready))
  /\ UNCHANGED <<addr_q, wdata_q, wstrb_q>>

\* AW and W are driven together and each is dropped at its own handshake.
WriteAddrData(awready, wready) ==
  LET awNow == axi_aw_done \/ (axi_awvalid /\ awready)
      wNow == axi_w_done \/ (axi_wvalid /\ wready)
  IN /\ state_q = "S_WRITE_AW"
     /\ state_q' = IF awNow /\ wNow THEN "S_WRITE_RESP" ELSE state_q
     /\ axi_aw_done' = (awNow /\ ~wNow)
     /\ axi_w_done' = (wNow /\ ~awNow)
     /\ UNCHANGED <<addr_q, wdata_q, wstrb_q>>

WriteResp(bvalid) ==
  /\ state_q = "S_WRITE_RESP"
  /\ state_q' = IF bvalid THEN "S_IDLE" ELSE state_q
  /\ UNCHANGED <<addr_q, wdata_q, wstrb_q, axi_aw_done, axi_w_done>>

ReadAddr(arready) ==
  /\ state_q = "S_READ_AR"
  /\ state_q' = IF axi_arvalid /\ arready THEN "S_READ_R" ELSE state_q
  /\ UNCHANGED <<addr_q, wdata_q, wstrb_q, axi_aw_done, axi_w_done>>

ReadResp(rvalid) ==
  /\ state_q = "S_READ_R"
  /\ state_q' = IF rvalid THEN "S_IDLE" ELSE state_q
  /\ UNCHANGED <<addr_q, wdata_q, wstrb_q, axi_aw_done, axi_w_done>>

\* rst_ni takes every register to its reset value, whatever the state.
BridgeReset ==
  /\ state_q' = "S_IDLE"
  /\ addr_q' = 0
  /\ wdata_q' = ZeroWord
  /\ wstrb_q' = {}
  /\ axi_aw_done' = FALSE
  /\ axi_w_done' = FALSE

\* The clocked block, given the request of the core and the AXI slave's
\* outputs in this cycle.
BridgeStep(req, awready, wready, bvalid, arready, rvalid) ==
  \/ Accept(req)
  \/ WriteAddrData(awready, wready)
  \/ WriteResp(bvalid)
  \/ ReadAddr(arready)
  \/ ReadResp(rvalid)

=============================================================================
