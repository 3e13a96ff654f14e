---------------------------- MODULE AxiLitePort ----------------------------
(***************************************************************************)
(* The AXI4-Lite slave port every register block of the SoC repeats:       *)
(* gpio_axi, timer_axi, uart_axi, i2c_master_axi, qspi_master_axi, yz_csr  *)
(* and the data port of yz_top share the same three states and the same    *)
(* combinational ready/valid equations.  The module has no state of its    *)
(* own: a block keeps the state st of its port and passes in the five      *)
(* master signals m of the cycle.                                          *)
(***************************************************************************)

PortStates == {"S_IDLE", "S_WRITE_RESP", "S_READ_RESP"}

\* The signals a master drives in one clock cycle.
MasterSignals ==
  [awvalid : BOOLEAN, wvalid : BOOLEAN, arvalid : BOOLEAN,
   bready : BOOLEAN, rready : BOOLEAN]

\* What obi_to_axi_lite drives: AW and W together, and AR never beside them.
BridgeSignals ==
  {m \in MasterSignals : m.awvalid = m.wvalid /\ ~(m.awvalid /\ m.arvalid)}

(***************************************************************************)
(* Combinational outputs.  axi_awready_o and axi_wready_o are one          *)
(* equation; axi_arready_o does not look at the write channels.            *)
(***************************************************************************)
axi_awready(st, m) == st = "S_IDLE" /\ m.awvalid /\ m.wvalid
axi_arready(st, m) == st = "S_IDLE" /\ m.arvalid
axi_bvalid(st) == st = "S_WRITE_RESP"
axi_rvalid(st) == st = "S_READ_RESP"

\* What the clocked block does in S_IDLE: the write branch comes first, the
\* read branch is its else-if.
WriteTaken(st, m) == st = "S_IDLE" /\ m.awvalid /\ m.wvalid
ReadTaken(st, m) ==
  st = "S_IDLE" /\ ~(m.awvalid /\ m.wvalid) /\ m.arvalid

\* The state the port's register takes at the clock edge.
PortNext(st, m) ==
  CASE WriteTaken(st, m) -> "S_WRITE_RESP"
    [] ReadTaken(st, m) -> "S_READ_RESP"
    [] st = "S_WRITE_RESP" /\ m.bready -> "S_IDLE"
    [] st = "S_READ_RESP" /\ m.rready -> "S_IDLE"
    [] OTHER -> st

=============================================================================
