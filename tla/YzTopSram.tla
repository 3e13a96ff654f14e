----------------------------- MODULE YzTopSram -----------------------------
(***************************************************************************)
(* rtl/yz_top_sram.sv, the wrapper of the ASIC: the input window writes    *)
(* the SRAM macro, and START first wakes a loader that copies the SRAM     *)
(* into the datapath's input memory and then starts the datapath. Names    *)
(* that YzTop has too begin with Sram: one module proves about both.       *)
(***************************************************************************)
EXTENDS YzDriver

CONSTANT SramWords    \* words of the macro, 256

ASSUME SramAssumption == SramWords \in Nat \ {0}

VARIABLES
  sram, sram_dout,    \* the macro and its read register
  axi_we,             \* write in the data port's registers (SRAM or weights)
  l_st, l_idx,        \* loader
  ld_we,              \* its write to the input memory, or Idle
  acc_start           \* its start of the datapath

sramVars == <<sram, sram_dout, axi_we, l_st, l_idx, ld_we, acc_start>>
sramTopVars == <<accelVars, csrVars, driverVars, sramVars>>

SramInit ==
  /\ AccelInit /\ MemoriesInit /\ CsrInit /\ DriverInit
  /\ sram \in {[i \in 0 .. SramWords - 1 |-> v] : v \in PowerUp}
  /\ sram_dout \in PowerUp
  /\ axi_we = Idle /\ ld_we = Idle
  /\ l_st = "L_IDLE" /\ l_idx = 0
  /\ acc_start = FALSE

ld_active == l_st # "L_IDLE"
N_IN == IN_H * IN_W

BugMacro ==                          \* the read starts one cycle late
  /\ sram' = IF ~ld_active /\ axi_we.what = "write" /\ axi_we.region = 0
               THEN [sram EXCEPT ![axi_we.addr % SramWords] = axi_we.data]
               ELSE sram
  /\ sram_dout' = IF l_st = "L_CAP" THEN sram[l_idx % SramWords] ELSE sram_dout

\* Port A of the macro: the loader reads, else the data port writes.
Macro ==
  /\ sram' = IF ~ld_active /\ axi_we.what = "write" /\ axi_we.region = 0
               THEN [sram EXCEPT ![axi_we.addr % SramWords] = axi_we.data]
               ELSE sram
  /\ sram_dout' = IF ld_active THEN sram[l_idx % SramWords] ELSE sram_dout

\* mem_we of the datapath: the loader, else the data port's weight writes.
AccelWrite ==
  IF ld_active THEN ld_we
  ELSE IF axi_we.what = "write" /\ axi_we.region # 0 THEN axi_we ELSE Idle

SramDataPort(op) == axi_we' = IF op.what = "write" THEN op ELSE Idle

BugLast == l_idx = N_IN - 2               \* fires one pixel early
BugPast == l_idx = N_IN                   \* fires one pixel late

Last == l_idx = N_IN - 1

Loader ==
  /\ ld_we' = IF l_st = "L_CAP" THEN Write(0, l_idx, sram_dout) ELSE Idle
  /\ acc_start' = (l_st = "L_FIRE")
  /\ CASE l_st = "L_IDLE" ->
            IF start_q THEN l_st' = "L_SET" /\ l_idx' = 0
                       ELSE UNCHANGED <<l_st, l_idx>>
       [] l_st = "L_SET" -> l_st' = "L_CAP" /\ UNCHANGED l_idx
       [] l_st = "L_CAP" -> IF Last THEN l_st' = "L_FIRE" /\ UNCHANGED l_idx
                                    ELSE l_st' = "L_SET" /\ l_idx' = l_idx + 1
       [] l_st = "L_FIRE" -> l_st' = "L_IDLE" /\ UNCHANGED l_idx

SramEdge(op) ==
  /\ DriverStep(op)
  /\ CsrStep(op)
  /\ SramDataPort(op)
  /\ Loader
  /\ Macro
  /\ MemoriesWith(AccelWrite)
  /\ AccelStep(acc_start, swrst_q)

SramTick == \E op \in Accesses : SramEdge(op)

SramReset ==
  /\ AccelReset /\ CsrReset /\ DriverReset
  /\ axi_we' = Idle /\ ld_we' = Idle
  /\ l_st' = "L_IDLE" /\ l_idx' = 0
  /\ acc_start' = FALSE
  /\ UNCHANGED <<inputVars, sram, sram_dout>>

SramNext == SramTick \/ SramReset
SramSpec == SramInit /\ [][SramNext]_sramTopVars

-----------------------------------------------------------------------------
\* The loader never leaves the input memory, and the datapath's write port
\* has one master at a time.
LoaderOK ==
  /\ l_st \in {"L_IDLE", "L_SET", "L_CAP", "L_FIRE"}
  /\ l_idx \in 0 .. N_IN - 1
  /\ ld_we # Idle => ld_active
  /\ ~(ld_active /\ axi_we # Idle)

\* The datapath is started with the whole input in place.
InputInPlace ==
  acc_start => \A i \in 0 .. N_IN - 1 : imem[i] = sram[i % SramWords]

=============================================================================
