-------------------------- MODULE YzWrappers_proofs -------------------------
(***************************************************************************)
(* Proofs about the two wrappers of the datapath, for every network: YzTop *)
(* with every driver whose accesses are those of Accesses, and YzTopSram   *)
(* with every size of the macro.                                           *)
(***************************************************************************)
EXTENDS YzTop, YzTopSram, YzAccel_proofs

-----------------------------------------------------------------------------
(***************************************************************************)
(* rtl/yz_top.sv.                                                          *)
(***************************************************************************)
\* START and RESET are bits.
Bits == start_q \in BOOLEAN /\ swrst_q \in BOOLEAN

\* The two cycle counters, while either of them means anything.
SameCount == busy_o \/ done_o => cycle_cnt_q = cycle_cnt_o

\* An edge of the CSR keeps them bits.
LEMMA BitsStep ==
  ASSUME Bits, NEW op \in Accesses, CsrStep(op)
  PROVE  Bits'
<1>1. start_q' = StartBit(op) /\ swrst_q' = ResetBit(op)
  BY DEF CsrStep
<1>2. StartBit(op) \in BOOLEAN
  BY DEF StartBit
<1>3. ASSUME op.what = "ctrl" PROVE op.reset \in BOOLEAN
  <2>1. PICK start \in BOOLEAN, reset \in BOOLEAN : op = Ctrl(start, reset)
    BY <1>3 DEF Accesses, Idle, ReadStatus, ReadLogit, Write, WriteOf
  <2> QED BY <2>1 DEF Ctrl
<1>4. ResetBit(op) \in BOOLEAN
  BY <1>3 DEF ResetBit, Bits
<1> QED BY <1>1, <1>2, <1>4 DEF Bits

\* START and RESET are always bits.
LEMMA BitsAlways == Spec => []Bits
<1>1. Init => Bits
  BY DEF Init, CsrInit, Bits
<1>2. Bits /\ [Next]_vars => Bits'
  <2> SUFFICES ASSUME Bits, [Next]_vars PROVE Bits'
    OBVIOUS
  <2>1. ASSUME NEW op \in Accesses, Edge(op) PROVE Bits'
    BY <2>1, BitsStep DEF Edge
  <2>2. CASE Reset
    BY <2>2 DEF Reset, CsrReset, Bits
  <2>3. CASE UNCHANGED vars
    BY <2>3 DEF vars, csrVars, Bits
  <2> QED BY <2>1, <2>2, <2>3 DEF Next, Tick
<1> QED BY <1>1, <1>2, PTL DEF Spec

\* Behind its registers the datapath's control is the free-running sequencer.
LEMMA TopSequences == Spec => SeqSpec
<1>1. Init => SeqInit
  BY DEF Init, AccelInit
<1>2. Bits /\ [Next]_vars => [SeqNext]_seqVars
  BY DEF Bits, Next, Tick, Edge, Reset, AccelStep, AccelReset, SeqNext,
         SeqTick, vars, accelVars
<1> QED BY <1>1, <1>2, BitsAlways, PTL DEF Spec, SeqSpec

\* One clock edge of the wrapper keeps the counters together: START clears
\* both in the same edge, and both count the cycles in which busy_o stands.
LEMMA SameCountStep ==
  ASSUME StatusOK, InStep, SameCount, NEW op, CsrStep(op),
         SeqStep(start_q, swrst_q)
  PROVE  SameCount'
<1>1. cycle_cnt_q' = Count
  BY DEF CsrStep
<1>2. CASE SoftReset
  BY <1>2 DEF SoftReset, SameCount
<1>3. CASE Start(start_q)
  BY <1>1, <1>3 DEF Start, SameCount, Count, InStep, StatusOK
<1>4. CASE Wait(start_q)
  BY <1>1, <1>4 DEF Wait, SameCount, Count, InStep
<1>5. CASE busy_o /\ cycle_cnt_o' = cycle_cnt_o + 1
  BY <1>1, <1>5 DEF SameCount, Count
<1>6. ASSUME ConvLoad \/ ConvMac \/ ConvStore \/ FcLoad \/ FcMac \/ FcStore
              \/ Argmax \/ Done
      PROVE  busy_o /\ cycle_cnt_o' = cycle_cnt_o + 1
  BY <1>6 DEF ConvLoad, ConvMac, ConvStore, FcLoad, FcMac, FcStore, Argmax,
              Done, Busy, InStep
<1> QED
  BY <1>2, <1>3, <1>4, <1>5, <1>6 DEF SeqStep

\* The counters agree whenever they mean anything.
LEMMA SameCountAlways == Spec => []SameCount
<1>1. Init => SameCount
  BY DEF Init, AccelInit, SeqInit, SameCount
<1>2. ASSUME TypeOK, InStep, SameCount, [Next]_vars PROVE SameCount'
  <2>1. ASSUME NEW op \in Accesses, Edge(op) PROVE SameCount'
    BY <1>2, <2>1, SameCountStep DEF Edge, AccelStep, TypeOK
  <2>2. CASE Reset
    BY <2>2 DEF Reset, AccelReset, SeqReset, SameCount
  <2>3. CASE UNCHANGED vars
    BY <1>2, <2>3 DEF vars, accelVars, seqVars, csrVars, SameCount
  <2> QED BY <1>2, <2>1, <2>2, <2>3 DEF Next, Tick
<1> QED
  BY <1>1, <1>2, TopSequences, TypeCorrect, InStepAlways, PTL DEF Spec

\* For every network and every driver: CYCLE_CNT of a finished inference is
\* its exact length, although CSR and datapath count by themselves.
THEOREM PerfCounterAlways == Spec => []PerfCounter
<1>1. SameCount /\ ExactCycles => PerfCounter
  BY DEF SameCount, ExactCycles, PerfCounter
<1> QED BY <1>1, SameCountAlways, TopSequences, ExactCyclesAlways, PTL

-----------------------------------------------------------------------------
(***************************************************************************)
(* The driver and the run.                                                 *)
(***************************************************************************)
\* START stands in the cycle that answers the write of CTRL only.
StartAnswered ==
  start_q => sw \in {"await", "cancel"} /\ response.what = "written"

\* A driver that cancels holds RESET.
Cancelling == sw = "cancel" => swrst_q

\* A DONE in the answer to a poll.
DoneRead == response.what = "status" /\ response.done

\* A DONE that is read, and an interrupt the core has registered, are of a run
\* that is over, and no other has begun.
DoneIsOver ==
  /\ DoneRead => st = "S_IDLE" /\ ~start_q
  /\ irq_q => st = "S_IDLE"
  /\ done_pulse =>
       st = "S_IDLE" /\ sw \in {"await", "cancel"} /\ (start_q => swrst_q)

SwKnown == sw \in {"prepare", "await", "collect", "cancel"}

RunInv == SwKnown /\ StartAnswered /\ Cancelling /\ DoneIsOver /\ IdleOutsideRuns

\* What a clock edge does to a datapath that is idle or held in reset.
LEMMA IdleStays ==
  ASSUME SeqStep(start_q, swrst_q), st = "S_IDLE", start_q => swrst_q
  PROVE  st' = "S_IDLE" /\ ~done_pulse'
BY DEF SeqStep, SoftReset, Start, Wait, ConvLoad, ConvMac, ConvStore, FcLoad,
       FcMac, FcStore, Argmax, Done

\* RESET stops whatever runs.
LEMMA ResetStops ==
  ASSUME SeqStep(start_q, swrst_q), swrst_q
  PROVE  st' = "S_IDLE" /\ ~done_pulse'
BY DEF SeqStep, SoftReset

\* The pulse comes from S_DONE.
LEMMA PulseFromDone ==
  ASSUME SeqStep(start_q, swrst_q), done_pulse'
  PROVE  st = "S_DONE" /\ st' = "S_IDLE" /\ ~swrst_q
BY DEF SeqStep, SoftReset, Start, Wait, ConvLoad, ConvMac, ConvStore, FcLoad,
       FcMac, FcStore, Argmax, Done, Busy

\* What the driver does with an access, in terms of START and RESET.
DriverMove(op) ==
  \/ op = Idle /\ DoneRead /\ sw' = "collect"
  \/ op = Idle /\ ~DoneRead /\ UNCHANGED sw
  \/ response = Idle /\ UNCHANGED sw /\ op.what \notin {"ctrl", "status"}
  \/ response = Idle /\ UNCHANGED sw /\ op = ReadStatus
  \/ /\ response = Idle /\ sw = "prepare" /\ sw' = "await"
     /\ op = Ctrl(TRUE, FALSE)
  \/ response = Idle /\ sw = "collect" /\ sw' = "prepare" /\ op = Idle
  \/ /\ response = Idle /\ sw = "await" /\ sw' = "cancel"
     /\ \E start \in BOOLEAN : op = Ctrl(start, TRUE)
  \/ /\ response = Idle /\ sw = "cancel" /\ sw' = "prepare"
     /\ op = Ctrl(FALSE, FALSE)
  \/ /\ response = Idle /\ sw = "await" /\ irq_q /\ sw' = "collect"
     /\ op = Idle

\* The driver does nothing else.
LEMMA DriverMoves ==
  ASSUME NEW op, DriverStep(op)
  PROVE  DriverMove(op)
<1>1. CASE response # Idle
  BY <1>1 DEF DriverMove, DriverStep, Receive, DoneRead
<1>2. ASSUME response = Idle, Load(op)
      PROVE  UNCHANGED sw /\ op.what \notin {"ctrl", "status"}
  BY <1>2 DEF Load, WriteOf, Write
<1>3. ASSUME response = Idle, Collect(op)
      PROVE  UNCHANGED sw /\ op.what \notin {"ctrl", "status"}
  BY <1>3 DEF Collect, ReadLogit
<1>4. ASSUME response = Idle, op = Idle, UNCHANGED sw
      PROVE  UNCHANGED sw /\ op.what \notin {"ctrl", "status"}
  BY <1>4 DEF Idle
<1>5. CASE response = Idle
  BY <1>2, <1>3, <1>4, <1>5
     DEF DriverMove, DriverStep, Access, StartRun, Poll, NextJob, Prepare,
         Cancel, Release, TakeInterrupt
<1> QED BY <1>1, <1>5

\* One clock edge.
LEMMA RunStep ==
  ASSUME StatusOK, InStep, Bits, RunInv, NEW op, DriverStep(op), CsrStep(op),
         SeqStep(start_q, swrst_q)
  PROVE  RunInv'
<1>1. /\ start_q' = (op.what = "ctrl" /\ op.start)
      /\ swrst_q' = (IF op.what = "ctrl" THEN op.reset ELSE swrst_q)
      /\ irq_q' = done_pulse
  BY DEF CsrStep, StartBit, ResetBit, DriverStep
<1>2. /\ op.what = "ctrl" => response'.what = "written"
      /\ DoneRead' => op.what = "status" /\ done_o
  BY DEF CsrStep, Answer, Idle, DoneRead
<1>3. done_o => st = "S_IDLE"
  BY DEF InStep
<1>4. response = Idle => ~start_q
  BY DEF RunInv, StartAnswered, Idle
<1>5. st = "S_IDLE" /\ (start_q => swrst_q) => st' = "S_IDLE" /\ ~done_pulse'
  BY IdleStays
<1>6. swrst_q => st' = "S_IDLE" /\ ~done_pulse'
  BY ResetStops
<1>7. done_pulse' => st = "S_DONE" /\ st' = "S_IDLE" /\ ~swrst_q
  BY PulseFromDone
<1>8. irq_q' => st' = "S_IDLE"
  BY <1>1, <1>5 DEF RunInv, DoneIsOver
<1>9. CASE op = Idle /\ DoneRead /\ sw' = "collect"
  <2>1. op.what = "none"
    BY <1>9 DEF Idle
  <2>2. st = "S_IDLE" /\ ~start_q
    BY <1>9 DEF RunInv, DoneIsOver
  <2> QED BY <1>1, <1>2, <1>5, <1>8, <1>9, <2>1, <2>2
        DEF RunInv, SwKnown, StartAnswered, Cancelling, DoneIsOver, IdleOutsideRuns
<1>10. CASE op = Idle /\ ~DoneRead /\ UNCHANGED sw
  <2>1. op.what = "none"
    BY <1>10 DEF Idle
  <2> QED BY <1>1, <1>2, <1>5, <1>7, <1>8, <1>10, <2>1
        DEF RunInv, SwKnown, StartAnswered, Cancelling, DoneIsOver, IdleOutsideRuns
<1>11. CASE response = Idle /\ UNCHANGED sw /\ op.what \notin {"ctrl", "status"}
  BY <1>1, <1>2, <1>4, <1>5, <1>7, <1>8, <1>11
     DEF RunInv, SwKnown, StartAnswered, Cancelling, DoneIsOver, IdleOutsideRuns
<1>12. CASE response = Idle /\ UNCHANGED sw /\ op = ReadStatus
  <2>1. op.what = "status"
    BY <1>12 DEF ReadStatus
  <2> QED BY <1>1, <1>2, <1>3, <1>4, <1>5, <1>7, <1>8, <1>12, <2>1
        DEF RunInv, SwKnown, StartAnswered, Cancelling, DoneIsOver, IdleOutsideRuns
<1>13. CASE /\ response = Idle /\ sw = "prepare" /\ sw' = "await"
            /\ op = Ctrl(TRUE, FALSE)
  <2>1. op.what = "ctrl" /\ op.start /\ ~op.reset
    BY <1>13 DEF Ctrl
  <2> QED BY <1>1, <1>2, <1>4, <1>5, <1>7, <1>8, <1>13, <2>1
        DEF RunInv, SwKnown, StartAnswered, Cancelling, DoneIsOver, IdleOutsideRuns
<1>14. CASE response = Idle /\ sw = "collect" /\ sw' = "prepare" /\ op = Idle
  <2>1. op.what = "none"
    BY <1>14 DEF Idle
  <2> QED BY <1>1, <1>2, <1>4, <1>5, <1>7, <1>8, <1>14, <2>1
        DEF RunInv, SwKnown, StartAnswered, Cancelling, DoneIsOver, IdleOutsideRuns
<1>15. CASE /\ response = Idle /\ sw = "await" /\ sw' = "cancel"
            /\ \E start \in BOOLEAN : op = Ctrl(start, TRUE)
  <2>1. op.what = "ctrl" /\ op.reset
    BY <1>15 DEF Ctrl
  <2> QED BY <1>1, <1>2, <1>7, <1>8, <1>15, <2>1
        DEF RunInv, SwKnown, StartAnswered, Cancelling, DoneIsOver, IdleOutsideRuns
<1>16. CASE /\ response = Idle /\ sw = "cancel" /\ sw' = "prepare"
            /\ op = Ctrl(FALSE, FALSE)
  <2>1. op.what = "ctrl" /\ ~op.start
    BY <1>16 DEF Ctrl
  <2> QED BY <1>1, <1>2, <1>6, <1>8, <1>16, <2>1
        DEF RunInv, SwKnown, StartAnswered, Cancelling, DoneIsOver, IdleOutsideRuns
<1>17. CASE /\ response = Idle /\ sw = "await" /\ irq_q /\ sw' = "collect"
            /\ op = Idle
  <2>1. op.what = "none"
    BY <1>17 DEF Idle
  <2>2. st = "S_IDLE" /\ ~start_q
    BY <1>4, <1>17 DEF RunInv, DoneIsOver
  <2> QED BY <1>1, <1>2, <1>5, <1>8, <1>17, <2>1, <2>2
        DEF RunInv, SwKnown, StartAnswered, Cancelling, DoneIsOver, IdleOutsideRuns
<1>18. DriverMove(op)
  BY DriverMoves
<1> QED
  BY <1>9, <1>10, <1>11, <1>12, <1>13, <1>14, <1>15, <1>16, <1>17, <1>18
     DEF DriverMove

\* The invariant holds from the start.
LEMMA RunInvAlways == Spec => []RunInv
<1>1. Init => RunInv
  BY DEF Init, AccelInit, SeqInit, CsrInit, DriverInit, Idle, DoneRead, RunInv,
         SwKnown, StartAnswered, Cancelling, DoneIsOver, IdleOutsideRuns
<1>2. ASSUME TypeOK, InStep, Bits, RunInv, [Next]_vars PROVE RunInv'
  <2>1. ASSUME NEW op \in Accesses, Edge(op) PROVE RunInv'
    BY <1>2, <2>1, RunStep DEF Edge, AccelStep, TypeOK
  <2>2. CASE Reset
    BY <2>2 DEF Reset, AccelReset, SeqReset, CsrReset, DriverReset, Idle,
         DoneRead, RunInv, SwKnown, StartAnswered, Cancelling, DoneIsOver,
         IdleOutsideRuns
  <2>3. CASE UNCHANGED vars
    BY <1>2, <2>3 DEF vars, accelVars, seqVars, csrVars, driverVars, DoneRead,
         RunInv, SwKnown, StartAnswered, Cancelling, DoneIsOver, IdleOutsideRuns
  <2> QED BY <1>2, <2>1, <2>2, <2>3 DEF Next, Tick
<1> QED
  BY <1>1, <1>2, BitsAlways, TopSequences, TypeCorrect, InStepAlways, PTL
     DEF Spec

\* For every network and every driver, polling or woken by the interrupt,
\* cancelling or not: while it writes an input or reads logits no inference
\* runs or is about to, so none works on half-written memories.
THEOREM IdleOutsideRunsAlways == Spec => []IdleOutsideRuns
<1>1. RunInv => IdleOutsideRuns
  BY DEF RunInv
<1> QED BY <1>1, RunInvAlways, PTL

-----------------------------------------------------------------------------
(***************************************************************************)
(* The driver and the data.                                                *)
(***************************************************************************)
\* Every cell an inference needs holds its value, is being written, or is
\* still on the driver's list.
InputsKept ==
  /\ Shapes /\ LogitsSized /\ DOMAIN actm = 0 .. FEAT - 1
  /\ Loading(mem_we)
  /\ \A cell \in Wanted(job) :
       Stored(imem, cell) \/ mem_we = WriteOf(cell) \/ cell \in Range(todo)

\* One clock edge loses no write.
LEMMA InputsStep ==
  ASSUME InputsKept, NEW op, Edge(op)
  PROVE  InputsKept'
<1> DEFINE port2 == IF op.what = "write" THEN op ELSE Idle
<1>1. mem_we' = port2
  BY DEF Edge, DataPort
<1>2. DriverStep(op) /\ CsrStep(op) /\ MemoriesWith(mem_we)
  BY DEF Edge
<1>3. Shapes' /\ LogitsSized' /\ DOMAIN actm' = 0 .. FEAT - 1
  <2>1. UNCHANGED dataVars \/ DataStep
    BY DEF Edge, AccelStep
  <2>2. LogitsSized'
    BY <2>1, LogitsStep DEF InputsKept, dataVars
  <2>3. DOMAIN actm' = DOMAIN actm
    BY <2>1 DEF dataVars, DataStep
  <2> QED BY <1>2, <2>2, <2>3, ShapesStep DEF InputsKept
<1>4. PICK port : port = port2
  OBVIOUS
<1>5. Loading(port)' /\ Accounted(port)
  <2>1. PICK p : p = mem_we
    OBVIOUS
  <2>2. Loading(p)
    BY <2>1 DEF InputsKept
  <2> QED BY <1>2, <1>4, <2>2, LoadStep
<1>6. mem_we' = port
  BY <1>1, <1>4
<1>7. Loading(mem_we)'
  BY <1>5, <1>6 DEF Loading
<1>8. ASSUME NEW cell \in Wanted(job')
      PROVE  \/ Stored(imem, cell)' \/ mem_we' = WriteOf(cell)
             \/ cell \in Range(todo')
  <2>1. CASE cell \in Range(todo') \/ port = WriteOf(cell)
    BY <1>6, <2>1
  <2>2. CASE cell \in Wanted(job) /\ cell \notin Range(todo)
    <3>1. Stored(imem, cell) \/ mem_we = WriteOf(cell)
      BY <2>2 DEF InputsKept
    <3>2. /\ job \in Images /\ Shapes /\ RightWrite(mem_we, job)
      BY DEF InputsKept, Loading
    <3>3. PICK in : in = imem
      OBVIOUS
    <3>4. Stored(in, cell) \/ mem_we = WriteOf(cell)
      BY <3>1, <3>3
    <3>5. PICK image : image = job
      OBVIOUS
    <3>6. /\ cell.region = 0 => imem'[cell.addr] = cell.data
          /\ cell.region # 0 => Stored(in, cell)'
      <4>1. cell.region = 0 => imem[cell.addr] = cell.data \/ mem_we = WriteOf(cell)
        BY <3>1 DEF Stored
      <4>2. image \in Images /\ cell \in Wanted(image) /\ RightWrite(mem_we, image)
        BY <2>2, <3>2, <3>5
      <4> QED BY <1>2, <3>2, <3>4, <4>1, <4>2, PortStores
    <3>7. Stored(imem, cell)'
      BY <3>6 DEF Stored
    <3> QED BY <3>7
  <2> QED BY <1>5, <2>1, <2>2 DEF Accounted
<1>9. QED BY <1>3, <1>7, <1>8 DEF InputsKept

\* No write is lost, in any state.
LEMMA InputsAlways == Spec => []InputsKept
<1>1. ASSUME Init PROVE InputsKept
  <2>1. Shapes
    BY <1>1 DEF Init, MemoriesInit, Shapes
  <2>2. LogitsSized /\ DOMAIN actm = 0 .. FEAT - 1
    BY <1>1 DEF Init, AccelInit, LogitsSized
  <2>3. Loading(Idle) /\ \A cell \in Wanted(job) : cell \in Range(todo)
    BY <1>1, LoadBegins DEF Init, DriverInit, CsrInit
  <2> QED BY <1>1, <2>1, <2>2, <2>3 DEF Init, InputsKept
<1>2. ASSUME InputsKept, [Next]_vars PROVE InputsKept'
  <2>1. ASSUME NEW op \in Accesses, Edge(op) PROVE InputsKept'
    BY <1>2, <2>1, InputsStep
  <2>2. CASE Reset
    <3>1. Shapes' /\ LogitsSized' /\ DOMAIN actm' = 0 .. FEAT - 1
      BY <1>2, <2>2 DEF Reset, AccelReset, inputVars, InputsKept, Shapes,
         LogitsSized
    <3>2. Loading(Idle)' /\ \A cell \in Wanted(job') : cell \in Range(todo')
      <4>1. PICK image \in Images :
              job' = image /\ todo' = WeightWrites \o ImageWrites(image)
        BY <2>2 DEF Reset, DriverReset
      <4>2. sw' = "prepare" /\ response' = Idle
        BY <2>2 DEF Reset, DriverReset, CsrReset
      <4>3. Idle.what = "none"
        BY DEF Idle
      <4> QED BY <4>1, <4>2, <4>3, WritesAre DEF Loading, RightWrite
    <3>3. mem_we' = Idle
      BY <2>2 DEF Reset
    <3> QED BY <3>1, <3>2, <3>3 DEF InputsKept, Loading
  <2>3. CASE UNCHANGED vars
    BY <1>2, <2>3 DEF vars, accelVars, inputVars, dataVars, csrVars, driverVars,
       InputsKept, Shapes, LogitsSized, Loading, Stored
  <2> QED BY <1>2, <2>1, <2>2, <2>3 DEF Next, Tick
<1> QED BY <1>1, <1>2, PTL DEF Spec

\* A driver that is not loading has the whole network in place.
LEMMA NetworkInPlace ==
  ASSUME InputsKept, sw # "prepare"
  PROVE  Loaded = Network(job)
<1>1. todo = <<>> /\ mem_we = Idle /\ job \in Images /\ Shapes
  BY DEF InputsKept, Loading
<1>2. ASSUME NEW cell PROVE Idle # WriteOf(cell)
  BY DEF Idle, WriteOf, Write
<1>3. \A cell \in Wanted(job) : Stored(imem, cell)
  BY <1>1, <1>2, NothingLeft DEF InputsKept
<1>4. /\ \A i \in 0 .. IN_H * IN_W - 1 : imem[i] = job[i]
      /\ wconv = Weights.wconv /\ bconv = Weights.bconv
      /\ wfc = Weights.wfc /\ bfc = Weights.bfc
  BY <1>1, <1>3, AllStored
<1>5. imem = job
  <2>1. job = [i \in 0 .. IN_H * IN_W - 1 |-> job[i]]
    BY <1>1, DriverAssumption DEF IsNetwork, Network
  <2> QED BY <1>1, <1>4, <2>1 DEF Shapes
<1>6. QED BY <1>4, <1>5 DEF Loaded, Network

\* RESET stands only while the driver cancels, and the pulse comes with DONE.
Released == (sw # "cancel" => ~swrst_q) /\ (done_pulse => done_o)

\* One clock edge.
LEMMA ReleasedStep ==
  ASSUME Released, InputsKept, NEW op, Edge(op)
  PROVE  Released'
<1>1. swrst_q' = (IF op.what = "ctrl" THEN op.reset ELSE swrst_q)
  BY DEF Edge, CsrStep, ResetBit
<1>2. sw' # "cancel" => ~swrst_q'
  <2>1. ASSUME response # Idle
        PROVE  op.what # "ctrl" /\ (sw' = sw \/ sw = "await")
    <3>1. op = Idle /\ Receive
      BY <2>1 DEF Edge, DriverStep
    <3>2. op.what # "ctrl"
      BY <3>1 DEF Idle
    <3> QED BY <3>1, <3>2 DEF Receive, InputsKept, Loading
  <2>6. ASSUME op = Idle PROVE op.what # "ctrl"
    BY <2>6 DEF Idle
  <2>2. ASSUME Load(op) \/ Poll(op) \/ Collect(op)
        PROVE  op.what # "ctrl" /\ sw' = sw
    BY <2>2 DEF Load, Poll, Collect, WriteOf, Write, ReadStatus, ReadLogit
  <2>3. ASSUME StartRun(op) \/ Release(op)
        PROVE  op.what = "ctrl" /\ ~op.reset
    BY <2>3 DEF StartRun, Release, Ctrl
  <2>4. ASSUME NextJob(op) \/ TakeInterrupt(op)
        PROVE  op.what # "ctrl" /\ sw # "cancel"
    BY <2>4 DEF NextJob, TakeInterrupt, Idle
  <2>5. ASSUME Cancel(op) PROVE sw' = "cancel"
    BY <2>5 DEF Cancel
  <2> QED
    BY <1>1, <2>1, <2>2, <2>3, <2>4, <2>5, <2>6
       DEF Edge, DriverStep, Access, Released
<1>3. done_pulse' => done_o'
  BY DEF Edge, AccelStep, SeqStep, SoftReset, Start, Wait, ConvLoad, ConvMac,
     ConvStore, FcLoad, FcMac, FcStore, Argmax, Done, Busy
<1>4. QED BY <1>2, <1>3 DEF Released

\* RESET is always released with the cancelled run.
LEMMA ReleasedAlways == Spec => []Released
<1>1. Init => Released
  BY DEF Init, CsrInit, AccelInit, SeqInit, Released
<1>2. ASSUME Released, InputsKept, [Next]_vars PROVE Released'
  <2>1. ASSUME NEW op \in Accesses, Edge(op) PROVE Released'
    BY <1>2, <2>1, ReleasedStep
  <2>2. CASE Reset
    BY <2>2 DEF Reset, AccelReset, SeqReset, CsrReset, Released
  <2>3. CASE UNCHANGED vars
    BY <1>2, <2>3 DEF vars, accelVars, seqVars, csrVars, driverVars, Released
  <2> QED BY <1>2, <2>1, <2>2, <2>3 DEF Next, Tick
<1> QED BY <1>1, <1>2, InputsAlways, PTL DEF Spec

\* What stands in the datapath, in the driver and between them is the answer on
\* the network m.
Answers(m) ==
  /\ Computes(m) /\ Reads(m)
  /\ sw = "await" /\ ~start_q /\ done_o => Right(m)
  /\ sw = "collect" => Right(m)
  /\ DoneRead => Right(m)
  /\ irq_q /\ sw = "await" => Right(m)

\* One clock edge within a job.
LEMMA AnswersStep ==
  ASSUME NEW m, IsNetwork(m), TypeOK, InStep, RunInv, Released,
         InputsKept, m = Network(job), Answers(m), NEW op, Edge(op),
         UNCHANGED job
  PROVE  Answers(m)'
<1>1. DriverStep(op) /\ CsrStep(op) /\ AccelStep(start_q, swrst_q)
  BY DEF Edge
<1>2. SeqStep(start_q, swrst_q) /\ (swrst_q => UNCHANGED dataVars)
      /\ (~swrst_q => DataStep)
  BY <1>1 DEF AccelStep
<1>3. st # "S_IDLE" => Loaded = m
  BY NetworkInPlace DEF RunInv, SwKnown, IdleOutsideRuns
<1>4. /\ Computes(m)'
      /\ st = "S_DONE" /\ ~swrst_q => Right(m)'
  BY <1>1, <1>3, ComputesStep DEF InputsKept, Answers
<1>5. Right(m) /\ st = "S_IDLE" => Right(m)'
  BY <1>2, ResultStays DEF Right, dataVars
<1>6. Reads(m)'
  BY <1>1, ReadsStep DEF Answers
<1>7. sw = "await" => ~swrst_q
  BY DEF Released
<1>8. done_o' /\ ~swrst_q =>
        st = "S_DONE" \/ (done_o /\ st = "S_IDLE" /\ ~start_q)
  BY <1>2 DEF SeqStep, Start, Wait, ConvLoad, ConvMac, ConvStore, FcLoad,
     FcMac, FcStore, Argmax, Done, Busy, InStep
<1>9. sw = "await" /\ done_o' => Right(m)'
  BY <1>4, <1>5, <1>7, <1>8 DEF Answers
<1>10. done_o => st = "S_IDLE"
  BY DEF InStep
<1>11. /\ start_q' = (op.what = "ctrl" /\ op.start)
       /\ irq_q' = done_pulse
       /\ DoneRead' => op.what = "status" /\ done_o
  BY <1>1 DEF CsrStep, StartBit, DriverStep, Answer, Idle, DoneRead
<1>12. sw' = "await" => sw = "await" \/ (start_q' /\ sw = "prepare")
  <2>1. Ctrl(TRUE, FALSE).what = "ctrl" /\ Ctrl(TRUE, FALSE).start
    BY DEF Ctrl
  <2>2. DriverMove(op)
    BY <1>1, DriverMoves
  <2> QED BY <1>11, <2>1, <2>2 DEF DriverMove
<1>13. sw' = "collect" =>
         \/ sw = "collect" \/ DoneRead \/ (sw = "await" /\ irq_q)
  <2>1. DriverMove(op)
    BY <1>1, DriverMoves
  <2> QED BY <2>1 DEF DriverMove
<1>14. sw' = "collect" => Right(m) /\ st = "S_IDLE"
  BY <1>13 DEF Answers, RunInv, DoneIsOver, IdleOutsideRuns
<1>15. DoneRead' => Right(m)'
  <2>1. SUFFICES ASSUME DoneRead' PROVE Right(m)'
    OBVIOUS
  <2>2. op.what = "status" /\ done_o
    BY <1>11, <2>1
  <2>3. Poll(op) /\ response = Idle
    <3>1. op # Idle
      BY <2>2 DEF Idle
    <3>2. /\ Load(op) => op.what = "write"
          /\ StartRun(op) \/ Cancel(op) \/ Release(op) => op.what = "ctrl"
          /\ Collect(op) => op.what = "logit"
          /\ NextJob(op) \/ TakeInterrupt(op) => op = Idle
      BY DEF Load, WriteOf, Write, StartRun, Cancel, Release, Ctrl, Collect,
             ReadLogit, NextJob, TakeInterrupt
    <3> QED BY <1>1, <2>2, <3>1, <3>2 DEF DriverStep, Access
  <2>4. sw = "await" /\ ~start_q
    BY <2>3 DEF Poll, RunInv, StartAnswered, Idle
  <2>5. Right(m)
    BY <2>2, <2>4 DEF Answers
  <2> QED BY <1>5, <1>10, <2>2, <2>5
<1>16. irq_q' /\ sw' = "await" => Right(m)'
  <2>1. SUFFICES ASSUME done_pulse, sw' = "await" PROVE Right(m)'
    BY <1>11
  <2>2. /\ done_o /\ st = "S_IDLE" /\ sw = "await" /\ ~start_q
    BY <1>7, <1>12, <2>1 DEF Released, RunInv, DoneIsOver
  <2>3. Right(m)
    BY <2>2 DEF Answers
  <2> QED BY <1>5, <2>2, <2>3
<1>17. sw' = "await" /\ ~start_q' /\ done_o' => Right(m)'
  BY <1>9, <1>12
<1>18. sw' = "collect" => Right(m)'
  BY <1>5, <1>14
<1>19. QED BY <1>4, <1>6, <1>15, <1>16, <1>17, <1>18 DEF Answers

\* One clock edge that begins another job.
LEMMA AnswersBegin ==
  ASSUME NEW m, RunInv, NEW op, Edge(op), NewJob(op)
  PROVE  Answers(m)'
<1>1. sw' = "prepare" /\ result' = <<>> /\ response'.what \notin {"logit", "status"}
  BY DEF NewJob
<1>2. st' = "S_IDLE"
  <2>1. SeqStep(start_q, swrst_q)
    BY DEF Edge, AccelStep
  <2>2. CASE sw = "collect"
    BY <2>1, <2>2, IdleStays DEF RunInv, IdleOutsideRuns
  <2>3. CASE sw = "cancel"
    BY <2>1, <2>3, ResetStops DEF RunInv, Cancelling
  <2> QED BY <2>2, <2>3 DEF NewJob
<1>3. Computes(m)'
  BY <1>2 DEF Computes, ConvComputes, FcComputes, ArgmaxComputes
<1>4. Reads(m)'
  BY <1>1, EmptySeq, SequencerAssumption DEF Reads
<1>5. QED BY <1>1, <1>3, <1>4 DEF Answers, DoneRead

\* The driver's answer, in every state.
AnswerKept == \A m : m = Network(job) => Answers(m)

\* For every network and every set of images whose sums fit the hardware, and
\* every driver, polling or woken by the interrupt, cancelling or not, with
\* resets at any time: each logit read is bit for bit what gen_golden.py
\* computes on the image written for this inference.  No write is lost or comes
\* late, no DONE is an earlier run's, and none of a cancelled run is read.
THEOREM ResultIsGoldenAlways ==
  ASSUME \A image \in Images : Fits(Network(image))
  PROVE  Spec => []ResultIsGolden
<1>1. ASSUME Init PROVE AnswerKept
  <2>1. /\ st = "S_IDLE" /\ sw = "prepare" /\ ~irq_q /\ result = <<>>
        /\ response = Idle
    BY <1>1 DEF Init, AccelInit, SeqInit, DriverInit, CsrInit
  <2>2. Idle.what = "none"
    BY DEF Idle
  <2> QED BY <2>1, <2>2, IdleComputes, ReadsNothing
          DEF AnswerKept, Answers, DoneRead
<1>2. ASSUME TypeOK, InStep, RunInv, Released, InputsKept, AnswerKept,
             [Next]_vars
      PROVE  AnswerKept'
  <2>1. SUFFICES ASSUME NEW m, m = Network(job') PROVE Answers(m)'
    BY DEF AnswerKept, Network
  <2>2. ASSUME NEW op \in Accesses, Edge(op) PROVE Answers(m)'
    <3>1. UNCHANGED job \/ NewJob(op)
      BY <2>2, SameJob DEF Edge
    <3>2. CASE UNCHANGED job
      <4>1. m = Network(job) /\ job \in Images
        BY <1>2, <2>1, <3>2 DEF InputsKept, Loading
      <4>2. IsNetwork(m)
        BY <4>1, DriverAssumption
      <4>3. Answers(m)
        BY <1>2, <4>1 DEF AnswerKept
      <4> QED BY <1>2, <2>2, <3>2, <4>1, <4>2, <4>3, AnswersStep
    <3>3. CASE NewJob(op)
      BY <1>2, <2>2, <3>3, AnswersBegin
    <3> QED BY <3>1, <3>2, <3>3
  <2>3. CASE Reset
    <3>1. /\ st' = "S_IDLE" /\ sw' = "prepare" /\ ~irq_q' /\ result' = <<>>
          /\ response' = Idle
      BY <2>3 DEF Reset, AccelReset, SeqReset, DriverReset, CsrReset
    <3>2. Idle.what = "none"
      BY DEF Idle
    <3>3. Computes(m)'
      BY <3>1 DEF Computes, ConvComputes, FcComputes, ArgmaxComputes
    <3>4. Reads(m)'
      BY <3>1, <3>2, EmptySeq, SequencerAssumption DEF Reads
    <3> QED BY <3>1, <3>2, <3>3, <3>4 DEF Answers, DoneRead
  <2>4. CASE UNCHANGED vars
    <3>1. UNCHANGED <<seqVars, dataVars, csrVars, driverVars>>
      BY <2>4 DEF vars, accelVars
    <3>2. Answers(m)
      BY <1>2, <2>1, <3>1 DEF AnswerKept, driverVars
    <3>3. Computes(m)'
      BY <3>1, <3>2 DEF Answers, Computes, ConvComputes, FcComputes,
         ArgmaxComputes, ActsDone, LogitsDone, Scanned, Right, Pixel, seqVars,
         loopVars, convVars, fcVars, dataVars
    <3>4. Reads(m)'
      BY <3>1, <3>2 DEF Answers, Reads, csrVars, driverVars
    <3> QED BY <3>1, <3>2, <3>3, <3>4 DEF Answers, DoneRead, Right, seqVars,
            dataVars, csrVars, driverVars
  <2> QED BY <1>2, <2>2, <2>3, <2>4 DEF Next, Tick
<1>3. InputsKept /\ AnswerKept => ResultIsGolden
  BY ReadsGolden DEF InputsKept, Loading, AnswerKept, Answers
<1> QED
  BY <1>1, <1>2, <1>3, InputsAlways, RunInvAlways, ReleasedAlways,
     TopSequences, TypeCorrect, InStepAlways, PTL DEF Spec


-----------------------------------------------------------------------------
(***************************************************************************)
(* rtl/yz_top_sram.sv: the loader's copy.                                  *)
(***************************************************************************)
\* The macro's word for pixel i, and the loader's write of it.
Word(i) == sram[i % SramWords]
Copy(i) == Write(0, i, Word(i))

\* The first n pixels are in the input memory, or on their way.
CopiedUpTo(n) == \A i \in 0 .. n - 1 : imem[i] = Word(i) \/ ld_we = Copy(i)

LoaderStates == {"L_IDLE", "L_SET", "L_CAP", "L_FIRE"}

\* The loader, wherever it stands.
Copying ==
  /\ Shapes
  /\ l_st \in LoaderStates /\ l_idx \in 0 .. N_IN - 1
  /\ ld_we # Idle => l_st \in {"L_SET", "L_FIRE"}
  /\ ld_we = Idle \/ \E i \in 0 .. N_IN - 1 : ld_we = Copy(i)
  /\ l_st = "L_CAP" => sram_dout = Word(l_idx)
  /\ l_st \in {"L_SET", "L_CAP"} => CopiedUpTo(l_idx)
  /\ l_st = "L_FIRE" => CopiedUpTo(N_IN)
  /\ acc_start => l_st = "L_IDLE" /\ CopiedUpTo(N_IN)

\* A pixel copied, or on its way, is in the input memory one cycle later.
LEMMA CopyArrives ==
  ASSUME Copying, NEW op, SramEdge(op), ld_active, NEW i \in 0 .. N_IN - 1,
         imem[i] = Word(i) \/ ld_we = Copy(i)
  PROVE  imem'[i] = Word(i) /\ Word(i)' = Word(i)
<1>1. sram' = sram
  BY DEF SramEdge, Macro
<1>2. Word(i)' = Word(i)
  BY <1>1 DEF Word
<1>3. imem' = IF ld_we.what = "write" /\ ld_we.region = 0
                THEN [imem EXCEPT ![ld_we.addr] = ld_we.data] ELSE imem
  BY DEF SramEdge, MemoriesWith, AccelWrite
<1> DEFINE D == 0 .. IN_H * IN_W - 1
<1>4. imem = [j \in D |-> imem[j]] /\ i \in D
  BY DEF Copying, Shapes, N_IN
<1> HIDE DEF D
<1>5. CASE ld_we = Idle
  <2>1. ld_we.what = "none" /\ ld_we # Copy(i)
    BY <1>5 DEF Idle, Copy, Write
  <2> QED BY <1>2, <1>3, <2>1
<1>6. ASSUME NEW j \in 0 .. N_IN - 1, ld_we = Copy(j)
      PROVE  imem'[i] = Word(i)
  <2>1. /\ ld_we.what = "write" /\ ld_we.region = 0
        /\ ld_we.addr = j /\ ld_we.data = Word(j)
    BY <1>6 DEF Copy, Write
  <2>2. imem' = [imem EXCEPT ![j] = Word(j)]
    BY <1>3, <2>1
  <2>3. imem'[i] = IF i = j THEN Word(j) ELSE imem[i]
    BY <1>4, <2>2, OneCell
  <2>4. ld_we = Copy(i) => i = j
    <3>1. Copy(i).addr = i
      BY DEF Copy, Write
    <3> QED BY <2>1, <3>1
  <2> QED BY <2>3, <2>4
<1>7. QED BY <1>2, <1>5, <1>6 DEF Copying

\* One clock edge of the loader.
LEMMA CopyStep ==
  ASSUME Copying, NEW op, SramEdge(op)
  PROVE  Copying'
<1>1. /\ ld_we' = IF l_st = "L_CAP" THEN Write(0, l_idx, sram_dout) ELSE Idle
      /\ acc_start' = (l_st = "L_FIRE")
  BY DEF SramEdge, Loader
<1>2. Shapes'
  BY ShapesStep DEF SramEdge, Copying
<1>3. N_IN \in Nat \ {0} /\ l_idx \in 0 .. N_IN - 1
  BY Sizes DEF Copying, N_IN
<1>4. ASSUME NEW n \in 0 .. N_IN, ld_active, CopiedUpTo(n)
      PROVE  /\ \A i \in 0 .. n - 1 : imem'[i] = Word(i)'
             /\ CopiedUpTo(n)'
  <2>1. ASSUME NEW i \in 0 .. n - 1 PROVE imem'[i] = Word(i)'
    <3>1. i \in 0 .. N_IN - 1 /\ (imem[i] = Word(i) \/ ld_we = Copy(i))
      BY <1>3, <1>4 DEF CopiedUpTo
    <3> QED BY <1>4, <3>1, CopyArrives
  <2> QED BY <2>1 DEF CopiedUpTo
<1>5. CASE l_st = "L_IDLE"
  <2>1. ld_we' = Idle /\ ~acc_start'
    BY <1>1, <1>5
  <2>2. \/ l_st' = "L_SET" /\ l_idx' = 0
        \/ l_st' = "L_IDLE" /\ l_idx' = l_idx
    BY <1>5 DEF SramEdge, Loader
  <2>3. 0 \in 0 .. N_IN - 1 /\ (l_idx' = 0 => CopiedUpTo(l_idx)')
    BY <1>3 DEF CopiedUpTo
  <2> QED BY <1>2, <1>3, <2>1, <2>2, <2>3 DEF Copying, LoaderStates
<1>6. CASE l_st = "L_SET"
  <2>1. ld_we' = Idle /\ ~acc_start' /\ l_st' = "L_CAP" /\ l_idx' = l_idx
    BY <1>1, <1>6 DEF SramEdge, Loader
  <2>2. ld_active
    BY <1>6 DEF ld_active
  <2>3. sram' = sram /\ sram_dout' = Word(l_idx)
    BY <2>2 DEF SramEdge, Macro, Word
  <2>4. sram_dout' = Word(l_idx)'
    BY <2>1, <2>3 DEF Word
  <2>5. CopiedUpTo(l_idx)
    BY <1>6 DEF Copying
  <2>6. PICK n \in 0 .. N_IN : n = l_idx
    BY <1>3
  <2>7. CopiedUpTo(n)'
    BY <1>4, <2>2, <2>5, <2>6
  <2>8. CopiedUpTo(l_idx)'
    BY <2>1, <2>6, <2>7 DEF CopiedUpTo
  <2> QED BY <1>2, <1>3, <2>1, <2>4, <2>8 DEF Copying, LoaderStates
<1>7. CASE l_st = "L_CAP"
  <2>1. ld_active /\ sram_dout = Word(l_idx) /\ CopiedUpTo(l_idx)
    BY <1>7 DEF ld_active, Copying
  <2>2. PICK n \in 0 .. N_IN - 1 : n = l_idx
    BY <1>3
  <2>3. n \in 0 .. N_IN /\ CopiedUpTo(n)
    BY <1>3, <2>1, <2>2
  <2>4. \A i \in 0 .. n - 1 : imem'[i] = Word(i)'
    BY <1>4, <2>1, <2>3
  <2>5. sram' = sram
    BY <2>1 DEF SramEdge, Macro
  <2>6. ld_we' = Copy(n)'
    BY <1>1, <1>7, <2>1, <2>2, <2>5 DEF Copy, Word
  <2>7. CopiedUpTo(n + 1)'
    <3>1. ASSUME NEW i \in 0 .. (n + 1) - 1
          PROVE  imem'[i] = Word(i)' \/ ld_we' = Copy(i)'
      <4>1. i \in 0 .. n - 1 \/ i = n
        BY <2>2, <1>3
      <4> QED BY <2>4, <2>6, <4>1
    <3> QED BY <3>1 DEF CopiedUpTo
  <2>8. ~acc_start' /\ \E i \in 0 .. N_IN - 1 : ld_we' = Copy(i)'
    BY <1>1, <1>7, <2>6
  <2>9. CASE Last
    <3>1. l_st' = "L_FIRE" /\ l_idx' = l_idx /\ n + 1 = N_IN
      BY <1>3, <1>7, <2>2, <2>9 DEF SramEdge, Loader, Last
    <3>2. CopiedUpTo(N_IN)'
      BY <2>7, <3>1 DEF CopiedUpTo, N_IN
    <3> QED BY <1>2, <1>3, <2>8, <3>1, <3>2 DEF Copying, LoaderStates
  <2>10. CASE ~Last
    <3>1. l_st' = "L_SET" /\ l_idx' = n + 1 /\ n + 1 \in 0 .. N_IN - 1
      BY <1>3, <1>7, <2>2, <2>10 DEF SramEdge, Loader, Last
    <3>2. CopiedUpTo(l_idx)'
      BY <2>7, <3>1 DEF CopiedUpTo
    <3> QED BY <1>2, <2>8, <3>1, <3>2 DEF Copying, LoaderStates
  <2> QED BY <2>9, <2>10
<1>8. CASE l_st = "L_FIRE"
  <2>1. ld_we' = Idle /\ acc_start' /\ l_st' = "L_IDLE" /\ l_idx' = l_idx
    BY <1>1, <1>8 DEF SramEdge, Loader
  <2>2. ld_active /\ CopiedUpTo(N_IN)
    BY <1>8 DEF ld_active, Copying
  <2>3. PICK n \in 0 .. N_IN : n = N_IN
    BY <1>3
  <2>4. CopiedUpTo(n)'
    BY <1>4, <2>2, <2>3
  <2>5. CopiedUpTo(N_IN)'
    BY <2>3, <2>4 DEF CopiedUpTo, N_IN
  <2> QED BY <1>2, <1>3, <2>1, <2>5 DEF Copying, LoaderStates
<1>9. QED BY <1>5, <1>6, <1>7, <1>8 DEF Copying, LoaderStates

\* The loader's copy is right, in any state.
LEMMA CopyingAlways == SramSpec => []Copying
<1>1. ASSUME SramInit PROVE Copying
  <2>1. Shapes
    BY <1>1 DEF SramInit, MemoriesInit, Shapes
  <2>2. 0 \in 0 .. N_IN - 1
    BY Sizes DEF N_IN
  <2> QED BY <1>1, <2>1, <2>2 DEF SramInit, Copying, LoaderStates
<1>2. ASSUME Copying, [SramNext]_sramTopVars PROVE Copying'
  <2>1. ASSUME NEW op \in Accesses, SramEdge(op) PROVE Copying'
    BY <1>2, <2>1, CopyStep
  <2>2. CASE SramReset
    <3>1. Shapes'
      BY <1>2, <2>2 DEF SramReset, inputVars, Copying, Shapes
    <3>2. 0 \in 0 .. N_IN - 1
      BY Sizes DEF N_IN
    <3> QED BY <2>2, <3>1, <3>2 DEF SramReset, Copying, LoaderStates, N_IN
  <2>3. CASE UNCHANGED sramTopVars
    <3>1. UNCHANGED <<imem, wconv, bconv, wfc, bfc, sramVars>>
      BY <2>3 DEF sramTopVars, accelVars, inputVars
    <3> QED BY <1>2, <3>1 DEF sramVars, Copying, Shapes, CopiedUpTo, Copy, Word,
            N_IN
  <2> QED BY <1>2, <2>1, <2>2, <2>3 DEF SramNext, SramTick
<1> QED BY <1>1, <1>2, PTL DEF SramSpec

\* For every network, every size of the macro, every driver (polling,
\* cancelling or sleeping) and resets at any time: when the datapath is
\* started, its input memory holds what the macro holds, whatever the bus has
\* written meanwhile.
THEOREM InputInPlaceAlways == SramSpec => []InputInPlace
<1>1. Copying => InputInPlace
  <2> SUFFICES ASSUME Copying, acc_start, NEW i \in 0 .. N_IN - 1
               PROVE  imem[i] = sram[i % SramWords]
    BY DEF InputInPlace
  <2>1. imem[i] = Word(i) \/ ld_we = Copy(i)
    BY DEF Copying, CopiedUpTo
  <2>2. ld_we = Idle
    BY DEF Copying
  <2>3. Idle # Copy(i)
    BY DEF Idle, Copy, Write
  <2> QED BY <2>1, <2>2, <2>3 DEF Word
<1> QED BY <1>1, CopyingAlways, PTL

-----------------------------------------------------------------------------
(***************************************************************************)
(* One run at a time.  A run passes through START, loader, start of the    *)
(* datapath, datapath, pulse and interrupt register.  That two never       *)
(* overlap is so for the driver that sleeps until the interrupt; the one   *)
(* that polls may read the DONE of the run before while the loader copies. *)
(***************************************************************************)
OneRunBits ==
  /\ start_q \in BOOLEAN /\ acc_start \in BOOLEAN
  /\ done_pulse \in BOOLEAN /\ irq_q \in BOOLEAN

OneRun ==
  /\ OneRunBits /\ ~swrst_q /\ response.what # "status"
  /\ sw \in {"prepare", "await", "collect"}
  /\ sw # "await" =>
       ~start_q /\ ~ld_active /\ ~acc_start /\ st = "S_IDLE" /\ ~done_pulse /\ ~irq_q
  /\ start_q =>
       ~ld_active /\ ~acc_start /\ st = "S_IDLE" /\ ~done_pulse /\ ~irq_q
  /\ ld_active => ~acc_start /\ st = "S_IDLE" /\ ~done_pulse /\ ~irq_q
  /\ acc_start => st = "S_IDLE" /\ ~done_pulse /\ ~irq_q
  /\ st # "S_IDLE" => ~done_pulse /\ ~irq_q
  /\ done_pulse => ~irq_q

\* What the sleeping driver does with START and RESET.
Sleeper(op) ==
  \/ /\ op.what \notin {"ctrl", "status"} /\ UNCHANGED sw
  \/ /\ op.what = "ctrl" /\ op.start /\ ~op.reset
     /\ sw = "prepare" /\ sw' = "await"
  \/ /\ op.what \notin {"ctrl", "status"} /\ sw = "collect" /\ sw' = "prepare"
  \/ /\ op.what \notin {"ctrl", "status"} /\ irq_q /\ sw = "await"
     /\ sw' = "collect"

\* It does nothing else.
LEMMA SleeperMoves ==
  ASSUME WaitsForIrq, ~Cancels, OneRun, NEW op, DriverStep(op)
  PROVE  Sleeper(op)
<1>1. Idle.what = "none"
  BY DEF Idle
<1>2. CASE response # Idle
  BY <1>1, <1>2 DEF DriverStep, Receive, OneRun, Sleeper
<1>3. ASSUME Load(op) \/ Collect(op) PROVE Sleeper(op)
  BY <1>3 DEF Load, WriteOf, Write, Collect, ReadLogit, Sleeper
<1>4. ASSUME StartRun(op) PROVE Sleeper(op)
  BY <1>4 DEF StartRun, Ctrl, Sleeper
<1>5. ASSUME NextJob(op) \/ TakeInterrupt(op) PROVE Sleeper(op)
  BY <1>1, <1>5 DEF NextJob, Prepare, TakeInterrupt, Sleeper
<1>6. ~Poll(op) /\ ~Cancel(op) /\ ~Release(op)
  BY DEF Poll, Cancel, Release, OneRun
<1>7. ASSUME op = Idle, UNCHANGED sw PROVE Sleeper(op)
  BY <1>1, <1>7 DEF Sleeper
<1>8. QED
  BY <1>2, <1>3, <1>4, <1>5, <1>6, <1>7 DEF DriverStep, Access

\* What an edge does to a datapath that is idle, and to one that is not.
LEMMA DatapathMoves ==
  ASSUME SeqStep(acc_start, FALSE), StatusOK
  PROVE  /\ st = "S_IDLE" => (st' # "S_IDLE" => acc_start) /\ ~done_pulse'
         /\ done_pulse' <=> st = "S_DONE"
         /\ done_pulse' => st' = "S_IDLE"
<1>1. CASE Start(acc_start) \/ Wait(acc_start)
  BY <1>1 DEF Start, Wait
<1>2. CASE \/ ConvLoad \/ ConvMac \/ ConvStore \/ FcLoad \/ FcMac \/ FcStore
           \/ Argmax
  BY <1>2 DEF ConvLoad, ConvMac, ConvStore, FcLoad, FcMac, FcStore, Argmax, Busy
<1>3. CASE Done
  BY <1>3 DEF Done
<1>4. QED BY <1>1, <1>2, <1>3 DEF SeqStep

\* One clock edge hands the run on.
LEMMA OneRunStep ==
  ASSUME WaitsForIrq, ~Cancels, StatusOK, l_st \in LoaderStates, OneRun,
         NEW op, SramEdge(op)
  PROVE  OneRun'
<1>1. Sleeper(op)
  BY SleeperMoves DEF SramEdge
<1>2. /\ start_q' = (op.what = "ctrl" /\ op.start)
      /\ swrst_q' = (IF op.what = "ctrl" THEN op.reset ELSE swrst_q)
      /\ irq_q' = done_pulse
      /\ response'.what = "status" => op.what = "status"
  BY DEF SramEdge, CsrStep, StartBit, ResetBit, DriverStep, Answer, Idle
<1>3. /\ acc_start' = (l_st = "L_FIRE")
      /\ l_st = "L_IDLE" => (l_st' # "L_IDLE" <=> start_q)
      /\ l_st = "L_FIRE" => l_st' = "L_IDLE"
      /\ l_st' \in LoaderStates
  BY DEF SramEdge, Loader, LoaderStates
<1>4. SeqStep(acc_start, FALSE)
  BY DEF SramEdge, AccelStep, SeqStep, OneRun
<1>5. /\ st = "S_IDLE" => (st' # "S_IDLE" => acc_start) /\ ~done_pulse'
      /\ done_pulse' <=> st = "S_DONE"
      /\ done_pulse' => st' = "S_IDLE"
  BY <1>4, DatapathMoves
<1>6. ~swrst_q' /\ response'.what # "status"
      /\ sw' \in {"prepare", "await", "collect"}
  BY <1>1, <1>2 DEF OneRun, Sleeper
<1>7. OneRunBits'
  <2>1. done_pulse' \in BOOLEAN
    BY <1>4 DEF SeqStep, Start, Wait, ConvLoad, ConvMac, ConvStore, FcLoad,
       FcMac, FcStore, Argmax, Done, Busy
  <2> QED BY <1>2, <1>3, <2>1 DEF OneRunBits, OneRun
<1>8. start_q' => sw = "prepare" /\ sw' = "await"
  BY <1>1, <1>2 DEF Sleeper
<1>9. CASE sw # "await"
  <2>1. l_st = "L_IDLE" /\ ~start_q /\ ~acc_start /\ st = "S_IDLE" /\ ~done_pulse
    BY <1>9 DEF OneRun, ld_active
  <2>2. l_st' = "L_IDLE" /\ ~acc_start' /\ st' = "S_IDLE" /\ ~done_pulse' /\ ~irq_q'
    BY <1>2, <1>3, <1>5, <2>1
  <2> QED BY <1>6, <1>7, <1>8, <2>2 DEF OneRun, ld_active
<1>10. CASE sw = "await"
  <2>1. ~start_q'
    BY <1>8, <1>10
  <2>2. sw' = "await" \/ irq_q
    BY <1>1, <1>10 DEF Sleeper
  <2>3. CASE irq_q
    <3>1. l_st = "L_IDLE" /\ ~start_q /\ ~acc_start /\ st = "S_IDLE" /\ ~done_pulse
      BY <2>3 DEF OneRun, ld_active
    <3>2. l_st' = "L_IDLE" /\ ~acc_start' /\ st' = "S_IDLE" /\ ~done_pulse' /\ ~irq_q'
      BY <1>2, <1>3, <1>5, <3>1
    <3> QED BY <1>6, <1>7, <2>1, <3>2 DEF OneRun, ld_active
  <2>4. CASE sw' = "await" /\ start_q
    <3>1. l_st = "L_IDLE" /\ ~acc_start /\ st = "S_IDLE" /\ ~done_pulse
      BY <2>4 DEF OneRun, ld_active
    <3>2. ~acc_start' /\ st' = "S_IDLE" /\ ~done_pulse' /\ ~irq_q'
      BY <1>2, <1>3, <1>5, <3>1
    <3> QED BY <1>6, <1>7, <2>1, <2>4, <3>2 DEF OneRun
  <2>5. CASE sw' = "await" /\ ld_active
    <3>1. ~acc_start /\ st = "S_IDLE" /\ ~done_pulse
      BY <2>5 DEF OneRun
    <3>2. st' = "S_IDLE" /\ ~done_pulse' /\ ~irq_q'
      BY <1>2, <1>5, <3>1
    <3>3. acc_start' => l_st' = "L_IDLE"
      BY <1>3
    <3> QED BY <1>6, <1>7, <2>1, <2>5, <3>2, <3>3 DEF OneRun, ld_active
  <2>6. CASE sw' = "await" /\ ~start_q /\ ~ld_active
    <3>1. l_st' = "L_IDLE" /\ ~acc_start'
      BY <1>3, <2>6 DEF ld_active
    <3>2. st' # "S_IDLE" => ~done_pulse' /\ ~irq_q'
      BY <1>2, <1>5 DEF OneRun
    <3>3. done_pulse' => ~irq_q'
      BY <1>2, <1>5 DEF OneRun
    <3> QED BY <1>6, <1>7, <2>1, <2>6, <3>1, <3>2, <3>3 DEF OneRun, ld_active
  <2> QED BY <2>2, <2>3, <2>4, <2>5, <2>6
<1>11. QED BY <1>9, <1>10

\* Behind its registers the datapath's control is the free-running sequencer,
\* whatever the driver does.
LEMMA SramSequences == SramSpec => SeqSpec
<1> DEFINE Ins == Bits /\ acc_start \in BOOLEAN
<1>1. SramInit => Ins
  BY DEF SramInit, CsrInit, Bits
<1>2. Ins /\ [SramNext]_sramTopVars => Ins'
  <2> SUFFICES ASSUME Ins, [SramNext]_sramTopVars PROVE Ins'
    OBVIOUS
  <2>1. ASSUME NEW op \in Accesses, SramEdge(op) PROVE Ins'
    <3>1. acc_start' \in BOOLEAN
      BY <2>1 DEF SramEdge, Loader
    <3> QED BY <2>1, <3>1, BitsStep DEF SramEdge
  <2>2. CASE SramReset
    BY <2>2 DEF SramReset, CsrReset, Bits
  <2>3. CASE UNCHANGED sramTopVars
    BY <2>3 DEF sramTopVars, csrVars, sramVars, Bits
  <2> QED BY <2>1, <2>2, <2>3 DEF SramNext, SramTick
<1>3. SramInit => SeqInit
  BY DEF SramInit, AccelInit
<1>4. Ins /\ [SramNext]_sramTopVars => [SeqNext]_seqVars
  BY DEF Bits, SramNext, SramTick, SramEdge, SramReset, AccelStep, AccelReset,
         SeqNext, SeqTick, sramTopVars, accelVars
<1> HIDE DEF Ins
<1> QED BY <1>1, <1>2, <1>3, <1>4, PTL DEF SramSpec, SeqSpec

\* Under the sleeping driver there is one run at a time.
LEMMA OneRunAlways ==
  ASSUME WaitsForIrq, ~Cancels
  PROVE  SramSpec => []OneRun
<1>1. ASSUME SramInit PROVE OneRun
  <2>1. Idle.what = "none"
    BY DEF Idle
  <2> QED BY <1>1, <2>1 DEF SramInit, AccelInit, SeqInit, CsrInit, DriverInit,
          OneRun, OneRunBits, ld_active
<1>2. ASSUME TypeOK, Copying, OneRun, [SramNext]_sramTopVars PROVE OneRun'
  <2>1. ASSUME NEW op \in Accesses, SramEdge(op) PROVE OneRun'
    BY <1>2, <2>1, OneRunStep DEF TypeOK, Copying
  <2>2. CASE SramReset
    <3>1. Idle.what = "none"
      BY DEF Idle
    <3> QED BY <2>2, <3>1 DEF SramReset, AccelReset, SeqReset, CsrReset,
            DriverReset, OneRun, OneRunBits, ld_active
  <2>3. CASE UNCHANGED sramTopVars
    BY <1>2, <2>3 DEF sramTopVars, accelVars, seqVars, csrVars, driverVars, sramVars,
       OneRun, OneRunBits, ld_active
  <2> QED BY <1>2, <2>1, <2>2, <2>3 DEF SramNext, SramTick
<1> QED
  BY <1>1, <1>2, SramSequences, TypeCorrect, CopyingAlways, PTL DEF SramSpec

-----------------------------------------------------------------------------
(***************************************************************************)
(* The driver and the data.                                                *)
(***************************************************************************)
\* Every cell an inference needs is in its weight memory or in the macro, is
\* being written, or is still on the driver's list.
SramInputsKept ==
  /\ Shapes /\ LogitsSized /\ DOMAIN actm = 0 .. FEAT - 1
  /\ sram = [i \in 0 .. SramWords - 1 |-> sram[i]]
  /\ Loading(axi_we)
  /\ \A cell \in Wanted(job) :
       Stored(sram, cell) \/ axi_we = WriteOf(cell) \/ cell \in Range(todo)

\* A pixel of an image that fits has a word of the macro to itself.
LEMMA PixelsFit ==
  ASSUME N_IN <= SramWords, NEW i \in 0 .. N_IN - 1
  PROVE  i % SramWords = i /\ i \in 0 .. SramWords - 1
<1>1. N_IN \in Nat
  BY Sizes DEF N_IN
<1>2. i \in 0 .. SramWords - 1 /\ i = 0 * SramWords + i
  BY <1>1, SramAssumption
<1>3. i \in Int /\ 0 \in Int /\ SramWords \in Nat \ {0}
  BY <1>1, SramAssumption
<1>4. i % SramWords = i
  BY <1>2, <1>3, DivisionUnique
<1>5. QED BY <1>2, <1>4

\* A wanted write that the data port holds arrives, and spoils nothing.
LEMMA SramStores ==
  ASSUME N_IN <= SramWords, SramInputsKept, ~(ld_active /\ axi_we # Idle),
         ld_we = Idle \/ \E i \in 0 .. N_IN - 1 : ld_we = Copy(i),
         NEW op, SramEdge(op), NEW cell \in Wanted(job),
         Stored(sram, cell) \/ axi_we = WriteOf(cell)
  PROVE  Stored(sram, cell)'
<1>1. /\ job \in Images /\ Shapes /\ RightWrite(axi_we, job)
      /\ MemoriesWith(AccelWrite)
  BY DEF SramInputsKept, Loading, SramEdge
<1>2. Idle.what = "none" /\ Idle # WriteOf(cell)
  BY DEF Idle, WriteOf, Write
<1>3. CASE ld_active
  <2>1. Stored(sram, cell) /\ AccelWrite = ld_we
    BY <1>2, <1>3 DEF AccelWrite
  <2>2. ld_we.what # "write" \/ ld_we.region = 0
    BY <1>2 DEF Copy, Write
  <2>3. UNCHANGED <<wconv, bconv, wfc, bfc>>
    BY <1>1, <2>1, <2>2 DEF MemoriesWith
  <2>4. sram' = sram
    BY <1>3 DEF SramEdge, Macro
  <2> QED BY <2>1, <2>3, <2>4 DEF Stored
<1>4. CASE ~ld_active
  <2>1. PICK w : w = AccelWrite
    OBVIOUS
  <2>2. w = IF axi_we.what = "write" /\ axi_we.region # 0 THEN axi_we ELSE Idle
    BY <1>4, <2>1 DEF AccelWrite
  <2>3. RightWrite(w, job) /\ MemoriesWith(w)
    BY <1>1, <2>1, <2>2 DEF RightWrite
  <2>4. CASE cell.region # 0
    <3>1. axi_we = WriteOf(cell) => w = WriteOf(cell)
      <4>1. WriteOf(cell).what = "write" /\ WriteOf(cell).region = cell.region
        BY DEF WriteOf, Write
      <4> QED BY <2>2, <2>4, <4>1
    <3>2. PICK in : in = sram
      OBVIOUS
    <3>3. Stored(in, cell) \/ w = WriteOf(cell)
      BY <3>1, <3>2
    <3>4. PICK image : image = job
      OBVIOUS
    <3>5. Stored(in, cell)'
      BY <1>1, <2>3, <2>4, <3>3, <3>4, PortStores
    <3> QED BY <2>4, <3>5 DEF Stored
  <2>5. CASE cell.region = 0
    <3> DEFINE D == 0 .. SramWords - 1
    <3>1. sram = [i \in D |-> sram[i]] /\ cell.addr \in D
      BY <1>1, <2>5, WantedIs, PixelsFit DEF SramInputsKept, N_IN
    <3>2. sram' = IF axi_we.what = "write" /\ axi_we.region = 0
                    THEN [sram EXCEPT ![axi_we.addr] = axi_we.data] ELSE sram
      <4>1. sram' = IF axi_we.what = "write" /\ axi_we.region = 0
                      THEN [sram EXCEPT ![axi_we.addr % SramWords] = axi_we.data]
                      ELSE sram
        BY <1>4 DEF SramEdge, Macro
      <4>2. CASE axi_we.what = "write" /\ axi_we.region = 0
        <5>1. PICK other \in Wanted(job) : axi_we = WriteOf(other)
          BY <1>1, <1>2, <4>2 DEF RightWrite
        <5>2. other.region = 0 /\ axi_we.addr = other.addr
          BY <4>2, <5>1 DEF WriteOf, Write
        <5>3. other.addr \in 0 .. N_IN - 1
          BY <1>1, <5>1, <5>2, WantedIs DEF N_IN
        <5>4. axi_we.addr % SramWords = axi_we.addr
          BY <5>2, <5>3, PixelsFit
        <5> QED BY <4>1, <5>4
      <4> QED BY <4>1, <4>2
    <3>3. sram[cell.addr] = cell.data \/ axi_we = WriteOf(cell)
      BY <2>5 DEF Stored
    <3> HIDE DEF D
    <3>4. sram'[cell.addr] = cell.data
      BY <1>1, <2>5, <3>1, <3>2, <3>3, WriteSpoilsNothing
    <3> QED BY <2>5, <3>4 DEF Stored
  <2> QED BY <2>4, <2>5
<1>5. QED BY <1>3, <1>4

\* While the loader copies, the data port is quiet.
LEMMA PortQuiet ==
  ASSUME OneRun, Loading(axi_we)
  PROVE  /\ ~(ld_active /\ axi_we # Idle)
         /\ sw = "await" => todo = <<>> /\ axi_we = Idle
<1>1. ld_active => sw = "await"
  BY DEF OneRun
<1>2. QED BY <1>1 DEF Loading

\* One clock edge loses no write.
LEMMA SramInputsStep ==
  ASSUME N_IN <= SramWords, SramInputsKept, OneRun, Copying, NEW op, SramEdge(op)
  PROVE  SramInputsKept'
<1> DEFINE port2 == IF op.what = "write" THEN op ELSE Idle
<1>1. axi_we' = port2
  BY DEF SramEdge, SramDataPort
<1>2. DriverStep(op) /\ CsrStep(op) /\ MemoriesWith(AccelWrite)
  BY DEF SramEdge
<1>3. Shapes' /\ LogitsSized' /\ DOMAIN actm' = 0 .. FEAT - 1
  <2>1. UNCHANGED dataVars \/ DataStep
    BY DEF SramEdge, AccelStep
  <2>2. LogitsSized'
    BY <2>1, LogitsStep DEF SramInputsKept, dataVars
  <2>3. DOMAIN actm' = DOMAIN actm
    BY <2>1 DEF dataVars, DataStep
  <2> QED BY <1>2, <2>2, <2>3, ShapesStep DEF SramInputsKept
<1>4. sram' = [i \in 0 .. SramWords - 1 |-> sram'[i]]
  <2>1. \/ sram' = sram
        \/ sram' = [sram EXCEPT ![axi_we.addr % SramWords] = axi_we.data]
    BY DEF SramEdge, Macro
  <2> QED BY <2>1, OneCell DEF SramInputsKept
<1>5. PICK port : port = port2
  OBVIOUS
<1>6. Loading(port)' /\ Accounted(port)
  <2>1. PICK p : p = axi_we
    OBVIOUS
  <2>2. Loading(p)
    BY <2>1 DEF SramInputsKept
  <2> QED BY <1>2, <1>5, <2>2, LoadStep
<1>7. axi_we' = port
  BY <1>1, <1>5
<1>8. Loading(axi_we)'
  BY <1>6, <1>7 DEF Loading
<1>9. ASSUME NEW cell \in Wanted(job')
      PROVE  \/ Stored(sram, cell)' \/ axi_we' = WriteOf(cell)
             \/ cell \in Range(todo')
  <2>1. CASE cell \in Range(todo') \/ port = WriteOf(cell)
    BY <1>7, <2>1
  <2>2. CASE cell \in Wanted(job) /\ cell \notin Range(todo)
    <3>1. Stored(sram, cell) \/ axi_we = WriteOf(cell)
      BY <2>2 DEF SramInputsKept
    <3>2. ~(ld_active /\ axi_we # Idle)
      BY PortQuiet DEF SramInputsKept
    <3>3. Stored(sram, cell)'
      BY <2>2, <3>1, <3>2, SramStores DEF Copying
    <3> QED BY <3>3
  <2> QED BY <1>6, <2>1, <2>2 DEF Accounted
<1>10. QED BY <1>3, <1>4, <1>8, <1>9 DEF SramInputsKept

\* No write is lost, in any state.
LEMMA SramInputsAlways ==
  ASSUME WaitsForIrq, ~Cancels, N_IN <= SramWords
  PROVE  SramSpec => []SramInputsKept
<1>1. ASSUME SramInit PROVE SramInputsKept
  <2>1. Shapes
    BY <1>1 DEF SramInit, MemoriesInit, Shapes
  <2>2. LogitsSized /\ DOMAIN actm = 0 .. FEAT - 1
    BY <1>1 DEF SramInit, AccelInit, LogitsSized
  <2>3. Loading(Idle) /\ \A cell \in Wanted(job) : cell \in Range(todo)
    BY <1>1, LoadBegins DEF SramInit, DriverInit, CsrInit
  <2>4. sram = [i \in 0 .. SramWords - 1 |-> sram[i]]
    BY <1>1 DEF SramInit
  <2> QED BY <1>1, <2>1, <2>2, <2>3, <2>4 DEF SramInit, SramInputsKept
<1>2. ASSUME SramInputsKept, OneRun, Copying, [SramNext]_sramTopVars PROVE SramInputsKept'
  <2>1. ASSUME NEW op \in Accesses, SramEdge(op) PROVE SramInputsKept'
    BY <1>2, <2>1, SramInputsStep
  <2>2. CASE SramReset
    <3>1. /\ Shapes' /\ LogitsSized' /\ DOMAIN actm' = 0 .. FEAT - 1
          /\ sram' = [i \in 0 .. SramWords - 1 |-> sram'[i]]
      BY <1>2, <2>2 DEF SramReset, AccelReset, inputVars, SramInputsKept, Shapes,
         LogitsSized
    <3>2. Loading(Idle)' /\ \A cell \in Wanted(job') : cell \in Range(todo')
      <4>1. PICK image \in Images :
              job' = image /\ todo' = WeightWrites \o ImageWrites(image)
        BY <2>2 DEF SramReset, DriverReset
      <4>2. sw' = "prepare" /\ response' = Idle
        BY <2>2 DEF SramReset, DriverReset, CsrReset
      <4>3. Idle.what = "none"
        BY DEF Idle
      <4> QED BY <4>1, <4>2, <4>3, WritesAre DEF Loading, RightWrite
    <3>3. axi_we' = Idle
      BY <2>2 DEF SramReset
    <3> QED BY <3>1, <3>2, <3>3 DEF SramInputsKept, Loading
  <2>3. CASE UNCHANGED sramTopVars
    BY <1>2, <2>3 DEF sramTopVars, accelVars, inputVars, dataVars, csrVars, driverVars,
       sramVars, SramInputsKept, Shapes, LogitsSized, Loading, Stored
  <2> QED BY <1>2, <2>1, <2>2, <2>3 DEF SramNext, SramTick
<1> QED BY <1>1, <1>2, OneRunAlways, CopyingAlways, PTL DEF SramSpec

\* For every network and every size of the macro, with resets at any time: under
\* a driver that sleeps until the interrupt and never cancels, the loader stays
\* inside the input memory and has the datapath's write port to itself.
THEOREM LoaderOKAlways ==
  ASSUME WaitsForIrq, ~Cancels
  PROVE  SramSpec => []LoaderOK
<1>1. SramSpec => []Loading(axi_we)
  <2>1. ASSUME SramInit PROVE Loading(axi_we)
    <3>1. Loading(Idle)
      BY <2>1, LoadBegins DEF SramInit, DriverInit, CsrInit
    <3> QED BY <2>1, <3>1 DEF SramInit
  <2>2. ASSUME Loading(axi_we), [SramNext]_sramTopVars PROVE Loading(axi_we)'
    <3>1. ASSUME NEW op \in Accesses, SramEdge(op) PROVE Loading(axi_we)'
      <4>1. PICK p : p = axi_we
        OBVIOUS
      <4>2. PICK port : port = IF op.what = "write" THEN op ELSE Idle
        OBVIOUS
      <4>3. Loading(p) /\ DriverStep(op) /\ CsrStep(op)
        BY <2>2, <3>1, <4>1 DEF SramEdge
      <4>4. Loading(port)'
        BY <4>2, <4>3, LoadStep
      <4>5. axi_we' = port
        BY <3>1, <4>2 DEF SramEdge, SramDataPort
      <4> QED BY <4>4, <4>5 DEF Loading
    <3>2. CASE SramReset
      <4>1. PICK image \in Images :
              job' = image /\ todo' = WeightWrites \o ImageWrites(image)
        BY <3>2 DEF SramReset, DriverReset
      <4>2. sw' = "prepare" /\ response' = Idle /\ axi_we' = Idle
        BY <3>2 DEF SramReset, DriverReset, CsrReset
      <4>3. Idle.what = "none"
        BY DEF Idle
      <4> QED BY <4>1, <4>2, <4>3, WritesAre DEF Loading, RightWrite
    <3>3. CASE UNCHANGED sramTopVars
      BY <2>2, <3>3 DEF sramTopVars, csrVars, driverVars, sramVars, Loading
    <3> QED BY <2>2, <3>1, <3>2, <3>3 DEF SramNext, SramTick
  <2> QED BY <2>1, <2>2, PTL DEF SramSpec
<1>2. ASSUME Loading(axi_we), OneRun, Copying PROVE LoaderOK
  <2>1. ~(ld_active /\ axi_we # Idle)
    BY <1>2, PortQuiet
  <2> QED BY <1>2, <2>1 DEF Copying, LoaderOK, LoaderStates, ld_active
<1> QED BY <1>1, <1>2, OneRunAlways, CopyingAlways, PTL

\* What stands in the datapath, in the driver and between them is the answer on
\* the network m, and a run works on m.
SramAnswers(m) ==
  /\ Computes(m) /\ Reads(m)
  /\ st # "S_IDLE" => Loaded = m
  /\ sw = "collect" \/ done_pulse \/ irq_q => Right(m)

\* The loader leaves the network in place.
LEMMA SramNetworkInPlace ==
  ASSUME N_IN <= SramWords, SramInputsKept, OneRun, Copying, acc_start
  PROVE  Loaded = Network(job)
<1>1. todo = <<>> /\ axi_we = Idle /\ ld_we = Idle /\ job \in Images /\ Shapes
  BY PortQuiet DEF SramInputsKept, OneRun, Loading, Copying
<1>2. ASSUME NEW cell PROVE Idle # WriteOf(cell)
  BY DEF Idle, WriteOf, Write
<1>3. \A cell \in Wanted(job) : Stored(sram, cell)
  BY <1>1, <1>2, NothingLeft DEF SramInputsKept
<1>4. /\ \A i \in 0 .. IN_H * IN_W - 1 : sram[i] = job[i]
      /\ wconv = Weights.wconv /\ bconv = Weights.bconv
      /\ wfc = Weights.wfc /\ bfc = Weights.bfc
  BY <1>1, <1>3, AllStored
<1>5. ASSUME NEW i \in 0 .. N_IN - 1 PROVE imem[i] = job[i]
  <2>1. imem[i] = Word(i) \/ ld_we = Copy(i)
    BY DEF Copying, CopiedUpTo
  <2>2. ld_we # Copy(i)
    BY <1>1 DEF Idle, Copy, Write
  <2>3. Word(i) = sram[i]
    BY PixelsFit DEF Word
  <2> QED BY <1>4, <2>1, <2>2, <2>3 DEF N_IN
<1>6. imem = job
  <2>1. job = [i \in 0 .. N_IN - 1 |-> job[i]]
    BY <1>1, DriverAssumption DEF IsNetwork, Network, N_IN
  <2>2. imem = [i \in 0 .. N_IN - 1 |-> imem[i]]
    BY <1>1 DEF Shapes, N_IN
  <2> QED BY <1>5, <2>1, <2>2
<1>7. QED BY <1>4, <1>6 DEF Loaded, Network

\* One clock edge within a job.
LEMMA SramAnswersStep ==
  ASSUME WaitsForIrq, ~Cancels, N_IN <= SramWords,
         NEW m, IsNetwork(m), TypeOK, OneRun, Copying,
         SramInputsKept, m = Network(job), SramAnswers(m), NEW op, SramEdge(op),
         UNCHANGED job
  PROVE  SramAnswers(m)'
<1>1. DriverStep(op) /\ CsrStep(op) /\ AccelStep(acc_start, swrst_q) /\ ~swrst_q
  BY DEF SramEdge, OneRun
<1>2. SeqStep(acc_start, FALSE) /\ DataStep
  BY <1>1 DEF AccelStep, SeqStep
<1>3. /\ Computes(m)'
      /\ st = "S_DONE" => Right(m)'
  BY <1>1, ComputesStep DEF SramInputsKept, SramAnswers
<1>4. Right(m) /\ st = "S_IDLE" => Right(m)'
  BY <1>2, ResultStays
<1>5. Reads(m)'
  BY <1>1, ReadsStep DEF SramAnswers
<1>6. /\ st = "S_IDLE" => (st' # "S_IDLE" => acc_start) /\ ~done_pulse'
      /\ done_pulse' <=> st = "S_DONE"
  BY <1>2, DatapathMoves DEF TypeOK
<1>7. ASSUME st' # "S_IDLE" PROVE Loaded' = m
  <2>1. acc_start \/ st # "S_IDLE"
    BY <1>6, <1>7
  <2>2. Loaded = m
    BY <2>1, SramNetworkInPlace DEF SramAnswers
  <2>3. sw = "await" /\ ~ld_active
    BY <2>1 DEF OneRun
  <2>4. AccelWrite = Idle
    BY <2>3, PortQuiet DEF AccelWrite, SramInputsKept, Idle
  <2>5. UNCHANGED inputVars
    BY <2>4 DEF SramEdge, MemoriesWith, Idle, inputVars
  <2> QED BY <2>2, <2>5 DEF Loaded, inputVars
<1>8. irq_q' = done_pulse
  BY <1>1 DEF DriverStep
<1>9. sw' = "collect" => sw = "collect" \/ irq_q
  BY <1>1, SleeperMoves DEF Sleeper
<1>10. done_pulse' => Right(m)'
  BY <1>3, <1>6
<1>11. irq_q' => Right(m)'
  BY <1>4, <1>8 DEF SramAnswers, OneRun
<1>12. sw' = "collect" => Right(m)'
  BY <1>4, <1>9 DEF SramAnswers, OneRun
<1>13. QED BY <1>3, <1>5, <1>7, <1>10, <1>11, <1>12 DEF SramAnswers

\* One clock edge that begins another job.
LEMMA SramAnswersBegin ==
  ASSUME NEW m, StatusOK, OneRun, NEW op, SramEdge(op), NewJob(op)
  PROVE  SramAnswers(m)'
<1>1. sw' = "prepare" /\ result' = <<>> /\ response'.what \notin {"logit", "status"}
  BY DEF NewJob
<1>2. ~acc_start /\ st = "S_IDLE" /\ ~done_pulse
  BY DEF NewJob, OneRun
<1>3. st' = "S_IDLE" /\ ~done_pulse'
  <2>1. SeqStep(acc_start, FALSE)
    BY DEF SramEdge, AccelStep, SeqStep, OneRun
  <2> QED BY <1>2, <2>1, DatapathMoves
<1>4. ~irq_q'
  BY <1>2 DEF SramEdge, DriverStep
<1>5. Computes(m)'
  BY <1>3 DEF Computes, ConvComputes, FcComputes, ArgmaxComputes
<1>6. Reads(m)'
  BY <1>1, EmptySeq, SequencerAssumption DEF Reads
<1>7. QED BY <1>1, <1>3, <1>4, <1>5, <1>6 DEF SramAnswers

\* The driver's answer, in every state.
SramAnswerKept == \A m : m = Network(job) => SramAnswers(m)

\* For every network and every set of images whose sums fit the hardware and
\* whose pixels fit the macro, under a driver that sleeps until the interrupt
\* and never cancels, with resets at any time: each logit read is bit for bit
\* what gen_golden.py computes on the image written for this inference, through
\* data port, macro, loader and datapath.
THEOREM SramResultIsGolden ==
  ASSUME WaitsForIrq, ~Cancels, N_IN <= SramWords,
         \A image \in Images : Fits(Network(image))
  PROVE  SramSpec => []ResultIsGolden
<1>1. ASSUME SramInit PROVE SramAnswerKept
  <2>1. /\ st = "S_IDLE" /\ sw = "prepare" /\ ~irq_q /\ ~done_pulse
        /\ result = <<>> /\ response = Idle
    BY <1>1 DEF SramInit, AccelInit, SeqInit, DriverInit, CsrInit
  <2>2. Idle.what = "none"
    BY DEF Idle
  <2> QED BY <2>1, <2>2, IdleComputes, ReadsNothing DEF SramAnswerKept, SramAnswers
<1>2. ASSUME TypeOK, OneRun, Copying, SramInputsKept, SramAnswerKept, [SramNext]_sramTopVars
      PROVE  SramAnswerKept'
  <2>1. SUFFICES ASSUME NEW m, m = Network(job') PROVE SramAnswers(m)'
    BY DEF SramAnswerKept, Network
  <2>2. ASSUME NEW op \in Accesses, SramEdge(op) PROVE SramAnswers(m)'
    <3>1. UNCHANGED job \/ NewJob(op)
      BY <2>2, SameJob DEF SramEdge
    <3>2. CASE UNCHANGED job
      <4>1. m = Network(job) /\ job \in Images
        BY <1>2, <2>1, <3>2 DEF SramInputsKept, Loading
      <4>2. IsNetwork(m)
        BY <4>1, DriverAssumption
      <4>3. SramAnswers(m)
        BY <1>2, <4>1 DEF SramAnswerKept
      <4> QED BY <1>2, <2>2, <3>2, <4>1, <4>2, <4>3, SramAnswersStep
    <3>3. CASE NewJob(op)
      BY <1>2, <2>2, <3>3, SramAnswersBegin DEF TypeOK
    <3> QED BY <3>1, <3>2, <3>3
  <2>3. CASE SramReset
    <3>1. /\ st' = "S_IDLE" /\ sw' = "prepare" /\ ~irq_q' /\ ~done_pulse'
          /\ result' = <<>> /\ response' = Idle
      BY <2>3 DEF SramReset, AccelReset, SeqReset, DriverReset, CsrReset
    <3>2. Idle.what = "none"
      BY DEF Idle
    <3>3. Computes(m)'
      BY <3>1 DEF Computes, ConvComputes, FcComputes, ArgmaxComputes
    <3>4. Reads(m)'
      BY <3>1, <3>2, EmptySeq, SequencerAssumption DEF Reads
    <3> QED BY <3>1, <3>3, <3>4 DEF SramAnswers
  <2>4. CASE UNCHANGED sramTopVars
    <3>1. UNCHANGED <<seqVars, inputVars, dataVars, csrVars, driverVars>>
      BY <2>4 DEF sramTopVars, accelVars
    <3>2. SramAnswers(m)
      BY <1>2, <2>1, <3>1 DEF SramAnswerKept, driverVars
    <3>3. Computes(m)'
      BY <3>1, <3>2 DEF SramAnswers, Computes, ConvComputes, FcComputes,
         ArgmaxComputes, ActsDone, LogitsDone, Scanned, Right, Pixel, seqVars,
         loopVars, convVars, fcVars, dataVars
    <3>4. Reads(m)'
      BY <3>1, <3>2 DEF SramAnswers, Reads, csrVars, driverVars
    <3>5. st' # "S_IDLE" => Loaded' = m
      BY <3>1, <3>2 DEF SramAnswers, Loaded, seqVars, inputVars
    <3> QED BY <3>1, <3>2, <3>3, <3>4, <3>5 DEF SramAnswers, Right, seqVars,
            dataVars, driverVars
  <2> QED BY <1>2, <2>2, <2>3, <2>4 DEF SramNext, SramTick
<1>3. SramInputsKept /\ SramAnswerKept => ResultIsGolden
  BY ReadsGolden DEF SramInputsKept, Loading, SramAnswerKept, SramAnswers
<1> QED
  BY <1>1, <1>2, <1>3, SramInputsAlways, OneRunAlways, CopyingAlways,
     SramSequences, TypeCorrect, PTL DEF SramSpec

=============================================================================
