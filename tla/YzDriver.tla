------------------------------ MODULE YzDriver ------------------------------
(***************************************************************************)
(* The software that runs inferences, demo_stream.c l.36-61: load the      *)
(* weights once; then for every image write the input, write START, wait   *)
(* for the end, read the logits.  Between two accesses any time may pass.  *)
(*                                                                         *)
(* The demo waits by polling STATUS.  Two things other software may do are *)
(* constants: wait for the interrupt instead (rtl/yz_top.sv l.15-17) and   *)
(* cancel a run with CTRL.RESET.  The interrupt path is the core's:        *)
(* cv32e40p_int_controller registers the line, and the controller takes it *)
(* in a cycle in which it decodes a valid instruction with interrupts on.  *)
(***************************************************************************)
EXTENDS YzCsr, Sequences, FiniteSets

CONSTANTS
  Weights,         \* the network: record of wconv, bconv, wfc and bfc
  Images,          \* inputs
  WaitsForIrq,     \* the driver sleeps instead of polling
  Cancels          \* the driver may cancel

\* The network as the driver writes it.
Network(image) ==
  [imem |-> image, wconv |-> Weights.wconv, bconv |-> Weights.bconv,
   wfc |-> Weights.wfc, bfc |-> Weights.bfc]

ASSUME DriverAssumption == \A image \in Images : IsNetwork(Network(image))

VARIABLES
  sw,              \* what the driver is doing
  todo,            \* writes it still has to make
  job,             \* the image of the current inference
  result,          \* logits read so far
  irq_q            \* the core's register behind irq_i[16]

driverVars == <<sw, todo, job, result, irq_q>>

Cells(region, mem) ==
  [i \in 1 .. Cardinality(DOMAIN mem) |->
     [region |-> region, addr |-> i - 1, data |-> mem[i - 1]]]
WriteOf(cell) == Write(cell.region, cell.addr, cell.data)

ImageWrites(image) == Cells(0, image)
WeightWrites ==
  Cells(1, Weights.wconv) \o Cells(2, Weights.bconv)
    \o Cells(3, Weights.wfc) \o Cells(4, Weights.bfc)

Prepare(image) ==
  /\ sw' = "prepare"
  /\ job' = image
  /\ result' = <<>>
  /\ todo' = ImageWrites(image)

\* One access, or none, in the next cycle.
Load(op) ==
  /\ sw = "prepare" /\ todo # <<>>
  /\ op = WriteOf(Head(todo))
  /\ todo' = Tail(todo)
  /\ UNCHANGED <<sw, job, result>>

StartRun(op) ==
  /\ sw = "prepare" /\ todo = <<>>
  /\ op = Ctrl(TRUE, FALSE)
  /\ sw' = "await"
  /\ UNCHANGED <<todo, job, result>>

Poll(op) ==
  /\ sw = "await" /\ ~WaitsForIrq
  /\ op = ReadStatus
  /\ UNCHANGED <<sw, todo, job, result>>

Collect(op) ==
  /\ sw = "collect" /\ Len(result) < FC_OUT
  /\ op = ReadLogit(Len(result))
  /\ UNCHANGED <<sw, todo, job, result>>

NextJob(op) ==
  /\ sw = "collect" /\ Len(result) = FC_OUT
  /\ op = Idle
  /\ \E image \in Images : Prepare(image)

\* CTRL.RESET, with or without START beside it, and its release.
Cancel(op) ==
  /\ Cancels /\ sw = "await"
  /\ \E start \in BOOLEAN : op = Ctrl(start, TRUE)
  /\ sw' = "cancel"
  /\ UNCHANGED <<todo, job, result>>

Release(op) ==
  /\ sw = "cancel"
  /\ op = Ctrl(FALSE, FALSE)
  /\ \E image \in Images : Prepare(image)

\* The core enters the handler of irq_i[16].
TakeInterrupt(op) ==
  /\ WaitsForIrq /\ sw = "await" /\ irq_q
  /\ op = Idle
  /\ sw' = "collect"
  /\ UNCHANGED <<todo, job, result>>

Access(op) ==
  \/ Load(op) \/ StartRun(op) \/ Poll(op) \/ Collect(op) \/ NextJob(op)
  \/ Cancel(op) \/ Release(op)

\* The answer to the access of the cycle before.
Receive ==
  /\ sw' = IF response.what = "status" /\ response.done THEN "collect" ELSE sw
  /\ result' = IF response.what = "logit" THEN Append(result, response.value)
               ELSE result
  /\ UNCHANGED <<todo, job>>

DriverStep(op) ==
  /\ irq_q' = done_pulse
  /\ \/ response # Idle /\ op = Idle /\ Receive
     \/ response = Idle /\ (Access(op) \/ TakeInterrupt(op))
     \/ response = Idle /\ op = Idle /\ UNCHANGED <<sw, todo, job, result>>

Accesses ==
  {Idle, ReadStatus} \cup {ReadLogit(k) : k \in 0 .. FC_OUT - 1}
    \cup {Ctrl(start, reset) : start \in BOOLEAN, reset \in BOOLEAN}
    \cup (IF todo = <<>> THEN {} ELSE {WriteOf(Head(todo))})

DriverInit ==
  /\ sw = "prepare"
  /\ job \in Images
  /\ todo = WeightWrites \o ImageWrites(job)
  /\ result = <<>>
  /\ irq_q = FALSE

\* The core is reset with the system and boots again.
DriverReset ==
  /\ sw' = "prepare"
  /\ \E image \in Images : job' = image /\ todo' = WeightWrites \o ImageWrites(image)
  /\ result' = <<>>
  /\ irq_q' = FALSE

-----------------------------------------------------------------------------
(***************************************************************************)
(* Properties the wrappers have to meet.                                   *)
(***************************************************************************)
Golden == [image \in Images |-> GoldLogit(Network(image))]

\* Every logit the driver reads belongs to the image it wrote: no write is
\* lost, none arrives late, and DONE never stands for an earlier inference.
ResultIsGolden ==
  \A k \in 1 .. Len(result) : result[k] = Golden[job][k - 1]

\* While the driver loads or reads, no inference runs or is about to: a run
\* it has cancelled does not come back and work on half-written inputs.
IdleOutsideRuns ==
  sw \in {"prepare", "collect"} => st = "S_IDLE" /\ ~start_q

\* Waiting ends.
WaitEnds == (sw = "await") ~> (sw # "await")

=============================================================================
