# ZUGA-IC: a TLA+ verification of the SoC's RTL

ZUGA-IC is a RISC-V SoC in SystemVerilog: a CV32E40P core, an OBI to AXI4-Lite
bridge, a decoder, memory, peripherals, and an accelerator for a keyword
spotting network. This directory holds TLA+ models of the RTL the team wrote
(`rtl/*.sv`), of the software that runs on it (`demo_stream.c`, the jury's
`helloworld.c`, the core's interrupt test), of the two references the
accelerator is compared with (`sw/yz/gen_golden.py`, `sw/yz/yz_soft.c`), TLC
configurations that check them on small instances, and theorems TLAPS proves
for every instance.

Paths below are relative to the repository (`src/` in `PROJECT.json`).

Contents: 1 the system, 2 the modules, 3 the runs, 4 the theorems, 5 where the
code departs from what is said of it, 6 what is not modelled, 7 plan.

## 1. The system

| Component | State | Operations | What is hard |
|---|---|---|---|
| Bridge `obi_to_axi_lite.sv` | FSM, latched request, AW/W handshake flags | accept, AW+W, B, AR, R, reset | its FSM and the slave's must agree on every cycle of a transfer |
| Decoder, fan-out, mux `soc_top_axi.sv`, `yz_top.sv` | none | select by address bits | a wrong select repeats, drops or misroutes an access; no select at all hangs the core |
| DRAM `ram_axi.sv` | FSM, SRAM macro and its read register | write with byte mask, read in two cycles | data used a cycle after the macro produced it; reset between accesses |
| Slave ports (GPIO, timer, UARTs, I2C, CSR, data port) | `S_IDLE`, `S_WRITE_RESP`, `S_READ_RESP`, `read_data_q` | take, answer | see bridge |
| Timer `timer_axi.sv` | PRE ARE ENA MOD CNT EVN, prescaler | every register write in any cycle, count | registers changed under a running counter, equality compares, wrap-around |
| Accelerator `yz_accel.sv` | FSM, 8 loop counters, accumulator, 7 memories, argmax | start, soft reset, one state per layer step | state left by cancelled runs, overflow, padding, index bounds, exact length |
| CSR `yz_csr.sv` | CTRL, STATUS, CYCLE_CNT | start pulse, reset level, read | pulses against levels, a second cycle counter |
| Wrapper `yz_top.sv` | write register of the data port | memory writes a cycle late, IRQ | order of writes, START and STATUS; a one-cycle interrupt |
| ASIC wrapper `yz_top_sram.sv` | SRAM, loader FSM | copy the input, then start | STATUS while loading, reset while loading |
| UART `uart_axi.sv` | CPB RDR TDR CFG, TX FSM, RX FSM, synchroniser | send, sample, set and clear flags | clock drift, polling in three accesses, overrun, dropped writes |
| I2C master `i2c_master_axi.sv` | NBY ADR RDR TDR CFG, divider and phase, FSM, shift registers, SDA drive | register writes at any time, one action per FSM state | two registers between state and pins, registers read while the transfer runs, a slave that holds SDA |
| Jury's UART `dtr_demo/rtl/uart_tek_axi.sv` | as the UART, CFG[0] a strobe, TX_DONE a cycle later | write, start, poll, clear | `CFG &= ~flag` is a read and a write; a byte sent from an uninitialised array |
| Interrupt logic of the core and its test (`cv32e40p_int_controller.sv`, `mm_ram.sv`'s registers, `cv32e40p_random_interrupt_generator.sv`, `interrupt.c`) | irq_q, mie, mstatus; generator mode and lines; the test's globals | raise, take, acknowledge, mask, wait | three registers between program and core; handler and main share globals and mstatus |
| Software model `yz_soft.c`, `yz_soft_core.c` | arrays | load, convolve, argmax, count | a third version of the same arithmetic |
| Driver `demo_stream.c` | where it is, what it has still to write, what it has read | weights, preamble, image, start, poll, line; `t1()`, `g1()` | runs concurrently with all of the above; frames out of step |

Interactions. The core's data port goes through the bridge, which has one
transfer in flight, to the slave the latched address selects; slaves never talk
to each other. Software sees a slave through its registers only. The
accelerator also has a line to the core (`irq_o` to `irq_i[16]`), the UARTs have
the serial line. There is one clock, and every register of the design moves at
every edge of it: the interleavings are those of *software accesses, resets and
the outside world against the clocked state machines*. Therefore one TLA+ step
of the hardware modules is one clock edge, computed from the combinational
signals of the cycle that ends, and what varies from step to step is the access
(or no access), reset, start, cancellation and the level of a pin. rst_ni, where
it is modelled, may come in any cycle.

What makes each component correct:

- bus: to a program, loads and stores are atomic, happen exactly once at the
  slave the memory map names, in bounded time, and never hang;
- timer: an event exactly every (PRE+1)(ARE+1) cycles, for ever, whatever was
  written when; only the write that says so departs from it;
- accelerator: logits and class bit for bit those of the Python reference,
  after a fixed number of cycles, whatever was cancelled before;
- wrappers: a driver reads the result of *its* image, cancelled runs stay dead,
  and its waiting ends;
- UART: bytes arrive once, in order, unharmed, if software serves it in time;
  with the jury's variant, the host reads exactly the dialogue;
- I2C: a transfer moves the bytes software asked for, ends in STOP, and software
  is always told;
- interrupts: served in priority order, once per enable, only where main()
  allows them, never for a line on its way down;
- demo: every frame found in step is answered with its own result, and a bad
  frame costs no more than the next one;
- C model: the same logits and class as the hardware, bit for bit.

## 2. The modules

Names of registers, signals and states are the source's. `PROJECT.json` ("map")
gives the source lines of every definition. Operators named `Bug...` are
deliberate faults: each replaces the definition after it to confirm that a
property notices; they are no part of the specifications.

**Bus.** `AxiLitePort` is the three-state slave FSM every block repeats.
`ObiAxiBridge` is the bridge: registers, outputs, one action per FSM state.
`SocBus` composes bridge, decoder, response mux, DRAM with its macro, the eight
slave ports and the core's data port. Addresses are the real 32-bit addresses,
decoded by the real bit fields. A register block's contents are not
represented: a read of one returns the *name* of the register it was read from,
which is enough to see misrouting. The core (external) presents any request of
`Program`, holds it until granted and may present the next while the answer is
outstanding, as OBI allows. `waiting`, `age`, `hits` and `result` are history
variables. `LoadStore` is the abstract specification: issue, one instant at
which the request takes effect, answer, reset. `LS == INSTANCE LoadStore WITH`
maps the 2048 documented words to the macro's cells, the pending request to
`waiting`, and "has taken effect" to "a slave has left S_IDLE". `DoutHeld`
selects the SRAM model: the simulation model of `tb/` keeps dout0, the vendor's
makes it unknown at every clock edge.

**Timer.** `TimerAxi` is the timer with its port: in each cycle the bridge may
present any combination of valids it can produce, any offset and any value.
`IntervalTimer` is the promise, and every step of it is one clock cycle: `left`
goes down by one, at 0 an event is counted and `left` starts again at
`period - 1`. What departs from that is guarded by the write that makes it:

| Write | Event due in this cycle | `left` |
|---|---|---|
| none, a read, CNT, EVN, CLR or EVC with bit 0 clear | counted | counts on |
| EVC | cleared with the others | counts on |
| ENA | counted | counts on; stopping puts the next event off by less than a period |
| PRE, ARE, MOD | counted | any: a counter above its new limit wraps around first |
| CLR | not counted | put off by less than a period |

`TimerAxi` has two history variables for this, `command` (the register software
gave an order to at the last edge, read off the bus signals and not off `do_clr`
or `do_evc`) and `clk`, the parity of the edges, without which a countdown that
stalls would be a stuttering step. The refinement maps `period` to
(PRE+1)(ARE+1) and `left` to the cycles computed from prescaler and counter,
through the wrap-around if one of them is above its limit.

**Accelerator.** `YzSequencer` is the control part of `yz_accel.sv` (FSM, loop
counters, status, cycle counter), one action per state. `YzAccel` adds the data:
memories, wrapping accumulator, requantisation, argmax, and the reference
`Gold...` translated from `gen_golden.py` (sums over whole arrays in unbounded
integers). `YzCsr` is the register file; `YzDriver` the software, which takes
any number of cycles between accesses; `YzTop` and `YzTopSram` are the two
wrappers, each composed with datapath, CSR and driver. The CSR and data ports
are merged into a one-cycle access because the bridge has one transfer in flight;
`SocBus` is where the two ports and their handshakes are told apart, and its
`ExactlyOnce` and `AnsweredInTime` are what justifies the merging.
`WaitsForIrq` makes the driver sleep until the core takes the interrupt (the
flow in `yz_top.sv` l.15-17), `Cancels` lets it write CTRL.RESET.

**UART.** `UartAxi` is the device: register file, transmitter, receiver,
synchroniser. `SerialLine` adds a host at the far end, whose bits last `far` cycles
instead of CPB and which sends as `uart_write()` of `teknotest_tb.sv` does.
`UartLink` is that line, or one looped back (`tb/uart_rx_axi_tb.sv`; `far` = 0),
with the software of `demo_stream.c`: `g1()` polls CFG, reads RDR
and clears RX_DONE in three separate accesses with any delay between them, `t1()`
writes TDR and lets a frame pass. `Slack` is how long RX_DONE may stand before
the software does nothing but serve it.

**Jury test.** `UartTek` EXTENDS `UartAxi` and replaces what the jury's UART does
differently: the register file, the idle state of the transmitter and the delayed
TX_DONE. `HelloWorld` puts it on a `SerialLine` with the program of `teknotest/sw`
statement by statement (`pc` is the access to come, `cfg` the value of CFG it has
read) and the host of `teknotest/tb`, which reads and writes with bits of its own
length (`uart_read`, `cnt` cycles after the start edge). `msg` is a C array: what
follows its zero is any contents. `HelloFits` is what the properties need of host
and program; theorems assume it and `MCHelloWorld` evaluates it.

**I2C.** `I2cMaster` is the device, one action per FSM state. A byte is a function
from bit numbers, because bits are what the bus and the shift registers handle.
`I2cBus` connects it to an open-drain SDA, to a slave that keeps to the I2C rules
(it samples when SCL rises, changes SDA when SCL falls, takes SDA moving under a
high SCL for START or STOP, may refuse any byte, and gives any data), and to the
software of `tb/i2c_master_axi_tb.sv`, extended to reads and to writing the next
transfer's NBY while one runs. `heard` and `told` are the bytes the slave took
and gave. `Undisturbed` is a transfer that began on a free bus and whose
registers were left alone: it is the antecedent of `Faithful`, `LeavesBusFree`
and `SdaStable`, because a write whose last byte was acknowledged leaves the bus
occupied (section 5) and NBY changed during the transfer changes what the master
answers with.

**Interrupts.** `IrqController` is the core's interrupt controller with the CSR bits
it depends on, `IrqGenerator` the generator of the test bench (software-defined
and random modes, a delay per register as in the code), `IrqTest` the program
`interrupt.c`: main() with its tests as labels, its helpers `mstatus_enable` and
`mstatus_disable` as the separate reads and writes they compile to, the common
handler statement by statement, and any stall (`MaxStalls`) between two
instructions. Every register line, mask and generated word is any subset of the
lines modelled.

**Stream.** `StreamDemo` is main() of `demo_stream.c` over bytes: RDY, the weights of
`demo/load_weights.py`, preamble search, image, watchdog, line. A step is a call
of g1() with what is done to its byte; `UartLink` is where g1()'s three accesses
are told apart, and its `ByteForByte` and `Delivered` justify the step. The
accelerator is the operator `Infer`, which `ResultIsGolden` justifies. The host
sends well-formed, truncated and oversized frames (the scenarios recorded in
`demo/harness_results`).

**C model.** `YzSoft` EXTENDS `YzAccel`: the loops of `yz_soft.c` as recursive
functions in code order with wrapping sums, on the files `gen_golden.py` prints of
the memories the hardware was loaded with.

The `MC...` modules define the instances, the `.cfg` files the parameters and what
is checked.

## 3. The runs

Passing runs:

| Run | Question | Instance | Why it is enough |
|---|---|---|---|
| `bus_memory` | do loads and stores behave as atomic memory (`ImplementsLoadStore`)? | two DRAM words and GPIO_ODR, two byte lanes, bytes 0/1, all masks, reset in any cycle | lanes are treated alike; two words and a device tell "same cell", "other cell" and "no cell" apart |
| `bus_routing` | does exactly the documented slave take a request, once (`ExactlyOnce`), do the FSMs agree (`BusAgreement`), in time (`AnsweredInTime`), without hanging (`EventuallyAnswered`)? | one or two registers of every slave, every accelerator window that answers, one-value data | data plays no part; every select and every slave is reached |
| `timer_period` | does it implement `IntervalTimer`, and does it never stop (`EventsKeepComing`)? | registers modulo 3 for 2^32, all values | every wrap, PRE and ARE at 0 and at the maximum, every relation of CNT and ARE occur; the theorem removes the bound |
| `yz_golden` | after any starts, cancellations and resets, are results bit-exact, lengths exact, loops in bounds, runs finite, and does the C program compute the same (`SoftwareAgrees`)? | 2x3 input, 2x3 kernel, stride 2, padding 1, 2 filters, 3 classes, 6 combinations of image and weights, 5-bit accumulator | both filters, skipped taps on both sides, clamping at 0 and at ActMax, equal logits and overflow of partial sums occur |
| `yz_top_polling` | does a polling driver that may cancel read its own image's logits (`ResultIsGolden`), do cancelled runs stay dead (`IdleOutsideRuns`), is CYCLE_CNT exact, and does waiting end? | two pixels, two classes, two images | a lost or late write, or the result of the other image, changes a logit |
| `yz_sram_irq` | the same behind the SRAM buffer, waiting for the interrupt; is the input in place when the datapath starts (`InputInPlace`), is its write port one master's at a time (`LoaderOK`)? | the same, SRAM of two words | the loader's first and last index both count |
| `uart_link` | is every byte delivered once, in order, unharmed (`ByteForByte`, `NothingLost`), every TDR write accepted, every byte eventually returned? | bytes of 2 bits, 8 cycles a bit, far end at 7 and 10 cycles or loopback, Slack 22 | with 2-bit bytes the drift a frame tolerates scales accordingly (bit k is sampled 1.5+k bits after the start edge); 22 is the largest Slack that passes: with 23 the next byte can overwrite RDR before it is read |
| `uart_hello` | does the host read exactly the dialogue (`HostReadsDialogue`), is its answer kept while flags are cleared (`AnswerKept`), does main() return 0 (`Succeeds`)? | bytes of 2 bits, 8 cycles a bit, host at 7, 8, 9; a text of four bytes and an uninitialised one; at most 7 idle cycles between accesses | hosts at 6 and 10 fail as they must (`McHelloFits`: 7 to 9 are all that fit); with `MaxIdle` 8 the program can be too late: it clears TX_DONE of R by reading and writing CFG, and 7 is the longest pause with which the answer cannot complete in between |
| `i2c_transfer` | does a transfer move the bytes asked for (`Faithful`), leave the bus free (`LeavesBusFree`), keep SDA still under a high SCL (`SdaStable`), and does polling end (`RequestServed`)? | 2-bit bytes, 2 addresses of which one answers, NBY written as 0 and 3 (rounded to 1 and 2), 2 bytes in RDR and TDR, PRESCALE 2, one NBY write during a transfer | first, middle and last bit and byte differ; absent, refusing and present slave; 0 and a value above the maximum exercise the rounding; two cycles a phase tell SCL's register and SDA's apart |
| `irq_tests` | does main() return success (`NoError`, `Returns`), one interrupt per enable (`OnePerEnable`), only where allowed (`OnlyWhereEnabled`), never for a line going down (`NoStaleTake`)? | lines 0 (does not exist), 3, 7, 11, 26, 31, the random ones 26 and 31, 2x2 matrices, delays of 1 or 2 cycles, one stall | 11, 3, 7 is the order that differs from the numbers; masked, missing and fast lines occur in every word; delays and stalls put the registers between program and core in every relative position |
| `stream_frames` | is a frame found in step answered (`Answered`) with its own scores (`AnswerIsOfFrame`), and is the program in step again after a bad frame (`InStepAgain`)? | images of 3 bytes, 2 weights, 2 biases, 2 classes, 3 images (a tie, one with a preamble inside), stray bytes, an accelerator that may be late | cuts at every length; a preamble inside a payload and the line ERR occur |

`ExactCycles`, `InStep` and `InBounds` are checked on the small network and
proved for all. Every module has a type invariant; where a run does not list it,
a theorem of section 4 states it, or it was checked with the run's instance and
left out of the configuration.

The run that ends in a counterexample, `i2c_stop`, is in section 5.

Other bounds: `MaxAge` = 4 caps the history counter `age` of the bus, one above
the bound `AnsweredInTime` claims. `hits` saturates at 2. `cycle_cnt_o` is not
bounded in the model (it restarts with every run); in 32 bits it would need a
run of 2^32 cycles to wrap and `ExactCycles` bounds a run to `InferenceCycles`.
`BaudMod` is 16 for 2^16: no counter reaches it unless CPB is changed in the
middle of a frame. `MaxMeddles` is one NBY write per I2C transfer; `heard` and
`told` keep the first `MaxBytes` bytes, which is all a transfer has that is left
alone. `MaxIdle` bounds the jury's program from above only: any shorter pause is
covered. `MaxStalls` bounds the cycles an instruction of `interrupt.c` may take
beyond the first.

**Fairness.** `WF_vars(Tick)`: the clock does not stop. Reset has no fairness
and does not need any: it ends what is being waited for. Liveness of the
wrappers also needs that a polling driver goes on polling, and that a core which
*could take the interrupt in every cycle from some point on* takes it; the latter
is what level sensitivity gives, and it does not help with a pulse. In
`UartLink` and `HelloWorld` the software's pace is a safety bound (`Slack`,
`MaxIdle`), so the clock alone gives `Delivered` and `Succeeds`. `I2cBus` adds
that software that polls goes on polling. In `IrqTest` clock and program are
fair: the core fetches on. In `StreamDemo` program and
accelerator are clocked and a byte begun is sent; the host need not send
anything.

All runs but `irq_tests` check deadlock: in no reachable state is a clock edge
impossible, i.e. no FSM reaches a state or an index without a case. In
`irq_tests` the program ends when main() returns.

## 4. The theorems

Checked by tlapm for *every* value of the constants that satisfies the named
assumptions (`BridgeAssumption`, `SocBusAssumption`, `TimerAssumption`,
`SequencerAssumption`, `AccelAssumption`, `DriverAssumption`, `MatrixAssumption`,
`LineAssumption`, `LinkAssumption`, `HelloAssumption`, `I2cAssumption` and the like: sizes are positive, a network's
arrays have the sizes of the memories, programs use requests, values fit their
registers; `PowersOfTwo`, that 2^SHIFT and 2^(AccBits-1) are positive integers
(`SoftAssumption` says so of 2^(ByteBits-1)), is there because the provers know nothing of `^`). TLC evaluates them on every
instance. What a single theorem assumes beyond that is named with it below.

`SocBus_proofs`. `TypeCorrect`. The rest follows from the inductive invariant
`Transfer`: the handshake flags are never left half set; the bridge is idle
exactly when the core waits for nothing; the latched address and direction are
those of the pending request; a slave has taken it (`hits`) exactly if it is not
idle, only the selected slave can be, and it is in the phase the bridge is in; and
when the bridge awaits a response some slave is giving one. None of
`BusAgreement`, `ExactlyOnce` or `AnsweredInTime` is inductive by itself: each
needs to know the others' state. The proof has one lemma per bridge state
(`TickIdle` ... `TickReadResp`), with `SelUnique` (no address selects two slaves)
and `MuxedIsSel` about the decoder. `ExactlyOnceAlways` adds the arithmetic that
the documented windows imply the decoder's bit tests. `AnsweredInTimeAlways`
assumes `ProgramMapped` (without it the claim is false, see 5) and adds the
invariant `Timing`, which ties `age` to the FSM states.
`ImplementsLoadStoreAlways` is the refinement: under `Transfer` and `Latched` (the
bridge's data and strobes are those of the pending request) the edge at which the
selected slave leaves S_IDLE is LoadStore's instant of effect and every other edge
a stutter, an issue or an answer; a lemma per bridge state again. It assumes
`DoutHeld` (with the vendor's macro the claim is false, section 5) and
`DramApart` (the program keeps to the documented DRAM window and uses no two words
1 KB apart, which `ram_axi` folds onto each other).

`TimerAxi_proofs`. `TypeCorrect`, and `TimerImplements`: for every register
width, the refinement of `IntervalTimer`. `TickAdvance` and `CountAdvance` say what
an edge does to the prescaler's and the counter's distance from their limits,
including values above the limit, in both directions. `Advance` adds them up: a
cycle without a write of PRE, ARE, MOD or CLR, in which the timer is not stopped,
takes exactly one off `Left` or restarts it at `Period - 1`. `ClearPutsOff` and `StopPutsOff` bound
what CLR and stopping add by less than a period; `CountsEvents` says that any edge
but one with CLR or EVC counts the event that is due. The only inductive
invariant needed is the type invariant: the promise holds from every typed state.

`YzAccel_proofs`. About the sequencer alone: `TypeCorrect` (no loop counter leaves
its range), `InStepAlways` and `ExactCyclesAlways`: the cycle counter equals a
closed formula of the loop position in every state, hence an inference takes
`InferenceCycles` for every network shape; `SocInference` evaluates that for the
SoC's network: 344013. `InStep` is inductive together with the type invariant;
the work is that the last pixel, and only it, makes the formula reach the layer's
total (`NextPixel`). With the datapath: `InBoundsAlways`, every index the datapath
forms is inside its memory for every network, through `RowMajor` (i < M and j < N
imply iN+j < MN) and `Sized` (writes keep the domains), and
`DataIndependentCycles`, data never changes the length of a run.

`BitExactAlways`: for every network whose *final* sums fit the accumulator (`Fits`,
the antecedent of `BitExact`), whatever the memories held at power-up and whatever
was started and cancelled before, the logits and the class of a finished inference
are those of `gen_golden.py`. The invariant is `Computes`: in the convolution acc
is, up to a multiple of 2^AccBits, the reference's running sum after as many taps
as the loops have passed, and the activations before the current pixel are those of
the sums, each cut to the width of acc (`WrapAct`); in the FC layer likewise; in
the argmax `am_idx` is the first of the largest logits so far. Partial sums may
wrap: `Wrap` keeps the residue, so the sum is right again modulo the width when it
is used. `Computes` needs no hypothesis; `WrapExact` shows that where the sums fit
nothing is cut, and the result is the reference's.
That pixel, filter and feature counters enumerate the flat index of the reference
is `RowsApart` and `Apart`. `SocNetworksFit` shows that the hypothesis costs
nothing: with the SoC's kernel and feature count, signed bytes and biases up to a
billion, every final sum fits 32 bits (`RunningBounded`, an induction).

`SoftwareAgreesAlways` needs no `Fits`: the C program, given the files of a network
whose numbers have the widths of the memories (`OfWidth`, in `SoftAssumption`),
prints the hardware's logits and class also where sums overflow, and its iteration
count is the hardware's cycles less loads, stores and search. Steps: a number
printed as a residue is read back (`FilesBack`); a loop that wraps at every
addition and skips the taps outside the plane ends with the reference's sum, cut
(`AccumulateIs`, `SoftConvIs`); the cast to a byte loses nothing of an activation
(`SoftActIs`); the class is the first of the largest (`SoftArgmaxIs`); so the program
computes `WrapLogit` (`RunIs`), which is what `Computes` says the datapath holds.

The same module has the lemmas about the driver's writes that the two wrappers
share: which cells an inference wants (`Wanted`), that a driver's list of writes
covers them (`WritesAre`), and that a wanted cell is stored, on its way or still
on the list (`Loading`).

`YzWrappers_proofs`, about both wrappers, so that definitions of `YzTopSram` which
`YzTop` has too begin with Sram. First `YzTop`. `PerfCounterAlways`: the CSR's CYCLE_CNT is the length of the
finished inference for every network and driver, by the invariant `SameCount`
(the CSR's counter equals the datapath's whenever a run is on or done, and a
start pulse prepares the equality). `IdleOutsideRunsAlways`: polling or woken by
the interrupt, cancelling or not, the driver never writes an input or reads a
logit while an inference runs or is about to. Its invariant `RunInv` says what
makes the waiting sound: START stands only in the cycle in which the write of CTRL
is answered, so that no poll can fall between START and the clearing of DONE
(`StartAnswered`); a DONE in an answer, and an interrupt in the core's register,
belong to a run that is over (`DoneIsOver`); and a driver that cancels holds RESET
(`Cancelling`). `DriverMoves` reduces the software to what it does to START and
RESET, and `RunStep` goes through those moves. `ResultIsGoldenAlways`: the logits
collected are the reference's for the image the driver wrote, assuming `Fits` of
the networks the driver uses (`McFits` in the MC module). Its invariants are
`InputsKept` (every wanted cell is in its memory, in the write pulse or on the
list), with which `Released` says that when START is seen nothing is outstanding,
and `Answers` (an answered logit, and those collected, are the memory's).

Then `YzTopSram`. `InputInPlaceAlways` needs no hypothesis: `Copying` says for each
state of the loader how far the copy has got, counting the write that is
still in the pulse register. `LoaderOKAlways` and `SramResultIsGolden` are about
the driver the run checks, `WaitsForIrq` and not `Cancels`: a driver that polls can
read the DONE of the previous run while the loader copies, and collects the
previous logits; one that cancels does not stop the loader, which then shares the
write port with the next image. With either, TLC finds `ResultIsGolden` violated.
`OneRun` is the invariant: at most one of START, loader, start pulse, datapath,
interrupt pulse and registered interrupt is under way, and none while the driver
does not sleep. The result also needs `N_IN <= SramWords`, the input fits the
buffer (64 pixels and 256 words in the ASIC), and `Fits`; `McDriver` and `McFits`
in the MC module state these of the instance.

`IrqTest_proofs`. `FlagsAlways`, `OnePerEnableAlways`, `OnlyWhereEnabledAlways`,
for every set of lines, matrix, delay of the generator and number of stalls. That
main() and the handler both rewrite `mstatus` through the global `mmstatus` is
harmless only because of where they do it, so the invariant `IInv` ties the flags
to the program counters: which label a helper returns to (`CallsReturn`), that the
handler's path follows the test main() is in (`ModeInStep`, `HandlerPath`), that a
handler cannot be interrupted and, outside test 5, leaves MPIE off before its mret
(`HandlerMasks`), and that nothing is served between the sample of the word and
the enable (`Sampled`). Neither property is inductive without these. The proof has
a lemma per group of main()'s statements, one for trap entry and stalls, and one
for the handler's statements; `BitsWritten` states what csrs and csrc leave.

`NoStaleTakeAlways` is about the delay: `LinesAlways` states for each of the four
registers between the program and the core what it shows, by where main() or the
handler is, the two processes of the generator included. `NoErrorAlways`: the
program's own verdict. `ServedInOrder` shows that in tests 2 and 3 the lines served
are the table's first i that are raised and enabled, in the order of the priority
encoder (`TableInOrder`, `Priority`); `PInv` follows the matrix product through
interrupts, with the running sum in a5 or on the handler's stack (`Live`). Its
hypothesis `IsProduct` is that the table of expected results is the product of
the two matrices, which holds of `matrix.h` (100 entries, recomputed outside TLA+)
and, as `McExpectedIsProduct`, of the instance.

`SerialLine_proofs`. First `UartLink`. `WaitCoversAlways` and `WriteAcceptedAlways`: for every width of
a byte, bit time (`LineAssumption`: software writes a CPB from 1 to what the
register holds) and alphabet, whatever the far end does, t1()'s blind wait is
enough and no byte it writes is dropped. The invariant compares `Sending`, the
cycles the transmitter still needs from where it is in the frame, with what is
left of the wait; `SendingFalls` shows that every cycle takes one off it.

`ByteForByteAlways` and `NothingLostAlways` have the hypothesis `LinkFits`. A far
end is `Tolerated` when its last data bit is sampled inside itself and its frame is
not over before the stop bit is sampled; this is exact: TLC finds `ByteForByte`
violated just outside, and `McFits` evaluates that in the instance it means 7 to 10
cycles. `Slack + 6` bounds the time in which RDR is read and RX_DONE cleared by the
time of a frame. `Cpb > 2` leaves out CPB 1, with which the receiver never leaves
RX_START, and CPB 2, for which TLC finds no violation but the invariant does not
hold: the last data bit of a looped frame is still in the synchroniser when the
transmitter is idle.

`LinkInv`, the invariant, says where line and receiver are in the frame: `At` is the
cycle of the frame on the line, `RxAt` the one in which the receiver believes to be,
and `Following` that they differ by the two cycles of the synchroniser. The other
places (`Somewhere`) are those a drifting far end leads to: the byte is done and
its frame is not over (`Trailing`); the rest of a slow last data bit has passed for
a start bit, and RX_START finds that out in its middle (`Misled`); the frame is over
before the receiver is (`Ending`), or even the next one has begun (`Overlapping`).
Each says which bytes are in flight beside the one in RDR. `Shows` states what the
line and the two registers of the synchroniser carry, `Heard` which bits have been
shifted in. `InTime` is about the software: what it needs at most until RX_DONE is
cleared (`Left`) is less than what the receiver needs for the next byte, so that no
byte overwrites RDR (`NoOverrun`) and none is done in the cycle of the clear. The
proof has a lemma for what one cycle does to the line (`LineStep`), the
synchroniser, the receiver (`RxStep`), the software (`InTimeStep`) and what is in
flight (`FlightStep`), and one for each place (`FollowingMoves` ...). TLC checked
`LinkInv` for bytes of one to three bits, several Cpb from 3 to 9, and the slowest and
fastest far ends, before it was proved.

Then `HelloWorld`. `HostReadsDialogueAlways` and `AnswerKeptAlways` hold for every
text, size of `msg` and contents of its rest, byte width, bit time, host and pace of
the program for which `HelloFits` holds: `LineFits` as above for what the host sends;
`Heeds`, the host samples every bit of the UART inside that bit and has finished
with the frame before the program can begin the next; and `Clears`, the program's
three pauses after R's frame leave TX_DONE cleared before the answer is complete.
At the jury's CPB of 434 these allow host bits of 413 to 435 cycles (a slow host is
late for the next start bit) and, with an exact host, pauses of 1373 cycles. They
are needed: in the instance of `uart_hello` TLC finds `HostReadsDialogue` violated with
hosts at 6 and 10, the first that `Heeds` refuses, and `AnswerKept` with `MaxIdle` 8,
the first that `Clears` refuses.

`HelloInv`, the invariant, has four parts. `ProgramInv` ties the program to the
transmitter (`Follows`): a frame is sent only while the program polls for its end,
TX_DONE comes after it and is gone before the next, and TDR holds the byte of the
dialogue the program is about; `Begun` counts the frames begun from `pc` and `index`.
`HostInv`: the transcript is a beginning of the dialogue, and the host either reads
at the very cycle of the frame that is sent (`InStep`), has read it already (`Ahead`),
waits (`Awaits`), or reads the rest of a frame that is over (`Behind`), for which
`ToStart`, the least number of cycles until the program begins the next one, must
suffice. `LineTyped`, `RxTyped`, `Line`, `Synchronised` and `Heard` are those of `LinkInv`
with A as the byte. `AnswerInv`: the answer is not sent yet (`NotYet`), on its way
(`OnTheWay`) or received (`Arrived`). While it is not received RX_DONE is clear, and if
the program has still to clear TX_DONE of R, it needs no more cycles (`Due`) than the
answer (`ToPulse`): that deadline, `Soon`, is why the write of `CFG &= ~TX_DONE` never
takes RX_DONE with it, and it is what makes `AnswerKept` inductive. Once received,
RX_DONE stands until the program has seen it. `ProgramCases` says what the program
does in a cycle in eighteen cases, which `ProgramStep`, `ProgramHears` and
`ProgramClears` go through; line and receiver are moved by the lemmas of `UartLink`.
TLC checked `HelloInv` on the instance of `uart_hello` before it was proved.

`I2cBus_proofs`. `SdaStableAlways`: for every prescaler, width, number of bytes and
data, and a slave that keeps to the bus rules. `BusInv` says that from the second
cycle of a bit on SDA is driven as the state wants it (`Settled`), and that the
first cycle is one in which SCL goes low (`DividerMoves`). For the acknowledgement
the master gives, that depends on NBY, which nobody but a meddler writes while the
master is busy: hence `BusyMeansPolling` and `DoneMeansIdle`, which tie the
software to the done flags. `SlaveInTime` is the same for the slave's side.

`FaithfulAlways`, `LeavesBusFreeAlways` and `TypeOKAlways` need `PRESCALE > 1`: with
one cycle to a quarter of SCL the master samples SDA in the very cycle in which the
slave sees the rise, and TLC finds `Faithful` violated; `i2c_master_axi.sv` l.26
sets 25. Their invariant `TalkInv` relates the master's state, bit counter and
shift registers to the slave's record of the same byte. `Clock` puts SCL, and the
slave's memory of it, a fixed number of cycles behind the phase, so that a cycle of
a bit is one of four (`BitCycle`): the slave sees a fall, it sees a rise, nothing
happens to it, the period ends. `Steady` rules out that it takes a bit for START
or STOP. `Talk` has one conjunct for each state of the machine (`InAddr`, `InRxData`
...) and one lemma for each shows what the state hands to the next; `BitsSent`, `BitsIn`
and `BitAhead` are the bits that are on both sides already, one more in the master
than in the slave between the sample and the rise the slave sees. Registers the
software leaves alone are held (`RunHeld`), which is where `Undisturbed` comes in.
TLC checked `TalkInv` for PRESCALE 2 and 3 before it was proved.

`StreamDemo_proofs`. `TypeCorrect`, `AnswerIsOfFrameAlways` and `InStepAgainAlways`,
for every size of image and weights, file, payload, and order of well-formed,
truncated and overfull frames. `ScoresAssumption` (the accelerator gives a number
for every class) is all they ask of the network. `DemoInv`, the invariant, rests on
`Pending`: n bytes of what the host sent have been read or lost, and the rest is in
RDR and at the host, in order. While the weights load, the sequence is `File` and
what is stored its first n bytes (`LoadingWeights`). Afterwards it is the last frame,
preamble included. A frame that began while the program searched is `InStep`: from n
follows where the program is (`Position`), which pixels it has, and that a finished
line is right. One that did not is `OutOfStep`: its
bytes fill an image begun before, are lost while the program waits or prints, or
are searched. If it is well formed (`goods` = 1) what is left of it
suffices for what is left of an image, so that an image taken from its middle is
over before the frame is; and unless an AA stood there (`stray`), the program
searches when the frame ends. That is why one well-formed frame is enough to be in
step again. `BestIs` shows that the scores have a first
greatest, which `Best` (main() l.51-52) is. TLC checked `DemoInv` on the instance of `stream_frames`,
with and without `Bounded`, before it was proved.

Induction over data is done here with least counterexamples: the numbers for which
the claim fails are a set, `LeastNatural` picks its least, and the definition of
the recursive function at that number contradicts it (`RunningIs`,
`RunningBounded`). That needs no operator parameter, so the provers can follow.

Only model-checked: liveness (`EventuallyAnswered`, `EventsKeepComing`,
`EventuallyDone`, `WaitEnds`, `Delivered`, `Succeeds`, `RequestServed`, `Answered`,
`Returns`), which tlapm's temporal backend cannot derive from fairness. Every safety
property of a passing run is the subject of a theorem.

## 5. Where the code departs from what is said of it

With a counterexample:

- `i2c_stop`. `i2c_master_axi.sv` l.403-411 enters I_STOP with SCL high and keeps
  it high. A slave that acknowledged the last byte releases SDA when SCL falls,
  which it never does: SDA stays low, no STOP appears, and the slave goes on
  waiting for a bit of this transfer; the START of the next transfer is not seen
  and its address is taken as data. Reads (the master's NACK releases the slave)
  and writes whose last byte was refused end well: `LeavesBusFree`. The test
  bench does not see it, because its slave never pulls SDA.

Without a run of their own, each with the instance that shows it:

- IRAM on the data port. The header of `soc_top_axi.sv` (l.9) lists Boot ROM and
  IRAM among the data port's slaves; the decoder has neither. A load from there is
  never answered and the core hangs; `demo.ld` l.8 places `.rodata` in IRAM.
  (`bus_routing` with `Addrs <- IramAddrs`, `Program <- IramProgram` violates
  `EventuallyAnswered`.)
- `ram_axi.sv` l.135 answers a load one cycle after the macro drove dout0 ("SRAM
  dout hazir"); in the vendor's model dout0 has become unknown by then. The
  simulation model in `tb/` holds it, which hides this. (`bus_memory` with
  `DoutHeld = FALSE` violates `DoutReady`.)
- `irq_o` is high for one cycle, the core's lines are level sensitive: a driver that
  follows `yz_top.sv` l.15-17 can wait for ever. (`yz_top_polling` with
  `WaitsForIrq = TRUE` violates `WaitEnds`; the demo polls, and `yz_top_polling`
  shows that polling is right.)
- With the SRAM buffer STATUS shows the previous DONE while the loader runs; a driver
  that polls as `tb/yz_top_sram_tb.sv` does gets, from its second inference on,
  the previous image's logits. (`yz_sram_irq` with `WaitsForIrq = FALSE` violates
  `ResultIsGolden`.)
- CTRL.RESET does not reach that loader; a run cancelled while loading starts
  afterwards. (`yz_sram_irq` with `Cancels = TRUE` violates `IdleOutsideRuns`.)
- NBY written while a transfer runs: while the master acknowledges a byte of a read
  under a high SCL, the comparison of `i2c_master_axi.sv` l.391 changes SDA, which
  a slave takes for START or STOP. (`SdaStable` without `Undisturbed`.)
- `demo_stream.c` l.31: an AA that is not followed by 55 swallows the byte after it,
  so AA AA 55 is no preamble. A bad frame followed by payloads that hold AA can
  cost more than one frame. (`InStepAgain` without `~stray`.)
- `helloworld.c` l.42 clears TX_DONE by reading CFG and writing it back. If the
  answer completes in between, its RX_DONE is cleared and the program waits for
  ever; with a real CPU the answer is a frame away, and `AnswerKept` says how slow
  the program may be. (`uart_hello` with `MaxIdle = 8`.)
- The documented 8 KB of DRAM are 1 KB, eight times over: `ram_axi.sv` l.62 takes
  addr[9:2]. `SocBus` models it (`WordAddr`); with two addresses 1 KB apart TLC
  finds `ImplementsLoadStore` violated. `bus_memory` keeps to distinct cells.
- `README.md` l.86 gives 336001 cycles for an inference; theorem `SocInference`
  says 344013. (336001 is the multiply-accumulates and one more cycle, without the loads and stores of the
  convolution and fully connected layers and the argmax.)
- `README.md` l.64 gives the timer "kesme üretimi" (interrupt generation);
  `timer_axi` has no interrupt output.
- `README.md` l.25 gives both UARTs TX and RX; `soc_top_axi.sv` l.466-490 leaves
  UART-0's `rx_i` unconnected.
- `uart_axi.sv` l.6 calls STP the stop bit selection; nothing reads it.
- Counting down, the timer's event is counted when CNT is 0 and reloads.

## 6. What is not modelled

The core itself (vendored; its data port is an environment, its interrupt logic is
modelled), the instruction port and its memory (one actor, which is inside the
core), the QSPI master (not in the SoC), the GPIO pins, the FPGA tops (clock
divider, reset debouncer), the jury's SoC variant in `dtr_demo/`, resets and CPB
writes during UART traffic, test 4 of `interrupt.c` (commented out) and its
printing, the core's other test programs (hardware-loop macros, newlib stubs,
arithmetic: one thread, no device), the superseded OBI SoC, the test benches, and
the ASIC and FPGA flows. Inside
modelled components: registers that are plain storage and drive nothing (STP;
INPUT_ADDR, OUTPUT_ADDR, WEIGHT_ADDR, CFG and LEN of the accelerator), `error_o`
(never set), AXI protection bits and response codes (constant), clock domain
crossing of pins below the level of a clock edge. `PROJECT.json` lists every
component with its reason and every hazard, including those no property covers.

## 7. Plan

Built, in this order: bus, timer, accelerator (sequencer, datapath, CSR, driver,
wrappers), UART; interrupts, C model, I2C, jury test, stream; theorems about all of
them.

What is left:

1. `UartAxi` with CPB, CFG and TDR written at any time; resets during traffic.
2. The YZ drivers on top of `SocBus` in one composition, in place of the argument
   that merges the ports.
3. `InstrPort` with a prefetcher; the GPIO pins; `QspiMaster`; the reset debouncer.
