------------------------------ MODULE IrqTest ------------------------------
(***************************************************************************)
(* example_tb/core/interrupt/interrupt.c on the core's test bench: main()  *)
(* with its tests 2 (all interrupts at once), 3 (random masks) and 5       *)
(* (interrupts during a matrix product), the one handler all lines share,  *)
(* the interrupt generator and the core's interrupt logic.                 *)
(*                                                                         *)
(* Tick is a clock cycle.  In each the generator and the controller move   *)
(* and the core does one of: enter a handler, the next statement of the    *)
(* handler or of main(), or nothing (an instruction of several cycles or a *)
(* stalled memory).  A statement never takes less than a cycle.            *)
(***************************************************************************)
EXTENDS IrqController, IrqGenerator, Sequences

CONSTANTS
  Dim, Mat1, Mat2, Expected,   \* matrix.h
  MaxStalls                    \* bound on the cycles without a statement

VARIABLES
  \* The globals of interrupt.c: irq_pending32_std, the sampled word and
  \* the first one are pending, prev and first.
  irq_id, pending, prev, first, mmstatus, irq_mode,
  \* The core: the statement of main() and where the helper it called
  \* returns to, the statement of the handler, the line being served, a
  \* register of main() and its copy on the stack, loop counters.
  pc, ret, h, cause, a5, saved, i, s, res,
  exit,      \* what main() returned
  stalls     \* cycles without a statement so far

globalVars == <<irq_id, pending, prev, first, mmstatus, irq_mode>>
mainVars == <<pc, ret, i, s, res>>
handlerVars == <<h, cause, saved>>
vars == <<cpuIrqVars, genVars, globalVars, mainVars, handlerVars, a5, exit, stalls>>

ASSUME MatrixAssumption ==
  /\ Dim \in Nat \ {0}
  /\ Mat1 \in [1 .. Dim -> [1 .. Dim -> Nat]]
  /\ Mat2 \in [1 .. Dim -> [1 .. Dim -> Nat]]
  /\ MaxStalls \in Nat

IRQ_NUM == 19
IRQ_ID_PRIORITY ==
  <<31, 30, 29, 28, 27, 26, 25, 24, 23, 22, 21, 20, 19, 18, 17, 16, 11, 3, 7>>

\* STD_IRQ_MASK = 0xFFFF0888.
STD_IRQ_MASK == Lines \cap ((16 .. 31) \cup {3, 7, 11})

-----------------------------------------------------------------------------
(***************************************************************************)
(* Frames.  A statement of main() changes the registers of the test bench  *)
(* only where it says so.                                                  *)
(***************************************************************************)
NoWritew == GeneratorStep(reg10, reg14)
Writew10(mode) == GeneratorStep(mode, reg14)
Writew14(word) == GeneratorStep(reg10, word)

InMain == UNCHANGED <<handlerVars, stalls>>
Goto(l) == pc' = l
KeepGlobals == UNCHANGED globalVars
KeepCsrs == UNCHANGED <<mie_q, mstatus>>
KeepMat == UNCHANGED <<a5, s, res>>

\* Calls mstatus_disable (or _enable) and comes back at label l.
CallDisable(l) == pc' = "dis_r" /\ ret' = l
CallEnable(l) == pc' = "en_r" /\ ret' = l

\* csrr to the global mmstatus, the MIE bit cleared there, csrw from it: three
\* statements, between which a handler may run.
BugMasked == [mmstatus EXCEPT !.mpie = FALSE]   \* clears bit 7 instead of 3
Masked == [mmstatus EXCEPT !.mie = FALSE]

mstatus_disable ==
  /\ \/ /\ pc = "dis_r" /\ mmstatus' = mstatus /\ Goto("dis_w")
        /\ UNCHANGED <<mstatus, ret>>
     \/ /\ pc = "dis_w" /\ mmstatus' = Masked /\ mstatus' = mmstatus'
        /\ Goto(ret) /\ UNCHANGED ret
  /\ UNCHANGED <<irq_id, pending, prev, first, irq_mode, mie_q, i, exit>>
  /\ KeepMat /\ InMain /\ NoWritew

mstatus_enable ==
  /\ \/ /\ pc = "en_r" /\ mmstatus' = mstatus /\ Goto("en_w")
        /\ UNCHANGED <<mstatus, ret>>
     \/ /\ pc = "en_w" /\ mmstatus' = [mmstatus EXCEPT !.mie = TRUE]
        /\ mstatus' = mmstatus' /\ Goto(ret) /\ UNCHANGED ret
  /\ UNCHANGED <<irq_id, pending, prev, first, irq_mode, mie_q, i, exit>>
  /\ KeepMat /\ InMain /\ NoWritew

-----------------------------------------------------------------------------
(***************************************************************************)
(* main().  "t<n>_..." are statements of test n.                           *)
(***************************************************************************)
\* Test 1 only sets things up: every line enabled, software-defined mode.
Test1 ==
  /\ \/ /\ pc = "t1_mie" /\ WriteMie(Lines) /\ Goto("t1_mode") /\ NoWritew
        /\ UNCHANGED ret
     \/ /\ pc = "t1_mode" /\ Writew10("SD") /\ CallDisable("t2_mie")
        /\ UNCHANGED mie_q
  /\ KeepGlobals /\ KeepMat /\ InMain /\ UNCHANGED <<mstatus, i, exit>>

\* Test 2: every bit of the word is raised, the lines that do not exist too.
Test2Start ==
  /\ \/ /\ pc = "t2_mie" /\ WriteMie(Lines) /\ pending' = Lines
        /\ CallDisable("t2_lines") /\ NoWritew /\ UNCHANGED i
     \/ /\ pc = "t2_lines" /\ Writew14(pending) /\ i' = 1 /\ Goto("t2_loop")
        /\ UNCHANGED <<mie_q, pending, ret>>
  /\ UNCHANGED <<irq_id, prev, first, mmstatus, irq_mode, mstatus, exit>>
  /\ KeepMat /\ InMain

\* The loop of test 2 over the lines that are represented, and that of test 3
\* over those of irq_to_test32_std, which is first & ie_mask32_std:
\* sample the word, enable interrupts, wait until a handler changed the word,
\* and look which one it was.
ToTest(test, l) == l \in Lines /\ (test = 3 => l \in first \cap mie_q)
Sample(test, loop, wait, next) ==
  /\ pc = loop
  /\ IF i <= IRQ_NUM
       THEN IF ToTest(test, IRQ_ID_PRIORITY[i])
              THEN prev' = pending /\ CallEnable(wait) /\ UNCHANGED i
              ELSE i' = i + 1 /\ UNCHANGED <<prev, pc, ret>>
       ELSE Goto(next) /\ UNCHANGED <<prev, ret, i>>
  /\ UNCHANGED exit

Wait(wait, check) ==
  /\ pc = wait
  /\ pc' = IF prev = pending THEN pc ELSE check
  /\ UNCHANGED <<prev, ret, i, exit>>

CheckId(check, loop, code) ==
  /\ pc = check
  /\ IF IRQ_ID_PRIORITY[i] # irq_id
       THEN exit' = code /\ UNCHANGED <<pc, i>>
       ELSE i' = i + 1 /\ Goto(loop) /\ UNCHANGED exit
  /\ UNCHANGED <<prev, ret>>

ServeLoop ==
  /\ \/ Sample(2, "t2_loop", "t2_wait", "t3_build") \/ Wait("t2_wait", "t2_check")
     \/ CheckId("t2_check", "t2_loop", "ERR_CODE_TEST_2")
     \/ Sample(3, "t3_loop", "t3_wait", "t3_final") \/ Wait("t3_wait", "t3_check")
     \/ CheckId("t3_check", "t3_loop", "ERR_CODE_TEST_3")
  /\ UNCHANGED <<irq_id, pending, first, mmstatus, irq_mode>>
  /\ KeepCsrs /\ KeepMat /\ InMain /\ NoWritew

\* Test 3: random_num picks bits of the mask and of the word, of which only
\* those of implemented lines stay.
Test3Start ==
  /\ \/ /\ pc = "t3_build"
        /\ irq_id' = 0
        /\ \E ie, word \in SUBSET Lines :
             /\ mie_q' = ie \cap STD_IRQ_MASK
             /\ pending' = word \cap STD_IRQ_MASK
             /\ first' = pending'
        /\ CallDisable("t3_lines") /\ NoWritew /\ UNCHANGED i
     \/ /\ pc = "t3_lines" /\ Writew14(pending) /\ i' = 1 /\ Goto("t3_loop")
        /\ UNCHANGED <<irq_id, pending, first, mie_q, ret>>
  /\ UNCHANGED <<prev, mmstatus, irq_mode, mstatus, exit>>
  /\ KeepMat /\ InMain

\* The interrupts that were masked, and only those, are left.
Test3Final ==
  /\ pc = "t3_final"
  /\ IF pending # first \ mie_q
       THEN exit' = "ERR_CODE_TEST_3" /\ UNCHANGED <<pc, ret>>
       ELSE CallDisable("t5_mie") /\ UNCHANGED exit
  /\ KeepGlobals /\ KeepCsrs /\ KeepMat /\ InMain /\ NoWritew /\ UNCHANGED i

\* Test 5: random mode, interrupts on, the product, interrupts off.
Test5Start ==
  /\ \/ /\ pc = "t5_mie" /\ WriteMie(Lines) /\ NoWritew /\ Goto("t5_mode")
        /\ UNCHANGED <<irq_mode, ret, s>>
     \/ /\ pc = "t5_mode" /\ irq_mode' = "RND" /\ Writew10("RND")
        /\ Goto("t5_served") /\ UNCHANGED <<mie_q, ret, s>>
     \/ /\ pc = "t5_served" /\ CallEnable("mat") /\ s' = 0 /\ NoWritew
        /\ UNCHANGED <<irq_mode, mie_q>>
  /\ UNCHANGED <<irq_id, pending, prev, first, mmstatus, mstatus, a5, res, i, exit>>
  /\ InMain

\* mat_mult, a step for each turn of its inner loop; a5 holds the running sum.
Row == (s \div (Dim * Dim)) + 1
Col == ((s \div Dim) % Dim) + 1
Mid == (s % Dim) + 1
mat_mult ==
  /\ pc = "mat"
  /\ IF s < Dim * Dim * Dim
       THEN /\ a5' = (IF Mid = 1 THEN 0 ELSE a5) + Mat1[Row][Mid] * Mat2[Mid][Col]
            /\ res' = [res EXCEPT ![Row][Col] = a5']
            /\ s' = s + 1
            /\ UNCHANGED <<pc, ret>>
       ELSE CallDisable("t5_check") /\ UNCHANGED <<a5, res, s>>
  /\ KeepGlobals /\ KeepCsrs /\ InMain /\ NoWritew /\ UNCHANGED <<i, exit>>

Test5Check ==
  /\ pc = "t5_check"
  /\ exit' = IF res = Expected THEN "EXIT_SUCCESS" ELSE "ERR_CODE_TEST_5"
  /\ KeepGlobals /\ KeepCsrs /\ KeepMat /\ InMain /\ NoWritew
  /\ UNCHANGED <<pc, ret, i>>

MainStep ==
  /\ ~irq_req_ctrl
  /\ h = "none"
  /\ \/ Test1 \/ Test2Start \/ Test3Start \/ ServeLoop \/ Test3Final
     \/ Test5Start \/ mat_mult \/ Test5Check
     \/ mstatus_disable \/ mstatus_enable

-----------------------------------------------------------------------------
(***************************************************************************)
(* Trap entry and FAST_IRQ_GENERIC.  The interrupt attribute of isr.h makes*)
(* the compiler save and restore the registers the handler uses.           *)
(***************************************************************************)
TakeIrq ==
  /\ irq_req_ctrl
  /\ cause' = irq_id_ctrl
  /\ mstatus' = OnTrap
  /\ h' = "save"
  /\ KeepGlobals /\ NoWritew
  /\ UNCHANGED <<mainVars, mie_q, a5, saved, exit, stalls>>

Save ==
  /\ h = "save" /\ saved' = a5 /\ a5' = cause /\ h' = "id"
  /\ KeepGlobals /\ KeepCsrs /\ NoWritew /\ UNCHANGED cause

\* The handler's own bit leaves the word; in random mode the word is mip.
Identify ==
  /\ h = "id"
  /\ irq_id' = cause
  /\ pending' = (IF irq_mode = "RND" THEN irq_q ELSE pending) \ {cause}
  /\ h' = "lines"
  /\ KeepCsrs /\ NoWritew
  /\ UNCHANGED <<prev, first, mmstatus, irq_mode, cause, a5, saved>>

BugAcknowledge ==
  /\ h = "lines" /\ NoWritew   \* the line is not taken down
  /\ h' = IF irq_mode = "RND" THEN "std" ELSE "mask_r"
  /\ KeepGlobals /\ KeepCsrs /\ UNCHANGED <<cause, a5, saved>>

Acknowledge ==
  /\ h = "lines" /\ Writew14(pending)
  /\ h' = IF irq_mode = "RND" THEN "std" ELSE "mask_r"
  /\ KeepGlobals /\ KeepCsrs /\ UNCHANGED <<cause, a5, saved>>

\* Random mode: a pulse of standard mode makes the generator drop its word.
Toggle ==
  /\ \/ h = "std" /\ irq_mode' = "STD" /\ h' = "std10" /\ NoWritew
     \/ h = "std10" /\ Writew10(irq_mode) /\ h' = "rnd" /\ UNCHANGED irq_mode
     \/ h = "rnd" /\ irq_mode' = "RND" /\ h' = "rnd10" /\ NoWritew
     \/ h = "rnd10" /\ Writew10(irq_mode) /\ h' = "restore" /\ UNCHANGED irq_mode
  /\ UNCHANGED <<irq_id, pending, prev, first, mmstatus, cause, a5, saved>>
  /\ KeepCsrs

BugMaskReturn ==   \* MPIE stays set
  /\ \/ h = "mask_r" /\ mmstatus' = mstatus /\ h' = "mask_w" /\ UNCHANGED mstatus
     \/ h = "mask_w" /\ mmstatus' = mmstatus /\ mstatus' = mmstatus' /\ h' = "restore"
  /\ UNCHANGED <<irq_id, pending, prev, first, irq_mode, cause, a5, saved, mie_q>>
  /\ NoWritew

\* Other modes: MPIE is cleared, so that mret leaves interrupts off.
MaskReturn ==
  /\ \/ h = "mask_r" /\ mmstatus' = mstatus /\ h' = "mask_w" /\ UNCHANGED mstatus
     \/ /\ h = "mask_w" /\ mmstatus' = [mmstatus EXCEPT !.mpie = FALSE]
        /\ mstatus' = mmstatus' /\ h' = "restore"
  /\ UNCHANGED <<irq_id, pending, prev, first, irq_mode, cause, a5, saved, mie_q>>
  /\ NoWritew

Restore ==
  /\ h = "restore" /\ a5' = saved /\ h' = "mret"
  /\ KeepGlobals /\ KeepCsrs /\ NoWritew /\ UNCHANGED <<cause, saved>>

Mret ==
  /\ h = "mret" /\ h' = "none" /\ mstatus' = OnMret
  /\ KeepGlobals /\ NoWritew /\ UNCHANGED <<mie_q, cause, a5, saved>>

HandlerStep ==
  /\ ~irq_req_ctrl
  /\ \/ Save \/ Identify \/ Acknowledge \/ Toggle \/ MaskReturn \/ Restore \/ Mret
  /\ UNCHANGED <<mainVars, exit, stalls>>

\* An instruction that takes another cycle, or waits for the memory.
Stall ==
  /\ stalls < MaxStalls
  /\ stalls' = stalls + 1
  /\ KeepGlobals /\ KeepCsrs /\ NoWritew
  /\ UNCHANGED <<mainVars, handlerVars, a5, exit>>

-----------------------------------------------------------------------------
Init ==
  /\ CpuIrqInit /\ GenInit
  /\ irq_id = 0 /\ pending = {} /\ prev = {} /\ first = {}
  /\ mmstatus = [mie |-> FALSE, mpie |-> FALSE] /\ irq_mode = "RESET"
  /\ pc = "t1_mie" /\ ret = "t1_mie" /\ i = 1 /\ s = 0
  /\ res = [r \in 1 .. Dim |-> [c \in 1 .. Dim |-> 0]]
  /\ h = "none" /\ cause = 0 /\ a5 = 0 /\ saved = 0
  /\ exit = "running" /\ stalls = 0

\* The simulation ends when main() returns.
Tick ==
  /\ exit = "running"
  /\ MainStep \/ TakeIrq \/ HandlerStep \/ Stall
  /\ SampleLines(lines_q)

Next == Tick
Spec == Init /\ [][Next]_vars

\* The clock never stops.
FairSpec == Spec /\ WF_vars(Tick)

-----------------------------------------------------------------------------
(***************************************************************************)
(* Properties.                                                             *)
(***************************************************************************)
Labels ==
  {"t1_mie", "t1_mode", "t2_mie", "t2_lines", "t2_loop", "t2_wait", "t2_check",
   "t3_build", "t3_lines", "t3_loop", "t3_wait", "t3_check", "t3_final",
   "t5_mie", "t5_mode", "t5_served", "mat", "t5_check",
   "dis_r", "dis_w", "en_r", "en_w"}
HandlerLabels ==
  {"none", "save", "id", "lines", "std", "std10", "rnd", "rnd10",
   "mask_r", "mask_w", "restore", "mret"}
Codes ==
  {"running", "EXIT_SUCCESS", "ERR_CODE_TEST_2", "ERR_CODE_TEST_3",
   "ERR_CODE_TEST_5"}

\* Every register, global and label holds a value of its range; in particular
\* the loops never look past the end of IRQ_ID_PRIORITY.
TypeOK ==
  /\ CpuIrqTypeOK /\ GenTypeOK
  /\ reg14 \subseteq Lines
  /\ irq_id \in Lines \cup {0} /\ cause \in Lines \cup {0}
  /\ pending \subseteq Lines /\ prev \subseteq Lines /\ first \subseteq Lines
  /\ mmstatus \in [mie : BOOLEAN, mpie : BOOLEAN]
  /\ irq_mode \in Modes
  /\ pc \in Labels /\ ret \in Labels /\ h \in HandlerLabels
  /\ i \in 1 .. IRQ_NUM + 1
  /\ pc \in {"t2_wait", "t2_check", "t3_wait", "t3_check"} => i <= IRQ_NUM
  /\ s \in 0 .. Dim * Dim * Dim
  /\ a5 \in Nat /\ saved \in Nat
  /\ res \in [1 .. Dim -> [1 .. Dim -> Nat]]
  /\ exit \in Codes
  /\ stalls \in 0 .. MaxStalls

\* The test's own verdict: whatever masks and words are drawn and whenever the
\* lines move, interrupts are served in the order of IRQ_ID_PRIORITY, masked
\* ones stay pending, and the product is undisturbed (interrupt.c's error
\* returns against the encoder, the generator and the handler).
NoError == exit \in {"running", "EXIT_SUCCESS"}

\* Outside random mode interrupts are enabled only while none has been served
\* since main() last sampled the word: every enable is good for one interrupt,
\* although handler and main() both rewrite mstatus through one global.
OnePerEnable ==
  mstatus.mie /\ irq_mode # "RND" => pending = prev /\ h = "none"

\* main() can be interrupted only in its two waiting loops and between the
\* enable and the end of the disable around the product: an interrupt between
\* csrr and csrw of mstatus_disable does not undo it.
OnlyWhereEnabled ==
  mstatus.mie \/ h # "none" =>
    \/ pc \in {"t2_wait", "t3_wait", "mat"}
    \/ pc \in {"dis_r", "dis_w"} /\ ret = "t5_check"

\* An interrupt is taken for a line that still asks for it: one that is
\* raised by the program, enabled and not yet served or, in random mode, one
\* of the word the generator holds up.  A line on its way down through the
\* three registers between program and core is never taken again.
NoStaleTake ==
  [][h = "none" /\ h' = "save" =>
       cause' \in IF irq_mode = "RND" /\ gen.at = "raised" THEN gen.word
                  ELSE IF irq_mode = "RND" THEN {}
                  ELSE pending \cap mie_q]_vars

\* The expected result of matrix.h is the product of its matrices: sums holds,
\* for each entry of it, the sums of the first products.
IsProduct(sums) ==
  /\ sums \in [1 .. Dim -> [1 .. Dim -> [0 .. Dim -> Nat]]]
  /\ Expected \in [1 .. Dim -> [1 .. Dim -> Nat]]
  /\ \A r, c \in 1 .. Dim :
       /\ sums[r][c][0] = 0
       /\ \A k \in 1 .. Dim :
            sums[r][c][k] = sums[r][c][k - 1] + Mat1[r][k] * Mat2[k][c]
       /\ Expected[r][c] = sums[r][c][Dim]

\* main() returns: no wait for an interrupt is in vain, and interrupts do not
\* keep the product from finishing.
Returns == <>(exit # "running")

=============================================================================
