--------------------------- MODULE IrqTest_proofs ---------------------------
(***************************************************************************)
(* Proofs about IrqTest, for every set of lines, matrix, delay and number  *)
(* of stalls.                                                              *)
(***************************************************************************)
EXTENDS IrqTest, FiniteSetTheorems, TLAPS

FlagBits == [mie : BOOLEAN, mpie : BOOLEAN]

\* main() is in test 5 from the statement that sets irq_mode on.
Late ==
  \/ pc \in {"t5_served", "mat", "t5_check"}
  \/ pc \in {"en_r", "en_w"} /\ ret = "mat"
  \/ pc \in {"dis_r", "dis_w"} /\ ret = "t5_check"

Flags == mstatus \in FlagBits /\ mmstatus \in FlagBits

\* Where the two helpers return to.
CallsReturn ==
  /\ pc \in {"dis_r", "dis_w"} =>
       ret \in {"t2_mie", "t2_lines", "t3_lines", "t5_mie", "t5_check"}
  /\ pc \in {"en_r", "en_w"} => ret \in {"t2_wait", "t3_wait", "mat"}

\* The mode main() set, but for the handler's pulse of standard mode.
ModeInStep ==
  irq_mode = IF ~Late THEN "RESET"
             ELSE IF h \in {"std10", "rnd"} THEN "STD" ELSE "RND"

\* Test 5 takes the handler's pulse, the tests before it its mstatus write.
HandlerPath ==
  /\ h \in {"std", "std10", "rnd", "rnd10"} => Late
  /\ h \in {"mask_r", "mask_w"} => ~Late

\* A handler is not interrupted, and outside test 5 its mret leaves
\* interrupts off.
HandlerMasks ==
  /\ h # "none" => ~mstatus.mie
  /\ h = "mask_w" => ~mmstatus.mie
  /\ h \in {"restore", "mret"} /\ ~Late => ~mstatus.mpie

\* Nothing has been served between the sample of the word and the enable.
Sampled ==
  pc \in {"en_r", "en_w"} /\ ret \in {"t2_wait", "t3_wait"} => prev = pending

IInv ==
  /\ Flags /\ CallsReturn /\ ModeInStep /\ HandlerPath
  /\ HandlerMasks /\ Sampled /\ OnePerEnable /\ OnlyWhereEnabled

LEMMA InitIInv == Init => IInv
BY DEF Init, CpuIrqInit, IInv, Flags, FlagBits, CallsReturn, ModeInStep, Late,
       HandlerPath, HandlerMasks, Sampled, OnePerEnable, OnlyWhereEnabled

\* What the bit instructions leave in a copy of mstatus.
LEMMA BitsWritten ==
  ASSUME NEW f, f \in FlagBits
  PROVE  /\ [f EXCEPT !.mie = FALSE] \in FlagBits
         /\ ~[f EXCEPT !.mie = FALSE].mie
         /\ [f EXCEPT !.mie = TRUE] \in FlagBits
         /\ [f EXCEPT !.mpie = FALSE] \in FlagBits
         /\ ~[f EXCEPT !.mpie = FALSE].mpie
         /\ [f EXCEPT !.mpie = FALSE].mie = f.mie
BY DEF FlagBits

\* main() sets up a test: registers of the test bench, masks, the word.
LEMMA SetUpKeeps ==
  ASSUME IInv, h = "none", Test1 \/ Test2Start \/ Test3Start \/ Test3Final
  PROVE  IInv'
<1> USE DEF IInv, Flags, FlagBits, CallsReturn, ModeInStep, Late, HandlerPath,
            HandlerMasks, Sampled, OnePerEnable, OnlyWhereEnabled
<1>1. CASE Test1
  BY <1>1, SMT DEF Test1, Goto, CallDisable, KeepGlobals, KeepMat, globalVars,
       InMain, handlerVars
<1>2. CASE Test2Start
  BY <1>2, SMT DEF Test2Start, Goto, CallDisable, KeepMat, InMain, handlerVars
<1>3. CASE Test3Start
  BY <1>3, SMT DEF Test3Start, Goto, CallDisable, KeepMat, InMain, handlerVars
<1>4. CASE Test3Final
  BY <1>4, SMT DEF Test3Final, CallDisable, KeepGlobals, KeepMat, KeepCsrs,
       globalVars, InMain, handlerVars
<1> QED BY <1>1, <1>2, <1>3, <1>4

\* main() serves the interrupts of a word one by one; a wait ends only when the
\* handler has changed the word, and then its mret has left interrupts off.
LEMMA LoopKeeps ==
  ASSUME IInv, h = "none", ServeLoop
  PROVE  IInv'
<1> USE DEF IInv, Flags, FlagBits, CallsReturn, ModeInStep, Late, HandlerPath,
            HandlerMasks, Sampled, OnePerEnable, OnlyWhereEnabled
<1>1. CASE ServeLoop
  BY <1>1, SMT DEF ServeLoop, Sample, Wait, CheckId, Goto, CallEnable,
       KeepCsrs, KeepMat, InMain, handlerVars
<1> QED BY <1>1

\* Test 5.
LEMMA ProductKeeps ==
  ASSUME IInv, h = "none", Test5Start \/ mat_mult \/ Test5Check
  PROVE  IInv'
<1> USE DEF IInv, Flags, FlagBits, CallsReturn, ModeInStep, Late, HandlerPath,
            HandlerMasks, Sampled, OnePerEnable, OnlyWhereEnabled
<1>1. CASE Test5Start
  BY <1>1, SMT DEF Test5Start, CallEnable, Goto, InMain, handlerVars, WriteMie
<1>2. CASE mat_mult
  BY <1>2, SMT DEF mat_mult, CallDisable, KeepGlobals, globalVars, KeepCsrs,
       InMain, handlerVars
<1>3. CASE Test5Check
  BY <1>3, SMT DEF Test5Check, KeepGlobals, globalVars, KeepCsrs, KeepMat,
       InMain, handlerVars
<1> QED BY <1>1, <1>2, <1>3

\* The helpers: a handler that runs between the statements of mstatus_disable
\* does so in test 5 only.
LEMMA HelpersKeep ==
  ASSUME IInv, h = "none", mstatus_disable \/ mstatus_enable
  PROVE  IInv'
<1> USE DEF IInv, Flags, FlagBits, CallsReturn, ModeInStep, Late, HandlerPath,
            HandlerMasks, Sampled, OnePerEnable, OnlyWhereEnabled
<1>1. CASE mstatus_disable /\ pc = "dis_r"
  BY <1>1, SMT DEF mstatus_disable, Goto, KeepMat, InMain, handlerVars
<1>2. CASE mstatus_disable /\ pc = "dis_w"
  <2> HIDE DEF FlagBits
  <2>1. mmstatus \in FlagBits
    OBVIOUS
  <2>2. mstatus' \in FlagBits /\ mmstatus' \in FlagBits /\ ~mstatus'.mie
    BY <1>2, <2>1, BitsWritten DEF mstatus_disable, Masked
  <2>3. /\ pc' = ret
        /\ UNCHANGED <<pending, prev, irq_mode, h, ret>>
    BY <1>2 DEF mstatus_disable, Goto, KeepMat, InMain, handlerVars
  <2> QED
    BY <1>2, <2>2, <2>3, SMT
<1>3. CASE mstatus_enable /\ pc = "en_r"
  BY <1>3, SMT DEF mstatus_enable, Goto, KeepMat, InMain, handlerVars
<1>4. CASE mstatus_enable /\ pc = "en_w"
  <2> HIDE DEF FlagBits
  <2>1. mmstatus \in FlagBits
    OBVIOUS
  <2>2. mstatus' \in FlagBits /\ mmstatus' \in FlagBits
    BY <1>4, <2>1, BitsWritten DEF mstatus_enable
  <2>3. /\ pc' = ret
        /\ UNCHANGED <<pending, prev, irq_mode, h, ret>>
    BY <1>4 DEF mstatus_enable, Goto, KeepMat, InMain, handlerVars
  <2> QED
    BY <1>4, <2>2, <2>3, SMT
<1> QED BY <1>1, <1>2, <1>3, <1>4 DEF mstatus_disable, mstatus_enable

\* Trap entry masks interrupts.
LEMMA TrapKeeps ==
  ASSUME IInv, TakeIrq \/ Stall
  PROVE  IInv'
<1> USE DEF IInv, Flags, FlagBits, CallsReturn, ModeInStep, Late, HandlerPath,
            HandlerMasks, Sampled, OnePerEnable, OnlyWhereEnabled
<1>1. CASE TakeIrq
  BY <1>1, SMT DEF TakeIrq, OnTrap, KeepGlobals, globalVars, KeepCsrs,
       mainVars, irq_req_ctrl
<1>2. CASE Stall
  BY <1>2, SMT DEF Stall, KeepGlobals, globalVars, KeepCsrs, mainVars,
       handlerVars
<1> QED BY <1>1, <1>2

\* The handler, statement by statement.
LEMMA HandlerKeeps ==
  ASSUME IInv, UNCHANGED mainVars, Save \/ Identify \/ Acknowledge \/ Toggle
         \/ MaskReturn \/ Restore \/ Mret
  PROVE  IInv'
<1> USE DEF IInv, Flags, FlagBits, CallsReturn, ModeInStep, Late, HandlerPath,
            HandlerMasks, Sampled, OnePerEnable, OnlyWhereEnabled
<1>1. CASE Save
  BY <1>1, SMT DEF Save, KeepGlobals, globalVars, KeepCsrs, mainVars
<1>2. CASE Identify
  BY <1>2, SMT DEF Identify, KeepGlobals, globalVars, KeepCsrs, mainVars
<1>3. CASE Acknowledge
  BY <1>3, SMT DEF Acknowledge, KeepGlobals, globalVars, KeepCsrs, mainVars
<1>4. CASE Toggle
  BY <1>4, SMT DEF Toggle, KeepGlobals, globalVars, KeepCsrs, mainVars
<1>5. CASE MaskReturn /\ h = "mask_r"
  BY <1>5, SMT DEF MaskReturn, mainVars
<1>6. CASE MaskReturn /\ h = "mask_w"
  <2> HIDE DEF FlagBits
  <2>1. mmstatus \in FlagBits
    OBVIOUS
  <2>2. mstatus' \in FlagBits /\ mmstatus' \in FlagBits /\ ~mstatus'.mpie
        /\ mstatus'.mie = mmstatus.mie
    BY <1>6, <2>1, BitsWritten DEF MaskReturn
  <2>3. /\ h' = "restore"
        /\ UNCHANGED <<pending, prev, irq_mode, pc, ret>>
    BY <1>6 DEF MaskReturn, mainVars
  <2> QED
    BY <1>6, <2>2, <2>3, SMT
<1>7. CASE Restore
  BY <1>7, SMT DEF Restore, KeepGlobals, globalVars, KeepCsrs, mainVars
<1>8. CASE Mret
  BY <1>8, SMT DEF Mret, OnMret, KeepGlobals, globalVars, KeepCsrs, mainVars
<1> QED BY <1>1, <1>2, <1>3, <1>4, <1>5, <1>6, <1>7, <1>8 DEF MaskReturn

\* The inductive step.
LEMMA NextKeeps == IInv /\ [Next]_vars => IInv'
<1> SUFFICES ASSUME IInv, [Next]_vars PROVE IInv'
  OBVIOUS
<1>1. CASE MainStep
  BY <1>1, SetUpKeeps, LoopKeeps, ProductKeeps, HelpersKeep DEF MainStep
<1>2. CASE TakeIrq \/ Stall
  BY <1>2, TrapKeeps
<1>3. CASE HandlerStep
  BY <1>3, HandlerKeeps DEF HandlerStep
<1>4. CASE UNCHANGED vars
  BY <1>4 DEF vars, cpuIrqVars, globalVars, mainVars, handlerVars,
       IInv, Flags, FlagBits, CallsReturn, ModeInStep, Late,
       HandlerPath, HandlerMasks, Sampled, OnePerEnable, OnlyWhereEnabled
<1> QED BY <1>1, <1>2, <1>3, <1>4 DEF Next, Tick

\* The flags and the places of main() and of the handler agree throughout.
THEOREM FlagsAlways == Spec => []IInv
<1>1. Init => IInv
  BY InitIInv
<1>2. IInv /\ [Next]_vars => IInv'
  BY NextKeeps
<1> QED BY <1>1, <1>2, PTL DEF Spec

\* For every set of lines, matrix and delay: outside random mode an enable is
\* good for one interrupt (the handler clears MPIE, interrupt.c l.162-167).
THEOREM OnePerEnableAlways == Spec => []OnePerEnable
<1>1. IInv => OnePerEnable
  BY DEF IInv
<1> QED BY <1>1, FlagsAlways, PTL

\* For every set of lines, matrix and delay: main() is interrupted only where
\* it waits for it, and never inside mstatus_enable, nor inside mstatus_disable
\* but for the one that ends test 5.
THEOREM OnlyWhereEnabledAlways == Spec => []OnlyWhereEnabled
<1>1. IInv => OnlyWhereEnabled
  BY DEF IInv
<1> QED BY <1>1, FlagsAlways, PTL

-----------------------------------------------------------------------------
(***************************************************************************)
(* The encoder of the interrupt controller.                                *)
(***************************************************************************)

\* A set of numbers that is not empty has a least one.
LEMMA LeastNatural ==
  ASSUME NEW T, T \subseteq Nat, T # {}
  PROVE  \E x \in T : \A y \in T : x <= y
<1> DEFINE U == {0 .. n : n \in T}
           R == StrictSubsetOrdering(Nat)
<1>1. IsWellFoundedOn(R, FiniteSubsetsOf(Nat))
  BY FS_StrictSubsetOrderingWellFounded
<1>2. U \subseteq FiniteSubsetsOf(Nat) /\ U # {}
  <2>1. ASSUME NEW n \in T
        PROVE  0 .. n \in FiniteSubsetsOf(Nat)
    BY FS_Interval DEF FiniteSubsetsOf
  <2> QED BY <2>1
<1> HIDE DEF U, R
<1>3. PICK u \in U : \A v \in U : ~ (<<v, u>> \in R)
  BY <1>1, <1>2, WFMin, Zenon
<1>4. PICK x \in T : u = 0 .. x
  BY DEF U
<1>5. ASSUME NEW y \in T
      PROVE  x <= y
  <2>1. 0 .. y \in U
    BY DEF U
  <2>2. ~ (<<0 .. y, 0 .. x>> \in R)
    BY <1>3, <1>4, <2>1
  <2>3. ~ (0 .. y \subseteq 0 .. x /\ 0 .. y # 0 .. x)
    BY <2>2 DEF R, StrictSubsetOrdering
  <2> QED BY <2>3
<1>6. QED BY <1>5

\* The rank of a line.
LEMMA RankType == ASSUME NEW l \in 0 .. 31 PROVE Rank(l) \in Nat
  BY DEF Rank

\* The encoder picks a line that asks and is enabled, and none before it does.
LEMMA EncoderPicks ==
  ASSUME irq_local_qual # {}, irq_local_qual \subseteq 0 .. 31
  PROVE  /\ irq_id_ctrl \in irq_local_qual
         /\ \A k \in irq_local_qual : Rank(irq_id_ctrl) <= Rank(k)
<1> DEFINE T == {Rank(l) : l \in irq_local_qual}
<1>1. T \subseteq Nat /\ T # {}
  BY RankType
<1>2. PICK x \in T : \A y \in T : x <= y
  BY <1>1, LeastNatural
<1>3. PICK l \in irq_local_qual : x = Rank(l)
  OBVIOUS
<1>4. \A k \in irq_local_qual : Rank(l) <= Rank(k)
  BY <1>2, <1>3
<1>5. QED BY <1>4 DEF irq_id_ctrl

-----------------------------------------------------------------------------
(***************************************************************************)
(* The lines between program and core.                                     *)
(***************************************************************************)
\* main() is in one of its two helpers and comes back at l.
Disabling(l) == pc \in {"dis_r", "dis_w"} /\ ret = l
Enabling(l) == pc \in {"en_r", "en_w"} /\ ret = l

\* The places where the first 0 to 3 of the four registers between program
\* and core (reg14, irq_sd_lines, irq_lines_q, irq_q) may be behind the word.
Behind0 ==
  \/ h = "lines"
  \/ h = "none" /\ pc = "t3_lines"
  \/ h = "none" /\ Disabling("t3_lines")
Behind1 ==
  \/ Behind0
  \/ h = "mask_r"
  \/ h = "none" /\ pc \in {"t3_loop", "t3_final", "t5_mie", "t5_mode"}
  \/ h = "none" /\ Disabling("t5_mie")
Behind2 ==
  \/ Behind1
  \/ h = "mask_w"
  \/ h = "none" /\ pc = "en_r" /\ ret = "t3_wait"
Behind3 ==
  \/ Behind2
  \/ h = "restore"
  \/ h = "none" /\ pc = "en_w" /\ ret = "t3_wait"

\* A register shows nothing yet or exactly the implemented lines of the word.
Shows(X) == X \in {{}, pending \cap Implemented}

\* Before test 2 draws up its word.
Begun ==
  /\ pc \notin {"t1_mie", "t1_mode", "t2_mie"}
  /\ ~Disabling("t2_mie")

\* Tests 2 and 3: the software-defined lines on their way to the core.
SoftwareLines ==
  /\ reg10 \in {"RESET", "SD"} /\ irq_mode_q \in {"RESET", "SD"}
  /\ gen.at = "idle"
  /\ ~Begun => pending = {}
  /\ ~Behind0 => Shows(reg14 \cap Implemented)
  /\ ~Behind1 => Shows(sd_lines)
  /\ ~Behind2 => Shows(lines_q)
  /\ ~Behind3 => Shows(irq_q)

\* The two processes of the generator and what they drive.
GenStates ==
  [at : {"idle", "count", "raised"}, word : SUBSET RndLines, n : Nat]
Processes ==
  /\ gen \in GenStates
  /\ ~sampling => sd_lines = {}
  /\ rnd_lines = IF gen.at = "raised" THEN gen.word ELSE {}

\* Lines of test 5 are of the word the generator holds up.
Raising(X) == X # {} => gen.at = "raised" /\ X \subseteq gen.word

\* Test 5, by statement of the handler: from the trap to the pulse of standard
\* mode the word stays up, and before the handler returns what the pulse took
\* down has left every register.
RandomLines ==
  /\ h \in {"none", "save", "id", "lines", "std", "std10", "rnd", "rnd10",
            "restore", "mret"}
  /\ h \in {"none", "save", "id", "lines", "std", "std10", "mret"} =>
       reg10 = "RND" /\ (pc # "t5_served" => irq_mode_q = "RND")
  /\ pc = "t5_served" => h = "none" /\ irq_mode_q # "STD"
  /\ h \in {"save", "id", "lines", "std", "std10"} => gen.at = "raised"
  /\ h = "rnd" =>
       /\ reg10 = "STD"
       /\ \/ gen.at = "raised" /\ irq_mode_q = "RND"
          \/ gen.at = "idle" /\ irq_mode_q = "STD"
  /\ h = "rnd10" => reg10 = "STD" /\ irq_mode_q = "STD" /\ gen.at = "idle"
  /\ h = "restore" =>
       /\ reg10 = "RND" /\ Raising(lines_q)
       /\ \/ irq_mode_q = "STD" /\ gen.at = "idle" /\ lines_q = {}
          \/ irq_mode_q = "RND" /\ Raising(irq_q)
  /\ h = "mret" => Raising(lines_q) /\ Raising(irq_q)
  /\ h = "none" /\ pc \notin {"t5_served", "en_r"} => Raising(lines_q)
  /\ h = "none" /\ pc \notin {"t5_served", "en_r", "en_w"} => Raising(irq_q)

LInv ==
  /\ Processes
  /\ irq_q \subseteq Implemented
  /\ ~Late => SoftwareLines
  /\ Late => RandomLines

\* What a write to registers 10 and 14 leaves there.
LEMMA Written ==
  ASSUME NEW mode, NEW word, GeneratorStep(mode, word)
  PROVE  reg10' = mode /\ reg14' = word /\ GeneratorStep(reg10', reg14')
  BY DEF GeneratorStep

\* What the random process leaves in its record.
LEMMA GenWritten ==
  ASSUME NEW g \in GenStates
  PROVE  /\ \A k \in Nat : /\ [g EXCEPT !.n = k] \in GenStates
                           /\ [g EXCEPT !.n = k].at = g.at
                           /\ [g EXCEPT !.n = k].word = g.word
         /\ [g EXCEPT !.at = "raised", !.n = 0] \in GenStates
         /\ [g EXCEPT !.at = "raised", !.n = 0].at = "raised"
         /\ [g EXCEPT !.at = "raised", !.n = 0].word = g.word
         /\ Idle \in GenStates /\ Idle.at = "idle"
  BY DEF GenStates, Idle

\* One edge of the two processes, whatever the program writes.
LEMMA ProcessEdge ==
  ASSUME Processes, NEW mode, NEW word, GeneratorStep(mode, word)
  PROVE  /\ Processes'
         /\ irq_mode_q' = reg10
         /\ Copied \in {{}, reg14 \cap Implemented}
         /\ sd_lines' = Copied
<1> USE DEF GeneratorStep, SdSample, Processes
<1>1. irq_mode_q' = reg10 /\ sd_lines' = Copied
  OBVIOUS
<1>2. Copied \in {{}, reg14 \cap Implemented}
  BY DEF Copied
<1>3. ~sampling' => sd_lines' = {}
  BY DEF Copied
<1>4. /\ gen' \in GenStates
      /\ rnd_lines' = IF gen'.at = "raised" THEN gen'.word ELSE {}
  <2>1. CASE Draw
    <3>1. CASE gen' = gen
      BY <2>1, <3>1 DEF Draw
    <3>2. CASE gen' # gen
      <4>1. PICK w \in SUBSET RndLines, k \in MinCycles .. MaxCycles :
              gen' = [at |-> "count", word |-> w, n |-> k + 1]
        BY <2>1, <3>2 DEF Draw
      <4>2. k + 1 \in Nat
        BY GeneratorAssumption
      <4>3. gen' \in GenStates /\ gen'.at = "count"
        BY <4>1, <4>2 DEF GenStates
      <4> QED BY <2>1, <4>3 DEF Draw
    <3> QED BY <3>1, <3>2
  <2>2. CASE Count
    <3>1. gen.n \in Nat /\ gen.n > 1
      BY <2>2 DEF Count, GenStates
    <3>2. gen.n - 1 \in Nat /\ gen' = [gen EXCEPT !.n = gen.n - 1]
      BY <2>2, <3>1 DEF Count
    <3>3. gen.at = "count" /\ gen \in GenStates
      BY <2>2 DEF Count
    <3>4. gen' \in GenStates /\ gen'.at = "count"
      BY <3>2, <3>3, GenWritten, Zenon
    <3> QED BY <2>2, <3>4 DEF Count
  <2>3. CASE Raise
    <3>1. CASE ModeSeen("STD")
      BY <2>3, <3>1, GenWritten DEF Raise
    <3>2. CASE ~ModeSeen("STD")
      <4>1. gen' = [gen EXCEPT !.at = "raised", !.n = 0]
        BY <2>3, <3>2 DEF Raise
      <4>2. gen' \in GenStates /\ gen'.at = "raised" /\ gen'.word = gen.word
        BY <4>1, GenWritten
      <4> QED BY <2>3, <3>2, <4>2 DEF Raise
    <3> QED BY <3>1, <3>2
  <2>4. CASE Clear
    <3>1. CASE ModeSeen("STD")
      BY <2>4, <3>1, GenWritten DEF Clear
    <3>2. CASE ~ModeSeen("STD")
      BY <2>4, <3>2 DEF Clear
    <3> QED BY <3>1, <3>2
  <2> QED BY <2>1, <2>2, <2>3, <2>4
<1>5. QED BY <1>1, <1>2, <1>3, <1>4

\* What a statement of tests 1 to 3 does to the word and to the places where
\* the registers may be behind it: a change of the word puts all of them
\* behind, a write of register 14 starts them again, and each edge after that
\* brings the next one up to date.
Shift ==
  /\ reg10' \in {"RESET", "SD"}
  /\ ~Begun' => ~Begun /\ pending' = pending
  /\ ~Behind0' => /\ pending' = pending \/ pending = {}
                  /\ \/ ~Behind0 /\ reg14' = reg14
                     \/ reg14' = pending'
  /\ ~Behind1' => ~Behind0
  /\ ~Behind2' => ~Behind1
  /\ ~Behind3' => ~Behind2

\* One edge under such a statement.
LEMMA SoftwareEdge ==
  ASSUME Processes, SoftwareLines, Shift, GeneratorStep(reg10', reg14'),
         SampleLines(lines_q)
  PROVE  SoftwareLines'
<1> USE DEF SoftwareLines
<1>1. /\ irq_mode_q' = reg10
      /\ Copied \in {{}, reg14 \cap Implemented}
      /\ sd_lines' = Copied
  BY ProcessEdge
<1>2. gen'.at = "idle"
  BY DEF GeneratorStep, Draw, Count, Raise, Clear, ModeSeen
<1>3. reg10' \in {"RESET", "SD"} /\ irq_mode_q' \in {"RESET", "SD"}
  BY <1>1 DEF Shift
<1>4. ~Begun' => pending' = {}
  BY DEF Shift
<1>5. lines_q' \in {{}, sd_lines, Copied}
  BY DEF GeneratorStep, Routed
<1>6. irq_q' = lines_q \cap Implemented
  BY DEF SampleLines
<1>8. ~Behind0' => Shows(reg14 \cap Implemented)'
  <2> SUFFICES ASSUME ~Behind0'
               PROVE  Shows(reg14 \cap Implemented)'
    OBVIOUS
  <2>1. CASE reg14' = pending'
    BY <2>1 DEF Shows
  <2>2. CASE ~Behind0 /\ reg14' = reg14
    <3>1. Shows(reg14 \cap Implemented)
      BY <2>2
    <3>2. pending' = pending \/ pending = {}
      BY DEF Shift
    <3> QED BY <2>2, <3>1, <3>2 DEF Shows
  <2> QED BY <2>1, <2>2 DEF Shift
<1>9. ~Behind1' => Shows(sd_lines)'
  <2> SUFFICES ASSUME ~Behind1'
               PROVE  Shows(sd_lines)'
    OBVIOUS
  <2>1. ~Behind0 /\ ~Behind0'
    BY DEF Shift, Behind1
  <2>2. Shows(reg14 \cap Implemented) /\ (pending' = pending \/ pending = {})
    BY <2>1 DEF Shift
  <2> QED BY <1>1, <2>2 DEF Shows
<1>10. ~Behind2' => Shows(lines_q)'
  <2> SUFFICES ASSUME ~Behind2'
               PROVE  Shows(lines_q)'
    OBVIOUS
  <2>1. ~Behind1 /\ ~Behind0 /\ ~Behind0'
    BY DEF Shift, Behind1, Behind2
  <2>2. /\ Shows(reg14 \cap Implemented) /\ Shows(sd_lines)
        /\ pending' = pending \/ pending = {}
    BY <2>1 DEF Shift
  <2> QED BY <1>1, <1>5, <2>2 DEF Shows
<1>11. ~Behind3' => Shows(irq_q)'
  <2> SUFFICES ASSUME ~Behind3'
               PROVE  Shows(irq_q)'
    OBVIOUS
  <2>1. ~Behind2 /\ ~Behind0'
    BY DEF Shift, Behind1, Behind2, Behind3
  <2>2. Shows(lines_q) /\ (pending' = pending \/ pending = {})
    BY <2>1 DEF Shift
  <2> QED BY <1>6, <2>2 DEF Shows
<1>12. QED BY <1>2, <1>3, <1>4, <1>8, <1>9, <1>10, <1>11

\* Every statement is one edge of the generator.
LEMMA EveryEdge ==
  ASSUME MainStep \/ TakeIrq \/ HandlerStep \/ Stall
  PROVE  GeneratorStep(reg10', reg14')
<1> USE Written DEF NoWritew, Writew10, Writew14
<1>1. CASE MainStep
  <2>1. CASE Test1 \/ Test2Start \/ Test3Start \/ Test3Final
    BY <2>1 DEF Test1, Test2Start, Test3Start, Test3Final
  <2>2. CASE ServeLoop
    BY <2>2 DEF ServeLoop
  <2>3. CASE Test5Start \/ mat_mult \/ Test5Check
    BY <2>3 DEF Test5Start, mat_mult, Test5Check
  <2>4. CASE mstatus_disable \/ mstatus_enable
    BY <2>4 DEF mstatus_disable, mstatus_enable
  <2> QED BY <1>1, <2>1, <2>2, <2>3, <2>4 DEF MainStep
<1>2. CASE TakeIrq
  BY <1>2 DEF TakeIrq
<1>3. CASE Stall
  BY <1>3 DEF Stall
<1>4. CASE HandlerStep
  <2>1. CASE Save \/ Identify \/ Acknowledge
    BY <2>1 DEF Save, Identify, Acknowledge
  <2>2. CASE Toggle
    BY <2>2 DEF Toggle
  <2>3. CASE MaskReturn \/ Restore \/ Mret
    BY <2>3 DEF MaskReturn, Restore, Mret
  <2> QED BY <1>4, <2>1, <2>2, <2>3 DEF HandlerStep
<1>5. QED BY <1>1, <1>2, <1>3, <1>4

\* main() in tests 1 to 3.
LEMMA MainShifts ==
  ASSUME IInv, ~Late, SoftwareLines, MainStep
  PROVE  Shift \/ pc = "t5_mode"
<1> USE Written DEF Begun, Disabling, Behind0, Behind1, Behind2, Behind3,
                    NoWritew, Writew10, Writew14, Goto, InMain, handlerVars
<1>1. h = "none" /\ h' = "none" /\ reg10 \in {"RESET", "SD"}
  BY DEF MainStep, Test1, Test2Start, Test3Start, Test3Final, ServeLoop,
         Test5Start, mat_mult, Test5Check, mstatus_disable, mstatus_enable,
         SoftwareLines
<1>2. CASE Test1
  BY <1>1, <1>2, SMT DEF Test1, CallDisable, KeepGlobals, globalVars, Shift
<1>3. CASE Test2Start
  BY <1>1, <1>3, SMT DEF Test2Start, CallDisable, SoftwareLines, Shift
<1>4. CASE Test3Start
  BY <1>1, <1>4, SMT DEF Test3Start, CallDisable, Shift
<1>5. CASE Test3Final
  BY <1>1, <1>5, SMT
     DEF Test3Final, CallDisable, KeepGlobals, globalVars, Shift
<1>6. CASE ServeLoop
  BY <1>1, <1>6, SMT DEF ServeLoop, Sample, Wait, CheckId, CallEnable, Shift,
                         IInv, CallsReturn
<1>7. CASE Test5Start
  BY <1>1, <1>7, SMT DEF Test5Start, Late, Shift
<1>8. CASE mat_mult \/ Test5Check
  BY <1>8 DEF mat_mult, Test5Check, Late
<1>9. CASE mstatus_disable
  BY <1>1, <1>9, SMT DEF mstatus_disable, Late, IInv, CallsReturn, Shift
<1>10. CASE mstatus_enable
  BY <1>1, <1>10, SMT DEF mstatus_enable, Late, IInv, CallsReturn, Shift
<1>11. QED
  BY <1>2, <1>3, <1>4, <1>5, <1>6, <1>7, <1>8, <1>9, <1>10 DEF MainStep

\* Trap, handler and stalls in tests 2 and 3.
LEMMA HandlerShifts ==
  ASSUME IInv, ~Late, SoftwareLines, TakeIrq \/ HandlerStep \/ Stall
  PROVE  Shift
<1> USE Written DEF Begun, Disabling, Behind0, Behind1, Behind2, Behind3,
                    NoWritew, Writew10, Writew14, mainVars
<1>1. UNCHANGED <<pc, ret>> /\ reg10 \in {"RESET", "SD"}
  BY DEF TakeIrq, HandlerStep, Stall, SoftwareLines
<1>2. h # "none" => pc \in {"t2_wait", "t3_wait"}
  BY DEF IInv, OnlyWhereEnabled, Late
<1>3. CASE TakeIrq
  <2>1. h = "none" /\ mstatus.mie
    BY <1>3 DEF TakeIrq, irq_req_ctrl, IInv, HandlerMasks
  <2>2. pc \in {"t2_wait", "t3_wait"}
    BY <2>1 DEF IInv, OnlyWhereEnabled, Late
  <2> QED BY <1>1, <1>3, <2>1, <2>2, SMT
          DEF TakeIrq, KeepGlobals, globalVars, Shift
<1>4. CASE Stall
  BY <1>1, <1>2, <1>4, SMT
     DEF Stall, KeepGlobals, globalVars, handlerVars, Shift
<1>5. CASE HandlerStep /\ (Save \/ Identify \/ Acknowledge)
  BY <1>1, <1>2, <1>5, SMT DEF Save, Identify, Acknowledge, KeepGlobals,
     globalVars, IInv, ModeInStep, Shift
<1>6. CASE HandlerStep /\ (MaskReturn \/ Restore \/ Mret)
  BY <1>1, <1>2, <1>6, SMT DEF MaskReturn, Restore, Mret, KeepGlobals,
     globalVars, Shift
<1>7. CASE HandlerStep /\ Toggle
  BY <1>7, SMT DEF Toggle, IInv, HandlerPath
<1>8. QED BY <1>3, <1>4, <1>5, <1>6, <1>7 DEF HandlerStep

\* One edge in random mode while the pulse of standard mode is not seen: the
\* word that is up stays up, and the lines that move on are of it.
LEMMA RandomEdge ==
  ASSUME Processes, irq_mode_q = "RND", reg10 = "RND",
         GeneratorStep(reg10', reg14'), SampleLines(lines_q)
  PROVE  /\ irq_mode_q' = "RND"
         /\ gen.at = "raised" => gen' = gen
         /\ Raising(lines_q)'
         /\ Raising(lines_q) => Raising(irq_q)'
<1> USE DEF GeneratorStep
<1>1. ~ModeSeen("STD")
  BY DEF ModeSeen
<1>2. gen.at = "raised" => gen' = gen /\ rnd_lines' = rnd_lines
  BY <1>1 DEF Draw, Count, Raise, Clear
<1>3. Raised # {} => gen'.at = "raised" /\ Raised = gen'.word
  <2>1. CASE gen.at = "count" /\ gen.n = 1
    <3>1. Raise
      BY <2>1 DEF Draw, Count, Clear, Processes, GenStates
    <3>2. gen' = [gen EXCEPT !.at = "raised", !.n = 0]
      BY <1>1, <3>1 DEF Raise
    <3>3. gen'.at = "raised" /\ gen'.word = gen.word
      BY <3>2, GenWritten DEF Processes
    <3> QED BY <2>1, <3>3 DEF Raised
  <2>2. CASE ~(gen.at = "count" /\ gen.n = 1)
    BY <1>2, <2>2 DEF Raised, Processes
  <2> QED BY <2>1, <2>2
<1>4. rnd_lines # {} => gen'.at = "raised" /\ rnd_lines = gen'.word
  BY <1>2 DEF Processes
<1>5. lines_q' \in {rnd_lines, Raised}
  BY DEF Routed
<1>6. Raising(lines_q)'
  BY <1>3, <1>4, <1>5 DEF Raising
<1>7. Raising(lines_q) => Raising(irq_q)'
  BY <1>2 DEF Raising, SampleLines
<1>8. QED BY <1>2, <1>6, <1>7

\* One edge after the pulse has been seen: nothing is raised, and the lines
\* the generator routes are none.
LEMMA PulseEdge ==
  ASSUME Processes, irq_mode_q = "STD", gen.at = "idle",
         GeneratorStep(reg10', reg14'), SampleLines(lines_q)
  PROVE  /\ irq_mode_q' = reg10
         /\ lines_q' = {}
         /\ lines_q = {} => irq_q' = {}
         /\ reg10 = "STD" => gen'.at = "idle"
  BY DEF GeneratorStep, Routed, SampleLines, Draw, Count, Raise, Clear, ModeSeen

\* The edge at which the generator sees the pulse.
LEMMA ClearEdge ==
  ASSUME Processes, gen.at = "raised", reg10 = "STD",
         GeneratorStep(reg10', reg14')
  PROVE  irq_mode_q' = "STD" /\ gen'.at = "idle"
  BY DEF GeneratorStep, Draw, Count, Raise, Clear, ModeSeen, Idle

\* Test 5 begins.
LEMMA RandomBegins ==
  ASSUME IInv, ~Late, SoftwareLines, MainStep, pc = "t5_mode"
  PROVE  RandomLines'
<1> USE DEF SoftwareLines
<1>1. h = "none" /\ Test5Start
  BY DEF MainStep, Test1, Test2Start, Test3Start, ServeLoop, Test3Final,
         mat_mult, Test5Check, mstatus_disable, mstatus_enable, Sample, Wait,
         CheckId
<1>2. pc' = "t5_served" /\ h' = "none" /\ reg10' = "RND"
  BY <1>1, Written DEF Test5Start, Goto, Writew10, InMain, handlerVars
<1>3. irq_mode_q' = reg10
  BY <1>1, EveryEdge DEF GeneratorStep, MainStep
<1>4. QED BY <1>2, <1>3 DEF RandomLines

\* main() in test 5.
LEMMA RandomMain ==
  ASSUME IInv, Late, Processes, RandomLines, MainStep, SampleLines(lines_q)
  PROVE  RandomLines'
<1>1. h = "none" /\ h' = "none" /\ reg10 = "RND" /\ reg10' = "RND"
  BY Written
     DEF MainStep, Test1, Test2Start, Test3Start, Test3Final, ServeLoop,
         Test5Start, mat_mult, Test5Check, mstatus_disable, mstatus_enable,
         Sample, Wait, CheckId, Late, RandomLines, InMain, handlerVars,
         NoWritew, IInv, CallsReturn
<1>2. GeneratorStep(reg10', reg14')
  BY EveryEdge
<1>3. irq_mode_q' = "RND"
  BY <1>1, <1>2 DEF GeneratorStep
<1>4. CASE pc = "t5_served"
  <2>1. pc' = "en_r"
    BY <1>4 DEF MainStep, Test1, Test2Start, Test3Start, Test3Final, ServeLoop,
         Test5Start, mat_mult, Test5Check, mstatus_disable, mstatus_enable,
         Sample, Wait, CheckId, CallEnable
  <2> QED BY <1>1, <1>3, <2>1 DEF RandomLines
<1>5. CASE pc # "t5_served"
  <2>1. irq_mode_q = "RND"
    BY <1>1, <1>5 DEF RandomLines
  <2>2. Raising(lines_q)' /\ (Raising(lines_q) => Raising(irq_q)')
    BY <1>1, <1>2, <2>1, RandomEdge
  <2>3. pc' # "t5_served"
    BY <1>5 DEF MainStep, Test1, Test2Start, Test3Start, Test3Final, ServeLoop,
         Test5Start, mat_mult, Test5Check, mstatus_disable, mstatus_enable,
         Sample, Wait, CheckId, CallEnable, CallDisable, Goto, Late, IInv,
         CallsReturn
  <2>4. pc' # "en_w" => pc # "en_r"
    BY DEF MainStep, Test1, Test2Start, Test3Start, Test3Final, ServeLoop,
         Test5Start, mat_mult, Test5Check, mstatus_disable, mstatus_enable,
         Sample, Wait, CheckId, CallEnable, CallDisable, Goto
  <2>5. Raising(lines_q) \/ pc = "en_r"
    BY <1>1, <1>5 DEF RandomLines
  <2> QED BY <1>1, <1>3, <2>2, <2>3, <2>4, <2>5 DEF RandomLines
<1>6. QED BY <1>4, <1>5

\* A trap in test 5 is for a word that is up.
LEMMA RandomTrap ==
  ASSUME IInv, Late, Processes, RandomLines, TakeIrq, SampleLines(lines_q)
  PROVE  RandomLines'
<1>1. h = "none" /\ mstatus.mie
  BY DEF TakeIrq, irq_req_ctrl, IInv, HandlerMasks
<1>2. pc \notin {"t5_served", "en_r", "en_w"}
  BY <1>1 DEF IInv, OnlyWhereEnabled, Late
<1>3. reg10 = "RND" /\ irq_mode_q = "RND" /\ Raising(irq_q)
  BY <1>1, <1>2 DEF RandomLines
<1>4. irq_q # {}
  BY DEF TakeIrq, irq_req_ctrl, irq_local_qual
<1>5. gen.at = "raised"
  BY <1>3, <1>4 DEF Raising
<1>6. /\ GeneratorStep(reg10', reg14') /\ reg10' = "RND"
      /\ h' = "save" /\ pc' = pc
  BY <1>3, EveryEdge, Written DEF TakeIrq, NoWritew, mainVars
<1>7. irq_mode_q' = "RND" /\ gen' = gen
  BY <1>3, <1>5, <1>6, RandomEdge
<1>8. QED BY <1>2, <1>5, <1>6, <1>7 DEF RandomLines

\* The handler and the stalls of test 5.  While a word is up and no pulse is
\* seen everything stays; the rest is the pulse itself.
LEMMA RandomHandler ==
  ASSUME IInv, Late, Processes, RandomLines, HandlerStep \/ Stall,
         SampleLines(lines_q)
  PROVE  RandomLines'
<1> USE Written DEF NoWritew, Writew10, Writew14
<1>1. /\ GeneratorStep(reg10', reg14') /\ UNCHANGED <<pc, ret>>
      /\ h \in {"mask_r", "mask_w"} => FALSE
  BY EveryEdge DEF HandlerStep, Stall, mainVars, IInv, HandlerPath
<1>2. /\ reg10' = reg10 \/ h \in {"std10", "rnd10"}
      /\ h = "none" => h' = "none"
      /\ h = "save" => h' \in {"save", "id"}
      /\ h = "id" => h' \in {"id", "lines"}
      /\ h = "lines" => h' \in {"lines", "std"}
      /\ h = "std" => h' \in {"std", "std10"}
      /\ h = "std10" => \/ h' = "std10" /\ reg10' = reg10
                        \/ h' = "rnd" /\ reg10' = "STD"
      /\ h = "rnd" => h' \in {"rnd", "rnd10"}
      /\ h = "rnd10" => \/ h' = "rnd10" /\ reg10' = reg10
                        \/ h' = "restore" /\ reg10' = "RND"
      /\ h = "restore" => h' \in {"restore", "mret"}
      /\ h = "mret" => h' \in {"mret", "none"}
  <2>1. CASE Stall
    BY <2>1 DEF Stall, handlerVars
  <2>2. CASE Save \/ Identify \/ Acknowledge
    BY <2>2 DEF Save, Identify, Acknowledge, IInv, ModeInStep
  <2>3. CASE Toggle
    BY <2>3 DEF Toggle, IInv, ModeInStep
  <2>4. CASE MaskReturn \/ Restore \/ Mret
    BY <1>1, <2>4 DEF MaskReturn, Restore, Mret
  <2> QED BY <2>1, <2>2, <2>3, <2>4 DEF HandlerStep
<1>3. CASE h \in {"none", "save", "id", "lines", "std", "std10", "mret"}
  <2>1. CASE pc = "t5_served"
    <3>1. h = "none" /\ h' = "none" /\ reg10' = "RND" /\ irq_mode_q' = "RND"
      BY <1>1, <1>2, <2>1 DEF RandomLines, GeneratorStep
    <3> QED BY <1>1, <2>1, <3>1 DEF RandomLines
  <2>2. CASE pc # "t5_served"
    <3>1. reg10 = "RND" /\ irq_mode_q = "RND"
      BY <1>3, <2>2 DEF RandomLines
    <3>2. /\ irq_mode_q' = "RND"
          /\ gen.at = "raised" => gen' = gen
          /\ Raising(lines_q)'
          /\ Raising(lines_q) => Raising(irq_q)'
      BY <1>1, <3>1, RandomEdge
    <3>3. CASE h \in {"none", "mret"}
      BY <1>1, <1>2, <2>2, <3>1, <3>2, <3>3 DEF RandomLines
    <3>4. CASE h \in {"save", "id", "lines", "std", "std10"}
      BY <1>1, <1>2, <2>2, <3>1, <3>2, <3>4 DEF RandomLines
    <3> QED BY <1>3, <3>3, <3>4
  <2> QED BY <2>1, <2>2
<1>4. CASE h \in {"rnd", "rnd10"}
  <2>1. reg10 = "STD" /\ pc' # "t5_served"
    BY <1>1, <1>4 DEF RandomLines
  <2>2. irq_mode_q' = "STD" /\ gen'.at = "idle"
    BY <1>1, <1>4, <2>1, ClearEdge, PulseEdge DEF RandomLines
  <2>3. CASE h = "rnd"
    BY <1>2, <2>1, <2>2, <2>3 DEF RandomLines
  <2>4. CASE h = "rnd10"
    <3>1. irq_mode_q = "STD" /\ gen.at = "idle"
      BY <2>4 DEF RandomLines
    <3>2. lines_q' = {}
      BY <1>1, <3>1, PulseEdge
    <3> QED BY <1>2, <2>1, <2>2, <2>4, <3>2 DEF RandomLines, Raising
  <2> QED BY <1>4, <2>3, <2>4
<1>5. CASE h = "restore"
  <2>1. reg10 = "RND" /\ reg10' = "RND" /\ pc' # "t5_served"
    BY <1>1, <1>2, <1>5 DEF RandomLines
  <2>2. irq_mode_q' = "RND"
    BY <1>1, <2>1 DEF GeneratorStep
  <2>3. Raising(lines_q)' /\ Raising(irq_q)'
    <3>1. CASE irq_mode_q = "STD" /\ gen.at = "idle" /\ lines_q = {}
      BY <1>1, <3>1, PulseEdge DEF Raising
    <3>2. CASE irq_mode_q = "RND"
      <4>1. Raising(lines_q)
        BY <1>5 DEF RandomLines
      <4> QED BY <1>1, <2>1, <3>2, <4>1, RandomEdge
    <3> QED BY <1>5, <3>1, <3>2 DEF RandomLines
  <2> QED BY <1>2, <1>5, <2>1, <2>2, <2>3 DEF RandomLines
<1>6. QED BY <1>3, <1>4, <1>5 DEF RandomLines

\* Test 5 begins with its mode.
LEMMA LateBegins ==
  ASSUME IInv, MainStep, pc = "t5_mode"
  PROVE  Late'
BY DEF MainStep, Test1, Test2Start, Test3Start, Test3Final, ServeLoop,
   Test5Start, mat_mult, Test5Check, mstatus_disable, mstatus_enable,
   Sample, Wait, CheckId, CallEnable, CallDisable, Goto, Late

\* Test 5 is the last test.
LEMMA LateStays ==
  ASSUME IInv, [Next]_vars
  PROVE  /\ Late => Late'
         /\ Late' /\ ~Late => MainStep /\ pc = "t5_mode"
<1> USE DEF Late
<1>1. CASE MainStep
  BY <1>1 DEF MainStep, Test1, Test2Start, Test3Start, Test3Final, ServeLoop,
     Test5Start, mat_mult, Test5Check, mstatus_disable, mstatus_enable,
     Sample, Wait, CheckId, CallEnable, CallDisable, Goto, IInv, CallsReturn
<1>2. CASE TakeIrq \/ HandlerStep \/ Stall \/ UNCHANGED vars
  BY <1>2 DEF TakeIrq, HandlerStep, Stall, mainVars, vars
<1>3. QED BY <1>1, <1>2 DEF Next, Tick

\* The registers between program and core are in step with the word.
THEOREM LinesAlways == Spec => []LInv
<1>1. Init => LInv
  BY GeneratorAssumption
     DEF Init, GenInit, CpuIrqInit, LInv, Processes, GenStates, Late,
         SoftwareLines, Begun, Disabling, Shows
<1>2. IInv /\ LInv /\ [Next]_vars => LInv'
  <2> SUFFICES ASSUME IInv, LInv, [Next]_vars
               PROVE  LInv'
    OBVIOUS
  <2>1. CASE Next
    <3> USE <2>1
    <3>1. /\ MainStep \/ TakeIrq \/ HandlerStep \/ Stall
          /\ SampleLines(lines_q)
      BY DEF Next, Tick
    <3>2. GeneratorStep(reg10', reg14')
      BY <3>1, EveryEdge
    <3>3. Processes'
      BY <3>2, ProcessEdge DEF LInv
    <3>0. irq_q' \subseteq Implemented
      BY <3>1 DEF SampleLines
    <3>4. CASE Late
      <4>1. RandomLines'
        BY <3>1, <3>4, RandomMain, RandomTrap, RandomHandler DEF LInv
      <4> QED BY <3>0, <3>3, <3>4, <4>1, LateStays DEF LInv
    <3>5. CASE ~Late /\ Late'
      <4>1. RandomLines'
        BY <3>5, LateStays, RandomBegins DEF LInv
      <4> QED BY <3>0, <3>3, <3>5, <4>1 DEF LInv
    <3>6. CASE ~Late /\ ~Late'
      <4>1. Shift
        BY <3>1, <3>6, LateBegins, MainShifts, HandlerShifts DEF LInv
      <4>2. SoftwareLines'
        BY <3>1, <3>2, <3>6, <4>1, SoftwareEdge DEF LInv
      <4> QED BY <3>0, <3>3, <3>6, <4>2 DEF LInv
    <3> QED BY <3>4, <3>5, <3>6
  <2>2. CASE UNCHANGED vars
    BY <2>2 DEF vars, cpuIrqVars, genVars, globalVars, mainVars, handlerVars,
       LInv, Processes, Late, SoftwareLines, RandomLines, Raising, Begun,
       Disabling, Shows, Behind0, Behind1, Behind2, Behind3
  <2> QED BY <2>1, <2>2
<1>3. QED BY <1>1, <1>2, FlagsAlways, PTL DEF Spec

\* A line on its way down through the registers between program and core is
\* never taken again: every interrupt is for a line still asked for.
THEOREM NoStaleTakeAlways == Spec => NoStaleTake
<1>1. IInv /\ LInv /\ [Next]_vars =>
        [h = "none" /\ h' = "save" =>
           cause' \in IF irq_mode = "RND" /\ gen.at = "raised" THEN gen.word
                      ELSE IF irq_mode = "RND" THEN {}
                      ELSE pending \cap mie_q]_vars
  <2> SUFFICES ASSUME IInv, LInv, Next, h = "none", h' = "save"
               PROVE  cause' \in
                        IF irq_mode = "RND" /\ gen.at = "raised" THEN gen.word
                        ELSE IF irq_mode = "RND" THEN {}
                        ELSE pending \cap mie_q
    OBVIOUS
  <2>1. TakeIrq
    BY DEF Next, Tick, MainStep, Test1, Test2Start, Test3Start, Test3Final,
       ServeLoop, Test5Start, mat_mult, Test5Check, mstatus_disable,
       mstatus_enable, InMain, handlerVars, HandlerStep, Save, Identify,
       Acknowledge, Toggle, MaskReturn, Restore, Mret, Stall
  <2>2. cause' \in irq_q /\ cause' \in mie_q
    <3>1. irq_local_qual # {} /\ irq_local_qual \subseteq 0 .. 31
      BY <2>1, LinesAssumption
         DEF TakeIrq, irq_req_ctrl, irq_local_qual, LInv, Implemented
    <3>2. irq_id_ctrl \in irq_local_qual
      BY <3>1, EncoderPicks
    <3> QED BY <2>1, <3>2 DEF TakeIrq, irq_local_qual
  <2>3. mstatus.mie
    BY <2>1 DEF TakeIrq, irq_req_ctrl
  <2>4. CASE Late
    <3>1. irq_mode = "RND"
      BY <2>4 DEF IInv, ModeInStep
    <3>2. pc \notin {"t5_served", "en_r", "en_w"}
      BY <2>3, <2>4 DEF IInv, OnlyWhereEnabled
    <3>3. Raising(irq_q)
      BY <2>4, <3>2 DEF LInv, RandomLines
    <3> QED BY <2>2, <3>1, <3>3 DEF Raising
  <2>5. CASE ~Late
    <3>1. irq_mode = "RESET"
      BY <2>5 DEF IInv, ModeInStep
    <3>2. pc \in {"t2_wait", "t3_wait"}
      BY <2>3, <2>5 DEF IInv, OnlyWhereEnabled, Late
    <3>3. Shows(irq_q)
      BY <2>5, <3>2 DEF LInv, SoftwareLines, Behind0, Behind1, Behind2,
                        Behind3, Disabling
    <3> QED BY <2>2, <3>1, <3>3 DEF Shows
  <2> QED BY <2>4, <2>5
<1>2. QED BY <1>1, FlagsAlways, LinesAlways, PTL DEF Spec, NoStaleTake

-----------------------------------------------------------------------------
(***************************************************************************)
(* Tests 2 and 3: the order in which interrupts are served.                *)
(***************************************************************************)
\* The lines of the first n entries of IRQ_ID_PRIORITY that a mask lets by.
Served(n, mask) == {IRQ_ID_PRIORITY[j] : j \in 1 .. n} \cap mask

InTest2 == pc \in {"t2_loop", "t2_wait", "t2_check"} \/ Enabling("t2_wait")
InTest3 ==
  pc \in {"t3_loop", "t3_wait", "t3_check", "t3_final"} \/ Enabling("t3_wait")

\* The word the test started from.
Word == IF InTest2 THEN Lines ELSE first

\* What the tests set up.
SetUp ==
  /\ mie_q \subseteq Implemented /\ first \subseteq Implemented
  /\ pc = "t2_lines" \/ Disabling("t2_lines") =>
       pending = Lines /\ mie_q = Implemented
  /\ InTest2 => mie_q = Implemented
  /\ pc = "t3_lines" \/ Disabling("t3_lines") => pending = first

\* Where the tests stand: all lines before entry i that can be served have
\* been, and none after.
InOrder ==
  /\ i \in 1 .. IRQ_NUM + 1
  /\ pc \in {"t2_loop", "t3_loop"} => pending = Word \ Served(i - 1, mie_q)
  /\ pc = "t3_final" =>
       i = IRQ_NUM + 1 /\ pending = Word \ Served(IRQ_NUM, mie_q)
  /\ pc \notin {"t2_loop", "t3_loop", "t3_final"} =>
       i <= IRQ_NUM /\ IRQ_ID_PRIORITY[i] \in Word \cap mie_q
  /\ pc \in {"en_r", "en_w"} => pending = Word \ Served(i - 1, mie_q)
  /\ pc \in {"t2_wait", "t3_wait"} =>
       /\ prev = Word \ Served(i - 1, mie_q)
       /\ \/ /\ pending = prev
             /\ h \in {"none", "save", "id"}
             /\ h # "none" => cause = IRQ_ID_PRIORITY[i]
          \/ /\ pending = prev \ {IRQ_ID_PRIORITY[i]}
             /\ irq_id = IRQ_ID_PRIORITY[i]
             /\ h \notin {"save", "id"}
  /\ pc \in {"t2_check", "t3_check"} =>
       pending = Word \ Served(i, mie_q) /\ irq_id = IRQ_ID_PRIORITY[i]

OInv ==
  /\ SetUp
  /\ InTest2 \/ InTest3 => InOrder
  /\ exit \notin {"ERR_CODE_TEST_2", "ERR_CODE_TEST_3"}

\* The table, entry by entry.
LEMMA Priority ==
  ASSUME NEW j \in 1 .. IRQ_NUM
  PROVE  IRQ_ID_PRIORITY[j] = IF j <= 16 THEN 32 - j
                              ELSE IF j = 17 THEN 11
                              ELSE IF j = 18 THEN 3 ELSE 7
  BY DEF IRQ_ID_PRIORITY, IRQ_NUM

\* The table has every line that is implemented, in the order of the encoder.
LEMMA TableInOrder ==
  /\ \A j \in 1 .. IRQ_NUM : IRQ_ID_PRIORITY[j] \in 0 .. 31
  /\ \A j, k \in 1 .. IRQ_NUM :
       j < k => Rank(IRQ_ID_PRIORITY[j]) < Rank(IRQ_ID_PRIORITY[k])
  /\ \A l \in Implemented : \E j \in 1 .. IRQ_NUM : l = IRQ_ID_PRIORITY[j]
<1> USE DEF IRQ_NUM
<1>1. \A j \in 1 .. IRQ_NUM :
        /\ IRQ_ID_PRIORITY[j] \in 0 .. 31
        /\ Rank(IRQ_ID_PRIORITY[j]) = IF j <= 16 THEN j ELSE j + 4
  BY Priority DEF Rank
<1>2. \A l \in Implemented : \E j \in 1 .. IRQ_NUM : l = IRQ_ID_PRIORITY[j]
  <2> SUFFICES ASSUME NEW l \in Implemented
               PROVE  \E j \in 1 .. IRQ_NUM : l = IRQ_ID_PRIORITY[j]
    OBVIOUS
  <2>1. CASE l \in 16 .. 31
    <3>1. 32 - l \in 1 .. IRQ_NUM /\ IRQ_ID_PRIORITY[32 - l] = l
      BY <2>1, Priority
    <3> QED BY <3>1
  <2>2. CASE l \in {3, 7, 11}
    <3>1. /\ IRQ_ID_PRIORITY[17] = 11 /\ IRQ_ID_PRIORITY[18] = 3
          /\ IRQ_ID_PRIORITY[19] = 7
      BY Priority
    <3> QED BY <2>2, <3>1
  <2> QED BY <2>1, <2>2 DEF Implemented
<1>3. QED BY <1>1, <1>2

\* One more entry.
LEMMA ServedOne ==
  ASSUME NEW n \in 1 .. IRQ_NUM, NEW mask
  PROVE  /\ Served(n, mask) =
              Served(n - 1, mask) \cup ({IRQ_ID_PRIORITY[n]} \cap mask)
         /\ IRQ_ID_PRIORITY[n] \notin Served(n - 1, mask)
<1> USE DEF IRQ_NUM
<1>1. 1 .. n = (1 .. (n - 1)) \cup {n}
  OBVIOUS
<1>2. \A j \in 1 .. (n - 1) : IRQ_ID_PRIORITY[j] # IRQ_ID_PRIORITY[n]
  <2> SUFFICES ASSUME NEW j \in 1 .. (n - 1),
                      IRQ_ID_PRIORITY[j] = IRQ_ID_PRIORITY[n]
               PROVE  FALSE
    OBVIOUS
  <2>1. j \in 1 .. IRQ_NUM /\ j < n
    OBVIOUS
  <2>2. Rank(IRQ_ID_PRIORITY[j]) < Rank(IRQ_ID_PRIORITY[n])
    BY <2>1, TableInOrder
  <2>3. Rank(IRQ_ID_PRIORITY[n]) \in Nat
    BY TableInOrder, RankType
  <2> QED BY <2>2, <2>3
<1>3. QED BY <1>1, <1>2 DEF Served

\* Nothing is served before the first entry, and all after the last one.
LEMMA ServedEnds ==
  ASSUME NEW mask, mask \subseteq Implemented
  PROVE  Served(0, mask) = {} /\ Served(IRQ_NUM, mask) = mask
<1>1. Served(0, mask) = {}
  <2>1. 1 .. 0 = {}
    OBVIOUS
  <2> QED BY <2>1 DEF Served
<1>2. QED BY <1>1, TableInOrder DEF Served

\* The line the core takes is that of the entry main() has come to.
LEMMA TakenInOrder ==
  ASSUME i \in 1 .. IRQ_NUM, irq_local_qual \subseteq Implemented,
         IRQ_ID_PRIORITY[i] \in irq_local_qual,
         Served(i - 1, irq_local_qual) = {}
  PROVE  irq_id_ctrl = IRQ_ID_PRIORITY[i]
<1> USE DEF IRQ_NUM
<1>1. irq_local_qual \subseteq 0 .. 31
  BY LinesAssumption DEF Implemented
<1>2. /\ irq_id_ctrl \in irq_local_qual
      /\ Rank(irq_id_ctrl) <= Rank(IRQ_ID_PRIORITY[i])
  BY <1>1, EncoderPicks
<1>3. PICK j \in 1 .. IRQ_NUM : irq_id_ctrl = IRQ_ID_PRIORITY[j]
  BY <1>2, TableInOrder
<1>4. ~(j < i)
  BY <1>2, <1>3 DEF Served
<1>5. ~(i < j)
  <2> SUFFICES ASSUME i < j PROVE FALSE
    OBVIOUS
  <2>1. Rank(IRQ_ID_PRIORITY[i]) < Rank(IRQ_ID_PRIORITY[j])
    BY TableInOrder
  <2>2. Rank(IRQ_ID_PRIORITY[i]) \in Nat /\ Rank(IRQ_ID_PRIORITY[j]) \in Nat
    BY TableInOrder, RankType
  <2> QED BY <1>2, <1>3, <2>1, <2>2
<1>6. QED BY <1>3, <1>4, <1>5

\* main() sets up the tests.
LEMMA SetUpOrder ==
  ASSUME IInv, OInv, h = "none",
         Test1 \/ Test2Start \/ Test3Start \/ Test3Final
  PROVE  OInv'
<1> USE DEF OInv, SetUp, InTest2, InTest3, Enabling, Disabling, Goto,
            CallDisable, InMain, handlerVars, KeepMat
<1>1. CASE Test1
  BY <1>1 DEF Test1, KeepGlobals, globalVars, WriteMie
<1>2. CASE Test2Start
  <2>1. CASE pc = "t2_mie"
    BY <1>2, <2>1 DEF Test2Start, WriteMie, Implemented
  <2>2. CASE pc = "t2_lines"
    <3>1. /\ pc' = "t2_loop" /\ i' = 1
          /\ UNCHANGED <<mie_q, pending, first, exit>>
      BY <1>2, <2>2 DEF Test2Start
    <3>2. Served(0, mie_q) = {}
      BY ServedEnds
    <3>3. i' \in 1 .. IRQ_NUM + 1 /\ i' - 1 = 0
      BY <3>1 DEF IRQ_NUM
    <3>4. InOrder'
      BY <2>2, <3>1, <3>2, <3>3 DEF InOrder, Word
    <3> QED BY <2>2, <3>1, <3>4
  <2> QED BY <1>2, <2>1, <2>2 DEF Test2Start
<1>3. CASE Test3Start
  <2>1. CASE pc = "t3_build"
    BY <1>3, <2>1 DEF Test3Start, STD_IRQ_MASK, Implemented
  <2>2. CASE pc = "t3_lines"
    <3>1. /\ pc' = "t3_loop" /\ i' = 1
          /\ UNCHANGED <<mie_q, pending, first, exit>>
      BY <1>3, <2>2 DEF Test3Start
    <3>2. Served(0, mie_q) = {}
      BY ServedEnds
    <3>3. i' \in 1 .. IRQ_NUM + 1 /\ i' - 1 = 0
      BY <3>1 DEF IRQ_NUM
    <3>4. InOrder'
      BY <2>2, <3>1, <3>2, <3>3 DEF InOrder, Word
    <3> QED BY <2>2, <3>1, <3>4
  <2> QED BY <1>3, <2>1, <2>2 DEF Test3Start
<1>4. CASE Test3Final
  <2>1. Served(IRQ_NUM, mie_q) = mie_q
    BY ServedEnds
  <2>2. pending = first \ mie_q
    BY <1>4, <2>1 DEF Test3Final, InOrder, Word
  <2> QED BY <1>4, <2>2 DEF Test3Final, KeepGlobals, KeepCsrs, globalVars
<1>5. QED BY <1>1, <1>2, <1>3, <1>4

\* main() in its loops.
LEMMA LoopOrder ==
  ASSUME IInv, OInv, h = "none", ServeLoop
  PROVE  OInv'
<1> USE DEF OInv, SetUp, InTest2, InTest3, Enabling, Disabling, Goto
<1>1. UNCHANGED <<irq_id, pending, first, mie_q, h>>
  BY DEF ServeLoop, KeepCsrs, InMain, handlerVars
<1>2. (InTest2 \/ InTest3) /\ InOrder /\ i \in Nat
  BY DEF ServeLoop, Sample, Wait, CheckId, InOrder, IRQ_NUM
<1>3. ASSUME NEW t \in {2, 3}, NEW loop, NEW wait, NEW next,
             Sample(t, loop, wait, next),
             <<t, loop, wait, next>> \in
               {<<2, "t2_loop", "t2_wait", "t3_build">>,
                <<3, "t3_loop", "t3_wait", "t3_final">>}
      PROVE  OInv'
  <2> USE <1>3 DEF Sample
  <2>0. /\ pc = loop /\ exit' = exit
        /\ loop = IF t = 2 THEN "t2_loop" ELSE "t3_loop"
        /\ wait = IF t = 2 THEN "t2_wait" ELSE "t3_wait"
        /\ next = IF t = 2 THEN "t3_build" ELSE "t3_final"
    OBVIOUS
  <2>1. pending = Word \ Served(i - 1, mie_q)
    BY <1>2, <2>0 DEF InOrder
  <2>2. Word = IF t = 2 THEN Lines ELSE first
    BY <2>0 DEF Word
  <2>3. CASE i <= IRQ_NUM /\ ToTest(t, IRQ_ID_PRIORITY[i])
    <3>1. /\ pc' = "en_r" /\ ret' = wait /\ prev' = pending /\ i' = i
      BY <2>3 DEF CallEnable
    <3>2. Word' = Word
      BY <1>1, <2>0, <2>2, <3>1 DEF Word
    <3>3. mie_q \subseteq Implemented /\ (t = 2 => mie_q = Implemented)
      BY <2>0
    <3>4. IRQ_ID_PRIORITY[i] \in Word \cap mie_q
      <4>1. i \in 1 .. IRQ_NUM
        BY <1>2, <2>3 DEF InOrder
      <4>2. IRQ_ID_PRIORITY[i] \in (16 .. 31) \cup {3, 7, 11}
        BY <4>1, Priority DEF IRQ_NUM
      <4> QED BY <2>2, <2>3, <3>3, <4>2 DEF ToTest, Implemented
    <3>5. InOrder'
      BY <1>1, <1>2, <2>1, <2>3, <3>1, <3>2, <3>4 DEF InOrder
    <3> QED BY <1>1, <2>0, <3>1, <3>5
  <2>4. CASE i <= IRQ_NUM /\ ~ToTest(t, IRQ_ID_PRIORITY[i])
    <3>1. pc' = pc /\ ret' = ret /\ prev' = prev /\ i' = i + 1
      BY <2>4
    <3>2. Word' = Word
      BY <1>1, <2>0, <2>2, <3>1 DEF Word
    <3>3. mie_q \subseteq Lines
      BY DEF Implemented
    <3>4. IRQ_ID_PRIORITY[i] \notin Word \cap mie_q
      BY <2>2, <2>4, <3>3 DEF ToTest
    <3>5. i \in 1 .. IRQ_NUM /\ i' \in 1 .. IRQ_NUM + 1 /\ i' - 1 = i
      BY <1>2, <2>4, <3>1 DEF InOrder, IRQ_NUM
    <3>6. pending = Word \ Served(i, mie_q)
      BY <2>1, <3>4, <3>5, ServedOne
    <3>7. InOrder'
      BY <1>1, <2>0, <3>1, <3>2, <3>5, <3>6 DEF InOrder
    <3> QED BY <1>1, <2>0, <3>1, <3>7
  <2>5. CASE ~(i <= IRQ_NUM)
    <3>1. pc' = next /\ i' = i
      BY <2>5
    <3>2. i = IRQ_NUM + 1 /\ i - 1 = IRQ_NUM
      BY <1>2, <2>5 DEF InOrder, IRQ_NUM
    <3>3. CASE t = 3
      <4>1. InOrder'
        BY <1>1, <1>2, <2>0, <2>1, <2>2, <3>1, <3>2, <3>3 DEF InOrder, Word
      <4> QED BY <1>1, <2>0, <3>1, <3>3, <4>1
    <3>4. CASE t = 2
      BY <1>1, <2>0, <3>1, <3>4
    <3> QED BY <3>3, <3>4
  <2> QED BY <2>3, <2>4, <2>5
<1>4. CASE Wait("t2_wait", "t2_check") \/ Wait("t3_wait", "t3_check")
  <2> USE <1>4 DEF Wait
  <2>1. UNCHANGED <<prev, i, exit>> /\ Word' = Word
    BY <1>1 DEF Word
  <2>2. CASE prev = pending
    <3>1. pc' = pc
      BY <2>2
    <3>2. InOrder'
      BY <1>1, <1>2, <2>1, <3>1 DEF InOrder
    <3> QED BY <1>1, <2>1, <3>1, <3>2
  <2>3. CASE prev # pending
    <3>1. /\ pc' = IF pc = "t2_wait" THEN "t2_check" ELSE "t3_check"
          /\ pc \in {"t2_wait", "t3_wait"}
      BY <2>3
    <3>2. /\ prev = Word \ Served(i - 1, mie_q)
          /\ pending = prev \ {IRQ_ID_PRIORITY[i]}
          /\ irq_id = IRQ_ID_PRIORITY[i]
          /\ i \in 1 .. IRQ_NUM /\ IRQ_ID_PRIORITY[i] \in Word \cap mie_q
      BY <1>2, <2>3, <3>1 DEF InOrder, IRQ_NUM
    <3>3. pending = Word \ Served(i, mie_q)
      BY <3>2, ServedOne
    <3>4. InOrder'
      BY <1>1, <1>2, <2>1, <3>1, <3>2, <3>3 DEF InOrder, IRQ_NUM
    <3> QED BY <1>1, <2>1, <3>1, <3>4
  <2> QED BY <2>2, <2>3
<1>5. CASE \/ CheckId("t2_check", "t2_loop", "ERR_CODE_TEST_2")
           \/ CheckId("t3_check", "t3_loop", "ERR_CODE_TEST_3")
  <2> USE <1>5 DEF CheckId
  <2>1. /\ pending = Word \ Served(i, mie_q) /\ irq_id = IRQ_ID_PRIORITY[i]
        /\ i \in 1 .. IRQ_NUM
    BY <1>2 DEF InOrder, IRQ_NUM
  <2>2. /\ pc' = IF pc = "t2_check" THEN "t2_loop" ELSE "t3_loop"
        /\ pc \in {"t2_check", "t3_check"}
        /\ i' = i + 1 /\ exit' = exit
    BY <2>1
  <2>3. Word' = Word
    BY <1>1, <2>2 DEF Word
  <2>4. i' - 1 = i /\ i' \in 1 .. IRQ_NUM + 1
    BY <2>1, <2>2 DEF IRQ_NUM
  <2>5. InOrder'
    BY <1>1, <2>1, <2>2, <2>3, <2>4 DEF InOrder
  <2> QED BY <1>1, <2>2, <2>5
<1>6. QED BY <1>3, <1>4, <1>5 DEF ServeLoop

\* Nothing of this is touched in test 5.
LEMMA ProductOrder ==
  ASSUME IInv, OInv, h = "none", Test5Start \/ mat_mult \/ Test5Check
  PROVE  OInv'
<1> USE DEF OInv, SetUp, InTest2, InTest3, Enabling, Disabling, Goto
<1>1. CASE Test5Start
  BY <1>1 DEF Test5Start, WriteMie, CallEnable
<1>2. CASE mat_mult
  BY <1>2 DEF mat_mult, CallDisable, KeepGlobals, globalVars, KeepCsrs
<1>3. CASE Test5Check
  BY <1>3 DEF Test5Check, KeepGlobals, globalVars, KeepCsrs
<1>4. QED BY <1>1, <1>2, <1>3

\* The helpers.
LEMMA HelpersOrder ==
  ASSUME IInv, OInv, h = "none", mstatus_disable \/ mstatus_enable
  PROVE  OInv'
<1> USE DEF OInv, SetUp, InTest2, InTest3, Enabling, Disabling, Goto
<1>1. UNCHANGED <<irq_id, pending, prev, first, mie_q, i, exit, h, ret>>
  BY DEF mstatus_disable, mstatus_enable, InMain, handlerVars
<1>2. /\ mstatus_disable => \/ pc = "dis_r" /\ pc' = "dis_w"
                            \/ pc = "dis_w" /\ pc' = ret
      /\ mstatus_enable => \/ pc = "en_r" /\ pc' = "en_w"
                           \/ pc = "en_w" /\ pc' = ret
  BY DEF mstatus_disable, mstatus_enable
<1>3. CASE mstatus_disable
  BY <1>1, <1>2, <1>3 DEF IInv, CallsReturn
<1>4. CASE mstatus_enable
  <2>1. ret \in {"t2_wait", "t3_wait", "mat"} /\ pc \in {"en_r", "en_w"}
    BY <1>2, <1>4 DEF IInv, CallsReturn
  <2>2. CASE ret = "mat"
    BY <1>1, <1>2, <1>4, <2>2
  <2>3. CASE ret # "mat"
    <3>1. InOrder /\ prev = pending /\ Word' = Word
      BY <1>1, <1>2, <1>4, <2>1, <2>3 DEF IInv, Sampled, Word
    <3>2. InOrder'
      BY <1>1, <1>2, <1>4, <2>1, <2>3, <3>1 DEF InOrder
    <3> QED BY <1>1, <1>2, <1>4, <2>1, <2>3, <3>2
  <2> QED BY <2>2, <2>3
<1>5. QED BY <1>3, <1>4

\* A trap in tests 2 and 3: the line taken is the next one of the table.
LEMMA TrapOrder ==
  ASSUME IInv, LInv, OInv, TakeIrq
  PROVE  OInv'
<1> USE DEF OInv, SetUp, InTest2, InTest3, Enabling, Disabling
<1>1. /\ UNCHANGED <<irq_id, pending, prev, first, mie_q, i, exit, pc, ret>>
      /\ mstatus.mie /\ h = "none" /\ h' = "save" /\ cause' = irq_id_ctrl
  BY DEF TakeIrq, irq_req_ctrl, KeepGlobals, globalVars, mainVars,
         IInv, HandlerMasks
<1>2. CASE ~(InTest2 \/ InTest3)
  BY <1>1, <1>2
<1>3. CASE InTest2 \/ InTest3
  <2>1. ~Late /\ InOrder
    BY <1>3 DEF Late
  <2>2. pc \in {"t2_wait", "t3_wait"}
    BY <1>1, <2>1 DEF IInv, OnlyWhereEnabled, Late
  <2>3. /\ i \in 1 .. IRQ_NUM /\ IRQ_ID_PRIORITY[i] \in Word \cap mie_q
        /\ prev = Word \ Served(i - 1, mie_q)
    BY <2>1, <2>2 DEF InOrder, IRQ_NUM
  <2>4. pending = prev
    <3>1. irq_mode = "RESET"
      BY <2>1 DEF IInv, ModeInStep
    <3> QED BY <1>1, <3>1 DEF IInv, OnePerEnable
  <2>5. irq_local_qual = pending \cap mie_q
    <3>1. Shows(irq_q)
      BY <1>1, <2>1, <2>2 DEF LInv, SoftwareLines, Behind0, Behind1, Behind2,
                        Behind3, Disabling
    <3>2. irq_local_qual # {}
      BY DEF TakeIrq, irq_req_ctrl
    <3> QED BY <3>1, <3>2 DEF Shows, irq_local_qual
  <2>6. irq_local_qual \subseteq Implemented
    BY <2>5
  <2>7. IRQ_ID_PRIORITY[i] \in irq_local_qual
    BY <2>3, <2>4, <2>5, ServedOne
  <2>8. Served(i - 1, irq_local_qual) = {}
    BY <2>3, <2>4, <2>5 DEF Served
  <2>9. cause' = IRQ_ID_PRIORITY[i]
    BY <1>1, <2>3, <2>6, <2>7, <2>8, TakenInOrder
  <2>10. Word' = Word
    BY <1>1 DEF Word
  <2>11. InOrder'
    BY <1>1, <2>1, <2>2, <2>4, <2>9, <2>10 DEF InOrder
  <2> QED BY <1>1, <2>11
<1>4. QED BY <1>2, <1>3

\* The handler and the stalls.
LEMMA HandlerOrder ==
  ASSUME IInv, OInv, HandlerStep \/ Stall
  PROVE  OInv'
<1> USE DEF OInv, SetUp, InTest2, InTest3, Enabling, Disabling
<1>1. UNCHANGED <<prev, first, mie_q, i, exit, pc, ret>> /\ Word' = Word
  BY DEF HandlerStep, Stall, mainVars, Save, Identify, Acknowledge, Toggle,
         MaskReturn, Restore, Mret, KeepGlobals, globalVars, KeepCsrs, Word
<1>2. \/ UNCHANGED <<pending, irq_id, cause, h>>
      \/ h = "save" /\ h' = "id" /\ UNCHANGED <<pending, irq_id, cause>>
      \/ Identify
      \/ /\ h \notin {"none", "save", "id"} /\ h' \notin {"save", "id"}
         /\ UNCHANGED <<pending, irq_id>>
  <2>1. CASE Stall
    BY <2>1 DEF Stall, KeepGlobals, globalVars, handlerVars
  <2>2. CASE HandlerStep
    BY <2>2 DEF HandlerStep, Save, Acknowledge, Toggle, MaskReturn, Restore,
                Mret, KeepGlobals, globalVars
  <2> QED BY <2>1, <2>2
<1>3. h # "none" => ~Disabling("t2_lines") /\ ~Disabling("t3_lines")
                    /\ pc \notin {"t2_lines", "t3_lines"}
  BY DEF IInv, OnlyWhereEnabled
<1>4. CASE ~(InTest2 \/ InTest3)
  <2>1. CASE h = "none"
    BY <1>1, <1>2, <1>4, <2>1 DEF Identify
  <2>2. CASE h # "none"
    BY <1>1, <1>3, <1>4, <2>2
  <2> QED BY <2>1, <2>2
<1>5. CASE InTest2 \/ InTest3
  <2>1. ~Late /\ InOrder
    BY <1>5 DEF Late
  <2>2. h # "none" => pc \in {"t2_wait", "t3_wait"}
    BY <2>1 DEF IInv, OnlyWhereEnabled, Late
  <2>3. irq_mode = "RESET"
    BY <2>1 DEF IInv, ModeInStep
  <2>4. CASE Identify
    <3>1. /\ h = "id" /\ h' = "lines" /\ irq_id' = cause
          /\ pending' = pending \ {cause}
      BY <2>3, <2>4 DEF Identify
    <3>2. InOrder'
      BY <1>1, <2>1, <2>2, <3>1 DEF InOrder
    <3> QED BY <1>1, <1>3, <3>1, <3>2
  <2>5. CASE UNCHANGED <<pending, irq_id, cause, h>>
    <3>1. InOrder'
      BY <1>1, <2>1, <2>5 DEF InOrder
    <3> QED BY <1>1, <2>5, <3>1
  <2>6. CASE h = "save" /\ h' = "id" /\ UNCHANGED <<pending, irq_id, cause>>
    <3>1. InOrder'
      BY <1>1, <2>1, <2>2, <2>6 DEF InOrder
    <3> QED BY <1>1, <2>6, <3>1
  <2>7. CASE /\ h \notin {"none", "save", "id"} /\ h' \notin {"save", "id"}
             /\ UNCHANGED <<pending, irq_id>>
    <3>1. InOrder'
      BY <1>1, <2>1, <2>2, <2>7 DEF InOrder
    <3> QED BY <1>1, <2>7, <3>1
  <2> QED BY <1>2, <2>4, <2>5, <2>6, <2>7
<1>6. QED BY <1>4, <1>5

\* For every set of lines and every draw of masks and words: the error returns
\* of tests 2 and 3 are never reached.  Interrupts are served in the order of
\* IRQ_ID_PRIORITY, each of them once, and the masked ones stay pending.
THEOREM ServedInOrder == Spec => []OInv
<1>1. Init => OInv
  BY DEF Init, CpuIrqInit, OInv, SetUp, InTest2, InTest3, Enabling, Disabling
<1>2. IInv /\ LInv /\ OInv /\ [Next]_vars => OInv'
  <2> SUFFICES ASSUME IInv, LInv, OInv, [Next]_vars
               PROVE  OInv'
    OBVIOUS
  <2>1. CASE MainStep
    BY <2>1, SetUpOrder, LoopOrder, ProductOrder, HelpersOrder DEF MainStep
  <2>2. CASE TakeIrq
    BY <2>2, TrapOrder
  <2>3. CASE HandlerStep \/ Stall
    BY <2>3, HandlerOrder
  <2>4. CASE UNCHANGED vars
    BY <2>4 DEF vars, cpuIrqVars, globalVars, mainVars, handlerVars, OInv,
       SetUp, InTest2, InTest3, Enabling, Disabling, InOrder, Word
  <2> QED BY <2>1, <2>2, <2>3, <2>4 DEF Next, Tick
<1>3. QED BY <1>1, <1>2, FlagsAlways, LinesAlways, PTL DEF Spec

-----------------------------------------------------------------------------
(***************************************************************************)
(* Test 5: the product.                                                    *)
(***************************************************************************)
\* main() is in the product or in one of the two calls around it, or has it.
InProduct ==
  \/ pc \in {"mat", "t5_check"}
  \/ Enabling("mat") \/ Disabling("t5_check")

\* The running sum: a handler that runs keeps it on its stack.
Live == IF h \in {"id", "lines", "std", "std10", "rnd", "rnd10",
                  "mask_r", "mask_w", "restore"}
          THEN saved ELSE a5

\* The entries before the current one are done, and in the middle of an entry
\* the running sum is that of the products so far.
PInv(sums) ==
  /\ res \in [1 .. Dim -> [1 .. Dim -> Nat]]
  /\ InProduct =>
       /\ s \in 0 .. Dim * Dim * Dim
       /\ Enabling("mat") => s = 0
       /\ pc = "t5_check" \/ Disabling("t5_check") => s = Dim * Dim * Dim
       /\ \A r, c \in 1 .. Dim :
            (r - 1) * Dim + (c - 1) < s \div Dim => res[r][c] = sums[r][c][Dim]
       /\ pc = "mat" /\ s % Dim # 0 => Live = sums[Row][Col][s % Dim]
  /\ exit # "ERR_CODE_TEST_5"

\* There is one way to write a number as so many times d and a rest.
LEMMA DivisionUnique ==
  ASSUME NEW n \in Nat, NEW d \in Nat \ {0}, NEW q \in Nat,
         NEW m \in 0 .. d - 1, n = q * d + m
  PROVE  n \div d = q /\ n % d = m
  BY Z3

\* The next turn of the inner loop.
LEMMA NextTurn ==
  ASSUME NEW n \in Nat, NEW d \in Nat \ {0}
  PROVE  IF n % d = d - 1
           THEN (n + 1) \div d = n \div d + 1 /\ (n + 1) % d = 0
           ELSE (n + 1) \div d = n \div d /\ (n + 1) % d = (n % d) + 1
<1> DEFINE q == n \div d
           m == n % d
<1>1. q = n \div d /\ m = n % d
  OBVIOUS
<1> HIDE DEF q, m
<1>2. q \in Nat /\ m \in 0 .. d - 1
  BY <1>1
<1>3. n = q * d + m
  BY <1>1, Z3
<1>4. CASE m = d - 1
  <2>1. /\ n + 1 \in Nat /\ n + 1 = (q + 1) * d + 0
        /\ q + 1 \in Nat /\ 0 \in 0 .. d - 1
    BY <1>2, <1>3, <1>4
  <2>2. (n + 1) \div d = q + 1 /\ (n + 1) % d = 0
    BY <2>1, DivisionUnique, Zenon
  <2> QED BY <1>4, <2>2
<1>5. CASE m # d - 1
  <2>1. /\ n + 1 \in Nat /\ n + 1 = q * d + (m + 1)
        /\ m + 1 \in 0 .. d - 1
    BY <1>2, <1>3, <1>5
  <2>2. (n + 1) \div d = q /\ (n + 1) % d = m + 1
    BY <1>2, <2>1, DivisionUnique, Zenon
  <2> QED BY <1>5, <2>2
<1>6. QED BY <1>1, <1>4, <1>5

\* Dividing by the square is dividing twice.
LEMMA DivideTwice ==
  ASSUME NEW n \in Nat, NEW d \in Nat \ {0}, NEW q, q = n \div d
  PROVE  n \div (d * d) = q \div d
<1> DEFINE m == n % d
           p == q \div d
           l == q % d
<1>1. m = n % d /\ p = q \div d /\ l = q % d
  OBVIOUS
<1> HIDE DEF m, p, l
<1>2. q \in Nat /\ m \in 0 .. d - 1 /\ n = q * d + m
  <2>1. q \in Nat /\ m \in 0 .. d - 1
    BY <1>1
  <2>2. n = q * d + m
    BY <1>1, Z3
  <2> QED BY <2>1, <2>2
<1>3. p \in Nat /\ l \in 0 .. d - 1 /\ q = p * d + l
  <2>1. p \in Nat /\ l \in 0 .. d - 1
    BY <1>1, <1>2
  <2>2. q = p * d + l
    BY <1>1, <1>2, Z3
  <2> QED BY <2>1, <2>2
<1>4. n = p * (d * d) + (l * d + m)
  BY <1>2, <1>3
<1>5. l * d + m \in 0 .. d * d - 1
  <2>1. l * d <= (d - 1) * d /\ l * d \in Nat
    BY <1>3
  <2>2. (d - 1) * d = d * d - d /\ d * d \in Nat
    OBVIOUS
  <2> QED BY <1>2, <2>1, <2>2
<1>6. d * d \in Nat \ {0}
  OBVIOUS
<1> DEFINE square == d * d
           rest == l * d + m
<1>7. /\ p \in Nat /\ square \in Nat \ {0} /\ rest \in 0 .. square - 1
      /\ n = p * square + rest
  BY <1>3, <1>4, <1>5, <1>6
<1> HIDE DEF square, rest
<1>8. n \div square = p
  BY <1>7, DivisionUnique, Zenon
<1>9. QED BY <1>1, <1>8 DEF square

\* A product with a bound is below the product of the bounds.
LEMMA Below ==
  ASSUME NEW d \in Nat \ {0}, NEW q \in Nat, NEW k \in Nat, q * d < k * d
  PROVE  q < k
<1> SUFFICES ASSUME k <= q PROVE FALSE
  OBVIOUS
<1>1. PICK z \in Nat : q = k + z
  <2>1. q - k \in Nat /\ q = k + (q - k)
    OBVIOUS
  <2> QED BY <2>1
<1>2. q * d = k * d + z * d /\ z * d \in Nat /\ k * d \in Nat
  BY <1>1
<1>3. QED BY <1>2

\* The entries of the result, in the order in which they are computed.
Entry(r, c) == (r - 1) * Dim + (c - 1)

\* There are as many as the matrix has.
LEMMA EntryBound ==
  ASSUME NEW r \in 1 .. Dim, NEW c \in 1 .. Dim
  PROVE  Entry(r, c) \in Nat /\ Entry(r, c) < Dim * Dim
<1>1. Dim \in Nat \ {0}
  BY MatrixAssumption
<1>2. PICK z \in Nat : Dim = r + z
  <2>1. Dim - r \in Nat /\ Dim = r + (Dim - r)
    BY <1>1
  <2> QED BY <2>1
<1>3. PICK y \in Nat : r = 1 + y
  <2>1. r - 1 \in Nat /\ r = 1 + (r - 1)
    OBVIOUS
  <2> QED BY <2>1
<1>4. /\ y * Dim \in Nat /\ z * Dim \in Nat
      /\ (r - 1) * Dim = y * Dim
      /\ Dim * Dim = y * Dim + Dim + z * Dim
  <2>1. Dim = 1 + y + z /\ r - 1 = y
    BY <1>2, <1>3
  <2>2. (1 + y + z) * Dim = y * Dim + Dim + z * Dim
    BY <1>1
  <2> QED BY <1>1, <2>1, <2>2
<1>5. QED BY <1>1, <1>4 DEF Entry

\* A turn of the inner loop works on the entry that s counts.
LEMMA Turn ==
  ASSUME s \in Nat, s < Dim * Dim * Dim,
         NEW q, q = s \div Dim, NEW m, m = s % Dim
  PROVE  /\ q \in Nat /\ m \in 0 .. Dim - 1
         /\ Mid = m + 1 /\ Row \in 1 .. Dim /\ Col \in 1 .. Dim
         /\ Entry(Row, Col) = q
         /\ \A r, c \in 1 .. Dim : Entry(r, c) = q => r = Row /\ c = Col
         /\ Row = q \div Dim + 1 /\ Col = (q % Dim) + 1
<1>1. Dim \in Nat \ {0}
  BY MatrixAssumption
<1>2. q \in Nat /\ m \in 0 .. Dim - 1
  BY <1>1
<1>3. s = q * Dim + m
  BY <1>1, Z3
<1> DEFINE p == q \div Dim
           l == q % Dim
<1>4. Row = p + 1 /\ Col = l + 1 /\ Mid = m + 1
  <2>1. s \div (Dim * Dim) = p
    BY <1>1, DivideTwice
  <2> QED BY <2>1 DEF Row, Col, Mid
<1>5. p = q \div Dim /\ l = q % Dim
  OBVIOUS
<1> HIDE DEF p, l
<1>6. p \in Nat /\ l \in 0 .. Dim - 1
  BY <1>1, <1>2, <1>5
<1>7. q = p * Dim + l
  BY <1>1, <1>2, <1>5, Z3
<1>8. p < Dim
  <2>1. q * Dim < (Dim * Dim) * Dim
    <3> DEFINE cube == (Dim * Dim) * Dim
               done == q * Dim
    <3>1. /\ done \in Nat /\ cube \in Nat
          /\ s = done + m /\ s < cube
      BY <1>1, <1>2, <1>3
    <3> HIDE DEF cube, done
    <3>2. done < cube
      BY <1>2, <3>1
    <3> QED BY <3>2 DEF cube, done
  <2>2. q < Dim * Dim
    <3>1. Dim * Dim \in Nat
      BY <1>1
    <3> QED BY <1>1, <1>2, <2>1, <3>1, Below, Zenon
  <2>3. p * Dim < Dim * Dim
    <3>1. p * Dim \in Nat /\ Dim * Dim \in Nat
      BY <1>1, <1>6
    <3> QED BY <1>6, <1>7, <2>2, <3>1
  <2> QED BY <1>1, <1>6, <2>3, Below
<1>9. Row \in 1 .. Dim /\ Col \in 1 .. Dim
  BY <1>1, <1>4, <1>6, <1>8
<1>10. Entry(Row, Col) = q
  <2>1. Row - 1 = p /\ Col - 1 = l
    BY <1>4, <1>6
  <2> QED BY <1>7, <2>1 DEF Entry
<1>11. ASSUME NEW r \in 1 .. Dim, NEW c \in 1 .. Dim, Entry(r, c) = q
       PROVE  r = Row /\ c = Col
  <2>1. PICK y \in Nat, x \in 0 .. Dim - 1 : y = r - 1 /\ x = c - 1
    BY <1>1
  <2>2. q = y * Dim + x
    BY <1>11, <2>1 DEF Entry
  <2>3. q \div Dim = y /\ q % Dim = x
    BY <1>1, <1>2, <2>2, DivisionUnique, Zenon
  <2> QED BY <1>4, <1>5, <2>1, <2>3
<1>12. QED BY <1>2, <1>4, <1>5, <1>9, <1>10, <1>11

\* A turn of the inner loop.
LEMMA ProductTurn ==
  ASSUME NEW sums, IsProduct(sums), IInv, PInv(sums), h = "none",
         mat_mult, s < Dim * Dim * Dim
  PROVE  PInv(sums)'
<1> USE DEF PInv, InProduct, Enabling, Disabling
<1>1. Dim \in Nat \ {0} /\ Dim * Dim * Dim \in Nat
  BY MatrixAssumption
<1>2. /\ pc = "mat" /\ pc' = pc /\ h' = h /\ ret' = ret /\ exit' = exit
      /\ s' = s + 1 /\ s \in Nat /\ s' \in 0 .. Dim * Dim * Dim
  BY <1>1 DEF mat_mult, InMain, handlerVars
<1> DEFINE q == s \div Dim
           m == s % Dim
           R == Row
           C == Col
           new == (IF Mid = 1 THEN 0 ELSE a5) + Mat1[R][Mid] * Mat2[Mid][C]
<1>3. /\ q \in Nat /\ m \in 0 .. Dim - 1
      /\ Mid = m + 1 /\ R \in 1 .. Dim /\ C \in 1 .. Dim
      /\ Entry(R, C) = q
      /\ \A r, c \in 1 .. Dim : Entry(r, c) = q => r = R /\ c = C
      /\ R = q \div Dim + 1 /\ C = (q % Dim) + 1
  BY <1>2, Turn
<1>4. a5' = new /\ res' = [res EXCEPT ![R][C] = new]
  BY <1>2 DEF mat_mult
<1>5. m # 0 => a5 = sums[R][C][m]
  BY <1>2 DEF Live
<1>6. IF m = Dim - 1
        THEN (s + 1) \div Dim = q + 1 /\ (s + 1) % Dim = 0
        ELSE (s + 1) \div Dim = q /\ (s + 1) % Dim = m + 1
  BY <1>1, <1>2, NextTurn
<1>7. Row' = s' \div (Dim * Dim) + 1 /\ Col' = ((s' \div Dim) % Dim) + 1
  BY DEF Row, Col
<1>8. s' \div (Dim * Dim) = (s' \div Dim) \div Dim
  <2>1. s' \in Nat
    BY <1>2
  <2> QED BY <1>1, <2>1, DivideTwice
<1>9. m # Dim - 1 => Row' = R /\ Col' = C
  BY <1>2, <1>3, <1>6, <1>7, <1>8
<1> HIDE DEF q, m, R, C
<1>10. new = sums[R][C][m + 1] /\ new \in Nat
  <2>0. m + 1 \in 1 .. Dim /\ m \in 0 .. Dim /\ m + 1 \in 0 .. Dim
    BY <1>1, <1>3
  <2>1. sums[R][C][m] \in Nat /\ sums[R][C][m + 1] \in Nat
    <3>1. sums \in [1 .. Dim -> [1 .. Dim -> [0 .. Dim -> Nat]]]
      BY DEF IsProduct
    <3>2. sums[R][C] \in [0 .. Dim -> Nat]
      BY <1>3, <3>1
    <3> QED BY <2>0, <3>2
  <2>2. sums[R][C][m + 1] =
          sums[R][C][(m + 1) - 1] + Mat1[R][m + 1] * Mat2[m + 1][C]
    BY <1>3, <2>0 DEF IsProduct
  <2>3. (m + 1) - 1 = m
    BY <1>3
  <2>4. (IF Mid = 1 THEN 0 ELSE a5) = sums[R][C][m]
    <3>1. CASE m = 0
      BY <1>3, <3>1 DEF IsProduct
    <3>2. CASE m # 0
      BY <1>3, <1>5, <3>2
    <3> QED BY <3>1, <3>2
  <2>5. new = sums[R][C][m] + Mat1[R][m + 1] * Mat2[m + 1][C]
    BY <1>3, <2>4, Zenon
  <2>6. new = sums[R][C][m + 1]
    BY <2>2, <2>3, <2>5, Zenon
  <2> QED BY <2>1, <2>6
<1> HIDE DEF new
<1>11. /\ res' \in [1 .. Dim -> [1 .. Dim -> Nat]]
       /\ res'[R][C] = new
       /\ \A r, c \in 1 .. Dim :
            r # R \/ c # C => res'[r][c] = res[r][c]
  BY <1>3, <1>4, <1>10
<1>12. \A r, c \in 1 .. Dim :
         Entry(r, c) < s' \div Dim => res'[r][c] = sums[r][c][Dim]
  <2> SUFFICES ASSUME NEW r \in 1 .. Dim, NEW c \in 1 .. Dim,
                      Entry(r, c) < s' \div Dim
               PROVE  res'[r][c] = sums[r][c][Dim]
    OBVIOUS
  <2>1. Entry(r, c) \in Nat
    BY EntryBound
  <2>2. CASE r = R /\ c = C
    <3>1. s' \div Dim = q + 1
      BY <1>2, <1>3, <1>6, <2>2
    <3>2. m + 1 = Dim
      BY <1>1, <1>2, <1>3, <1>6, <3>1
    <3> QED BY <1>10, <1>11, <2>2, <3>2
  <2>3. CASE ~(r = R /\ c = C)
    <3>1. Entry(r, c) # q
      BY <1>3, <2>3
    <3>2. Entry(r, c) < q
      BY <1>2, <1>3, <1>6, <2>1, <3>1
    <3>3. res[r][c] = sums[r][c][Dim]
      BY <1>2, <3>2 DEF Entry, q
    <3> QED BY <1>11, <2>3, <3>3
  <2> QED BY <2>2, <2>3
<1>13. s' % Dim # 0 => Live' = sums[Row'][Col'][s' % Dim]
  <2> SUFFICES ASSUME s' % Dim # 0
               PROVE  Live' = sums[Row'][Col'][s' % Dim]
    OBVIOUS
  <2>1. m # Dim - 1 /\ s' % Dim = m + 1
    BY <1>2, <1>6
  <2>2. Live' = new
    BY <1>2, <1>4 DEF Live
  <2> QED BY <1>9, <1>10, <2>1, <2>2
<1>14. QED BY <1>2, <1>11, <1>12, <1>13 DEF Entry

\* Matrices with the same entries are the same.
LEMMA SameEntries ==
  ASSUME NEW D, NEW S, NEW f \in [D -> [D -> S]], NEW g \in [D -> [D -> S]],
         \A r, c \in D : f[r][c] = g[r][c]
  PROVE  f = g
<1>1. ASSUME NEW r \in D
      PROVE  f[r] = g[r]
  <2>1. /\ f[r] \in [D -> S] /\ g[r] \in [D -> S]
        /\ \A c \in D : f[r][c] = g[r][c]
    OBVIOUS
  <2>2. f[r] = [c \in D |-> f[r][c]] /\ g[r] = [c \in D |-> g[r][c]]
    BY <2>1
  <2> QED BY <2>1, <2>2
<1>2. f = [r \in D |-> f[r]] /\ g = [r \in D |-> g[r]]
  OBVIOUS
<1>3. QED BY <1>1, <1>2

\* The other statements of main().
LEMMA ProductMain ==
  ASSUME NEW sums, IsProduct(sums), IInv, PInv(sums), MainStep
  PROVE  PInv(sums)'
<1> USE DEF PInv, InProduct, Enabling, Disabling, Goto
<1>0. h = "none" /\ h' = "none"
  BY DEF MainStep, Test1, Test2Start, Test3Start, Test3Final, ServeLoop,
         Test5Start, mat_mult, Test5Check, mstatus_disable, mstatus_enable,
         InMain, handlerVars
<1>1. CASE Test1 \/ Test2Start \/ Test3Start \/ ServeLoop \/ Test3Final
  <2>1. res' = res
    BY <1>1 DEF Test1, Test2Start, Test3Start, ServeLoop, Test3Final, KeepMat
  <2>2. ~InProduct'
    BY <1>1 DEF Test1, Test2Start, Test3Start, ServeLoop, Test3Final, Sample,
                Wait, CheckId, CallEnable, CallDisable
  <2>3. exit' # "ERR_CODE_TEST_5"
    BY <1>1 DEF Test1, Test2Start, Test3Start, ServeLoop, Test3Final, Sample,
                Wait, CheckId
  <2> QED BY <2>1, <2>2, <2>3
<1>2. CASE Test5Start
  <2>1. res' = res /\ exit' = exit
    BY <1>2 DEF Test5Start
  <2>2. CASE pc = "t5_served"
    <3>1. pc' = "en_r" /\ ret' = "mat" /\ s' = 0
      BY <1>2, <2>2 DEF Test5Start, CallEnable
    <3>2. s' \div Dim = 0 /\ s' \in 0 .. Dim * Dim * Dim
      BY <3>1, MatrixAssumption
    <3> QED BY <2>1, <3>1, <3>2, EntryBound DEF Entry
  <2>3. CASE pc # "t5_served"
    BY <1>2, <2>1, <2>3 DEF Test5Start
  <2> QED BY <2>2, <2>3
<1>3. CASE mat_mult
  <2>1. CASE s < Dim * Dim * Dim
    BY <1>0, <1>3, <2>1, ProductTurn
  <2>2. CASE ~(s < Dim * Dim * Dim)
    <3>1. /\ pc = "mat" /\ pc' = "dis_r" /\ ret' = "t5_check"
          /\ UNCHANGED <<a5, res, s, exit>>
      BY <1>3, <2>2 DEF mat_mult, CallDisable
    <3>2. s = Dim * Dim * Dim
      <4>1. Dim * Dim * Dim \in Nat
        BY MatrixAssumption
      <4> QED BY <2>2, <3>1, <4>1
    <3> QED BY <3>1, <3>2
  <2> QED BY <2>1, <2>2
<1>4. CASE Test5Check
  <2>1. /\ pc = "t5_check"
        /\ UNCHANGED <<pc, ret, s, res>>
        /\ exit' = IF res = Expected THEN "EXIT_SUCCESS" ELSE "ERR_CODE_TEST_5"
    BY <1>4 DEF Test5Check, KeepMat
  <2>2. s \div Dim = Dim * Dim
    <3>1. /\ Dim \in Nat \ {0} /\ Dim * Dim \in Nat /\ 0 \in 0 .. Dim - 1
          /\ s \in Nat /\ s = (Dim * Dim) * Dim + 0
      BY <2>1, MatrixAssumption
    <3> QED BY <3>1, DivisionUnique, Zenon
  <2>3. \A r, c \in 1 .. Dim : res[r][c] = Expected[r][c]
    BY <2>1, <2>2, EntryBound DEF Entry, IsProduct
  <2>4. res = Expected
    <3> DEFINE D == 1 .. Dim
    <3>1. /\ res \in [D -> [D -> Nat]] /\ Expected \in [D -> [D -> Nat]]
          /\ \A r, c \in D : res[r][c] = Expected[r][c]
      BY <2>3 DEF IsProduct
    <3> HIDE DEF D, PInv
    <3> QED BY <3>1, SameEntries
  <2> QED BY <2>1, <2>4
<1>5. CASE mstatus_disable \/ mstatus_enable
  <2>1. UNCHANGED <<a5, s, res, ret, exit>>
    BY <1>5 DEF mstatus_disable, mstatus_enable, KeepMat
  <2>2. /\ mstatus_disable => \/ pc = "dis_r" /\ pc' = "dis_w"
                              \/ pc = "dis_w" /\ pc' = ret
        /\ mstatus_enable => \/ pc = "en_r" /\ pc' = "en_w"
                             \/ pc = "en_w" /\ pc' = ret
    BY DEF mstatus_disable, mstatus_enable
  <2>3. InProduct' => InProduct
    BY <1>5, <2>1, <2>2 DEF IInv, CallsReturn
  <2>4. CASE ~InProduct'
    BY <2>1, <2>4
  <2>5. CASE InProduct'
    <3>1. CASE pc' = "mat"
      <4>1. s = 0
        BY <1>5, <2>1, <2>2, <2>3, <2>5, <3>1 DEF IInv, CallsReturn
      <4>2. s' % Dim = 0
        BY <2>1, <4>1, MatrixAssumption
      <4> QED BY <2>1, <2>3, <2>5, <3>1, <4>1, <4>2
    <3>2. CASE pc' # "mat"
      BY <1>5, <2>1, <2>2, <2>3, <2>5, <3>2 DEF IInv, CallsReturn
    <3> QED BY <3>1, <3>2
  <2> QED BY <2>4, <2>5
<1>6. QED BY <1>1, <1>2, <1>3, <1>4, <1>5 DEF MainStep

\* A trap, the handler and the stalls leave the running sum alone.
LEMMA ProductTrap ==
  ASSUME NEW sums, IInv, PInv(sums), TakeIrq \/ HandlerStep \/ Stall
  PROVE  PInv(sums)'
<1>1. UNCHANGED <<pc, ret, s, res, exit>>
  BY DEF TakeIrq, HandlerStep, Stall, mainVars
<1>2. Live' = Live
  <2> USE DEF Live
  <2>1. CASE TakeIrq
    BY <2>1 DEF TakeIrq, irq_req_ctrl, IInv, HandlerMasks
  <2>3. CASE Stall
    BY <2>3 DEF Stall, handlerVars
  <2>2. CASE HandlerStep
    BY <2>2 DEF HandlerStep, Save, Identify, Acknowledge, Toggle, MaskReturn,
                Restore, Mret
  <2> QED BY <2>1, <2>2, <2>3
<1>3. Row' = Row /\ Col' = Col
  BY <1>1 DEF Row, Col
<1>4. QED BY <1>1, <1>2, <1>3 DEF PInv, InProduct, Enabling, Disabling

\* For every set of lines, every matrix and whatever the generator does: the
\* test's own verdict.  interrupt.c returns none of its error codes; the line
\* taken is the one main() waits for, and the handlers that run during the
\* product do not disturb it.  The hypothesis is what matrix.h lists.
THEOREM NoErrorAlways ==
  ASSUME NEW CONSTANT sums, IsProduct(sums)
  PROVE  Spec => []NoError
<1> DEFINE Code == exit \in Codes
<1>1. Init => PInv(sums) /\ Code
  BY DEF Init, PInv, InProduct, Enabling, Disabling, Codes
<1>2. IInv /\ PInv(sums) /\ [Next]_vars => PInv(sums)'
  <2> SUFFICES ASSUME IInv, PInv(sums), [Next]_vars
               PROVE  PInv(sums)'
    OBVIOUS
  <2>1. CASE MainStep
    BY <2>1, ProductMain
  <2>2. CASE TakeIrq \/ HandlerStep \/ Stall
    BY <2>2, ProductTrap
  <2>3. CASE UNCHANGED vars
    BY <2>3 DEF vars, mainVars, handlerVars, PInv, InProduct, Enabling,
                Disabling, Live, Row, Col
  <2> QED BY <2>1, <2>2, <2>3 DEF Next, Tick
<1>3. Code /\ [Next]_vars => Code'
  BY DEF Codes, Next, Tick, MainStep, Test1, Test2Start, Test3Start, ServeLoop,
         Test3Final, Sample, Wait, CheckId, Test5Start, mat_mult, Test5Check,
         mstatus_disable, mstatus_enable, TakeIrq, HandlerStep, Stall, vars
<1>4. OInv /\ PInv(sums) /\ Code => NoError
  BY DEF OInv, PInv, Codes, NoError
<1> HIDE DEF Code
<1>5. QED BY <1>1, <1>2, <1>3, <1>4, FlagsAlways, ServedInOrder, PTL DEF Spec

=============================================================================
