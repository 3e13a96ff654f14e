---------------------------- MODULE IrqGenerator ----------------------------
(***************************************************************************)
(* The interrupt generator of the core's test bench,                       *)
(* cv32e40p_random_interrupt_generator.sv, and its registers in mm_ram.sv. *)
(* In software-defined mode it drives the lines the program wrote; in      *)
(* random mode it raises a random word after a random time and takes it    *)
(* away when it sees the mode set to standard.  GeneratorStep is one clock *)
(* edge, given what the program writes in the cycle that ends.  A process  *)
(* that runs at the edge sees the registers as they were before it; one    *)
(* that a wait() on irq_mode_q resumes sees them as they are after it.     *)
(***************************************************************************)
EXTENDS IrqLines

CONSTANTS
  RndLines,    \* those between IRQ_MIN_ID and IRQ_MAX_ID of mm_ram
  MinCycles,   \* bounds of the random wait
  MaxCycles

ASSUME GeneratorAssumption ==
  /\ RndLines \subseteq Implemented
  /\ MinCycles \in Nat /\ MaxCycles \in Nat /\ MinCycles <= MaxCycles

Modes == {"RESET", "STD", "RND", "SD"}

VARIABLES
  reg10,      \* mm_ram's register 10: the mode
  reg14,      \* mm_ram's register 14: the lines of the software-defined mode
  irq_mode_q, \* the mode, a cycle later
  sampling,   \* the software-defined process is in its inner loop
  sd_lines,   \* irq_sd_lines
  rnd_lines,  \* irq_rnd_lines
  lines_q,    \* irq_lines_q, the lines the core sees
  gen         \* the random process: where it waits, the word, cycles to go

genVars == <<reg10, reg14, irq_mode_q, sampling, sd_lines, rnd_lines, lines_q,
             gen>>

GenInit ==
  /\ reg10 = "RESET" /\ reg14 = {} /\ irq_mode_q = "RESET"
  /\ sampling = FALSE /\ sd_lines = {} /\ rnd_lines = {} /\ lines_q = {}
  /\ gen = [at |-> "idle", word |-> {}, n |-> 0]

\* irq_lines_n.
Routed(sd, rnd) ==
  CASE irq_mode_q = "RND" -> rnd
    [] irq_mode_q = "SD" -> sd
    [] OTHER -> {}

\* The software-defined process waits for its mode and for a word that is not
\* zero, then copies the register at every edge until it has copied a zero.
\* The inner loop does not look at the mode again.
Copied == IF sampling THEN reg14 \cap Implemented ELSE sd_lines
SdSample ==
  /\ sd_lines' = Copied
  /\ sampling' = IF sampling \/ irq_mode_q = "SD" THEN reg14 # {}
                                                 ELSE reg10 = "SD" /\ reg14' # {}

\* The random process: wait for the mode, draw a word and a time, count the
\* cycles and one more, raise the word, and clear it when the mode is standard.
ModeSeen(mode) == mode \in {irq_mode_q, reg10}
Idle == [at |-> "idle", word |-> {}, n |-> 0]

Draw ==
  /\ gen.at = "idle"
  /\ IF ModeSeen("RND")
       THEN \E w \in SUBSET RndLines \ {{}}, k \in MinCycles .. MaxCycles :
              gen' = [at |-> "count", word |-> w, n |-> k + 1]
       ELSE UNCHANGED gen
  /\ UNCHANGED rnd_lines

Count ==
  /\ gen.at = "count" /\ gen.n > 1
  /\ gen' = [gen EXCEPT !.n = gen.n - 1]
  /\ UNCHANGED rnd_lines

Raise ==
  /\ gen.at = "count" /\ gen.n = 1
  /\ IF ModeSeen("STD")
       THEN rnd_lines' = {} /\ gen' = Idle
       ELSE rnd_lines' = gen.word /\ gen' = [gen EXCEPT !.at = "raised", !.n = 0]

\* The word stays up until the next one is drawn.
BugClear ==
  /\ gen.at = "raised"
  /\ UNCHANGED rnd_lines
  /\ gen' = IF ModeSeen("STD") THEN Idle ELSE gen

Clear ==
  /\ gen.at = "raised"
  /\ IF ModeSeen("STD") THEN rnd_lines' = {} /\ gen' = Idle
                        ELSE UNCHANGED <<rnd_lines, gen>>

\* mode and lines are what the program writes to registers 10 and 14, or their
\* values.  A copy and a raise happen at the very edge that registers the
\* routed lines: the register may take the value before or after them.
Raised == IF gen.at = "count" /\ gen.n = 1 THEN gen.word ELSE rnd_lines
GeneratorStep(mode, lines) ==
  /\ reg10' = mode
  /\ reg14' = lines
  /\ irq_mode_q' = reg10
  /\ SdSample
  /\ Draw \/ Count \/ Raise \/ Clear
  /\ lines_q' \in {Routed(sd_lines, rnd_lines), Routed(Copied, Raised)}

GenTypeOK ==
  /\ reg10 \in Modes /\ irq_mode_q \in Modes
  /\ sampling \in BOOLEAN
  /\ sd_lines \subseteq Implemented
  /\ rnd_lines \subseteq Implemented
  /\ lines_q \subseteq Implemented
  /\ gen \in [at : {"idle", "count", "raised"}, word : SUBSET RndLines,
              n : 0 .. MaxCycles + 1]

=============================================================================
