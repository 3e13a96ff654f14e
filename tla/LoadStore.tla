----------------------------- MODULE LoadStore -----------------------------
(***************************************************************************)
(* What the SoC promises a program on its data port: loads and stores take *)
(* effect one at a time and exactly once, a store to DRAM changes the      *)
(* bytes its byte enables select and nothing else, a DRAM load returns the *)
(* word last stored, and a load of a device register is answered for that  *)
(* register.  Timing, bus and decoder are absent; SocBus implements this.  *)
(***************************************************************************)
CONSTANTS
  Requests,  \* records with fields we, addr, wdata and be
  CellOf,    \* function from the addresses of the documented DRAM to its words
  Words,     \* memory words: functions from byte lanes to bytes
  None       \* no request, no value

Cells == {CellOf[a] : a \in DOMAIN CellOf}

VARIABLES
  mem,     \* contents of DRAM
  pend,    \* the request in progress, whether it took effect, what it read
  result   \* what the load just answered returned to the core

vars == <<mem, pend, result>>

Init ==
  /\ mem \in [Cells -> Words]
  /\ pend = None
  /\ result = None

\* The core issues a load or a store; one is in progress at a time.
Issue(r) ==
  /\ pend = None
  /\ pend' = [req |-> r, done |-> FALSE, val |-> None]
  /\ result' = None
  /\ UNCHANGED mem

\* What a load of address a reads: a DRAM word, or a device register, whose
\* contents are the device's affair and are named here by the address.
Loaded(a) == IF a \in DOMAIN CellOf THEN mem[CellOf[a]] ELSE [reg |-> a]

\* The word after a store: the bytes be of new over the bytes of old.
Stored(old, new, be) ==
  [i \in DOMAIN old |-> IF i \in be THEN new[i] ELSE old[i]]

\* The one instant at which a request takes effect.
Perform ==
  /\ pend # None
  /\ ~pend.done
  /\ LET r == pend.req
     IN /\ pend' = [req |-> r, done |-> TRUE,
                    val |-> IF r.we THEN None ELSE Loaded(r.addr)]
        /\ mem' = IF r.we /\ r.addr \in DOMAIN CellOf
                    THEN [mem EXCEPT ![CellOf[r.addr]] =
                            Stored(@, r.wdata, r.be)]
                    ELSE mem
  /\ UNCHANGED result

Answer ==
  /\ pend # None
  /\ pend.done
  /\ pend' = None
  /\ result' = pend.val
  /\ UNCHANGED mem

\* Reset drops the request in progress, performed or not, and keeps memory.
Reset ==
  /\ pend' = None
  /\ result' = None
  /\ UNCHANGED mem

Next ==
  \/ \E r \in Requests : Issue(r)
  \/ Perform
  \/ Answer
  \/ Reset

Spec == Init /\ [][Next]_vars

=============================================================================
