-------------------------- MODULE TimerAxi_proofs --------------------------
(***************************************************************************)
(* Proofs about TimerAxi, for every register width and every set of words  *)
(* software writes.                                                        *)
(***************************************************************************)
EXTENDS TimerAxi, TLAPS

\* The counters stay inside their width.
LEMMA Wraps ==
  ASSUME NEW n \in Register
  PROVE  Inc(n) \in Register /\ Dec(n) \in Register
  BY TimerAssumption DEF Register, Inc, Dec

\* The reset values have the registers' width.
LEMMA ResetValues == 0 \in Register /\ Modulus - 1 \in Register
  BY TimerAssumption DEF Register

\* The registers are typed at power-up.
LEMMA InitType == Init => TypeOK
<1> SUFFICES ASSUME Init
             PROVE  TypeOK
  OBVIOUS
<1>1. tim_ena_q \in BOOLEAN /\ tim_mod_q \in BOOLEAN
  BY DEF Init
<1>2. state_q \in PortStates
  BY DEF Init, PortStates
<1>3. clk \in BOOLEAN /\ command \in IT!Commands
  BY DEF Init, IT!Commands
<1> QED BY <1>1, <1>2, <1>3, ResetValues DEF Init, TypeOK

\* Every register of the timer keeps a value of its width.
THEOREM TypeCorrect == Spec => []TypeOK
<1> USE TimerAssumption
<1>1. Init => TypeOK
  BY InitType
<1>2. TypeOK /\ [Next]_vars => TypeOK'
  <2> SUFFICES ASSUME TypeOK, [Next]_vars
               PROVE  TypeOK'
    OBVIOUS
  <2>1. ASSUME NEW m \in BridgeSignals, NEW off \in Offsets,
               NEW data \in Values, Edge(m, off, data)
        PROVE  TypeOK'
    <3> USE <2>1 DEF Edge
    <3>1. data \in Register
      BY DEF Register
    <3>2. (tim_pre_q \in Register /\ tim_are_q \in Register)'
      BY <3>1 DEF TypeOK, WriteRegisters
    <3>3. (tim_ena_q \in BOOLEAN /\ tim_mod_q \in BOOLEAN)'
      BY DEF TypeOK, WriteRegisters
    <3>4. 0 \in Register
      BY DEF Register
    <3>5. pre_cnt_q' \in Register
      BY <3>4, Wraps DEF TypeOK, Prescale
    <3>6. tim_cnt_q' \in Register /\ tim_evn_q' \in Register
      BY <3>4, Wraps DEF TypeOK, Count
    <3>7. ReadMux(off) \in Register
      BY DEF ReadMux, Bit, TypeOK, Register
    <3>8. read_data_q' \in Register /\ state_q' \in PortStates
      BY <3>7 DEF Port, PortNext, PortStates, TypeOK
    <3>9. clk' \in BOOLEAN
      BY DEF TypeOK
    <3>10. command' \in IT!Commands
      BY DEF Command, IT!Commands
    <3> QED BY <3>2, <3>3, <3>5, <3>6, <3>8, <3>9, <3>10 DEF TypeOK
  <2>2. CASE Reset
    <3>1. (tim_ena_q \in BOOLEAN /\ tim_mod_q \in BOOLEAN)'
      BY <2>2 DEF Reset
    <3>2. state_q' \in PortStates
      BY <2>2 DEF Reset, PortStates
    <3>3. clk' \in BOOLEAN /\ command' \in IT!Commands
      BY <2>2 DEF Reset, TypeOK, IT!Commands
    <3> QED BY <2>2, <3>1, <3>2, <3>3, ResetValues DEF Reset, TypeOK
  <2>3. CASE UNCHANGED vars
    BY <2>3 DEF vars, settings, counters, TypeOK
  <2> QED BY <2>1, <2>2, <2>3 DEF Next, Tick
<1>3. QED BY <1>1, <1>2, PTL DEF Spec

-----------------------------------------------------------------------------
(***************************************************************************)
(* The refinement: Left is the time to the next event.                     *)
(***************************************************************************)

\* The way from one register value to another, and one step of it.
LEMMA DistanceType ==
  ASSUME NEW a \in Register, NEW b \in Register
  PROVE  /\ Distance(a, b) \in Nat
         /\ Distance(a, b) = 0 <=> a = b
         /\ a # b => Distance(Inc(a), b) = Distance(a, b) - 1
         /\ Distance(0, b) = b
  BY TimerAssumption DEF Distance, Register, Inc

\* A product with a positive factor.
LEMMA Product ==
  ASSUME NEW x \in Nat, NEW y \in Nat
  PROVE  /\ x * (y + 1) \in Nat
         /\ x * (y + 1) = 0 <=> x = 0
         /\ x # 0 => x * (y + 1) = (x - 1) * (y + 1) + y + 1
         /\ (y + 1) * (x + 1) = x * (y + 1) + y + 1
<1>1. x * (y + 1) \in Nat
  OBVIOUS
<1>2. x * (y + 1) = 0 <=> x = 0
  OBVIOUS
<1>3. x # 0 => x * (y + 1) = (x - 1) * (y + 1) + y + 1
  OBVIOUS
<1>4. (y + 1) * (x + 1) = x * (y + 1) + y + 1
  OBVIOUS
<1> QED BY <1>1, <1>2, <1>3, <1>4

\* The mapped variables have their types, and the next event is due exactly
\* when prescaler and counter are both at their limits.
LEMMA LeftType ==
  ASSUME TypeOK
  PROVE  /\ Left \in Nat
         /\ Period \in Nat \ {0}
         /\ tim_ena_q => (Left = 0 <=> pre_tick /\ cnt_at_limit)
<1>1. /\ tim_pre_q \in Register /\ tim_are_q \in Register
      /\ tim_cnt_q \in Register /\ pre_cnt_q \in Register
      /\ tim_pre_q \in Nat /\ tim_are_q \in Nat
  BY TimerAssumption DEF TypeOK, Register
<1>2. TicksLeft \in Nat /\ (TicksLeft = 0 <=> cnt_at_limit)
  BY <1>1, DistanceType DEF TicksLeft, cnt_at_limit, Register
<1>3. CyclesToTick \in Nat /\ (tim_ena_q => (CyclesToTick = 0 <=> pre_tick))
  BY <1>1, DistanceType DEF CyclesToTick, pre_tick
<1>4. /\ TicksLeft * (tim_pre_q + 1) \in Nat
      /\ TicksLeft * (tim_pre_q + 1) = 0 <=> TicksLeft = 0
  BY <1>1, <1>2, Product
<1>5. Period \in Nat \ {0}
  <2>1. Period = tim_are_q * (tim_pre_q + 1) + tim_pre_q + 1
    BY <1>1, Product DEF Period
  <2>2. tim_are_q * (tim_pre_q + 1) \in Nat
    BY <1>1, Product
  <2> QED BY <1>1, <2>1, <2>2
<1> QED BY <1>2, <1>3, <1>4, <1>5 DEF Left

\* Left and Period are numbers the interval timer knows.
Mapped == Left \in Nat /\ Period \in Nat \ {0}

\* What reset sets the numbers of Left and Period to.
Fresh ==
  /\ tim_pre_q = 0 /\ tim_are_q = Modulus - 1 /\ tim_cnt_q = 0
  /\ tim_mod_q = TRUE /\ tim_ena_q = FALSE

\* At reset the next event is a whole period away.
LEMMA AtReset == Fresh => Left = Period - 1
<1> SUFFICES ASSUME Fresh
             PROVE  Left = Period - 1
  OBVIOUS
<1>1. TicksLeft = Modulus - 1 /\ CyclesToTick = 0
  BY TimerAssumption DEF Fresh, TicksLeft, CyclesToTick, Distance
<1>2. Left = Modulus - 1 /\ Period = Modulus
  BY <1>1, TimerAssumption DEF Fresh, Left, Period
<1> QED BY <1>2

-----------------------------------------------------------------------------
(***************************************************************************)
(* One clock edge.  Limits are the settings that rule Left; running on is  *)
(* an edge at which the timer is not stopped.                              *)
(***************************************************************************)
Limits == <<tim_pre_q, tim_are_q, tim_mod_q>>
RunsOn == tim_ena_q => tim_ena_q'

\* The numbers Left and Period are made of.
LEMMA Parts ==
  ASSUME TypeOK
  PROVE  /\ tim_pre_q \in Nat /\ tim_are_q \in Nat
         /\ TicksLeft \in Nat /\ CyclesToTick \in Nat
         /\ TicksLeft * (tim_pre_q + 1) \in Nat
         /\ tim_are_q * (tim_pre_q + 1) \in Nat
         /\ Period = tim_are_q * (tim_pre_q + 1) + tim_pre_q + 1
         /\ Left = CyclesToTick + TicksLeft * (tim_pre_q + 1)
<1>1. /\ tim_pre_q \in Register /\ tim_are_q \in Register
      /\ tim_cnt_q \in Register /\ pre_cnt_q \in Register
      /\ tim_pre_q \in Nat /\ tim_are_q \in Nat
  BY TimerAssumption DEF TypeOK, Register
<1>2. TicksLeft \in Nat
  BY <1>1, DistanceType DEF TicksLeft, Register
<1>3. CyclesToTick \in Nat
  BY <1>1, DistanceType DEF CyclesToTick
<1>4. /\ TicksLeft * (tim_pre_q + 1) \in Nat
      /\ tim_are_q * (tim_pre_q + 1) \in Nat
  BY <1>1, <1>2, Product
<1>5. Period = tim_are_q * (tim_pre_q + 1) + tim_pre_q + 1
  BY <1>1, Product DEF Period
<1> QED BY <1>1, <1>2, <1>3, <1>4, <1>5 DEF Left

\* An enabled prescaler is one cycle nearer to its tick or starts anew; a
\* stopped one has a whole tick to go, also in the cycle that starts it.
LEMMA TickAdvance ==
  ASSUME TypeOK, Prescale, UNCHANGED tim_pre_q, RunsOn
  PROVE  /\ tim_ena_q /\ ~pre_tick =>
              CyclesToTick # 0 /\ CyclesToTick' = CyclesToTick - 1
         /\ ~(tim_ena_q /\ ~pre_tick) => CyclesToTick' = tim_pre_q
         /\ tim_ena_q /\ pre_tick => CyclesToTick = 0
         /\ ~tim_ena_q => CyclesToTick = tim_pre_q
<1>1. /\ tim_pre_q \in Register /\ pre_cnt_q \in Register
      /\ tim_pre_q \in Nat /\ tim_pre_q' = tim_pre_q
      /\ 0 \in Register
  BY TimerAssumption DEF TypeOK, Register
<1>2. CASE tim_ena_q /\ ~pre_tick
  <2>1. pre_cnt_q' = Inc(pre_cnt_q) /\ tim_ena_q'
    BY <1>2 DEF Prescale, RunsOn
  <2>2. /\ CyclesToTick = Distance(pre_cnt_q, tim_pre_q)
        /\ CyclesToTick' = Distance(Inc(pre_cnt_q), tim_pre_q)
    BY <1>1, <1>2, <2>1 DEF CyclesToTick, Distance
  <2> QED BY <1>1, <1>2, <2>2, DistanceType DEF pre_tick
<1>3. CASE tim_ena_q /\ pre_tick
  <2>1. pre_cnt_q' = 0 /\ tim_ena_q'
    BY <1>3 DEF Prescale, RunsOn
  <2>2. /\ CyclesToTick = Distance(pre_cnt_q, tim_pre_q)
        /\ CyclesToTick' = Distance(0, tim_pre_q)
    BY <1>1, <1>3, <2>1 DEF CyclesToTick, Distance
  <2> QED BY <1>1, <1>3, <2>2, DistanceType DEF pre_tick
<1>4. CASE ~tim_ena_q
  <2>1. pre_cnt_q' = 0
    BY <1>4 DEF Prescale
  <2>2. /\ CyclesToTick = tim_pre_q
        /\ CyclesToTick' = IF tim_ena_q' THEN Distance(0, tim_pre_q)
                           ELSE tim_pre_q
    BY <1>1, <1>4, <2>1 DEF CyclesToTick, Distance
  <2> QED BY <1>1, <1>4, <2>2, DistanceType
<1> QED BY <1>2, <1>3, <1>4

\* The counter is one tick nearer to its limit at every tick of an enabled
\* prescaler, or starts anew at ARE ticks from it.
LEMMA CountAdvance ==
  ASSUME TypeOK, NEW m, NEW off, NEW data,
         Count(m, off, data), ~do_clr(m, off, data), UNCHANGED Limits
  PROVE  /\ ~(tim_ena_q /\ pre_tick) => TicksLeft' = TicksLeft
         /\ tim_ena_q /\ pre_tick /\ ~cnt_at_limit =>
              TicksLeft # 0 /\ TicksLeft' = TicksLeft - 1
         /\ tim_ena_q /\ pre_tick /\ cnt_at_limit =>
              TicksLeft = 0 /\ TicksLeft' = tim_are_q
<1>1. /\ tim_are_q \in Register /\ tim_cnt_q \in Register
      /\ tim_are_q' = tim_are_q /\ tim_mod_q' = tim_mod_q
      /\ 0 \in Register
  BY TimerAssumption DEF TypeOK, Register, Limits
<1>2. CASE ~(tim_ena_q /\ pre_tick)
  <2>1. tim_cnt_q' = tim_cnt_q
    BY <1>2 DEF Count, CountStep
  <2> QED BY <1>1, <1>2, <2>1 DEF TicksLeft, Distance
<1>3. CASE tim_ena_q /\ pre_tick /\ ~cnt_at_limit
  <2>1. tim_cnt_q' = IF tim_mod_q THEN Inc(tim_cnt_q) ELSE Dec(tim_cnt_q)
    BY <1>3 DEF Count, CountStep
  <2>2. CASE tim_mod_q
    <3>1. /\ TicksLeft = Distance(tim_cnt_q, tim_are_q)
          /\ TicksLeft' = Distance(Inc(tim_cnt_q), tim_are_q)
      BY <1>1, <2>1, <2>2 DEF TicksLeft, Distance
    <3> QED BY <1>1, <1>3, <2>2, <3>1, DistanceType DEF cnt_at_limit
  <2>3. CASE ~tim_mod_q
    BY <1>1, <1>3, <2>1, <2>3, TimerAssumption
       DEF TicksLeft, cnt_at_limit, Dec, Register
  <2> QED BY <1>3, <2>2, <2>3
<1>4. CASE tim_ena_q /\ pre_tick /\ cnt_at_limit
  <2>1. tim_cnt_q' = IF tim_mod_q THEN 0 ELSE tim_are_q
    BY <1>4 DEF Count, CountStep
  <2>2. CASE tim_mod_q
    <3>1. /\ TicksLeft = Distance(tim_cnt_q, tim_are_q)
          /\ TicksLeft' = Distance(0, tim_are_q)
      BY <1>1, <2>1, <2>2 DEF TicksLeft, Distance
    <3> QED BY <1>1, <1>4, <2>2, <3>1, DistanceType DEF cnt_at_limit
  <2>3. CASE ~tim_mod_q
    BY <1>1, <1>4, <2>1, <2>3 DEF TicksLeft, cnt_at_limit
  <2> QED BY <1>4, <2>2, <2>3
<1> QED BY <1>2, <1>3, <1>4

\* While its limits are left alone and it runs on, an enabled timer is one
\* cycle nearer to its next event at every clock edge, or a whole period away
\* from it; a stopped one stays where it is, also when it is started.
LEMMA Advance ==
  ASSUME TypeOK, TypeOK', NEW m, NEW off, NEW data,
         Prescale, Count(m, off, data), ~do_clr(m, off, data),
         UNCHANGED Limits, RunsOn
  PROVE  Left' = IT!Advanced
<1>1. tim_pre_q' = tim_pre_q /\ tim_are_q' = tim_are_q
  BY DEF Limits
<1>2. /\ tim_pre_q \in Nat /\ tim_are_q \in Nat
      /\ TicksLeft \in Nat /\ CyclesToTick \in Nat
      /\ TicksLeft * (tim_pre_q + 1) \in Nat
      /\ tim_are_q * (tim_pre_q + 1) \in Nat
      /\ Period = tim_are_q * (tim_pre_q + 1) + tim_pre_q + 1
      /\ Left = CyclesToTick + TicksLeft * (tim_pre_q + 1)
  BY Parts
<1>3. Left' = CyclesToTick' + TicksLeft' * (tim_pre_q + 1)
  BY <1>1 DEF Left
<1>4. CASE ~tim_ena_q
  <2>1. CyclesToTick' = CyclesToTick /\ TicksLeft' = TicksLeft
    BY <1>1, <1>4, TickAdvance, CountAdvance
  <2> QED BY <1>2, <1>3, <1>4, <2>1 DEF IT!Advanced
<1>5. CASE tim_ena_q /\ ~pre_tick
  <2>1. /\ CyclesToTick # 0 /\ CyclesToTick' = CyclesToTick - 1
        /\ TicksLeft' = TicksLeft
    BY <1>1, <1>5, TickAdvance, CountAdvance
  <2>2. Left # 0 /\ Left' = Left - 1
    BY <1>2, <1>3, <2>1
  <2> QED BY <1>5, <2>2 DEF IT!Advanced
<1>6. CASE tim_ena_q /\ pre_tick /\ ~cnt_at_limit
  <2>1. /\ CyclesToTick = 0 /\ CyclesToTick' = tim_pre_q
        /\ TicksLeft # 0 /\ TicksLeft' = TicksLeft - 1
    BY <1>1, <1>6, TickAdvance, CountAdvance
  <2>2. /\ TicksLeft * (tim_pre_q + 1)
             = (TicksLeft - 1) * (tim_pre_q + 1) + tim_pre_q + 1
        /\ (TicksLeft - 1) * (tim_pre_q + 1) \in Nat
    BY <1>2, <2>1, Product
  <2>3. Left' = tim_pre_q + (TicksLeft - 1) * (tim_pre_q + 1)
    BY <1>3, <2>1
  <2>4. Left # 0 /\ Left' = Left - 1
    BY <1>2, <2>1, <2>2, <2>3
  <2> QED BY <1>6, <2>4 DEF IT!Advanced
<1>7. CASE tim_ena_q /\ pre_tick /\ cnt_at_limit
  <2>1. /\ CyclesToTick = 0 /\ CyclesToTick' = tim_pre_q
        /\ TicksLeft = 0 /\ TicksLeft' = tim_are_q
    BY <1>1, <1>7, TickAdvance, CountAdvance
  <2>2. Left = 0
    BY <1>2, <2>1, Product
  <2>3. Left' = tim_pre_q + tim_are_q * (tim_pre_q + 1)
    BY <1>3, <2>1
  <2>4. Left' = Period - 1
    BY <1>2, <2>3
  <2> QED BY <1>7, <2>2, <2>4 DEF IT!Advanced
<1> QED BY <1>4, <1>5, <1>6, <1>7

\* CLR puts the next event off by less than a period: the counter has at most
\* ARE ticks to go, and the prescaler goes on.
LEMMA ClearPutsOff ==
  ASSUME TypeOK, TypeOK', NEW m, NEW off, NEW data,
         Prescale, Count(m, off, data), do_clr(m, off, data),
         UNCHANGED settings
  PROVE  Left' < Left + Period
<1>1. /\ tim_pre_q' = tim_pre_q /\ tim_are_q' = tim_are_q
      /\ tim_mod_q' = tim_mod_q /\ RunsOn
  BY DEF settings, RunsOn
<1>2. /\ tim_pre_q \in Nat /\ tim_are_q \in Nat
      /\ TicksLeft \in Nat /\ CyclesToTick \in Nat
      /\ TicksLeft * (tim_pre_q + 1) \in Nat
      /\ tim_are_q * (tim_pre_q + 1) \in Nat
      /\ Period = tim_are_q * (tim_pre_q + 1) + tim_pre_q + 1
      /\ Left = CyclesToTick + TicksLeft * (tim_pre_q + 1)
  BY Parts
<1>3. Left' = CyclesToTick' + TicksLeft' * (tim_pre_q + 1)
  BY <1>1 DEF Left
<1>4. TicksLeft' = tim_are_q \/ TicksLeft' = 0
  <2>1. tim_cnt_q' = 0 /\ tim_are_q \in Register
    BY DEF Count, TypeOK
  <2>2. TicksLeft' = IF tim_mod_q THEN Distance(0, tim_are_q) ELSE 0
    BY <1>1, <2>1 DEF TicksLeft, Distance
  <2>3. Distance(0, tim_are_q) = tim_are_q
    BY <2>1, DistanceType, ResetValues
  <2> QED BY <2>2, <2>3
<1>5. TicksLeft' * (tim_pre_q + 1) \in 0 .. tim_are_q * (tim_pre_q + 1)
  <2>1. 0 * (tim_pre_q + 1) = 0
    BY <1>2
  <2> QED BY <1>2, <1>4, <2>1
<1>6. CyclesToTick' = tim_pre_q \/ CyclesToTick' = CyclesToTick - 1
  BY <1>1, TickAdvance
<1> QED
  <2> DEFINE t == TicksLeft' * (tim_pre_q + 1)
             a == tim_are_q * (tim_pre_q + 1)
             q == TicksLeft * (tim_pre_q + 1)
  <2>1. /\ t \in 0 .. a /\ a \in Nat /\ q \in Nat
        /\ Left' = CyclesToTick' + t /\ Left = CyclesToTick + q
        /\ Period = a + tim_pre_q + 1
    BY <1>2, <1>3, <1>5
  <2> HIDE DEF t, a, q
  <2> QED BY <1>2, <1>6, <2>1

\* Stopping the timer puts the next event off by less than a period: the
\* prescaler has a whole tick to go when the timer is started again.
LEMMA StopPutsOff ==
  ASSUME TypeOK, TypeOK', NEW m, NEW off, NEW data,
         Count(m, off, data), ~do_clr(m, off, data),
         UNCHANGED Limits, tim_ena_q, ~tim_ena_q'
  PROVE  Left' < Left + Period
<1>1. tim_pre_q' = tim_pre_q
  BY DEF Limits
<1>2. /\ tim_pre_q \in Nat /\ tim_are_q \in Nat
      /\ TicksLeft \in Nat /\ CyclesToTick \in Nat
      /\ TicksLeft * (tim_pre_q + 1) \in Nat
      /\ tim_are_q * (tim_pre_q + 1) \in Nat
      /\ Period = tim_are_q * (tim_pre_q + 1) + tim_pre_q + 1
      /\ Left = CyclesToTick + TicksLeft * (tim_pre_q + 1)
  BY Parts
<1>3. Left' = tim_pre_q + TicksLeft' * (tim_pre_q + 1)
  BY <1>1 DEF Left, CyclesToTick
<1>4. CASE ~pre_tick
  <2>1. TicksLeft' = TicksLeft
    BY <1>4, CountAdvance
  <2>2. Left' = tim_pre_q + TicksLeft * (tim_pre_q + 1)
    BY <1>3, <2>1
  <2> QED BY <1>2, <2>2
<1>5. CASE pre_tick /\ ~cnt_at_limit
  <2>1. TicksLeft # 0 /\ TicksLeft' = TicksLeft - 1
    BY <1>5, CountAdvance
  <2>2. TicksLeft * (tim_pre_q + 1)
          = (TicksLeft - 1) * (tim_pre_q + 1) + tim_pre_q + 1
    BY <1>2, <2>1, Product
  <2>3. (TicksLeft - 1) * (tim_pre_q + 1) \in Nat
    BY <1>2, <2>1, Product
  <2>4. Left' = tim_pre_q + (TicksLeft - 1) * (tim_pre_q + 1)
    BY <1>3, <2>1
  <2> QED BY <1>2, <2>2, <2>3, <2>4
<1>6. CASE pre_tick /\ cnt_at_limit
  <2>1. TicksLeft' = tim_are_q
    BY <1>6, CountAdvance
  <2>2. Left' = tim_pre_q + tim_are_q * (tim_pre_q + 1)
    BY <1>3, <2>1
  <2> QED BY <1>2, <2>2
<1> QED BY <1>4, <1>5, <1>6

\* The event counter counts the events of the interval timer.
LEMMA CountsEvents ==
  ASSUME TypeOK, NEW m, NEW off, NEW data,
         Count(m, off, data), ~do_clr(m, off, data), ~do_evc(m, off, data)
  PROVE  tim_evn_q' = IT!Counted
  BY LeftType DEF Count, CountStep, IT!Counted, IT!Expires, Inc

\* For every register width, and whatever software writes and when, the
\* timer's registers implement the interval timer: in a cycle without a write
\* that says otherwise the countdown advances by one, and events come exactly
\* every (PRE + 1) * (ARE + 1) cycles.
THEOREM TimerImplements == Spec => ImplementsIntervalTimer
<1>1. Init => IT!Init
  <2> SUFFICES ASSUME Init
               PROVE  IT!Init
    OBVIOUS
  <2>1. TypeOK
    BY InitType
  <2>2. Left = Period - 1
    BY AtReset DEF Init, Fresh
  <2> QED BY <2>1, <2>2, LeftType DEF Init, IT!Init
<1>2. /\ TypeOK /\ TypeOK' /\ Mapped' /\ [Next]_vars
      => [IT!Next]_(IT!vars)
  <2> SUFFICES ASSUME TypeOK, TypeOK', Mapped', [Next]_vars
               PROVE  IT!Next \/ UNCHANGED IT!vars
    OBVIOUS
  <2>1. Left' \in Nat /\ Period' \in Nat \ {0} /\ tim_ena_q' \in BOOLEAN
    BY DEF TypeOK, Mapped
  <2>2. ASSUME NEW m \in BridgeSignals, NEW off \in Offsets,
               NEW data \in Values, Edge(m, off, data)
        PROVE  IT!Next
    <3> USE <2>2 DEF Edge
    <3>1. IT!Cycle(Command(m, off, data))
      BY DEF IT!Cycle
    <3>2. CASE do_clr(m, off, data)
      <4>1. UNCHANGED settings /\ Command(m, off, data) = "CLR"
        BY <3>2 DEF do_clr, WriteRegisters, settings, Command
      <4>2. tim_evn_q' = tim_evn_q
        BY <3>2 DEF Count, CountStep, do_clr, do_evc
      <4>3. Period' = Period /\ tim_ena_q' = tim_ena_q
        BY <4>1 DEF settings, Period
      <4>4. Left' < Left + Period
        BY <3>2, <4>1, ClearPutsOff
      <4> QED BY <2>1, <3>1, <4>1, <4>2, <4>3, <4>4
              DEF IT!Next, IT!Restart
    <3>3. CASE do_evc(m, off, data)
      <4>1. /\ UNCHANGED settings /\ ~do_clr(m, off, data)
            /\ Command(m, off, data) = "EVC"
        BY <3>3 DEF do_evc, do_clr, WriteRegisters, settings, Command
      <4>2. UNCHANGED Limits /\ RunsOn
        BY <4>1 DEF settings, Limits, RunsOn
      <4>3. Left' = IT!Advanced
        BY <4>1, <4>2, Advance
      <4>4. tim_evn_q' = 0
        BY <3>3 DEF Count
      <4>5. Period' = Period /\ tim_ena_q' = tim_ena_q
        BY <4>1 DEF settings, Period
      <4> QED BY <3>1, <4>1, <4>3, <4>4, <4>5 DEF IT!Next, IT!Acknowledge
    <3>4. CASE write_strobe(m) /\ off = 3
      <4>1. /\ UNCHANGED Limits /\ ~do_clr(m, off, data)
            /\ ~do_evc(m, off, data) /\ Command(m, off, data) = "ENA"
        BY <3>4 DEF do_evc, do_clr, WriteRegisters, Limits, Command
      <4>2. tim_evn_q' = IT!Counted
        BY <4>1, CountsEvents
      <4>3. Period' = Period
        BY <4>1 DEF Limits, Period
      <4>4. CASE tim_ena_q /\ ~tim_ena_q'
        <5>1. Left' < Left + Period
          BY <4>1, <4>4, StopPutsOff
        <5> QED BY <2>1, <3>1, <4>1, <4>2, <4>3, <4>4, <5>1
                DEF IT!Next, IT!Switch
      <4>5. CASE ~(tim_ena_q /\ ~tim_ena_q')
        <5>1. RunsOn
          BY <4>5 DEF RunsOn
        <5>2. Left' = IT!Advanced
          BY <4>1, <5>1, Advance
        <5> QED BY <2>1, <3>1, <4>1, <4>2, <4>3, <4>5, <5>2
                DEF IT!Next, IT!Switch
      <4> QED BY <4>4, <4>5
    <3>5. CASE write_strobe(m) /\ off \in {0, 1, 4}
      <4>1. /\ ~do_clr(m, off, data) /\ ~do_evc(m, off, data)
            /\ tim_ena_q' = tim_ena_q
        BY <3>5 DEF do_evc, do_clr, WriteRegisters
      <4>2. /\ Command(m, off, data) \in {"PRE", "ARE", "MOD"}
            /\ Command(m, off, data) = "MOD" => off = 4
        BY <3>5 DEF Command
      <4>3. off = 4 => Period' = Period
        BY DEF WriteRegisters, Period
      <4>4. tim_evn_q' = IT!Counted
        BY <4>1, CountsEvents
      <4>5. command' = "MOD" => Period' = Period
        BY <4>2, <4>3
      <4> QED BY <2>1, <3>1, <4>1, <4>2, <4>4, <4>5
              DEF IT!Next, IT!Reprogram
    <3>6. CASE /\ ~do_clr(m, off, data) /\ ~do_evc(m, off, data)
               /\ ~(write_strobe(m) /\ off \in {0, 1, 3, 4})
      <4>1. UNCHANGED settings /\ Command(m, off, data) = "none"
        BY <3>6 DEF WriteRegisters, settings, Command, do_clr, do_evc
      <4>2. UNCHANGED Limits /\ RunsOn
        BY <4>1 DEF settings, Limits, RunsOn
      <4>3. Left' = IT!Advanced
        BY <3>6, <4>2, Advance
      <4>4. tim_evn_q' = IT!Counted
        BY <3>6, CountsEvents
      <4>5. Period' = Period /\ tim_ena_q' = tim_ena_q
        BY <4>1 DEF settings, Period
      <4> QED BY <3>1, <4>1, <4>3, <4>4, <4>5 DEF IT!Next, IT!Run
    <3> QED BY <3>2, <3>3, <3>4, <3>5, <3>6
  <2>3. CASE Reset
    <3>1. Fresh'
      BY <2>3 DEF Reset, Fresh
    <3>2. (Left = Period - 1)'
      BY <3>1, AtReset, PTL
    <3> QED BY <2>1, <2>3, <3>2
            DEF Reset, IT!Next, IT!PowerOn, IT!Cycle
  <2>4. CASE UNCHANGED vars
    BY <2>4 DEF vars, settings, counters, IT!vars, Left, Period,
                CyclesToTick, TicksLeft, Distance
  <2> QED BY <2>2, <2>3, <2>4 DEF Next, Tick
<1>3. TypeOK => Mapped
  BY LeftType DEF Mapped
<1>4. QED
  BY <1>1, <1>2, <1>3, TypeCorrect, PTL
     DEF Spec, IT!Spec, ImplementsIntervalTimer

=============================================================================
