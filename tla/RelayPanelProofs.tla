-------------------------- MODULE RelayPanelProofs --------------------------
(***************************************************************************)
(* What RelayPanelProps states as safety, proved for every set of inputs,  *)
(* of commanded relays and inputs and every hold time.                     *)
(*                                                                         *)
(* The table of the firmware (cached), not the chip, is what ties relays   *)
(* to parameters: it follows them whether or not writes arrive (TableOK),  *)
(* and the chip follows it from each write that does (ChipOK). The inputs  *)
(* are as the levels that cleared INT said, but for what commands made of  *)
(* them (SeenOK), and a press that was not acted on is younger than the    *)
(* last action (HoldOK).                                                   *)
(***************************************************************************)
EXTENDS RelayPanelProps, TLAPS

\* From the pin table on, each cached level is the one its parameter asks for.
\* The parameters are 0 when the table is built.
TableOK ==
    /\ phase = "init" => out = AllOff
    /\ alive => \A o \in Outputs : cached[o] = ~out[o]

\* The chip drives what is cached, but for a write that failed.
ChipOK == alive /\ ~dirty => latch = cached

\* The parameters hold the levels at the access that last cleared INT, but for
\* exactly those that commands have changed since.
SeenOK ==
    fresh /\ chip = "reads" =>
        \A i \in Inputs : i \in forced <=> in[i] # (seen[i] # Released(i))

\* The mask is at most as old as the last action, until it has been acted on.
HoldOK == ~handled => age <= rest

IInv == TypeOK /\ TableOK /\ ChipOK /\ SeenOK /\ HoldOK

-----------------------------------------------------------------------------
\* The actions, one group at a time

LEMMA InitHolds == Init => IInv
  <1> SUFFICES ASSUME Init PROVE IInv
      OBVIOUS
  <1> USE RelayPanelAssumption
  <1>1. TypeOK
    <2>1. /\ out \in [Outputs -> BOOLEAN] /\ cached \in [Outputs -> BOOLEAN]
          /\ latch \in [Outputs -> BOOLEAN]
        BY DEF Init, AllOff, AllHigh
    <2>2. /\ in \in [Inputs -> BOOLEAN] /\ raw \in [Inputs -> BOOLEAN]
          /\ seen \in [Inputs -> BOOLEAN]
        BY DEF Init
    <2>3. cursor \in Outputs /\ age \in 0 .. Hold /\ rest \in 0 .. Hold
        BY DEF Init, Outputs
    <2> QED
        BY <2>1, <2>2, <2>3 DEF Init, TypeOK
  <1>2. TableOK /\ ChipOK /\ SeenOK
      BY DEF Init, TableOK, ChipOK, SeenOK
  <1>3. HoldOK
      BY DEF Init, HoldOK
  <1> QED
      BY <1>1, <1>2, <1>3 DEF IInv

\* A port write keeps the table in step with the chip.
LEMMA WritePortFacts ==
    ASSUME TypeOK, NEW levels \in [Outputs -> BOOLEAN], NEW ok \in BOOLEAN,
           WritePort(levels, ok)
    PROVE  /\ latch' \in [Outputs -> BOOLEAN]
           /\ seen' \in [Inputs -> BOOLEAN]
           /\ dirty' \in BOOLEAN
           /\ ~dirty' => latch' = levels
           /\ chip = "reads" => seen' = seen
  BY DEF WritePort, TypeOK

\* A relay parameter is set and its callback, if there is one, has run.
LEMMA SetParamFacts ==
    ASSUME IInv, NEW o \in Outputs, NEW v \in BOOLEAN, NEW ok \in BOOLEAN,
           SetParam(o, v, ok)
    PROVE  /\ out' \in [Outputs -> BOOLEAN] /\ cached' \in [Outputs -> BOOLEAN]
           /\ latch' \in [Outputs -> BOOLEAN] /\ seen' \in [Inputs -> BOOLEAN]
           /\ dirty' \in BOOLEAN
           /\ alive => \A p \in Outputs : cached'[p] = ~out'[p]
           /\ alive /\ ~dirty' => latch' = cached'
           /\ chip = "reads" => seen' = seen
           /\ ~dirty => \A p \in Outputs :
                           latch'[p] # latch[p] => out'[p] # out[p]
  <1>1. CASE out[o] = v
      BY <1>1 DEF SetParam, relayVars, IInv, TypeOK, TableOK, ChipOK
  <1>2. CASE out[o] # v /\ ~alive
      BY <1>2 DEF SetParam, IInv, TypeOK
  <1>3. CASE out[o] # v /\ alive
    <2>1. /\ out' = [out EXCEPT ![o] = v]
          /\ cached' = [cached EXCEPT ![o] = ~v]
          /\ WritePort(cached', ok)
        BY <1>3 DEF SetParam, SetOutput
    <2>2. cached' \in [Outputs -> BOOLEAN] /\ out' \in [Outputs -> BOOLEAN]
        BY <2>1 DEF IInv, TypeOK
    <2>3. \A p \in Outputs : cached'[p] = ~out'[p]
        BY <1>3, <2>1 DEF IInv, TypeOK, TableOK
    <2>4. \A p \in Outputs : cached'[p] # cached[p] => out'[p] # out[p]
        BY <1>3, <2>1 DEF IInv, TypeOK
    <2>5. /\ latch' \in [Outputs -> BOOLEAN]
          /\ seen' \in [Inputs -> BOOLEAN]
          /\ dirty' \in BOOLEAN
          /\ ~dirty' => latch' = cached'
          /\ chip = "reads" => seen' = seen
        BY <2>1, <2>2, WritePortFacts DEF IInv
    <2>6. ~dirty => latch = cached
        BY <1>3 DEF IInv, ChipOK
    <2>7. latch' = cached' \/ latch' = latch
        BY <2>1 DEF WritePort
    <2> QED
        BY <2>2, <2>3, <2>4, <2>5, <2>6, <2>7
  <1> QED
      BY <1>1, <1>2, <1>3

\* Another non-zero value leaves the table as it is.
LEMMA AgainFacts ==
    ASSUME IInv, NEW o \in Outputs, NEW v \in BOOLEAN, NEW ok \in BOOLEAN,
           out[o], v, alive, SetOutput(o, v, ok)
    PROVE  cached' = cached /\ WritePort(cached, ok)
  <1>1. cached[o] = ~v
      BY DEF IInv, TypeOK, TableOK
  <1>2. cached' = [cached EXCEPT ![o] = ~v] /\ WritePort(cached', ok)
      BY DEF SetOutput
  <1>3. cached' = cached
      BY <1>1, <1>2 DEF IInv, TypeOK
  <1>4. WritePort(cached', ok) => WritePort(cached, ok)
      BY <1>3 DEF WritePort
  <1> QED
      BY <1>2, <1>3, <1>4

LEMMA ReadInputsFacts ==
    ASSUME IInv, NEW ok \in BOOLEAN, ReadInputs(ok), UNCHANGED chip
    PROVE  /\ in' \in [Inputs -> BOOLEAN] /\ seen' \in [Inputs -> BOOLEAN]
           /\ fresh' \in BOOLEAN /\ forced' \subseteq Inputs
           /\ SeenOK'
  <1>1. CASE ok
      BY <1>1 DEF ReadInputs, IInv, TypeOK, SeenOK
  <1>2. CASE ~ok
      BY <1>2 DEF ReadInputs, inputVars, IInv, TypeOK, SeenOK
  <1> QED
      BY <1>1, <1>2

-----------------------------------------------------------------------------
\* The invariant is inductive

LEMMA StartUpHolds ==
    ASSUME IInv, NEW ok \in BOOLEAN, StartUp(ok)
    PROVE  IInv'
  <1> USE RelayPanelAssumption
  <1>1. CASE InitExpander(ok)
    <2>1. /\ alive' = ok /\ phase' \in {"defaults", "start"}
          /\ UNCHANGED <<wired, cursor, out, in, fresh, forced, outside, logicVars>>
        BY <1>1 DEF InitExpander
    <2>2. CASE ok
      <3>1. WritePort(AllHigh, TRUE) /\ cached' = AllHigh
          BY <1>1, <2>2 DEF InitExpander
      <3>2. AllHigh \in [Outputs -> BOOLEAN]
          BY DEF AllHigh
      <3>3. /\ latch' = AllHigh /\ dirty' = FALSE
            /\ seen' \in [Inputs -> BOOLEAN]
            /\ chip = "reads" => seen' = seen
          BY <3>1, <3>2, WritePortFacts DEF IInv, WritePort
      <3>4. TypeOK'
          BY <2>1, <3>1, <3>2, <3>3 DEF IInv, TypeOK, outside, logicVars
      <3>5. out = AllOff
          BY <1>1 DEF InitExpander, IInv, TableOK
      <3>6. TableOK' /\ ChipOK'
          BY <2>1, <3>1, <3>3, <3>5 DEF TableOK, ChipOK, AllOff, AllHigh
      <3>7. SeenOK' /\ HoldOK'
          BY <2>1, <3>3 DEF IInv, SeenOK, HoldOK, outside, logicVars
      <3> QED
          BY <3>4, <3>6, <3>7 DEF IInv
    <2>3. CASE ~ok
      <3>1. UNCHANGED <<latch, seen, dirty, cached>>
          BY <1>1, <2>3 DEF InitExpander
      <3> QED
          BY <2>1, <2>3, <3>1
          DEF IInv, TypeOK, TableOK, ChipOK, SeenOK, HoldOK, outside, logicVars
    <2> QED
        BY <2>2, <2>3
  <1>2. CASE ApplyDefault(ok)
    <2>1. /\ cached' = [cached EXCEPT ![cursor] = ~out[cursor]]
          /\ WritePort(cached', ok)
          /\ phase' \in {"read", "defaults"}
          /\ UNCHANGED <<alive, wired, out, in, fresh, forced, outside, logicVars>>
        BY <1>2 DEF ApplyDefault, SetOutput
    <2>2. cursor' \in Outputs
        BY <1>2 DEF ApplyDefault, LastDefault, IInv, TypeOK, Outputs
    <2>3. cached' \in [Outputs -> BOOLEAN]
        BY <2>1 DEF IInv, TypeOK
    <2>4. /\ latch' \in [Outputs -> BOOLEAN] /\ seen' \in [Inputs -> BOOLEAN]
          /\ dirty' \in BOOLEAN /\ (~dirty' => latch' = cached')
          /\ chip = "reads" => seen' = seen
        BY <2>1, <2>3, WritePortFacts DEF IInv
    <2>5. TypeOK'
        BY <2>1, <2>2, <2>3, <2>4 DEF IInv, TypeOK, outside, logicVars
    <2>6. TableOK' /\ ChipOK'
        BY <2>1, <2>4 DEF IInv, TypeOK, TableOK, ChipOK
    <2>7. SeenOK' /\ HoldOK'
        BY <2>1, <2>4 DEF IInv, SeenOK, HoldOK, outside, logicVars
    <2> QED
        BY <2>5, <2>6, <2>7 DEF IInv
  <1>3. CASE FirstRead(ok)
    <2>1. /\ ReadInputs(ok) /\ phase' = "eint"
          /\ UNCHANGED <<alive, wired, cursor, relayVars, outside, logicVars>>
        BY <1>3 DEF FirstRead
    <2>2. /\ in' \in [Inputs -> BOOLEAN] /\ seen' \in [Inputs -> BOOLEAN]
          /\ fresh' \in BOOLEAN /\ forced' \subseteq Inputs
          /\ SeenOK'
        BY <2>1, ReadInputsFacts DEF outside
    <2> QED
        BY <2>1, <2>2
        DEF IInv, TypeOK, TableOK, ChipOK, HoldOK, relayVars, outside, logicVars
  <1>4. CASE SetUpInterrupt(ok)
      BY <1>4 DEF SetUpInterrupt, IInv, TypeOK, TableOK, ChipOK, SeenOK, HoldOK,
                  relayVars, inputVars, outside, logicVars
  <1>5. CASE LogicStart
    <2>1. PressMask \subseteq Inputs
        BY DEF PressMask
    <2>2. age' \in 0 .. Hold /\ age' <= rest'
        BY <1>5 DEF LogicStart, IInv, TypeOK
    <2>3. /\ phase' = "running" /\ mask' = PressMask /\ handled' = FALSE
          /\ UNCHANGED <<alive, wired, cursor, relayVars, inputVars, outside,
                         rest>>
        BY <1>5 DEF LogicStart
    <2>4. TypeOK'
        BY <2>1, <2>2, <2>3 DEF IInv, TypeOK, relayVars, inputVars, outside
    <2>5. TableOK' /\ ChipOK' /\ SeenOK' /\ HoldOK'
        BY <2>2, <2>3
        DEF IInv, TableOK, ChipOK, SeenOK, HoldOK, relayVars, inputVars, outside
    <2> QED
        BY <2>4, <2>5 DEF IInv
  <1> QED
      BY <1>1, <1>2, <1>3, <1>4, <1>5 DEF StartUp

\* A parameter set in the running system, by a command or by a combination.
LEMMA SettingHolds ==
    ASSUME IInv, NEW o \in Outputs, NEW v \in BOOLEAN, NEW ok \in BOOLEAN,
           phase = "running", SetParam(o, v, ok),
           UNCHANGED <<bootVars, in, fresh, forced, outside>>
    PROVE  /\ out' \in [Outputs -> BOOLEAN] /\ cached' \in [Outputs -> BOOLEAN]
           /\ latch' \in [Outputs -> BOOLEAN] /\ seen' \in [Inputs -> BOOLEAN]
           /\ dirty' \in BOOLEAN
           /\ TableOK' /\ ChipOK' /\ SeenOK'
  <1>1. /\ out' \in [Outputs -> BOOLEAN] /\ cached' \in [Outputs -> BOOLEAN]
        /\ latch' \in [Outputs -> BOOLEAN] /\ seen' \in [Inputs -> BOOLEAN]
        /\ dirty' \in BOOLEAN
        /\ alive => \A p \in Outputs : cached'[p] = ~out'[p]
        /\ alive /\ ~dirty' => latch' = cached'
        /\ chip = "reads" => seen' = seen
      BY SetParamFacts
  <1>2. TableOK' /\ ChipOK'
      BY <1>1 DEF TableOK, ChipOK, bootVars
  <1>3. SeenOK'
      BY <1>1 DEF IInv, SeenOK, outside
  <1> QED
      BY <1>1, <1>2, <1>3

LEMMA CommandHolds ==
    ASSUME IInv, NEW o \in Commanded, NEW v \in BOOLEAN, NEW ok \in BOOLEAN,
           Command(o, v, ok)
    PROVE  IInv'
  <1>1. o \in Outputs
      BY RelayPanelAssumption DEF Outputs
  <1>2. /\ phase = "running"
        /\ UNCHANGED <<bootVars, in, fresh, forced, outside, logicVars>>
      BY DEF Command
  <1> DEFINE Set == /\ out' \in [Outputs -> BOOLEAN]
                    /\ cached' \in [Outputs -> BOOLEAN]
                    /\ latch' \in [Outputs -> BOOLEAN]
                    /\ seen' \in [Inputs -> BOOLEAN]
                    /\ dirty' \in BOOLEAN
                    /\ TableOK' /\ ChipOK' /\ SeenOK'
  <1>3. Set
    <2>1. CASE SetParam(o, v, ok)
        BY <1>1, <1>2, <2>1, SettingHolds
    <2>2. CASE out[o] /\ v /\ alive /\ SetOutput(o, v, ok) /\ UNCHANGED out
      <3>1. cached' = cached /\ WritePort(cached, ok)
          BY <1>1, <2>2, AgainFacts
      <3>2. /\ latch' \in [Outputs -> BOOLEAN] /\ seen' \in [Inputs -> BOOLEAN]
            /\ dirty' \in BOOLEAN /\ (~dirty' => latch' = cached)
            /\ chip = "reads" => seen' = seen
          BY <3>1, WritePortFacts DEF IInv, TypeOK
      <3>3. TableOK' /\ ChipOK'
          BY <1>2, <2>2, <3>1, <3>2 DEF IInv, TableOK, ChipOK, bootVars
      <3>4. SeenOK'
          BY <1>2, <3>2 DEF IInv, SeenOK, outside
      <3> QED
          BY <2>2, <3>1, <3>2, <3>3, <3>4 DEF IInv, TypeOK
    <2> QED
        BY <2>1, <2>2 DEF Command
  <1>4. TypeOK' /\ HoldOK'
      BY <1>2, <1>3 DEF IInv, TypeOK, HoldOK, bootVars, outside, logicVars
  <1> QED
      BY <1>3, <1>4 DEF IInv

\* What a command makes of an input parameter is what forced records.
LEMMA CommandInputHolds ==
    ASSUME IInv, NEW i \in Overridden, CommandInput(i)
    PROVE  IInv'
  <1>1. i \in Inputs
      BY RelayPanelAssumption
  <1>2. /\ in' = [in EXCEPT ![i] = ~in[i]]
        /\ forced' = IF i \in forced THEN forced \ {i} ELSE forced \cup {i}
        /\ UNCHANGED <<bootVars, relayVars, seen, fresh, outside, logicVars>>
      BY DEF CommandInput
  <1>3. in' \in [Inputs -> BOOLEAN] /\ forced' \subseteq Inputs
      BY <1>1, <1>2 DEF IInv, TypeOK
  <1>4. TypeOK'
      BY <1>2, <1>3
      DEF IInv, TypeOK, bootVars, relayVars, outside, logicVars
  <1>5. TableOK' /\ ChipOK' /\ HoldOK'
      BY <1>2 DEF IInv, TableOK, ChipOK, HoldOK, bootVars, relayVars, logicVars
  <1>6. ASSUME fresh, chip = "reads", NEW j \in Inputs
        PROVE  j \in forced' <=> in'[j] # (seen[j] # Released(j))
    <2>1. j \in forced <=> in[j] # (seen[j] # Released(j))
        BY <1>6 DEF IInv, SeenOK
    <2>2. in[j] \in BOOLEAN /\ Released(j) \in BOOLEAN
        BY DEF IInv, TypeOK, Released
    <2>3. CASE j = i
      <3>1. in'[j] = ~in[j] /\ (j \in forced' <=> j \notin forced)
          BY <1>1, <1>2, <2>3 DEF IInv, TypeOK
      <3> QED
          BY <2>1, <2>2, <3>1
    <2>4. CASE j # i
      <3>1. in'[j] = in[j] /\ (j \in forced' <=> j \in forced)
          BY <1>1, <1>2, <2>4 DEF IInv, TypeOK
      <3> QED
          BY <2>1, <3>1
    <2> QED
        BY <2>3, <2>4
  <1>7. SeenOK'
      BY <1>2, <1>6 DEF SeenOK, outside
  <1> QED
      BY <1>4, <1>5, <1>7 DEF IInv

\* A combination toggles one relay or none.
LEMMA ComboHolds ==
    ASSUME IInv, NEW m, NEW ok \in BOOLEAN, phase = "running", Combo(m, ok),
           UNCHANGED <<bootVars, in, fresh, forced, outside>>
    PROVE  /\ out' \in [Outputs -> BOOLEAN] /\ cached' \in [Outputs -> BOOLEAN]
           /\ latch' \in [Outputs -> BOOLEAN] /\ seen' \in [Inputs -> BOOLEAN]
           /\ dirty' \in BOOLEAN
           /\ TableOK' /\ ChipOK' /\ SeenOK'
  <1>1. CASE m \in DOMAIN Toggles
    <2>1. Toggles[m] \in Outputs
        BY <1>1 DEF Toggles, Outputs
    <2>2. out[Toggles[m]] \in BOOLEAN /\ SetParam(Toggles[m], ~out[Toggles[m]], ok)
        BY <1>1, <2>1 DEF Combo, IInv, TypeOK
    <2> DEFINE o == Toggles[m]
               v == ~out[Toggles[m]]
    <2>3. o \in Outputs /\ v \in BOOLEAN /\ SetParam(o, v, ok)
        BY <2>1, <2>2
    <2> HIDE DEF o, v
    <2> QED
        BY <2>3, SettingHolds
  <1>2. CASE m \notin DOMAIN Toggles
      BY <1>2 DEF Combo, IInv, TypeOK, TableOK, ChipOK, SeenOK,
                  relayVars, bootVars, outside
  <1> QED
      BY <1>1, <1>2

LEMMA TimerHolds ==
    ASSUME IInv, NEW ok \in BOOLEAN, Timer(ok)
    PROVE  IInv'
  <1> USE RelayPanelAssumption
  <1>1. phase = "running" /\ UNCHANGED <<bootVars, in, fresh, forced, outside>>
      BY DEF Timer
  <1>2. CASE Notice
    <2>1. PressMask \subseteq Inputs
        BY DEF PressMask
    <2>2. /\ mask' = PressMask /\ age' = 0 /\ handled' = FALSE
          /\ UNCHANGED <<rest, relayVars, seen>>
        BY <1>2 DEF Notice
    <2>3. age' \in 0 .. Hold /\ age' <= rest'
        BY <2>2 DEF IInv, TypeOK
    <2>4. TypeOK'
        BY <1>1, <2>1, <2>2, <2>3 DEF IInv, TypeOK, bootVars, relayVars, outside
    <2>5. TableOK' /\ ChipOK' /\ SeenOK' /\ HoldOK'
        BY <1>1, <2>2, <2>3
        DEF IInv, TableOK, ChipOK, SeenOK, HoldOK, bootVars, relayVars, outside
    <2> QED
        BY <2>4, <2>5 DEF IInv
  <1>3. CASE Act(ok)
    <2>1. /\ Combo(mask, ok) /\ handled' = TRUE /\ rest' = 0
          /\ UNCHANGED <<mask, age>>
        BY <1>3 DEF Act
    <2>2. /\ out' \in [Outputs -> BOOLEAN] /\ cached' \in [Outputs -> BOOLEAN]
          /\ latch' \in [Outputs -> BOOLEAN] /\ seen' \in [Inputs -> BOOLEAN]
          /\ dirty' \in BOOLEAN
          /\ TableOK' /\ ChipOK' /\ SeenOK'
        BY <1>1, <2>1, ComboHolds
    <2>3. rest' \in 0 .. Hold /\ age' \in 0 .. Hold
        BY <2>1 DEF IInv, TypeOK
    <2>4. TypeOK' /\ HoldOK'
        BY <1>1, <2>1, <2>2, <2>3 DEF IInv, TypeOK, HoldOK, bootVars, outside
    <2> QED
        BY <2>2, <2>4 DEF IInv
  <1> QED
      BY <1>2, <1>3 DEF Timer

LEMMA ResetHolds ==
    ASSUME IInv, NEW power \in BOOLEAN, Reset(power)
    PROVE  IInv'
  <1> USE RelayPanelAssumption
  <1>1. /\ out' \in [Outputs -> BOOLEAN] /\ cached' \in [Outputs -> BOOLEAN]
        /\ in' \in [Inputs -> BOOLEAN]
      BY DEF Reset, AllOff
  <1>2. latch' \in [Outputs -> BOOLEAN] /\ seen' \in [Inputs -> BOOLEAN]
      BY DEF Reset, AllHigh, IInv, TypeOK
  <1>3. cursor' \in Outputs /\ age' \in 0 .. Hold /\ rest' \in 0 .. Hold
      BY DEF Reset, Outputs
  <1>4. TypeOK'
      BY <1>1, <1>2, <1>3 DEF Reset, IInv, TypeOK, outside
  <1>5. TableOK' /\ ChipOK' /\ SeenOK'
      BY DEF Reset, TableOK, ChipOK, SeenOK
  <1>6. HoldOK'
      BY DEF Reset, HoldOK
  <1> QED
      BY <1>4, <1>5, <1>6 DEF IInv

LEMMA IrqHolds ==
    ASSUME IInv, NEW ok \in BOOLEAN, Irq(ok)
    PROVE  IInv'
  <1>1. /\ ReadInputs(ok)
        /\ UNCHANGED <<bootVars, relayVars, outside, logicVars>>
      BY DEF Irq
  <1>2. /\ in' \in [Inputs -> BOOLEAN] /\ seen' \in [Inputs -> BOOLEAN]
        /\ fresh' \in BOOLEAN /\ forced' \subseteq Inputs
        /\ SeenOK'
      BY <1>1, ReadInputsFacts DEF outside
  <1>3. TypeOK'
      BY <1>1, <1>2
      DEF IInv, TypeOK, bootVars, relayVars, outside, logicVars
  <1>4. TableOK' /\ ChipOK' /\ HoldOK'
      BY <1>1 DEF IInv, TableOK, ChipOK, HoldOK, bootVars, relayVars, logicVars
  <1> QED
      BY <1>2, <1>3, <1>4 DEF IInv

LEMMA ContactHolds ==
    ASSUME IInv, NEW i \in Inputs, Contact(i)
    PROVE  IInv'
  <1>1. raw' \in [Inputs -> BOOLEAN]
      BY DEF Contact, IInv, TypeOK
  <1>2. UNCHANGED <<bootVars, relayVars, inputVars, chip, logicVars>>
      BY DEF Contact
  <1> QED
      BY <1>1, <1>2
      DEF IInv, TypeOK, TableOK, ChipOK, SeenOK, HoldOK, bootVars, relayVars,
          inputVars, logicVars

LEMMA ElapseHolds ==
    ASSUME IInv, Elapse
    PROVE  IInv'
  <1> USE RelayPanelAssumption
  <1>1. UNCHANGED <<bootVars, relayVars, inputVars, outside, mask, handled>>
      BY DEF Elapse
  <1>2. /\ age' \in 0 .. Hold /\ rest' \in 0 .. Hold
        /\ age <= rest => age' <= rest'
      BY DEF Elapse, IInv, TypeOK
  <1>3. TypeOK'
      BY <1>1, <1>2
      DEF IInv, TypeOK, bootVars, relayVars, inputVars, outside
  <1>4. TableOK' /\ ChipOK' /\ SeenOK'
      BY <1>1
      DEF IInv, TableOK, ChipOK, SeenOK, bootVars, relayVars, inputVars, outside
  <1>5. HoldOK'
      BY <1>1, <1>2 DEF IInv, HoldOK
  <1> QED
      BY <1>3, <1>4, <1>5 DEF IInv

LEMMA StepHolds == IInv /\ [Next]_vars => IInv'
  <1> SUFFICES ASSUME IInv, [Next]_vars PROVE IInv'
      OBVIOUS
  <1>1. ASSUME NEW ok \in BOOLEAN, StartUp(ok) PROVE IInv'
      BY <1>1, StartUpHolds
  <1>2. ASSUME NEW ok \in BOOLEAN, Irq(ok) PROVE IInv'
      BY <1>2, IrqHolds
  <1>3. ASSUME NEW ok \in BOOLEAN, Timer(ok) PROVE IInv'
      BY <1>3, TimerHolds
  <1>4. ASSUME NEW power \in BOOLEAN, Reset(power) PROVE IInv'
      BY <1>4, ResetHolds
  <1>5. ASSUME NEW ok \in BOOLEAN, NEW o \in Commanded, NEW v \in BOOLEAN,
               Command(o, v, ok)
        PROVE  IInv'
      BY <1>5, CommandHolds
  <1>6. ASSUME NEW i \in Inputs, Contact(i) PROVE IInv'
      BY <1>6, ContactHolds
  <1>7. CASE Elapse
      BY <1>7, ElapseHolds
  <1>8. ASSUME NEW i \in Overridden, CommandInput(i) PROVE IInv'
      BY <1>8, CommandInputHolds
  <1>9. CASE UNCHANGED vars
      BY <1>9 DEF vars, bootVars, relayVars, inputVars, outside, logicVars, IInv,
                  TypeOK, TableOK, ChipOK, SeenOK, HoldOK
  <1> QED
      BY <1>1, <1>2, <1>3, <1>4, <1>5, <1>6, <1>7, <1>8, <1>9 DEF Next

LEMMA Inductive == Spec => []IInv
  BY InitHolds, StepHolds, PTL DEF Spec

-----------------------------------------------------------------------------
\* The theorems

\* The state is always of its type: cursor, mask and the counters stay in range.
THEOREM TypeCorrect == Spec => []TypeOK
  <1>1. IInv => TypeOK
      BY DEF IInv
  <1> QED
      BY <1>1, Inductive, PTL

\* Every relay is where its parameter says once the panel runs, unless the last
\* write failed: whichever relays commands and buttons set, in any order.
THEOREM RelaysFollow == Spec => []RelaysFollowParams
  <1>1. IInv => RelaysFollowParams
      BY DEF IInv, TableOK, ChipOK, RelaysFollowParams
  <1> QED
      BY <1>1, Inductive, PTL

\* INT is never high over a change that the parameters have not taken in, for a
\* chip whose INT only reads clear.
THEOREM InputsTaken == Spec => []InputsTakenIn
  <1>1. IInv => InputsTakenIn
      BY DEF IInv, SeenOK, InputsTakenIn, IntLow
  <1> QED
      BY <1>1, Inductive, PTL

\* No relay switches for the sake of another one: the callback writes all eight
\* pins, but from a table that agrees with the chip in the others.
THEOREM NoSideEffect == Spec => NoSideSwitch
  <1> DEFINE Own(o) == /\ phase = "running" /\ phase' = "running"
                       /\ latch'[o] # latch[o]
                       => out'[o] # out[o] \/ dirty
  <1>1. ASSUME IInv, [Next]_vars PROVE \A o \in Outputs : Own(o)
    <2> SUFFICES ASSUME NEW o \in Outputs, phase = "running", phase' = "running",
                        latch'[o] # latch[o], ~dirty
                 PROVE  out'[o] # out[o]
        OBVIOUS
    <2>1. ASSUME NEW p \in Outputs, NEW v \in BOOLEAN, NEW ok \in BOOLEAN,
                 SetParam(p, v, ok)
          PROVE  out'[o] # out[o]
        BY <1>1, <2>1, SetParamFacts
    <2>2. ASSUME NEW ok \in BOOLEAN, Timer(ok) PROVE out'[o] # out[o]
      <3>1. CASE Notice
          BY <3>1 DEF Notice, relayVars
      <3>2. CASE Act(ok)
        <4>1. Combo(mask, ok)
            BY <3>2 DEF Act
        <4>2. CASE mask \in DOMAIN Toggles
          <5> DEFINE q == Toggles[mask]
                     w == ~out[Toggles[mask]]
          <5>1. q \in Outputs
              BY <4>2 DEF Toggles, Outputs
          <5>2. w \in BOOLEAN /\ SetParam(q, w, ok)
              BY <1>1, <4>1, <4>2, <5>1 DEF Combo, IInv, TypeOK
          <5> HIDE DEF q, w
          <5> QED
              BY <2>1, <2>2, <5>1, <5>2
        <4>3. CASE mask \notin DOMAIN Toggles
            BY <4>1, <4>3 DEF Combo, relayVars
        <4> QED
            BY <4>2, <4>3
      <3> QED
          BY <2>2, <3>1, <3>2 DEF Timer
    <2>3. ASSUME NEW ok \in BOOLEAN, NEW p \in Commanded, NEW v \in BOOLEAN,
                 Command(p, v, ok)
          PROVE  out'[o] # out[o]
      <3>1. p \in Outputs
          BY RelayPanelAssumption DEF Outputs
      <3>2. CASE SetParam(p, v, ok)
          BY <2>1, <3>1, <3>2
      <3>3. CASE out[p] /\ v /\ alive /\ SetOutput(p, v, ok) /\ UNCHANGED out
        <4>1. WritePort(cached, ok)
            BY <1>1, <3>1, <3>3, AgainFacts
        <4>2. latch = cached
            BY <1>1, <3>3 DEF IInv, ChipOK
        <4> QED
            BY <4>1, <4>2 DEF WritePort
      <3> QED
          BY <2>3, <3>2, <3>3 DEF Command
    <2>4. ASSUME NEW ok \in BOOLEAN, StartUp(ok) PROVE FALSE
        BY <2>4 DEF StartUp, InitExpander, ApplyDefault, FirstRead,
                    SetUpInterrupt, LogicStart
    <2>5. ASSUME NEW ok \in BOOLEAN, Irq(ok) \/ Reset(ok) PROVE FALSE
        BY <2>5 DEF Irq, Reset, relayVars
    <2>6. ASSUME NEW i \in Inputs, Contact(i) PROVE FALSE
        BY <2>6 DEF Contact, relayVars
    <2>7. ASSUME NEW i \in Overridden, CommandInput(i) PROVE FALSE
        BY <2>7 DEF CommandInput, relayVars
    <2>8. ~Elapse /\ ~UNCHANGED vars
        BY DEF Elapse, vars, relayVars
    <2> QED
        BY <1>1, <2>2, <2>3, <2>4, <2>5, <2>6, <2>7, <2>8 DEF Next
  <1>2. IInv /\ [Next]_vars
          => [\A o \in Outputs :
                phase = "running" /\ phase' = "running" /\ latch'[o] # latch[o] =>
                   out'[o] # out[o] \/ dirty]_vars
      BY <1>1
  <1> QED
      BY <1>2, Inductive, PTL DEF Spec, NoSideSwitch

\* However contacts bounce and timers are late, buttons act at most once in any
\* hold time: the mask acted on is as old as that, and no older than the last
\* action.
THEOREM BouncesAreQuiet == Spec => BounceActsOnce
  <1>1. ASSUME IInv, [Next]_vars, ~handled, handled' PROVE rest = Hold
    <2>1. ASSUME NEW ok \in BOOLEAN, Timer(ok) PROVE rest = Hold
      <3>1. Act(ok)
          BY <1>1, <2>1 DEF Timer, Notice
      <3>2. age = Hold
          BY <3>1 DEF Act
      <3> QED
          BY <1>1, <3>2, RelayPanelAssumption DEF IInv, TypeOK, HoldOK
    <2>2. ASSUME NEW ok \in BOOLEAN, StartUp(ok) PROVE FALSE
        BY <1>1, <2>2 DEF StartUp, InitExpander, ApplyDefault, FirstRead,
                          SetUpInterrupt, LogicStart, logicVars
    <2>3. ASSUME NEW ok \in BOOLEAN, Irq(ok) \/ Reset(ok) PROVE FALSE
        BY <1>1, <2>3 DEF Irq, Reset, logicVars
    <2>4. ASSUME NEW i \in Inputs, Contact(i) PROVE FALSE
        BY <1>1, <2>4 DEF Contact, logicVars
    <2>5. ASSUME NEW i \in Overridden, CommandInput(i) PROVE FALSE
        BY <1>1, <2>5 DEF CommandInput, logicVars
    <2>6. ASSUME NEW ok \in BOOLEAN, NEW p \in Commanded, NEW v \in BOOLEAN,
                 Command(p, v, ok)
          PROVE  FALSE
        BY <1>1, <2>6 DEF Command, logicVars
    <2>7. ~Elapse /\ ~UNCHANGED vars
        BY <1>1 DEF Elapse, vars, logicVars
    <2> QED
        BY <1>1, <2>1, <2>2, <2>3, <2>4, <2>5, <2>6, <2>7 DEF Next
  <1>2. IInv /\ [Next]_vars => [~handled /\ handled' => rest = Hold]_vars
      BY <1>1
  <1> QED
      BY <1>2, Inductive, PTL DEF Spec, BounceActsOnce
=============================================================================
