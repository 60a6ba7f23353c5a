----------------------------- MODULE RelayPanel -----------------------------
(***************************************************************************)
(* The relays and buttons on the PCF8574 expander: custom/gpio,            *)
(* custom/io_expander and the input logic of custom/logic, composed.       *)
(*                                                                         *)
(* The firmware's one task runs each handler to its end, so a handler is   *)
(* one action; the parts of the start-up are separate, since contacts move *)
(* between them and I2C transfers fail one by one. A relay parameter is    *)
(* TRUE when non-zero, an input parameter TRUE when 1, a pin level TRUE    *)
(* when HIGH. None of these parameters is persistent, and commands may set *)
(* all of them.                                                            *)
(***************************************************************************)
EXTENDS Naturals

CONSTANTS
    Inputs,         \* the expander inputs in use, of 0 .. 3
    Commanded,      \* the relays that commands set (a bound), of 0 .. 3
    Overridden,     \* the inputs whose parameters commands set (a bound)
    Hold            \* LOGIC_PRESS_HOLD_MS, in units of Elapse

Outputs == 0 .. 3

ASSUME RelayPanelAssumption ==
    /\ Inputs \subseteq 0 .. 3 /\ Commanded \subseteq 0 .. 3
    /\ Overridden \subseteq Inputs
    /\ Hold \in Nat \ {0}

VARIABLES
    phase,    \* proc_main_task: "init", "defaults", "read", "eint", "start",
              \* "running"
    alive,    \* io_expander_init and with it the pin table succeeded
    wired,    \* gpio_input_init has set up the interrupt of the expander
    cursor,   \* loop index of gpio_expander_apply_output_defaults
    out,      \* the relay parameters PARAM_IO_EXP_OUT0 .. OUT3
    in,       \* the input parameters PARAM_IO_EXP_IN0 .. IN3
    cached,   \* cached_state of the output pins
    latch,    \* output levels the chip drives; LOW switches a relay on
    chip,     \* what clears INT: "reads" only, or "writes" as well
    raw,      \* levels on the chip's input pins
    seen,     \* input levels at the access that last cleared INT
    mask,     \* g_logic_last_mask, as the set of pressed inputs
    age,      \* time since g_logic_last_change_ms, up to Hold
    handled,  \* g_logic_action_handled
    dirty,    \* history: the last write to the chip failed
    fresh,    \* history: the inputs have been read since power on
    forced,   \* history: inputs commands have left other than they were read
    rest      \* history: time since a button last did something, up to Hold

bootVars == <<phase, alive, wired, cursor>>
relayVars == <<out, cached, latch, dirty>>
inputVars == <<in, seen, fresh, forced>>
logicVars == <<mask, age, handled, rest>>
outside == <<chip, raw>>
vars == <<bootVars, relayVars, inputVars, outside, logicVars>>

-----------------------------------------------------------------------------
\* The chip

AllHigh == [o \in Outputs |-> TRUE]
AllOff == [o \in Outputs |-> FALSE]

IntLow == raw # seen

\* One I2C write of the whole port, with the output levels of the table.
WritePort(levels, ok) ==
    /\ latch' = IF ok THEN levels ELSE latch
    /\ seen' = IF ok /\ chip = "writes" THEN raw ELSE seen
    /\ dirty' = ~ok

-----------------------------------------------------------------------------
\* custom/gpio/gpio_expander.c

\* init_level of the input pins: what the released button reads.
Released(i) == i = 3

\* Mutant: the loop over the pins ends at the first one that has changed.
ReadFirstChange(ok) ==
    IF ok
      THEN /\ in' = [i \in Inputs |->
                       IF \E j \in Inputs : j < i /\ in[j] = (raw[j] = Released(j))
                         THEN in[i] ELSE raw[i] # Released(i)]
           /\ seen' = raw
           /\ fresh' = TRUE
           /\ forced' = {}
      ELSE UNCHANGED inputVars

\* gpio_expander_handle_interrupt: reads the port and sets the parameters.
ReadInputs(ok) ==
    IF ok
      THEN /\ in' = [i \in Inputs |-> raw[i] # Released(i)]
           /\ seen' = raw
           /\ fresh' = TRUE
           /\ forced' = {}
      ELSE UNCHANGED inputVars

\* Mutant: writes the one pin over a port image that forgets the others.
SetOutputAlone(o, v, ok) ==
    /\ cached' = [AllHigh EXCEPT ![o] = ~v]
    /\ WritePort(cached', ok)

\* gpio_expander_output_callback: relays are active low.
SetOutput(o, v, ok) ==
    /\ cached' = [cached EXCEPT ![o] = ~v]
    /\ WritePort(cached', ok)

\* param_set_int8 on a relay parameter. Without expander it has no callback.
SetParam(o, v, ok) ==
    IF out[o] = v
      THEN UNCHANGED <<relayVars, seen>>
      ELSE /\ out' = [out EXCEPT ![o] = v]
           /\ IF alive THEN SetOutput(o, v, ok)
                       ELSE UNCHANGED <<cached, latch, dirty, seen>>

-----------------------------------------------------------------------------
\* Start-up

Init ==
    /\ phase = "init" /\ alive = FALSE /\ wired = FALSE /\ cursor = 0
    /\ out = AllOff
    /\ in = [i \in Inputs |-> FALSE]
    /\ cached = AllOff
    /\ latch = AllHigh
    /\ chip \in {"reads", "writes"}
    /\ raw \in [Inputs -> BOOLEAN]
    /\ seen = raw
    /\ mask = {} /\ age = 0 /\ handled = FALSE
    /\ dirty = FALSE /\ fresh = FALSE /\ forced = {} /\ rest = Hold

\* A reset of the module, of the chip as well when power was lost. Without
\* that the relays stay as they are.
Reset(power) ==
    /\ phase # "init"
    /\ phase' = "init" /\ alive' = FALSE /\ wired' = FALSE /\ cursor' = 0
    /\ out' = AllOff
    /\ in' = [i \in Inputs |-> FALSE]
    /\ cached' = AllOff
    /\ latch' = IF power THEN AllHigh ELSE latch
    /\ seen' = IF power THEN raw ELSE seen
    /\ mask' = {} /\ age' = 0 /\ handled' = FALSE
    /\ dirty' = FALSE /\ fresh' = FALSE /\ forced' = {} /\ rest' = Hold
    /\ UNCHANGED outside

\* gpio_init up to the pin table of gpio_expander_init_module. It gives up when
\* a local output or the chip fails and leaves the expander out when there is
\* no I2C bus; proc_main_task goes on without it.
InitExpander(ok) ==
    /\ phase = "init"
    /\ alive' = ok
    /\ phase' = IF ok THEN "defaults" ELSE "start"
    /\ IF ok THEN WritePort(AllHigh, TRUE) /\ cached' = AllHigh
             ELSE UNCHANGED <<latch, seen, dirty, cached>>
    /\ UNCHANGED <<wired, cursor, out, in, fresh, forced, outside, logicVars>>

\* Mutant: the loop runs one output too far.
LastDefaultPlusOne(o) == o = 4

LastDefault(o) == o = 3

\* gpio_expander_apply_output_defaults: the callback for each output in turn.
ApplyDefault(ok) ==
    /\ phase = "defaults"
    /\ SetOutput(cursor, out[cursor], ok)
    /\ cursor' = IF LastDefault(cursor) THEN 0 ELSE cursor + 1
    /\ phase' = IF LastDefault(cursor) THEN "read" ELSE "defaults"
    /\ UNCHANGED <<alive, wired, out, in, fresh, forced, outside, logicVars>>

FirstRead(ok) ==
    /\ phase = "read"
    /\ ReadInputs(ok)
    /\ phase' = "eint"
    /\ UNCHANGED <<alive, wired, cursor, relayVars, outside, logicVars>>

\* gpio_input_init: a failure is the end of gpio_init, but not of the task.
SetUpInterrupt(ok) ==
    /\ phase = "eint"
    /\ wired' = ok
    /\ phase' = "start"
    /\ UNCHANGED <<alive, cursor, relayVars, inputVars, outside, logicVars>>

\* logic_get_expander_press_mask
PressMask == {i \in Inputs : in[i]}

LogicStart ==
    /\ phase = "start"
    /\ phase' = "running"
    /\ mask' = PressMask
    /\ age' = 0
    /\ handled' = FALSE
    /\ UNCHANGED <<alive, wired, cursor, relayVars, inputVars, outside, rest>>

-----------------------------------------------------------------------------
\* The running system

\* A button moves: its contact closes, opens or bounces.
Contact(i) ==
    /\ raw' = [raw EXCEPT ![i] = ~@]
    /\ UNCHANGED <<bootVars, relayVars, inputVars, chip, logicVars>>

\* Mutant: the pin stays masked after a read that failed.
IrqStaysMasked(ok) ==
    /\ phase = "running" /\ alive /\ wired
    /\ IntLow
    /\ ReadInputs(ok)
    /\ wired' = ok
    /\ UNCHANGED <<phase, alive, cursor, relayVars, outside, logicVars>>

\* gpio_input_expander_irq: level triggered, so it comes again while INT is
\* low, after a read that failed too.
Irq(ok) ==
    /\ phase = "running" /\ alive /\ wired
    /\ IntLow
    /\ ReadInputs(ok)
    /\ UNCHANGED <<bootVars, relayVars, outside, logicVars>>

\* A command, by UART or SMS, sets a relay. Another non-zero value is a change
\* of the parameter, with its callback, that leaves the relay as it is.
Command(o, v, ok) ==
    /\ phase = "running"
    /\ \/ SetParam(o, v, ok)
       \/ out[o] /\ v /\ alive /\ SetOutput(o, v, ok) /\ UNCHANGED out
    /\ UNCHANGED <<bootVars, in, fresh, forced, outside, logicVars>>

\* A command makes an input parameter 1, or something else when it was 1. It
\* has no callback: it no longer says what the pin does, until the inputs are
\* read again or another command puts it back.
CommandInput(i) ==
    /\ phase = "running"
    /\ in' = [in EXCEPT ![i] = ~@]
    /\ forced' = IF i \in forced THEN forced \ {i} ELSE forced \cup {i}
    /\ UNCHANGED <<bootVars, relayVars, seen, fresh, outside, logicVars>>

\* logic_handle_expander_combo: the relay a combination toggles; every other
\* combination sends an alert SMS.
Toggles == [m \in {{0}, {1}, {2}, {0, 1}} |->
               CASE m = {0} -> 0 [] m = {1} -> 2 [] m = {2} -> 3 [] m = {0, 1} -> 1]

Combo(m, ok) ==
    IF m \in DOMAIN Toggles
      THEN SetParam(Toggles[m], ~out[Toggles[m]], ok)
      ELSE UNCHANGED <<relayVars, seen>>

\* Mutant: g_logic_last_change_ms is not renewed when the mask changes.
NoticeKeepsTime ==
    /\ PressMask # mask
    /\ mask' = PressMask
    /\ handled' = FALSE
    /\ UNCHANGED <<age, rest, relayVars, seen>>

\* logic_process_inputs sees a new mask.
Notice ==
    /\ PressMask # mask
    /\ mask' = PressMask
    /\ age' = 0
    /\ handled' = FALSE
    /\ UNCHANGED <<rest, relayVars, seen>>

\* Mutant: a combination that toggles nothing leaves the timer waiting.
ActOnToggleOnly(ok) ==
    /\ PressMask = mask
    /\ mask \in DOMAIN Toggles /\ ~handled
    /\ age = Hold
    /\ Combo(mask, ok)
    /\ handled' = TRUE
    /\ rest' = 0
    /\ UNCHANGED <<mask, age>>

\* logic_process_inputs finds the mask held long enough.
Act(ok) ==
    /\ PressMask = mask
    /\ mask # {} /\ ~handled
    /\ age = Hold
    /\ Combo(mask, ok)
    /\ handled' = TRUE
    /\ rest' = 0
    /\ UNCHANGED <<mask, age>>

Timer(ok) ==
    /\ phase = "running"
    /\ Notice \/ Act(ok)
    /\ UNCHANGED <<bootVars, in, fresh, forced, outside>>

\* Time passes: between two timer callbacks, or more when a handler is long.
Elapse ==
    /\ phase = "running"
    /\ age < Hold \/ rest < Hold
    /\ age' = IF age < Hold THEN age + 1 ELSE Hold
    /\ rest' = IF rest < Hold THEN rest + 1 ELSE Hold
    /\ UNCHANGED <<bootVars, relayVars, inputVars, outside, mask, handled>>

-----------------------------------------------------------------------------
StartUp(ok) ==
    \/ InitExpander(ok) \/ ApplyDefault(ok) \/ FirstRead(ok)
    \/ SetUpInterrupt(ok) \/ LogicStart

Next ==
    \/ \E ok \in BOOLEAN :
          \/ StartUp(ok) \/ Irq(ok) \/ Timer(ok) \/ Reset(ok)
          \/ \E o \in Commanded, v \in BOOLEAN : Command(o, v, ok)
    \/ \E i \in Inputs : Contact(i)
    \/ \E i \in Overridden : CommandInput(i)
    \/ Elapse

Spec == Init /\ [][Next]_vars

\* The task starts up, its timer was started (logic_start only logs a failure)
\* and fires for ever, and time passes. A level
\* triggered interrupt comes for as long as INT is low, and I2C does not fail
\* every time.
FairSpec ==
    /\ Spec
    /\ WF_vars(\E ok \in BOOLEAN : StartUp(ok))
    /\ WF_vars(\E ok \in BOOLEAN : Timer(ok))
    /\ WF_vars(Elapse)
    /\ SF_vars(Irq(TRUE))
=============================================================================
