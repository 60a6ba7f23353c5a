-------------------------- MODULE RelayPanelProps --------------------------
(***************************************************************************)
(* What relays and buttons promise, over the behaviours of RelayPanel.     *)
(***************************************************************************)
EXTENDS RelayPanel

TypeOK ==
    /\ phase \in {"init", "defaults", "read", "eint", "start", "running"}
    /\ alive \in BOOLEAN /\ wired \in BOOLEAN
    /\ cursor \in Outputs
    /\ out \in [Outputs -> BOOLEAN]
    /\ in \in [Inputs -> BOOLEAN]
    /\ cached \in [Outputs -> BOOLEAN]
    /\ latch \in [Outputs -> BOOLEAN]
    /\ chip \in {"reads", "writes"}
    /\ raw \in [Inputs -> BOOLEAN]
    /\ seen \in [Inputs -> BOOLEAN]
    /\ mask \subseteq Inputs
    /\ age \in 0 .. Hold
    /\ handled \in BOOLEAN /\ dirty \in BOOLEAN /\ fresh \in BOOLEAN
    /\ forced \subseteq Inputs
    /\ rest \in 0 .. Hold

\* Every relay is where its parameter says, whoever set it, unless the last
\* write to the chip failed: the write of any relay then puts all of them
\* right, since it carries the whole table.
RelaysFollowParams ==
    phase = "running" /\ alive /\ ~dirty =>
        \A o \in Outputs : latch[o] = ~out[o]

\* Outside of start-up a relay switches only when its own parameter changes,
\* or when a write makes up for one that failed.
NoSideSwitch ==
    [][\A o \in Outputs :
          phase = "running" /\ phase' = "running" /\ latch'[o] # latch[o] =>
             out'[o] # out[o] \/ dirty]_vars

\* INT never goes quiet over a change the parameters have not taken in: when
\* it is high, and the inputs were read once, they are as the parameters say,
\* but for those commands have changed since. So said of a chip whose INT only a
\* read clears, as io_expander.c describes.
InputsTakenIn ==
    chip = "reads" /\ phase = "running" /\ fresh /\ ~IntLow =>
        \A i \in Inputs : i \in forced \/ (in[i] <=> raw[i] # Released(i))

\* However a contact bounces and however the timer is delayed, buttons act at
\* most once in any LOGIC_PRESS_HOLD_MS.
BounceActsOnce ==
    [][~handled /\ handled' => rest = Hold]_vars

\* A combination that stays pressed is acted on: neither the timer loses it,
\* nor does one that was acted on before it count for it.
PressHandled ==
    \A m \in SUBSET Inputs \ {{}} :
        phase = "running" /\ PressMask = m ~>
            (mask = m /\ handled) \/ PressMask # m \/ phase # "running"

\* With its interrupt set up, a parameter that differs from its input comes to
\* agree with it, over reads that fail, contacts that bounce and relays that
\* switch in between, unless a command changes it or the device is reset. So said
\* of the chip of InputsTakenIn, and once the inputs have been read.
InputsCatchUp ==
    \A i \in Inputs :
        /\ chip = "reads" /\ phase = "running" /\ alive /\ wired /\ fresh
        /\ i \notin forced
        /\ in[i] # (raw[i] # Released(i))
        ~>
        (in[i] <=> raw[i] # Released(i)) \/ i \in forced \/ phase # "running"
=============================================================================
