------------------------------ MODULE Upgrade ------------------------------
(***************************************************************************)
(* What an upgrade over the air promises its caller, without transports,   *)
(* sockets, buffers or timers: the pieces of one file are stored in order  *)
(* while an attempt runs, the attempt ends once, and only the whole file   *)
(* is ready or applied.                                                    *)
(***************************************************************************)
EXTENDS Naturals, Sequences

CONSTANT Sizes  \* numbers of pieces that a file may have

VARIABLES
    state,  \* "none", "started", "failed", "ready" or "applied"
    size,   \* pieces of the file of this attempt
    image   \* the pieces stored, by their number

vars == <<state, size, image>>

Whole(n) == [i \in 1 .. n |-> i]

Init ==
    /\ state = "none"
    /\ size \in Sizes
    /\ image = <<>>

\* A new attempt empties the store. It may fail at once, before or after that.
Begin ==
    /\ state \in {"none", "failed", "ready"}
    /\ state' \in {"started", "failed", "none"}
    /\ size' \in Sizes
    /\ image' \in {<<>>, image}
    /\ state' = "started" => image' = <<>>

\* The next pieces are stored, as long as nothing was said about the end.
Store ==
    /\ state = "started"
    /\ \E n \in Len(image) + 1 .. size : image' = Whole(n)
    /\ UNCHANGED <<state, size>>

\* Even what was ready may be taken back, but not once it is applied.
Fail ==
    /\ state \in {"started", "ready"}
    /\ state' = "failed"
    /\ UNCHANGED <<size, image>>

Succeed ==
    /\ state = "started"
    /\ image = Whole(size)
    /\ state' \in {"ready", "applied"}
    /\ UNCHANGED <<size, image>>

\* A caller may ask for the update later, of a ready image.
Apply ==
    /\ state = "ready"
    /\ state' = "applied"
    /\ UNCHANGED <<size, image>>

Next == Begin \/ Store \/ Fail \/ Succeed \/ Apply

Spec == Init /\ [][Next]_vars
=============================================================================
