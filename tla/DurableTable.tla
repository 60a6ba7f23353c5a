---------------------------- MODULE DurableTable ----------------------------
(***************************************************************************)
(* What custom/param is for, without tasks, mutexes, buffers or files: a   *)
(* table of values, and the images of it that would be found after a power *)
(* cut. An image may lack records; the image of an absent or an unusable   *)
(* file lacks them all.                                                    *)
(***************************************************************************)
EXTENDS Integers

CONSTANTS NKeys, Persist, Values, Default, NoRecord

VARIABLES
    known,   \* the keys the table serves; none while it is down
    value,   \* their values
    disk     \* the images a power cut would leave, one of them, now

vars == <<known, value, disk>>

Keys == 0 .. NKeys - 1

Nothing == [k \in Persist |-> NoRecord]

Snapshot == [k \in Persist |-> IF k \in known THEN value[k] ELSE NoRecord]

Restored(img) ==
    [k \in Keys |-> IF k \in Persist /\ img[k] # NoRecord
                      THEN img[k] ELSE Default[k]]

Init ==
    /\ known = {}
    /\ value = Default
    /\ disk = {Nothing}

\* The table comes up with what the image holds, or, when the image cannot be
\* read, with defaults. It may come up with a first part of its keys only,
\* and then never reads the image.
Recover ==
    /\ known = {}
    /\ UNCHANGED disk
    /\ \E n \in 0 .. NKeys :
          /\ known' = 0 .. n - 1
          /\ \/ value' = Default
             \/ n = NKeys /\ \E img \in disk : value' = Restored(img)

Assign(k, v) ==
    /\ k \in known
    /\ value' = [value EXCEPT ![k] = v]
    /\ UNCHANGED <<known, disk>>

\* A save passes through a point where power loss may leave nothing usable.
BeginSave ==
    /\ disk' = disk \cup {Nothing}
    /\ UNCHANGED <<known, value>>

WriteSave ==
    /\ Nothing \in disk
    /\ disk' = disk \cup {Snapshot}
    /\ UNCHANGED <<known, value>>

EndSave ==
    /\ Snapshot \in disk
    /\ disk' = {Snapshot}
    /\ UNCHANGED <<known, value>>

FailSave ==
    /\ Nothing \in disk
    /\ disk' = {Nothing}
    /\ UNCHANGED <<known, value>>

Cut ==
    /\ known' = {}
    /\ value' = Default
    /\ \E img \in disk : disk' = {img}

Next ==
    \/ Recover
    \/ \E k \in Keys, v \in Values : Assign(k, v)
    \/ BeginSave \/ WriteSave \/ EndSave \/ FailSave
    \/ Cut

Spec == Init /\ [][Next]_vars
=============================================================================
