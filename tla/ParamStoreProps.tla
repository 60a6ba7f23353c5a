-------------------------- MODULE ParamStoreProps --------------------------
(***************************************************************************)
(* What the parameter table promises, over the behaviours of ParamStore.   *)
(***************************************************************************)
EXTENDS ParamStore

Ops == {"none", "boot", "set", "reset", "resetAll", "final"}
Places == {"idle", "load", "reset", "notify", "alloc", "lock", "gather",
           "write", "flush"}

TypeOK ==
    /\ mode \in {"off", "booting", "running"}
    /\ registered \subseteq Keys
    /\ ram \in [Keys -> Values]
    /\ callback \subseteq Keys
    /\ delivered \in [Keys -> Values \cup {NoRecord}]
    /\ file \in Content
    /\ stable \in Content
    /\ holder \in Callers \cup {NoCaller}
    /\ pc \in [Callers -> Places]
    /\ op \in [Callers -> Ops]
    /\ key \in [Callers -> Keys]
    /\ val \in [Callers -> Values]
    /\ cursor \in [Callers -> 0 .. NKeys]
    /\ copy \in [Callers -> Image]
    /\ reply \in [Callers -> {"none", "ok", "error"}]
    /\ unsaved \subseteq Persist
    /\ missed \in {"no", "kept", "overwritten"}
    /\ expected \in Image

-----------------------------------------------------------------------------
\* The storage mutex brackets the whole snapshot: a task is between
\* param_persist_snapshot's TakeMutex and GiveMutex exactly when it owns the
\* mutex, and outside of it the file is what was last flushed or closed.
SnapshotExclusive ==
    /\ \A c \in Callers :
          pc[c] \in {"gather", "write", "flush"} <=> holder = c
    /\ (\A c \in Callers : ~Saving(c)) => file = stable

\* The code's promise about durability, at every point where every call has
\* returned: a registered persistent parameter is on the file with its RAM
\* value, unless a save that had to write it has failed and no later save has
\* copied it.
QuietFileMatchesRam ==
    (mode = "running" /\ \A c \in Callers : pc[c] = "idle") =>
        \A k \in (Persist \cap registered) \ unsaved :
            file.kind = "intact" /\ file.image[k] = ram[k]

\* Where the value of k is, in the middle of calls.
Safe(k) ==
    \/ k \in unsaved
    \/ \E c \in Callers : Pending(c, k)
    \/ IF \E c \in Callers : Copied(c, k)
         THEN \A c \in Callers : Copied(c, k) => copy[c][k] = ram[k]
         ELSE file.kind = "intact" /\ file.image[k] = ram[k]

\* Nobody forgets a value: each registered persistent key is on the file, in
\* the snapshot being written, or some call in progress has still to save it.
NoValueForgotten ==
    mode # "off" /\ pc[Main] # "load" =>
        \A k \in Persist \cap registered : Safe(k)

\* When the table comes up after a power loss, every value that was on the
\* file and that no call was saving at that moment is back in RAM, however
\* many times power failed in between. A boot that could not read a file that
\* loads, or whose param_init gave up early, comes up without them: if this
\* run saves, what it holds replaces them; if it does not, the next boot still
\* has to bring them back.
RebootRestores ==
    [][mode # "running" /\ mode' = "running" =>
          \/ missed' # "no"
          \/ \A k \in Persist : expected[k] # NoRecord => ram'[k] = expected[k]]_vars

\* The inductive invariant behind these: where each call can be, and what the
\* history variable expected says about the file.
Control ==
    /\ mode = "off" => \A c \in Callers : pc[c] = "idle"
    /\ mode = "booting" =>
          /\ registered = Keys
          /\ op[Main] = "boot"
          /\ \A c \in Callers \ {Main} : pc[c] = "idle"
    /\ \A c \in Callers :
          /\ pc[c] = "idle" <=> op[c] = "none"
          /\ pc[c] = "load" => c = Main /\ mode = "booting"
          /\ op[c] = "boot" => c = Main /\ mode = "booting"
          /\ pc[c] = "notify" => op[c] \in {"set", "reset", "resetAll"}
          /\ pc[c] = "reset" => op[c] = "resetAll"
          /\ pc[c] = "flush" => file = Intact(copy[c])
          /\ pc[c] \notin {"gather", "write", "flush"} => cursor[c] = 0
          /\ pc[c] \in {"write", "flush"} => cursor[c] = NKeys

ExpectedIsThere ==
    /\ mode = "off" \/ pc[Main] = "load" \/ missed = "kept" =>
          \A k \in Persist : expected[k] # NoRecord =>
              file.kind = "intact" /\ file.image[k] = expected[k]
    /\ mode = "booting" /\ pc[Main] # "load" /\ missed = "no" =>
          \A k \in Persist : expected[k] = NoRecord
    /\ missed = "kept" => \A c \in Callers : ~Saving(c)
    /\ pc[Main] = "load" \/ mode = "off" => missed = "no"

\* A copy lacks no registered key it has passed, and neither it nor a file this
\* run has read or written has a record for a key that is not registered.
RecordsAreRegistered ==
    /\ \A c \in Callers :
          pc[c] \notin {"gather", "write", "flush"} => copy[c] = Blank
    /\ \A c \in Callers, k \in Persist :
          /\ copy[c][k] # NoRecord => k \in registered
          /\ k \in registered /\ Copied(c, k) => copy[c][k] # NoRecord
    /\ mode # "off" /\ missed = "no" /\ file.kind = "intact" =>
          \A k \in Persist : file.image[k] # NoRecord => k \in registered

IInv ==
    /\ TypeOK /\ Control /\ SnapshotExclusive /\ NoValueForgotten
    /\ ExpectedIsThere /\ RecordsAreRegistered

\* A file that loads stops loading only by a power cut while the owner of the
\* mutex has it open, or when that owner opens it with a copy to put in its
\* place that has a record for every record of the file. Only a run that has
\* not read the file (its load failed, or param_init gave up before it) may
\* replace it by one with fewer records or by the defaults. No refused call
\* and no save that failed before it opened the file takes it away.
OnlySaveDestroys ==
    [][file.kind = "intact" /\ file'.kind # "intact" =>
          \E c \in Callers :
             \/ Saving(c)
             \/ /\ Gathered(c)
                /\ \/ missed # "no"
                   \/ \A k \in Persist :
                         file.image[k] # NoRecord => copy[c][k] # NoRecord]_vars

\* With a single task the owner of a change callback knows the current value
\* whenever no call is in progress: every change since it set the callback was
\* handed over, the ones by param_reset_all and the failed saves included.
DeliveredIsCurrent ==
    (\A c \in Callers : pc[c] = "idle") =>
        \A k \in callback : delivered[k] = ram[k]

\* The current configuration has one task. Seen from outside, its table is
\* then the abstract one: every save, however it ends, is a save of exactly
\* the values the table holds, and a power cut leaves one of the images the
\* abstract table allows.
Table == INSTANCE DurableTable WITH
    known <- IF pc[Main] = "load" THEN {} ELSE registered,
    value <- ram,
    disk <- {f.image : f \in Remains}

ImplementsDurableTable == Table!Spec

\* What the commit command tells its user ("Auto-save is enabled. No manual
\* commit needed."): when a set of a persistent parameter to a value of the
\* user's own reports success, that value is on the file. Checked where one
\* task calls, so that no other call is in progress.
AckMeansSaved ==
    [][\A c \in Callers, k \in Persist, v \in Values :
          SetSame(c, k, v) /\ v # Default[k] =>
              file.kind = "intact" /\ file.image[k] = v]_vars

\* What the architecture document says of power loss ("KV commits atomic"):
\* when power fails, a store that could be loaded before the commit began can
\* still be loaded.
CommitAtomic ==
    [][mode # "off" /\ mode' = "off" /\ stable.kind = "intact"
          => file'.kind = "intact"]_vars

\* A task that took the storage mutex gives it back, on every path out of
\* param_persist_snapshot.
MutexReleased == holder # NoCaller ~> holder = NoCaller
=============================================================================
