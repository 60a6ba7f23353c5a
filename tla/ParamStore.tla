----------------------------- MODULE ParamStore -----------------------------
(***************************************************************************)
(* The parameter table of custom/param: RAM values, change callbacks and   *)
(* the snapshot file param.dat, with the calls of several tasks            *)
(* interleaving at every point where a call can block, the failures the    *)
(* code handles (allocation, open, short write, unreadable file) and the   *)
(* loss of power between any two steps.                                    *)
(*                                                                         *)
(* A critical section under an entry's own mutex never blocks, so it is    *)
(* one step; the storage mutex is modelled as a mutex.                     *)
(*                                                                         *)
(* A definition whose comment begins with "Mutant:" is a plausible bug in  *)
(* the definition after it. No specification uses it; it is there to show  *)
(* that a property would notice.                                           *)
(***************************************************************************)
EXTENDS Integers

CONSTANTS
    Callers,    \* the tasks that call the parameter API
    Main,       \* the task that runs param_init
    NoCaller,   \* "the storage mutex is free"
    NKeys,      \* PARAM_MAX_COUNT
    Persist,    \* the keys whose configuration has .persist = TRUE
    Values,     \* the values a parameter can take
    Default,    \* [Keys -> Values], the configured defaults
    Watched,    \* keys some module sets a change callback on
    Resetters,  \* tasks that call param_reset and param_reset_all
    NoRecord    \* "the snapshot has no record for this key"

Keys == 0 .. NKeys - 1

ASSUME ParamStoreAssumption ==
    /\ Main \in Callers
    /\ NoCaller \notin Callers
    /\ NKeys \in Nat \ {0}
    /\ Persist \subseteq Keys
    /\ Default \in [Keys -> Values]
    /\ Watched \subseteq Keys
    /\ Resetters \subseteq Callers
    /\ NoRecord \notin Values

VARIABLES
    mode,        \* "off", "booting" (inside param_init) or "running"
    registered,  \* keys whose table entry has registered = TRUE
    ram,         \* g_param_table[k].value / .string_value
    callback,    \* keys whose entry has a change callback
    delivered,   \* the value its owner knows: found on setting it, or handed over
    file,        \* param.dat as Ql_FS calls see it
    stable,      \* param.dat as it was when last flushed or closed
    holder,      \* owner of g_storage_mutex
    pc,          \* per caller: where in the API call it is
    op,          \* per caller: which API call it is in
    key, val,    \* per caller: the arguments of the call it is in
    cursor,      \* per caller: the loop index of param_persist_snapshot
    copy,        \* per caller: the records copied so far
    reply,       \* per caller: outcome of the last finished call
    unsaved,     \* history: keys whose RAM value no save has taken over
    missed,      \* history: whether this run goes on without a loadable file it
                 \* has not read: "no", "kept" (the file is untouched) or
                 \* "overwritten" (a save of this run has opened it)
    expected     \* history: what a boot still has to restore

callVars == <<pc, op, key, val, cursor, copy, reply>>
tableVars == <<registered, ram, callback, delivered>>
diskVars == <<file, stable, holder>>
history == <<unsaved, missed, expected>>
vars == <<mode, tableVars, diskVars, callVars, history>>

Image == [Persist -> Values \cup {NoRecord}]
Blank == [k \in Persist |-> NoRecord]

\* What Ql_FS and param_storage_load make of param.dat. "damaged" is every
\* content that fails the size, magic, version, count or checksum test.
Content == [kind : {"absent", "damaged", "intact"}, image : Image]
Absent == [kind |-> "absent", image |-> Blank]
Damaged == [kind |-> "damaged", image |-> Blank]
Intact(img) == [kind |-> "intact", image |-> img]

-----------------------------------------------------------------------------
\* Where a key's RAM value is on its way to the file.

\* c has written the value of k and has yet to copy it into a snapshot.
Pending(c, k) ==
    \/ /\ pc[c] \in {"notify", "alloc", "lock"}
       /\ op[c] \in {"set", "reset", "resetAll"}
       /\ key[c] = k
    \/ /\ pc[c] = "gather"
       /\ op[c] \in {"set", "reset", "resetAll"}
       /\ key[c] = k
       /\ cursor[c] <= k

\* c has copied k into the snapshot it is saving.
Copied(c, k) ==
    \/ pc[c] = "gather" /\ cursor[c] > k
    \/ pc[c] \in {"write", "flush"}

Saving(c) == pc[c] \in {"write", "flush"}

Settled(k) ==
    /\ k \in registered \ unsaved
    /\ \A c \in Callers : ~Pending(c, k) /\ ~Copied(c, k)

\* The keys a failing save of c leaves without anyone responsible for them:
\* those it had copied and the one its own call wrote.
Abandoned(c) ==
    {k \in Persist \cap registered : Copied(c, k) \/ Pending(c, k)}

-----------------------------------------------------------------------------
Init ==
    /\ mode = "off"
    /\ registered = {}
    /\ ram = Default
    /\ callback = {}
    /\ delivered = [k \in Keys |-> NoRecord]
    /\ file = Absent
    /\ stable = Absent
    /\ holder = NoCaller
    /\ pc = [c \in Callers |-> "idle"]
    /\ op = [c \in Callers |-> "none"]
    /\ key = [c \in Callers |-> 0]
    /\ val = [c \in Callers |-> Default[0]]
    /\ cursor = [c \in Callers |-> 0]
    /\ copy = [c \in Callers |-> Blank]
    /\ reply = [c \in Callers |-> "none"]
    /\ unsaved = {}
    /\ missed = "no"
    /\ expected = Blank

-----------------------------------------------------------------------------
\* param_init

\* What a run that starts without having read the file misses.
Missed == IF file.kind = "intact" THEN "kept" ELSE "no"

\* Creates the mutexes and registers the keys in order. When the mutex of key
\* n cannot be created, param_init returns there: keys below n are usable with
\* their defaults, the file is not read, and proc_main_task goes on.
PowerOn(n) ==
    /\ mode = "off"
    /\ n \in 0 .. NKeys
    /\ registered' = 0 .. n - 1
    /\ ram' = Default
    /\ callback' = {}
    /\ delivered' = [k \in Keys |-> NoRecord]
    /\ IF n = NKeys
         THEN /\ mode' = "booting"
              /\ pc' = [pc EXCEPT ![Main] = "load"]
              /\ op' = [op EXCEPT ![Main] = "boot"]
              /\ UNCHANGED history
         ELSE /\ mode' = "running"
              /\ unsaved' = Persist
              /\ missed' = Missed
              /\ UNCHANGED <<pc, op, expected>>
    /\ UNCHANGED <<diskVars, key, val, cursor, copy, reply>>

\* Mutant: the loop over the records starts at 1.
LoadSkipsFirst ==
    /\ pc[Main] = "load"
    /\ file.kind = "intact"
    /\ ram' = [k \in Keys |-> IF k \in Persist \ {0} /\ file.image[k] # NoRecord
                                THEN file.image[k] ELSE ram[k]]
    /\ mode' = "running"
    /\ pc' = [pc EXCEPT ![Main] = "idle"]
    /\ op' = [op EXCEPT ![Main] = "none"]
    /\ unsaved' = {k \in Persist : file.image[k] = NoRecord}
    /\ expected' = Blank
    /\ UNCHANGED <<registered, callback, delivered, diskVars,
                   key, val, cursor, copy, reply, missed>>

\* param_storage_load accepts the file: its records replace the defaults.
Load ==
    /\ pc[Main] = "load"
    /\ file.kind = "intact"
    /\ ram' = [k \in Keys |-> IF k \in Persist /\ file.image[k] # NoRecord
                                THEN file.image[k] ELSE ram[k]]
    /\ mode' = "running"
    /\ pc' = [pc EXCEPT ![Main] = "idle"]
    /\ op' = [op EXCEPT ![Main] = "none"]
    /\ unsaved' = {k \in Persist : file.image[k] = NoRecord}
    /\ expected' = Blank
    /\ UNCHANGED <<registered, callback, delivered, diskVars,
                   key, val, cursor, copy, reply, missed>>

\* Mutant: a file that cannot be loaded is deleted (param_storage_delete).
LoadFailsDeletes ==
    /\ pc[Main] = "load"
    /\ pc' = [pc EXCEPT ![Main] = "alloc"]
    /\ unsaved' = Persist
    /\ missed' = Missed
    /\ file' = Absent
    /\ stable' = Absent
    /\ UNCHANGED <<mode, tableVars, holder, op, key, val, cursor, copy, reply,
                   expected>>

\* param_storage_load finds no file, rejects it, or fails to read an intact
\* one (no memory, read error): the defaults stay and a snapshot of them is
\* written over whatever is there.
LoadFails ==
    /\ pc[Main] = "load"
    /\ pc' = [pc EXCEPT ![Main] = "alloc"]
    /\ unsaved' = Persist
    /\ missed' = Missed
    /\ UNCHANGED <<mode, tableVars, diskVars,
                   op, key, val, cursor, copy, reply, expected>>

-----------------------------------------------------------------------------
\* The end of a call: where c goes next and what it reports.

\* Mutant: i <= PARAM_MAX_COUNT.
MoreToResetPastEnd(c) == op[c] = "resetAll" /\ key[c] < NKeys

MoreToReset(c) == op[c] = "resetAll" /\ key[c] < NKeys - 1

Return(c, r) ==
    /\ mode' = IF op[c] = "boot" THEN "running" ELSE mode
    /\ pc' = [pc EXCEPT ![c] = IF MoreToReset(c) THEN "reset"
                               ELSE IF op[c] = "resetAll" THEN "alloc"
                               ELSE "idle"]
    /\ op' = [op EXCEPT ![c] = IF MoreToReset(c) THEN "resetAll"
                               ELSE IF op[c] = "resetAll" THEN "final"
                               ELSE "none"]
    /\ key' = [key EXCEPT ![c] = IF MoreToReset(c) THEN @ + 1 ELSE 0]
    /\ val' = [val EXCEPT ![c] = Default[0]]
    /\ reply' = [reply EXCEPT ![c] =
                    IF op[c] \in {"set", "reset"} THEN r ELSE "none"]
    /\ cursor' = [cursor EXCEPT ![c] = 0]
    /\ copy' = [copy EXCEPT ![c] = Blank]

-----------------------------------------------------------------------------
\* The setters, param_reset, param_reset_all and param_set_callback

CanCall(c) == mode = "running" /\ pc[c] = "idle"

\* An unregistered key, a key of another type or a string that is too long.
RejectedCall(c) ==
    /\ CanCall(c)
    /\ reply' = [reply EXCEPT ![c] = "error"]
    /\ UNCHANGED <<mode, tableVars, diskVars, pc, op, key, val, cursor, copy,
                   history>>

\* The parameter already has the value: success, and nothing else happens.
SetSame(c, k, v) ==
    /\ CanCall(c)
    /\ k \in registered
    /\ ram[k] = v
    /\ reply' = [reply EXCEPT ![c] = "ok"]
    /\ UNCHANGED <<mode, tableVars, diskVars, pc, op, key, val, cursor, copy,
                   history>>

Set(c, k, v) ==
    /\ CanCall(c)
    /\ k \in registered
    /\ ram[k] # v
    /\ ram' = [ram EXCEPT ![k] = v]
    /\ pc' = [pc EXCEPT ![c] = "notify"]
    /\ op' = [op EXCEPT ![c] = "set"]
    /\ key' = [key EXCEPT ![c] = k]
    /\ val' = [val EXCEPT ![c] = v]
    /\ reply' = [reply EXCEPT ![c] = "none"]
    /\ UNCHANGED <<mode, registered, callback, delivered, diskVars,
                   cursor, copy, history>>

\* No comparison with the old value: a reset always notifies and saves.
Reset(c, k) ==
    /\ CanCall(c)
    /\ c \in Resetters
    /\ k \in registered
    /\ ram' = [ram EXCEPT ![k] = Default[k]]
    /\ pc' = [pc EXCEPT ![c] = "notify"]
    /\ op' = [op EXCEPT ![c] = "reset"]
    /\ key' = [key EXCEPT ![c] = k]
    /\ val' = [val EXCEPT ![c] = Default[k]]
    /\ reply' = [reply EXCEPT ![c] = "none"]
    /\ UNCHANGED <<mode, registered, callback, delivered, diskVars,
                   cursor, copy, history>>

ResetAll(c) ==
    /\ CanCall(c)
    /\ c \in Resetters
    /\ pc' = [pc EXCEPT ![c] = "reset"]
    /\ op' = [op EXCEPT ![c] = "resetAll"]
    /\ key' = [key EXCEPT ![c] = 0]
    /\ reply' = [reply EXCEPT ![c] = "none"]
    /\ UNCHANGED <<mode, tableVars, diskVars, val, cursor, copy, history>>

\* One turn of the loop of param_reset_all; param_reset refuses a key that is
\* not registered and the loop goes on.
ResetNext(c) ==
    /\ pc[c] = "reset"
    /\ UNCHANGED <<registered, callback, delivered, diskVars, history>>
    /\ IF key[c] \in registered
         THEN /\ ram' = [ram EXCEPT ![key[c]] = Default[key[c]]]
              /\ pc' = [pc EXCEPT ![c] = "notify"]
              /\ val' = [val EXCEPT ![c] = Default[key[c]]]
              /\ UNCHANGED <<mode, op, key, cursor, copy, reply>>
         ELSE Return(c, "error") /\ UNCHANGED ram

SetCallback(c, k, on) ==
    /\ CanCall(c)
    /\ k \in registered \cap Watched
    /\ callback' = IF on THEN callback \cup {k} ELSE callback \ {k}
    /\ delivered' = [delivered EXCEPT ![k] = IF on THEN ram[k] ELSE NoRecord]
    /\ UNCHANGED <<mode, registered, ram, diskVars, callVars, history>>

\* Mutant: callbacks are looked up only on the way to a save.
NotifiedIfSaved(k) == k \in callback \cap Persist

Notified(k) == k \in callback

\* Mutant: the snapshot is taken only for a parameter somebody watches.
SavedIfWatched(k) == k \in Persist \cap callback

Saved(k) == k \in Persist

\* param_invoke_callback runs after the entry is unlocked. A setter hands over
\* its own argument, param_reset a pointer into the live entry.
Notify(c) ==
    /\ pc[c] = "notify"
    /\ delivered' = IF Notified(key[c])
                      THEN [delivered EXCEPT ![key[c]] =
                              IF op[c] = "set" THEN val[c] ELSE ram[key[c]]]
                      ELSE delivered
    /\ UNCHANGED <<registered, ram, callback, diskVars, history>>
    /\ IF Saved(key[c])
         THEN /\ pc' = [pc EXCEPT ![c] = "alloc"]
              /\ UNCHANGED <<mode, op, key, val, cursor, copy, reply>>
         ELSE Return(c, "ok")

-----------------------------------------------------------------------------
\* param_persist_snapshot

Alloc(c) ==
    /\ pc[c] = "alloc"
    /\ pc' = [pc EXCEPT ![c] = "lock"]
    /\ UNCHANGED <<mode, tableVars, diskVars, op, key, val, cursor, copy,
                   reply, history>>

AllocFails(c) ==
    /\ pc[c] = "alloc"
    /\ Return(c, "error")
    /\ unsaved' = unsaved \cup Abandoned(c)
    /\ UNCHANGED <<tableVars, diskVars, missed, expected>>

\* Mutant: the snapshot is taken without the storage mutex being free.
TakeMutexUnguarded(c) ==
    /\ pc[c] = "lock"
    /\ holder' = c
    /\ pc' = [pc EXCEPT ![c] = "gather"]
    /\ UNCHANGED <<mode, tableVars, file, stable, op, key, val, cursor, copy,
                   reply, history>>

TakeMutex(c) ==
    /\ pc[c] = "lock"
    /\ holder = NoCaller
    /\ holder' = c
    /\ pc' = [pc EXCEPT ![c] = "gather"]
    /\ UNCHANGED <<mode, tableVars, file, stable, op, key, val, cursor, copy,
                   reply, history>>

\* One turn of the copying loop, under the lock of that entry.
Gather(c) ==
    /\ pc[c] = "gather"
    /\ cursor[c] < NKeys
    /\ cursor' = [cursor EXCEPT ![c] = @ + 1]
    /\ IF cursor[c] \in Persist \cap registered
         THEN /\ copy' = [copy EXCEPT ![c][cursor[c]] = ram[cursor[c]]]
              /\ unsaved' = unsaved \ {cursor[c]}
         ELSE UNCHANGED <<copy, unsaved>>
    /\ UNCHANGED <<mode, tableVars, diskVars, pc, op, key, val, reply,
                   missed, expected>>

-----------------------------------------------------------------------------
\* param_storage_save and file_save

\* Mutant: i < PARAM_MAX_COUNT - 1.
GatheredEarly(c) == pc[c] = "gather" /\ cursor[c] = NKeys - 1

Gathered(c) == pc[c] = "gather" /\ cursor[c] = NKeys

\* Mutant: an early return that does not give the mutex back.
OpenFailsHoldsMutex(c) ==
    /\ Gathered(c)
    /\ Return(c, "error")
    /\ unsaved' = unsaved \cup Abandoned(c)
    /\ UNCHANGED <<tableVars, file, stable, holder, missed, expected>>

\* No memory for the file image, or the file cannot be opened.
OpenFails(c) ==
    /\ Gathered(c)
    /\ holder' = NoCaller
    /\ Return(c, "error")
    /\ unsaved' = unsaved \cup Abandoned(c)
    /\ UNCHANGED <<tableVars, file, stable, missed, expected>>

\* FILE_MODE_WRITE is QL_FS_CREATE_ALWAYS: opening empties the file.
Open(c) ==
    /\ Gathered(c)
    /\ file' = Damaged
    /\ pc' = [pc EXCEPT ![c] = "write"]
    /\ missed' = IF missed = "kept" THEN "overwritten" ELSE missed
    /\ UNCHANGED <<mode, tableVars, stable, holder, op, key, val, cursor, copy,
                   reply, unsaved, expected>>

Write(c) ==
    /\ pc[c] = "write"
    /\ file' = Intact(copy[c])
    /\ pc' = [pc EXCEPT ![c] = "flush"]
    /\ UNCHANGED <<mode, tableVars, stable, holder, op, key, val, cursor, copy,
                   reply, history>>

\* A failed or short write: the file is closed as it is.
WriteFails(c) ==
    /\ pc[c] = "write"
    /\ file' = Damaged
    /\ stable' = Damaged
    /\ holder' = NoCaller
    /\ Return(c, "error")
    /\ unsaved' = unsaved \cup Abandoned(c)
    /\ UNCHANGED <<tableVars, missed, expected>>

\* Ql_FS_Flush, file_close, and back out through param_persist_snapshot.
Flush(c) ==
    /\ pc[c] = "flush"
    /\ stable' = file
    /\ holder' = NoCaller
    /\ Return(c, "ok")
    /\ UNCHANGED <<tableVars, file, history>>

-----------------------------------------------------------------------------
\* Power is lost. A file that was open for writing may be left as it was
\* before, as it is in the buffer, or damaged.
Remains ==
    IF \E c \in Callers : Saving(c) THEN {stable, file, Damaged} ELSE {file}

PowerLoss ==
    /\ mode # "off"
    /\ mode' = "off"
    /\ \E f \in Remains : file' = f /\ stable' = f
    /\ registered' = {}
    /\ ram' = Default
    /\ callback' = {}
    /\ delivered' = [k \in Keys |-> NoRecord]
    /\ holder' = NoCaller
    /\ pc' = [c \in Callers |-> "idle"]
    /\ op' = [c \in Callers |-> "none"]
    /\ key' = [c \in Callers |-> 0]
    /\ val' = [c \in Callers |-> Default[0]]
    /\ cursor' = [c \in Callers |-> 0]
    /\ copy' = [c \in Callers |-> Blank]
    /\ reply' = [c \in Callers |-> "none"]
    /\ unsaved' = {}
    /\ missed' = "no"
    /\ expected' = [k \in Persist |->
                       IF mode = "running" /\ Settled(k) THEN ram[k]
                       ELSE IF pc[Main] = "load" \/ missed = "kept"
                         THEN expected[k] ELSE NoRecord]

-----------------------------------------------------------------------------
ApiCall(c) ==
    \/ ResetAll(c)
    \/ RejectedCall(c)
    \/ \E k \in Keys :
          \/ Reset(c, k)
          \/ \E on \in BOOLEAN : SetCallback(c, k, on)
          \/ \E v \in Values : SetSame(c, k, v) \/ Set(c, k, v)

\* What a call does once it has begun.
CallStep(c) ==
    \/ ResetNext(c) \/ Notify(c)
    \/ Alloc(c) \/ AllocFails(c) \/ TakeMutex(c) \/ Gather(c)
    \/ OpenFails(c) \/ Open(c) \/ Write(c) \/ WriteFails(c) \/ Flush(c)

Boot == Load \/ LoadFails

Next ==
    \/ \E n \in 0 .. NKeys : PowerOn(n)
    \/ Boot
    \/ \E c \in Callers : ApiCall(c) \/ CallStep(c)
    \/ PowerLoss

Spec == Init /\ [][Next]_vars

\* The scheduler runs every task that can run: a call that has begun keeps
\* going. Nobody has to call, and power need not fail.
FairSpec == Spec /\ WF_vars(Boot) /\ \A c \in Callers : WF_vars(CallStep(c))

=============================================================================
