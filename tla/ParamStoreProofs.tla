-------------------------- MODULE ParamStoreProofs --------------------------
(***************************************************************************)
(* Proofs about ParamStore, for any number of tasks, keys and values.      *)
(***************************************************************************)
EXTENDS ParamStoreProps, TLAPS

\* What Return assigns is of the right type, whoever returns whatever.
LEMMA ReturnType ==
    ASSUME TypeOK, NEW c \in Callers, NEW r \in {"ok", "error"}, Return(c, r)
    PROVE  /\ mode' \in {"off", "booting", "running"}
           /\ pc' \in [Callers -> Places]
           /\ op' \in [Callers -> Ops]
           /\ key' \in [Callers -> Keys]
           /\ val' \in [Callers -> Values]
           /\ cursor' \in [Callers -> 0 .. NKeys]
           /\ copy' \in [Callers -> Image]
           /\ reply' \in [Callers -> {"none", "ok", "error"}]
<1>1. /\ 0 \in Keys /\ 0 \in 0 .. NKeys /\ Default[0] \in Values
      /\ Blank \in Image
  BY ParamStoreAssumption DEF Keys, Blank, Image
<1>2. key' \in [Callers -> Keys]
  <2>1. CASE MoreToReset(c)
    <3>1. key[c] + 1 \in Keys
      BY <2>1, ParamStoreAssumption DEF MoreToReset, Keys, TypeOK
    <3>2. QED BY <2>1, <3>1 DEF Return, TypeOK
  <2>2. CASE ~MoreToReset(c)
    BY <2>2, <1>1 DEF Return, TypeOK
  <2>3. QED BY <2>1, <2>2
<1>3. QED
  BY <1>1, <1>2 DEF Return, TypeOK, Places, Ops

LEMMA TypeStep ==
    ASSUME TypeOK, [Next]_vars
    PROVE  TypeOK'
<1>a. /\ 0 \in Keys /\ Default[0] \in Values /\ Default \in [Keys -> Values]
      /\ Blank \in Image /\ Damaged \in Content
      /\ Main \in Callers /\ Persist \subseteq Keys /\ 0 \in 0 .. NKeys
      /\ NKeys \in Nat \ {0}
  BY ParamStoreAssumption
  DEF Keys, Blank, Image, Damaged, Content
<1>b. \A c \in Callers : Intact(copy[c]) \in Content
  BY DEF TypeOK, Intact, Content
<1>m. Missed \in {"no", "kept", "overwritten"}
  BY DEF Missed
<1>1. ASSUME NEW n \in 0 .. NKeys, PowerOn(n) PROVE TypeOK'
  <2>1. 0 .. n - 1 \subseteq Keys
    BY <1>a DEF Keys
  <2>2. QED
    BY <1>1, <1>a, <1>m, <2>1
    DEF PowerOn, TypeOK, diskVars, history, Places, Ops
<1>2. CASE Load
  <2>1. ram' \in [Keys -> Values]
    BY <1>2, <1>a DEF Load, TypeOK, Content, Image
  <2>2. QED
    BY <1>2, <1>a, <2>1
    DEF Load, TypeOK, diskVars, Places, Ops
<1>3. CASE LoadFails
  BY <1>3, <1>a, <1>m
  DEF LoadFails, TypeOK, tableVars, diskVars, Places
<1>4. ASSUME NEW c \in Callers, ApiCall(c) PROVE TypeOK'
  <2>1. CASE RejectedCall(c)
    BY <2>1 DEF RejectedCall, TypeOK, tableVars, diskVars, history
  <2>2. ASSUME NEW k \in Keys, NEW v \in Values, SetSame(c, k, v)
        PROVE TypeOK'
    BY <2>2 DEF SetSame, TypeOK, tableVars, diskVars, history
  <2>3. ASSUME NEW k \in Keys, NEW v \in Values, Set(c, k, v)
        PROVE TypeOK'
    BY <2>3 DEF Set, TypeOK, diskVars, history, Places, Ops
  <2>4. ASSUME NEW k \in Keys, Reset(c, k) PROVE TypeOK'
    BY <2>4, <1>a DEF Reset, TypeOK, diskVars, history, Places, Ops
  <2>5. CASE ResetAll(c)
    BY <2>5, <1>a
    DEF ResetAll, TypeOK, tableVars, diskVars, history, Places, Ops
  <2>6. ASSUME NEW k \in Keys, NEW on \in BOOLEAN, SetCallback(c, k, on)
        PROVE TypeOK'
    BY <2>6 DEF SetCallback, TypeOK, diskVars, callVars, history
  <2>7. QED
    BY <1>4, <2>1, <2>2, <2>3, <2>4, <2>5, <2>6 DEF ApiCall
<1>5. ASSUME NEW c \in Callers, CallStep(c) PROVE TypeOK'
  <2>1. CASE ResetNext(c)
    <3>1. CASE key[c] \in registered
      <4>1. /\ ram' = [ram EXCEPT ![key[c]] = Default[key[c]]]
            /\ pc' = [pc EXCEPT ![c] = "notify"]
            /\ val' = [val EXCEPT ![c] = Default[key[c]]]
            /\ UNCHANGED <<mode, op, key, cursor, copy, reply>>
        BY <2>1, <3>1 DEF ResetNext
      <4>2. Default[key[c]] \in Values
        BY <1>a DEF TypeOK
      <4>3. QED
        BY <2>1, <4>1, <4>2
        DEF ResetNext, TypeOK, diskVars, history, Places
    <3>2. CASE key[c] \notin registered
      <4>1. Return(c, "error") /\ UNCHANGED ram
        BY <2>1, <3>2 DEF ResetNext
      <4>2. QED
        BY <2>1, <4>1, ReturnType DEF ResetNext, TypeOK, diskVars, history
    <3>3. QED BY <3>1, <3>2
  <2>2. CASE Notify(c)
    <3>1. delivered' \in [Keys -> Values \cup {NoRecord}]
      BY <2>2 DEF Notify, Notified, Saved, TypeOK
    <3>2. CASE key[c] \in Persist
      BY <2>2, <3>1, <3>2
        DEF Notify, Notified, Saved, TypeOK, diskVars, history, Places
    <3>3. CASE key[c] \notin Persist
      <4>1. Return(c, "ok")
        BY <2>2, <3>3 DEF Notify, Notified, Saved
      <4>2. QED
        BY <2>2, <3>1, <4>1, ReturnType
        DEF Notify, Notified, Saved, TypeOK, diskVars, history
    <3>4. QED BY <3>2, <3>3
  <2>3. CASE Alloc(c)
    BY <2>3 DEF Alloc, TypeOK, tableVars, diskVars, history, Places
  <2>4. CASE AllocFails(c)
    <3>1. Return(c, "error") BY <2>4 DEF AllocFails
    <3>2. QED
      BY <2>4, <3>1, ReturnType
      DEF AllocFails, TypeOK, Abandoned, tableVars, diskVars
  <2>5. CASE TakeMutex(c)
    BY <2>5 DEF TakeMutex, TypeOK, tableVars, history, Places
  <2>6. CASE Gather(c)
    <3>1. cursor' \in [Callers -> 0 .. NKeys]
      BY <2>6, <1>a DEF Gather, TypeOK
    <3>2. copy' \in [Callers -> Image]
      <4>1. CASE cursor[c] \in Persist \cap registered
        <5>1. [copy[c] EXCEPT ![cursor[c]] = ram[cursor[c]]] \in Image
          BY <4>1, <1>a DEF TypeOK, Image
        <5>2. copy' = [copy EXCEPT ![c] =
                          [copy[c] EXCEPT ![cursor[c]] = ram[cursor[c]]]]
          BY <2>6, <4>1 DEF Gather
        <5>3. QED BY <5>1, <5>2 DEF TypeOK
      <4>2. CASE cursor[c] \notin Persist \cap registered
        BY <2>6, <4>2 DEF Gather, TypeOK
      <4>3. QED BY <4>1, <4>2
    <3>3. unsaved' \subseteq Persist
      BY <2>6 DEF Gather, TypeOK
    <3>4. QED
      BY <2>6, <3>1, <3>2, <3>3 DEF Gather, TypeOK, tableVars, diskVars
  <2>7. CASE OpenFails(c)
    <3>1. Return(c, "error") BY <2>7 DEF OpenFails
    <3>2. QED
      BY <2>7, <3>1, ReturnType
      DEF OpenFails, TypeOK, Abandoned, tableVars
  <2>8. CASE Open(c)
    BY <2>8, <1>a DEF Open, TypeOK, tableVars, history, Places
  <2>9. CASE Write(c)
    BY <2>9, <1>b DEF Write, TypeOK, tableVars, history, Places
  <2>10. CASE WriteFails(c)
    <3>1. Return(c, "error") BY <2>10 DEF WriteFails
    <3>2. QED
      BY <2>10, <3>1, <1>a, ReturnType
      DEF WriteFails, TypeOK, Abandoned, tableVars
  <2>11. CASE Flush(c)
    <3>1. Return(c, "ok") BY <2>11 DEF Flush
    <3>2. QED
      BY <2>11, <3>1, ReturnType DEF Flush, TypeOK, tableVars, history
  <2>12. QED
    BY <1>5, <2>1, <2>2, <2>3, <2>4, <2>5, <2>6, <2>7, <2>8, <2>9, <2>10,
       <2>11 DEF CallStep
<1>6. CASE PowerLoss
  <2>1. file' \in Content /\ stable' \in Content
    BY <1>6, <1>a DEF PowerLoss, Remains, TypeOK
  <2>2. expected' \in Image
    BY <1>6, <1>a DEF PowerLoss, TypeOK, Image
  <2>3. QED
    BY <1>6, <1>a, <2>1, <2>2 DEF PowerLoss, TypeOK, Places, Ops
<1>7. CASE UNCHANGED vars
  BY <1>7
  DEF vars, TypeOK, tableVars, diskVars, callVars, history
<1>8. QED
  BY <1>1, <1>2, <1>3, <1>4, <1>5, <1>6, <1>7 DEF Next, Boot

\* Type correctness: every step of the table keeps every variable, and in
\* particular every record of a snapshot, in its range.
THEOREM TypeCorrect == Spec => []TypeOK
<1>1. Init => TypeOK
  BY ParamStoreAssumption
  DEF Init, TypeOK, Content, Absent, Image, Blank, Keys, Places, Ops
<1>2. TypeOK /\ [Next]_vars => TypeOK'
  BY TypeStep
<1>3. QED
  BY <1>1, <1>2, PTL DEF Spec

-----------------------------------------------------------------------------
\* How Return moves the caller, for every op it can be in.
LEMMA ReturnControl ==
    ASSUME TypeOK, Control, NEW c \in Callers, NEW r, Return(c, r),
           op[c] # "none"
    PROVE  /\ \A d \in Callers \ {c} :
                 pc'[d] = pc[d] /\ op'[d] = op[d] /\ key'[d] = key[d]
                 /\ cursor'[d] = cursor[d] /\ copy'[d] = copy[d]
           /\ pc'[c] \in {"idle", "reset", "alloc"}
           /\ pc'[c] = "idle" <=> op'[c] = "none"
           /\ pc'[c] = "reset" => op'[c] = "resetAll"
           /\ pc'[c] = "alloc" => op'[c] = "final"
           /\ op'[c] # "boot"
           /\ cursor'[c] = 0
           /\ mode' = IF op[c] = "boot" THEN "running" ELSE mode
BY DEF Return, TypeOK, Ops, MoreToReset

LEMMA ControlStep ==
    ASSUME TypeOK, Control, SnapshotExclusive, [Next]_vars
    PROVE  Control'
<1>a. Main \in Callers /\ NKeys \in Nat \ {0}
  BY ParamStoreAssumption
<1>1. ASSUME NEW n \in 0 .. NKeys, PowerOn(n) PROVE Control'
  <2>1. CASE n = NKeys
    BY <1>1, <2>1, <1>a DEF PowerOn, Control, TypeOK, diskVars, Keys, history
  <2>2. CASE n # NKeys
    BY <1>1, <2>2, <1>a DEF PowerOn, Control, TypeOK, diskVars, history
  <2>3. QED BY <2>1, <2>2
<1>2. CASE Load
  BY <1>2, <1>a DEF Load, Control, TypeOK, diskVars
<1>3. CASE LoadFails
  BY <1>3, <1>a DEF LoadFails, Control, TypeOK, tableVars, diskVars
<1>4. ASSUME NEW c \in Callers, ApiCall(c) PROVE Control'
  <2>1. CASE RejectedCall(c)
    BY <2>1 DEF RejectedCall, Control, tableVars, diskVars, history
  <2>2. ASSUME NEW k \in Keys, NEW v \in Values, SetSame(c, k, v)
        PROVE Control'
    BY <2>2 DEF SetSame, Control, tableVars, diskVars, history
  <2>3. ASSUME NEW k \in Keys, NEW v \in Values, Set(c, k, v)
        PROVE Control'
    BY <2>3 DEF Set, CanCall, Control, TypeOK, diskVars, history
  <2>4. ASSUME NEW k \in Keys, Reset(c, k) PROVE Control'
    BY <2>4 DEF Reset, CanCall, Control, TypeOK, diskVars, history
  <2>5. CASE ResetAll(c)
    BY <2>5 DEF ResetAll, CanCall, Control, TypeOK, tableVars, diskVars, history
  <2>6. ASSUME NEW k \in Keys, NEW on \in BOOLEAN, SetCallback(c, k, on)
        PROVE Control'
    BY <2>6 DEF SetCallback, Control, diskVars, callVars, history
  <2>7. QED
    BY <1>4, <2>1, <2>2, <2>3, <2>4, <2>5, <2>6 DEF ApiCall
<1>5. ASSUME NEW c \in Callers, CallStep(c) PROVE Control'
  <2>0. op[c] # "none" /\ pc[c] # "idle"
    BY <1>5
    DEF CallStep, ResetNext, Notify, Notified, Saved, Alloc, AllocFails,
        TakeMutex, Gather, OpenFails, Open, Write, WriteFails, Flush, Gathered, Control
  <2>r. ASSUME NEW r, Return(c, r), registered' = registered,
               \/ file' = file
               \/ holder = c
        PROVE  Control'
    <3>1. \A d \in Callers \ {c} : pc[d] = "flush" => file' = file
      BY <2>r DEF SnapshotExclusive
    <3>2. /\ mode' = IF op[c] = "boot" THEN "running" ELSE mode
          /\ pc'[c] \in {"idle", "reset", "alloc"}
          /\ pc'[c] = "idle" <=> op'[c] = "none"
          /\ pc'[c] = "reset" => op'[c] = "resetAll"
          /\ op'[c] # "boot"
          /\ cursor'[c] = 0
          /\ \A d \in Callers \ {c} :
                /\ pc'[d] = pc[d] /\ op'[d] = op[d] /\ copy'[d] = copy[d]
                /\ cursor'[d] = cursor[d]
      BY <2>r, <2>0, ReturnControl
    <3>3. mode # "off"
      BY <2>0 DEF Control
    <3>4. mode' = "booting" =>
             /\ registered' = Keys /\ op'[Main] = "boot"
             /\ \A d \in Callers \ {Main} : pc'[d] = "idle"
      BY <3>2, <2>0, <2>r, <1>a DEF Control
    <3>5. ASSUME NEW d \in Callers \ {c}
          PROVE  /\ pc'[d] = "idle" <=> op'[d] = "none"
                 /\ pc'[d] = "load" => d = Main /\ mode' = "booting"
                 /\ op'[d] = "boot" => d = Main /\ mode' = "booting"
                 /\ pc'[d] = "notify" => op'[d] \in {"set", "reset", "resetAll"}
                 /\ pc'[d] = "reset" => op'[d] = "resetAll"
                 /\ pc'[d] = "flush" => file' = Intact(copy'[d])
                 /\ pc'[d] \notin {"gather", "write", "flush"}
                       => cursor'[d] = 0
                 /\ pc'[d] \in {"write", "flush"} => cursor'[d] = NKeys
      BY <3>1, <3>2, <3>5 DEF Control
    <3>6. mode' # "off"
      BY <3>2, <3>3
    <3>7. QED
      BY <3>2, <3>4, <3>5, <3>6 DEF Control
  <2>1. CASE ResetNext(c)
    <3>1. CASE key[c] \in registered
      BY <2>1, <3>1, <2>0
      DEF ResetNext, Control, TypeOK, diskVars, history
    <3>2. CASE key[c] \notin registered
      BY <2>1, <3>2, <2>r DEF ResetNext, diskVars
    <3>3. QED BY <3>1, <3>2
  <2>2. CASE Notify(c)
    <3>1. CASE key[c] \in Persist
      BY <2>2, <3>1, <2>0
      DEF Notify, Notified, Saved, Control, TypeOK, diskVars, history
    <3>2. CASE key[c] \notin Persist
      BY <2>2, <3>2, <2>r DEF Notify, Notified, Saved, diskVars
    <3>3. QED BY <3>1, <3>2
  <2>3. CASE Alloc(c)
    BY <2>3, <2>0 DEF Alloc, Control, TypeOK, tableVars, diskVars, history
  <2>4. CASE AllocFails(c)
    BY <2>4, <2>r DEF AllocFails, tableVars, diskVars
  <2>5. CASE TakeMutex(c)
    BY <2>5, <2>0 DEF TakeMutex, Control, TypeOK, tableVars, history
  <2>6. CASE Gather(c)
    <3>1. \A d \in Callers : pc[d] = "flush" => copy'[d] = copy[d]
      BY <2>6 DEF Gather, TypeOK
    <3>2. QED
      BY <2>6, <3>1 DEF Gather, Control, tableVars, diskVars
  <2>7. CASE OpenFails(c)
    BY <2>7, <2>r DEF OpenFails, tableVars
  <2>8. CASE Open(c)
    <3>1. \A d \in Callers : pc[d] # "flush"
      BY <2>8 DEF Open, Gathered, SnapshotExclusive
    <3>2. QED
      BY <2>8, <2>0, <3>1
      DEF Open, Gathered, Control, TypeOK, tableVars, history
  <2>9. CASE Write(c)
    <3>1. \A d \in Callers \ {c} : pc[d] # "flush"
      BY <2>9 DEF Write, SnapshotExclusive
    <3>2. QED
      BY <2>9, <2>0, <3>1 DEF Write, Control, TypeOK, tableVars, history
  <2>10. CASE WriteFails(c)
    <3>1. holder = c
      BY <2>10 DEF WriteFails, SnapshotExclusive
    <3>2. QED
      BY <2>10, <3>1, <2>r DEF WriteFails, tableVars
  <2>11. CASE Flush(c)
    BY <2>11, <2>r DEF Flush, tableVars
  <2>12. QED
    BY <1>5, <2>1, <2>2, <2>3, <2>4, <2>5, <2>6, <2>7, <2>8, <2>9, <2>10,
       <2>11 DEF CallStep
<1>6. CASE PowerLoss
  BY <1>6 DEF PowerLoss, Control, TypeOK
<1>7. CASE UNCHANGED vars
  BY <1>7 DEF vars, Control, tableVars, diskVars, callVars, history
<1>8. QED
  BY <1>1, <1>2, <1>3, <1>4, <1>5, <1>6, <1>7 DEF Next, Boot

LEMMA ExclusiveStep ==
    ASSUME TypeOK, Control, SnapshotExclusive, [Next]_vars
    PROVE  SnapshotExclusive'
<1>a. Main \in Callers /\ NoCaller \notin Callers
  BY ParamStoreAssumption
<1>1. ASSUME NEW n \in 0 .. NKeys, PowerOn(n) PROVE SnapshotExclusive'
  <2>1. \A c \in Callers : pc[c] = "idle"
    BY <1>1 DEF PowerOn, Control
  <2>2. \A c \in Callers : pc'[c] \in {"idle", "load"}
    BY <1>1, <2>1, <1>a DEF PowerOn, TypeOK
  <2>3. QED
    BY <1>1, <2>1, <2>2 DEF PowerOn, SnapshotExclusive, Saving, diskVars
<1>2. CASE Boot
  <2>1. /\ pc[Main] = "load" /\ pc'[Main] \in {"idle", "alloc"}
        /\ \A c \in Callers \ {Main} : pc'[c] = pc[c]
        /\ UNCHANGED diskVars
    BY <1>2, <1>a DEF Boot, Load, LoadFails, TypeOK
  <2>2. QED
    BY <2>1, <1>a DEF SnapshotExclusive, Saving, diskVars
<1>3. ASSUME NEW c \in Callers, ApiCall(c) PROVE SnapshotExclusive'
  <2>1. /\ pc[c] = "idle" /\ pc'[c] \in {"idle", "notify", "reset"}
        /\ \A d \in Callers \ {c} : pc'[d] = pc[d]
        /\ UNCHANGED diskVars
    BY <1>3
    DEF ApiCall, RejectedCall, SetSame, Set, Reset, ResetAll, SetCallback,
        CanCall, TypeOK, callVars
  <2>2. QED
    BY <2>1 DEF SnapshotExclusive, Saving, diskVars
<1>4. ASSUME NEW c \in Callers, CallStep(c) PROVE SnapshotExclusive'
  <2>0. op[c] # "none"
    BY <1>4
    DEF CallStep, ResetNext, Notify, Notified, Saved, Alloc, AllocFails,
        TakeMutex, Gather, OpenFails, Open, Write, WriteFails, Flush, Gathered, Control
  <2>o. \A d \in Callers \ {c} : pc'[d] = pc[d]
    BY <1>4
    DEF CallStep, ResetNext, Notify, Notified, Saved, Alloc, AllocFails,
        TakeMutex, Gather, OpenFails, Open, Write, WriteFails, Flush, Return, TypeOK
  <2>r. ASSUME NEW r, Return(c, r) PROVE pc'[c] \in {"idle", "reset", "alloc"}
    BY <2>r, <2>0, ReturnControl
  <2>1. CASE pc[c] \in {"reset", "notify", "alloc"}
    <3>1. /\ pc'[c] \in {"idle", "reset", "notify", "alloc", "lock"}
          /\ UNCHANGED diskVars
      BY <1>4, <2>1, <2>r
      DEF CallStep, ResetNext, Notify, Notified, Saved, Alloc, AllocFails,
          TakeMutex, Gather, OpenFails, Open, Write, WriteFails, Flush, Gathered, TypeOK
    <3>2. QED
      BY <2>1, <3>1, <2>o DEF SnapshotExclusive, Saving, diskVars
  <2>2. CASE TakeMutex(c)
    BY <2>2, <1>a, <2>o DEF TakeMutex, SnapshotExclusive, Saving, TypeOK
  <2>3. CASE Gather(c)
    BY <2>3 DEF Gather, SnapshotExclusive, Saving, diskVars
  <2>4. CASE OpenFails(c)
    <3>1. pc'[c] \in {"idle", "reset", "alloc"}
      BY <2>4, <2>r DEF OpenFails
    <3>2. QED
      BY <2>4, <3>1, <2>o, <1>a
      DEF OpenFails, Gathered, SnapshotExclusive, Saving
  <2>5. CASE Open(c)
    BY <2>5, <2>o DEF Open, Gathered, SnapshotExclusive, Saving, TypeOK
  <2>6. CASE Write(c)
    BY <2>6, <2>o DEF Write, SnapshotExclusive, Saving, TypeOK
  <2>7. CASE WriteFails(c)
    <3>1. pc'[c] \in {"idle", "reset", "alloc"}
      BY <2>7, <2>r DEF WriteFails
    <3>2. QED
      BY <2>7, <3>1, <2>o, <1>a DEF WriteFails, SnapshotExclusive, Saving
  <2>8. CASE Flush(c)
    <3>1. pc'[c] \in {"idle", "reset", "alloc"}
      BY <2>8, <2>r DEF Flush
    <3>2. QED
      BY <2>8, <3>1, <2>o, <1>a DEF Flush, SnapshotExclusive, Saving
  <2>9. QED
    BY <1>4, <2>1, <2>2, <2>3, <2>4, <2>5, <2>6, <2>7, <2>8
    DEF CallStep, ResetNext, Notify, Notified, Saved, Alloc, AllocFails
<1>5. CASE PowerLoss
  BY <1>5, <1>a DEF PowerLoss, SnapshotExclusive, Saving
<1>6. CASE UNCHANGED vars
  BY <1>6 DEF vars, SnapshotExclusive, Saving, diskVars, callVars
<1>7. QED
  BY <1>1, <1>2, <1>3, <1>4, <1>5, <1>6 DEF Next

-----------------------------------------------------------------------------
\* What a step of c means for the others: their part of Pending and Copied is
\* theirs alone.
LEMMA OthersKeep ==
    ASSUME NEW c \in Callers, NEW d \in Callers \ {c}, NEW k \in Keys,
           pc'[d] = pc[d], op'[d] = op[d], key'[d] = key[d],
           cursor'[d] = cursor[d]
    PROVE  (Pending(d, k)' <=> Pending(d, k)) /\ (Copied(d, k)' <=> Copied(d, k))
BY DEF Pending, Copied

\* A step that neither moves the file nor any snapshot, and after which the
\* caller still has every duty it had, forgets nothing.
LEMMA QuietKeepsSafe ==
    ASSUME NEW c \in Callers, NEW k \in Keys, Safe(k),
           UNCHANGED <<file, copy>>, k \in unsaved => k \in unsaved',
           ram'[k] = ram[k] \/ Pending(c, k)',
           Pending(c, k) => Pending(c, k)' \/ k \in unsaved',
           Copied(c, k)' <=> Copied(c, k),
           \A d \in Callers \ {c} :
              /\ pc'[d] = pc[d] /\ op'[d] = op[d] /\ key'[d] = key[d]
              /\ cursor'[d] = cursor[d]
    PROVE  Safe(k)'
<1>1. \A d \in Callers \ {c} :
         (Pending(d, k)' <=> Pending(d, k)) /\ (Copied(d, k)' <=> Copied(d, k))
  BY OthersKeep
<1>2. CASE Pending(c, k)' \/ k \in unsaved'
  BY <1>2 DEF Safe
<1>3. CASE ~Pending(c, k)' /\ k \notin unsaved'
  <2>1. ram'[k] = ram[k] /\ ~Pending(c, k) /\ k \notin unsaved
    BY <1>3
  <2>2. CASE \E d \in Callers : Pending(d, k)
    BY <2>1, <2>2, <1>1 DEF Safe
  <2>3. CASE ~\E d \in Callers : Pending(d, k)
    <3>1. \A d \in Callers : Copied(d, k)' <=> Copied(d, k)
      BY <1>1
    <3>2. QED BY <2>1, <2>3, <3>1 DEF Safe
  <2>4. QED BY <2>2, <2>3
<1>4. QED BY <1>2, <1>3

\* A failing save: whatever the caller had copied or had still to copy is in
\* unsaved afterwards.
LEMMA FailureKeepsSafe ==
    ASSUME TypeOK, Control, SnapshotExclusive,
           NEW c \in Callers, NEW k \in Persist \cap registered, Safe(k),
           NEW r, Return(c, r), op[c] # "none",
           unsaved' = unsaved \cup Abandoned(c), ram' = ram,
           file' = file \/ Copied(c, k)
    PROVE  Safe(k)'
<1>0. k \in Keys
  BY ParamStoreAssumption
<1>1. CASE Copied(c, k) \/ Pending(c, k)
  BY <1>1 DEF Safe, Abandoned
<1>2. CASE ~Copied(c, k) /\ ~Pending(c, k)
  <2>1. /\ \A d \in Callers \ {c} :
               /\ pc'[d] = pc[d] /\ op'[d] = op[d] /\ key'[d] = key[d]
               /\ cursor'[d] = cursor[d] /\ copy'[d] = copy[d]
        /\ pc'[c] \in {"idle", "reset", "alloc"}
        /\ pc'[c] = "alloc" => op'[c] = "final"
    BY ReturnControl
  <2>2. ~Copied(c, k)' /\ ~Pending(c, k)'
    BY <2>1 DEF Copied, Pending
  <2>3. \A d \in Callers \ {c} :
           (Pending(d, k)' <=> Pending(d, k)) /\ (Copied(d, k)' <=> Copied(d, k))
    BY <1>0, <2>1, OthersKeep
  <2>4. \A d \in Callers :
           (Pending(d, k)' <=> Pending(d, k)) /\ (Copied(d, k)' <=> Copied(d, k))
    BY <1>2, <2>2, <2>3
  <2>5. \A d \in Callers : Copied(d, k) => copy'[d] = copy[d]
    BY <1>2, <2>1
  <2>6. CASE k \in unsaved \/ \E d \in Callers : Pending(d, k)
    BY <2>6, <2>4 DEF Safe
  <2>7. CASE ~(k \in unsaved \/ \E d \in Callers : Pending(d, k))
    <3>1. file' = file
      BY <1>2
    <3>2. IF \E d \in Callers : Copied(d, k)
            THEN \A d \in Callers : Copied(d, k) => copy[d][k] = ram[k]
            ELSE file.kind = "intact" /\ file.image[k] = ram[k]
      BY <2>7 DEF Safe
    <3>3. IF \E d \in Callers : Copied(d, k)'
            THEN \A d \in Callers : Copied(d, k)' => copy'[d][k] = ram'[k]
            ELSE file'.kind = "intact" /\ file'.image[k] = ram'[k]
      BY <3>1, <3>2, <2>4, <2>5
    <3>4. QED BY <3>3 DEF Safe
  <2>8. QED BY <2>6, <2>7
<1>3. QED BY <1>1, <1>2

\* No step of a call in progress forgets a value.
LEMMA CallKeepsSafe ==
    ASSUME TypeOK, Control, SnapshotExclusive,
           NEW c \in Callers, CallStep(c),
           NEW k \in Persist \cap registered, Safe(k)
    PROVE  Safe(k)'
<1>a. k \in Keys /\ NKeys \in Nat \ {0} /\ NoCaller \notin Callers
  BY ParamStoreAssumption
<1>0. op[c] # "none"
  BY DEF CallStep, ResetNext, Notify, Notified, Saved, Alloc, AllocFails,
         TakeMutex, Gather, OpenFails, Open, Write, WriteFails, Flush, Gathered, Control
<1>o. \A d \in Callers \ {c} :
         /\ pc'[d] = pc[d] /\ op'[d] = op[d] /\ key'[d] = key[d]
         /\ cursor'[d] = cursor[d]
  BY DEF CallStep, ResetNext, Notify, Notified, Saved, Alloc, AllocFails,
         TakeMutex, Gather, OpenFails, Open, Write, WriteFails, Flush, Return, TypeOK
<1>r. ASSUME NEW r, Return(c, r)
      PROVE  ~Copied(c, k)' /\ ~Pending(c, k)'
  <2>1. /\ pc'[c] \in {"idle", "reset", "alloc"}
        /\ pc'[c] = "alloc" => op'[c] = "final"
    BY <1>r, <1>0, ReturnControl
  <2>2. QED BY <2>1 DEF Copied, Pending
<1>q. \A d \in Callers \ {c} :
         (Pending(d, k)' <=> Pending(d, k)) /\ (Copied(d, k)' <=> Copied(d, k))
  BY <1>a, <1>o, OthersKeep
\* Only the owner of the mutex has copied anything.
<1>x. \A d, e \in Callers : Copied(d, k) /\ Copied(e, k) => d = e
  BY DEF Copied, SnapshotExclusive
<1>1. CASE ResetNext(c)
  <2>1. ~Pending(c, k) /\ ~Copied(c, k) /\ UNCHANGED <<file, unsaved>>
    BY <1>1 DEF ResetNext, Pending, Copied, diskVars, history
  <2>2. CASE key[c] \in registered
    <3>1. /\ UNCHANGED copy /\ ~Copied(c, k)'
          /\ k # key[c] => ram'[k] = ram[k]
      BY <1>1, <2>2, <1>a DEF ResetNext, TypeOK, Copied
    <3>2. k = key[c] => Pending(c, k)'
      BY <1>1, <2>2 DEF ResetNext, TypeOK, Pending, Control
    <3>3. QED BY <1>a, <1>o, <2>1, <3>1, <3>2, QuietKeepsSafe
  <2>3. CASE key[c] \notin registered
    <3>1. Return(c, "error") /\ UNCHANGED ram
      BY <1>1, <2>3 DEF ResetNext
    <3>2. \A d \in Callers \ {c} : copy'[d] = copy[d]
      BY <3>1, <1>0, ReturnControl
    <3>3. \A d \in Callers :
             /\ Pending(d, k)' <=> Pending(d, k)
             /\ Copied(d, k)' <=> Copied(d, k)
      BY <2>1, <3>1, <1>r, <1>q
    <3>4. \A d \in Callers : Copied(d, k) => copy'[d] = copy[d]
      BY <2>1, <3>2
    <3>5. QED BY <2>1, <3>1, <3>3, <3>4 DEF Safe
  <2>4. QED BY <2>2, <2>3
<1>2. CASE Notify(c)
  <2>1. ~Copied(c, k) /\ UNCHANGED <<ram, file, unsaved>>
    BY <1>2 DEF Notify, Notified, Saved, Copied, diskVars, history
  <2>2. CASE key[c] \in Persist
    <3>1. UNCHANGED copy /\ ~Copied(c, k)'
      BY <1>2, <2>2 DEF Notify, Notified, Saved, TypeOK, Copied
    <3>2. Pending(c, k) => Pending(c, k)'
      BY <1>2, <2>2 DEF Notify, Notified, Saved, TypeOK, Pending
    <3>3. QED BY <1>a, <1>o, <2>1, <3>1, <3>2, QuietKeepsSafe
  <2>3. CASE key[c] \notin Persist
    <3>1. Return(c, "ok")
      BY <1>2, <2>3 DEF Notify, Notified, Saved
    <3>2. \A d \in Callers \ {c} : copy'[d] = copy[d]
      BY <3>1, <1>0, ReturnControl
    <3>3. ~Pending(c, k)
      BY <1>2, <2>3 DEF Notify, Notified, Saved, Pending
    <3>4. \A d \in Callers :
             /\ Pending(d, k)' <=> Pending(d, k)
             /\ Copied(d, k)' <=> Copied(d, k)
      BY <2>1, <3>1, <3>3, <1>r, <1>q
    <3>5. \A d \in Callers : Copied(d, k) => copy'[d] = copy[d]
      BY <2>1, <3>2
    <3>6. QED BY <2>1, <3>4, <3>5 DEF Safe
  <2>4. QED BY <2>2, <2>3
<1>3. CASE Alloc(c) \/ TakeMutex(c)
  <2>1. /\ UNCHANGED <<ram, file, copy, unsaved>>
        /\ cursor[c] = 0 /\ cursor'[c] = 0
    BY <1>3 DEF Alloc, TakeMutex, tableVars, diskVars, history, Control
  <2>2. ~Copied(c, k) /\ ~Copied(c, k)' /\ (Pending(c, k) => Pending(c, k)')
    BY <1>3, <2>1, <1>a
    DEF Alloc, TakeMutex, Copied, Pending, TypeOK, Keys
  <2>3. QED BY <1>a, <1>o, <2>1, <2>2, QuietKeepsSafe
<1>4. CASE AllocFails(c)
  BY <1>4, <1>0, FailureKeepsSafe DEF AllocFails, tableVars, diskVars
<1>5. CASE Gather(c)
  <2>1. /\ UNCHANGED <<ram, file, pc, op, key>>
        /\ cursor[c] \in 0 .. NKeys - 1 /\ cursor'[c] = cursor[c] + 1
        /\ \A d \in Callers \ {c} : copy'[d] = copy[d]
    BY <1>5, <1>a DEF Gather, TypeOK, tableVars, diskVars
  <2>2. CASE k = cursor[c]
    <3>1. /\ copy'[c][k] = ram[k] /\ Copied(c, k)'
      BY <1>5, <2>1, <2>2, <1>a DEF Gather, TypeOK, Image, Copied, Keys
    <3>2. \A d \in Callers \ {c} : ~Copied(d, k)'
      BY <1>5, <1>q DEF Gather, Copied, SnapshotExclusive
    <3>3. QED BY <2>1, <3>1, <3>2 DEF Safe
  <2>3. CASE k # cursor[c]
    <3>1. (k \in unsaved' <=> k \in unsaved) /\ copy'[c][k] = copy[c][k]
      BY <1>5, <2>3, <1>a DEF Gather, TypeOK, Image
    <3>2. /\ Pending(c, k)' <=> Pending(c, k)
          /\ Copied(c, k)' <=> Copied(c, k)
      BY <2>1, <2>3, <1>a DEF Pending, Copied, Keys
    <3>3. \A d \in Callers : /\ Pending(d, k)' <=> Pending(d, k)
                             /\ Copied(d, k)' <=> Copied(d, k)
                             /\ copy'[d][k] = copy[d][k]
      BY <2>1, <3>1, <3>2, <1>q
    <3>4. QED BY <2>1, <3>1, <3>3 DEF Safe
  <2>4. QED BY <2>2, <2>3
<1>6. CASE OpenFails(c)
  BY <1>6, <1>0, FailureKeepsSafe DEF OpenFails, tableVars
<1>7. CASE Open(c) \/ Write(c)
  <2>1. /\ UNCHANGED <<ram, copy, unsaved>>
        /\ cursor[c] = NKeys /\ cursor'[c] = NKeys
    BY <1>7 DEF Open, Write, Gathered, tableVars, history, Control
  <2>2. Copied(c, k) /\ Copied(c, k)' /\ ~Pending(c, k) /\ ~Pending(c, k)'
    BY <1>7, <2>1, <1>a
    DEF Open, Write, Gathered, Copied, Pending, TypeOK, Keys
  <2>3. \A d \in Callers : /\ Pending(d, k)' <=> Pending(d, k)
                           /\ Copied(d, k)' <=> Copied(d, k)
    BY <2>2, <1>q
  <2>4. QED BY <2>1, <2>2, <2>3 DEF Safe
<1>8. CASE WriteFails(c)
  <2>1. Copied(c, k)
    BY <1>8 DEF WriteFails, Copied
  <2>2. QED BY <1>8, <1>0, <2>1, FailureKeepsSafe DEF WriteFails, tableVars
<1>9. CASE Flush(c)
  <2>1. /\ Copied(c, k) /\ ~Pending(c, k)
        /\ UNCHANGED <<ram, file, unsaved>> /\ Return(c, "ok")
    BY <1>9 DEF Flush, Copied, Pending, tableVars, history
  <2>2. file.kind = "intact" /\ file.image[k] = copy[c][k]
    BY <1>9 DEF Flush, Control, Intact
  <2>3. \A d \in Callers : /\ ~Copied(d, k)'
                           /\ Pending(d, k)' <=> Pending(d, k)
    BY <2>1, <1>q, <1>r, <1>x
  <2>4. QED BY <2>1, <2>2, <2>3 DEF Safe
<1>10. QED
  BY <1>1, <1>2, <1>3, <1>4, <1>5, <1>6, <1>7, <1>8, <1>9 DEF CallStep

LEMMA NoValueForgottenStep ==
    ASSUME TypeOK, Control, SnapshotExclusive, NoValueForgotten, [Next]_vars
    PROVE  NoValueForgotten'
<1>a. Main \in Callers /\ Persist \subseteq Keys
  BY ParamStoreAssumption
<1> SUFFICES ASSUME (mode # "off" /\ pc[Main] # "load")',
                    NEW k \in Persist, k \in registered'
             PROVE  Safe(k)'
  BY DEF NoValueForgotten
<1>1. ASSUME NEW n \in 0 .. NKeys, PowerOn(n) PROVE Safe(k)'
  BY <1>1, <1>a DEF PowerOn, TypeOK, Safe
<1>2. CASE Load
  <2>1. \A c \in Callers : pc'[c] = "idle"
    BY <1>2, <1>a DEF Load, Control, TypeOK
  <2>2. \A c \in Callers : ~Copied(c, k)'
    BY <2>1 DEF Copied
  <2>3. k \notin unsaved' => file'.kind = "intact" /\ file'.image[k] = ram'[k]
    BY <1>2, <1>a DEF Load, diskVars
  <2>4. QED BY <2>2, <2>3 DEF Safe
<1>3. CASE LoadFails
  BY <1>3 DEF LoadFails, Safe
<1>4. ASSUME NEW c \in Callers, ApiCall(c) PROVE Safe(k)'
  <2>1. /\ pc[c] = "idle" /\ mode = "running" /\ pc[Main] # "load"
        /\ UNCHANGED <<registered, file, copy, unsaved, cursor>>
        /\ \A d \in Callers \ {c} :
              pc'[d] = pc[d] /\ op'[d] = op[d] /\ key'[d] = key[d]
        /\ pc'[c] \in {"idle", "notify", "reset"}
    BY <1>4, <1>a
    DEF ApiCall, RejectedCall, SetSame, Set, Reset, ResetAll, SetCallback,
        CanCall, TypeOK, callVars, tableVars, diskVars, history, Control
  <2>2. Safe(k) /\ ~Pending(c, k) /\ ~Copied(c, k) /\ ~Copied(c, k)'
    BY <2>1 DEF NoValueForgotten, Pending, Copied
  <2>3. ram'[k] = ram[k] \/ Pending(c, k)'
    BY <1>4, <1>a
    DEF ApiCall, RejectedCall, SetSame, Set, Reset, ResetAll, SetCallback,
        TypeOK, tableVars, Pending
  <2>4. QED BY <1>a, <2>1, <2>2, <2>3, QuietKeepsSafe
<1>5. ASSUME NEW c \in Callers, CallStep(c) PROVE Safe(k)'
  <2>1. pc[Main] # "load" /\ mode # "off" /\ registered' = registered
    BY <1>5, <1>a
    DEF CallStep, ResetNext, Notify, Notified, Saved, Alloc, AllocFails,
        TakeMutex, Gather, OpenFails, Open, Write, WriteFails, Flush, Gathered, Return, Control,
        tableVars, TypeOK
  <2>2. Safe(k)
    BY <2>1 DEF NoValueForgotten
  <2>3. QED BY <1>5, <2>1, <2>2, CallKeepsSafe
<1>6. CASE PowerLoss
  BY <1>6 DEF PowerLoss
<1>7. CASE UNCHANGED vars
  <2>1. UNCHANGED <<mode, registered, ram, file, pc, op, key, cursor, copy,
                    unsaved>>
    BY <1>7 DEF vars, tableVars, diskVars, callVars, history
  <2>2. QED
    BY <2>1 DEF NoValueForgotten, Safe, Pending, Copied
<1>8. QED
  BY <1>1, <1>2, <1>3, <1>4, <1>5, <1>6, <1>7 DEF Next, Boot

\* A settled value is on the file, and nobody is writing the file.
LEMMA SettledIsOnFile ==
    ASSUME IInv, mode = "running", NEW k \in Persist, Settled(k)
    PROVE  /\ file.kind = "intact" /\ file.image[k] = ram[k]
           /\ Remains = {file}
<1>1. pc[Main] # "load" /\ k \in registered \ unsaved
  BY ParamStoreAssumption DEF IInv, Control, Settled
<1>2. \A c \in Callers : ~Pending(c, k) /\ ~Copied(c, k)
  BY DEF Settled
<1>3. file.kind = "intact" /\ file.image[k] = ram[k]
  BY <1>1, <1>2 DEF IInv, NoValueForgotten, Safe
<1>4. \A c \in Callers : ~Saving(c)
  BY <1>2 DEF Copied, Saving
<1>5. QED BY <1>3, <1>4 DEF Remains

LEMMA ExpectedStep ==
    ASSUME IInv, [Next]_vars
    PROVE  ExpectedIsThere'
<1>a. Main \in Callers
  BY ParamStoreAssumption
<1>1. ASSUME NEW n \in 0 .. NKeys, PowerOn(n) PROVE ExpectedIsThere'
  <2>1. /\ mode = "off" /\ file' = file /\ expected' = expected
        /\ \A c \in Callers : pc[c] = "idle"
        /\ pc' = pc \/ pc' = [pc EXCEPT ![Main] = "load"]
    BY <1>1 DEF PowerOn, IInv, Control, diskVars, history
  <2>2. \A c \in Callers : pc'[c] \in {"idle", "load"}
    BY <2>1, <1>a DEF IInv, TypeOK
  <2>3. \A k \in Persist : expected[k] # NoRecord =>
           file.kind = "intact" /\ file.image[k] = expected[k]
    BY <2>1 DEF IInv, ExpectedIsThere
  <2>4. pc'[Main] # "load" => mode' = "running"
    BY <1>1, <1>a DEF PowerOn, IInv, TypeOK
  <2>5. pc'[Main] = "load" \/ mode' = "off" => missed' = "no"
    BY <1>1, <2>1, <1>a DEF PowerOn, IInv, ExpectedIsThere, history
  <2>6. QED BY <2>1, <2>2, <2>3, <2>4, <2>5 DEF ExpectedIsThere, Saving
<1>2. CASE Load
  BY <1>2, <1>a DEF Load, IInv, TypeOK, Control, ExpectedIsThere
<1>3. CASE LoadFails
  <2>1. /\ pc[Main] = "load" /\ mode' = "booting" /\ pc'[Main] = "alloc"
        /\ file' = file /\ expected' = expected /\ missed' = Missed
        /\ \A c \in Callers \ {Main} : pc'[c] = "idle"
    BY <1>3, <1>a DEF LoadFails, IInv, Control, TypeOK, diskVars
  <2>2. \A k \in Persist : expected[k] # NoRecord =>
           file.kind = "intact" /\ file.image[k] = expected[k]
    BY <2>1 DEF IInv, ExpectedIsThere
  <2>3. missed' = "no" => \A k \in Persist : expected[k] = NoRecord
    BY <2>1, <2>2 DEF Missed
  <2>4. \A c \in Callers : ~Saving(c)'
    BY <2>1 DEF Saving
  <2>5. QED BY <2>1, <2>2, <2>3, <2>4 DEF ExpectedIsThere
<1>4. ASSUME NEW c \in Callers, ApiCall(c) PROVE ExpectedIsThere'
  <2>1. /\ mode' = "running" /\ pc'[Main] # "load"
        /\ pc'[c] \in {"idle", "notify", "reset"}
        /\ \A d \in Callers \ {c} : pc'[d] = pc[d]
    BY <1>4, <1>a
    DEF ApiCall, RejectedCall, SetSame, Set, Reset, ResetAll, SetCallback,
        CanCall, IInv, Control, TypeOK, callVars
  <2>2. UNCHANGED <<file, missed, expected>>
    BY <1>4
    DEF ApiCall, RejectedCall, SetSame, Set, Reset, ResetAll, SetCallback,
        diskVars, history
  <2>3. missed = "kept" => \A d \in Callers : ~Saving(d)'
    BY <2>1 DEF IInv, ExpectedIsThere, Saving
  <2>4. QED BY <2>1, <2>2, <2>3 DEF IInv, ExpectedIsThere
<1>5. ASSUME NEW c \in Callers, CallStep(c) PROVE ExpectedIsThere'
  <2>0. op[c] # "none"
    BY <1>5
    DEF CallStep, ResetNext, Notify, Notified, Saved, Alloc, AllocFails,
        TakeMutex, Gather, OpenFails, Open, Write, WriteFails, Flush, Gathered, IInv, Control
  <2>r. ASSUME NEW r, Return(c, r)
        PROVE  pc'[c] \in {"idle", "reset", "alloc"} /\ mode' \in {mode, "running"}
    BY <2>r, <2>0, ReturnControl DEF IInv
  <2>1. /\ pc[c] # "load" /\ pc[c] # "idle" /\ pc'[c] # "load"
        /\ mode' \in {mode, "running"} /\ expected' = expected
        /\ \A d \in Callers \ {c} : pc'[d] = pc[d]
    <3>1. CASE ResetNext(c)
      BY <3>1, <2>r DEF ResetNext, IInv, TypeOK, history, Return
    <3>2. CASE Notify(c)
      BY <3>2, <2>r DEF Notify, Notified, Saved, IInv, TypeOK, history, Return
    <3>3. CASE Alloc(c) \/ TakeMutex(c) \/ Gather(c) \/ Open(c) \/ Write(c)
      BY <3>3
      DEF Alloc, TakeMutex, Gather, Open, Write, Gathered, IInv, TypeOK, history
    <3>4. CASE AllocFails(c) \/ OpenFails(c) \/ WriteFails(c) \/ Flush(c)
      BY <3>4, <2>r
      DEF AllocFails, OpenFails, WriteFails, Flush, Gathered, IInv, TypeOK,
          history, Return
    <3>5. QED BY <1>5, <3>1, <3>2, <3>3, <3>4 DEF CallStep
  <2>2. pc[Main] # "load"
    <3>1. CASE c = Main
      BY <2>1, <3>1
    <3>2. CASE c # Main
      BY <2>1, <3>2, <1>a DEF IInv, Control
    <3>3. QED BY <3>1, <3>2
  <2>3. pc'[Main] # "load"
    BY <2>1, <2>2, <1>a
  <2>4. mode' # "off"
    BY <2>1 DEF IInv, Control
  <2>5. mode' = "booting" /\ missed = "no" =>
           \A k \in Persist : expected'[k] = NoRecord
    BY <2>1, <2>2 DEF IInv, ExpectedIsThere
  <2>6. CASE Open(c)
    <3>1. missed' # "kept" /\ (missed' = "no" => missed = "no")
      BY <2>6 DEF Open, IInv, TypeOK
    <3>2. QED BY <2>3, <2>4, <2>5, <3>1 DEF ExpectedIsThere
  <2>7. CASE Saving(c) /\ ~Open(c)
    <3>1. missed' = missed
      BY <1>5, <2>7
      DEF CallStep, ResetNext, Notify, Alloc, AllocFails, TakeMutex, Gather,
          OpenFails, Write, WriteFails, Flush, Gathered, history
    <3>2. missed # "kept"
      BY <2>7 DEF IInv, ExpectedIsThere
    <3>3. QED BY <2>3, <2>4, <2>5, <3>1, <3>2 DEF ExpectedIsThere
  <2>8. CASE ~Saving(c) /\ ~Open(c)
    <3>1. missed' = missed /\ file' = file
      BY <1>5, <2>8
      DEF CallStep, ResetNext, Notify, Alloc, AllocFails, TakeMutex, Gather,
          OpenFails, Write, WriteFails, Flush, Gathered, Saving, history,
          diskVars
    <3>2. ~Saving(c)'
      BY <1>5, <2>8, <2>r
      DEF CallStep, ResetNext, Notify, Alloc, AllocFails, TakeMutex, Gather,
          OpenFails, Write, WriteFails, Flush, Gathered, Saving, IInv, TypeOK
    <3>3. missed = "kept" => \A d \in Callers : ~Saving(d)'
      BY <2>1, <3>2 DEF IInv, ExpectedIsThere, Saving
    <3>4. QED
      BY <2>1, <2>3, <2>4, <2>5, <3>1, <3>3 DEF IInv, ExpectedIsThere
  <2>9. QED BY <2>6, <2>7, <2>8
<1>6. CASE PowerLoss
  <2>1. /\ mode' = "off" /\ mode # "off" /\ file' \in Remains
        /\ missed' = "no" /\ \A c \in Callers : ~Saving(c)'
    BY <1>6 DEF PowerLoss, Saving
  <2>2. ASSUME NEW k \in Persist, expected'[k] # NoRecord
        PROVE  file'.kind = "intact" /\ file'.image[k] = expected'[k]
    <3>1. CASE mode = "running" /\ Settled(k)
      <4>1. expected'[k] = ram[k]
        BY <1>6, <3>1 DEF PowerLoss
      <4>2. QED BY <2>1, <3>1, <4>1, SettledIsOnFile
    <3>2. CASE ~(mode = "running" /\ Settled(k))
      <4>1. /\ expected'[k] = expected[k]
            /\ pc[Main] = "load" \/ missed = "kept"
        BY <1>6, <2>2, <3>2 DEF PowerLoss
      <4>2. \A c \in Callers : ~Saving(c)
        BY <4>1, <1>a DEF IInv, Control, ExpectedIsThere, Saving
      <4>3. file' = file
        BY <2>1, <4>2 DEF Remains
      <4>4. QED BY <2>2, <4>1, <4>3 DEF IInv, ExpectedIsThere
    <3>3. QED BY <3>1, <3>2
  <2>3. QED BY <2>1, <2>2 DEF ExpectedIsThere
<1>7. CASE UNCHANGED vars
  BY <1>7 DEF vars, IInv, ExpectedIsThere, Saving, diskVars, callVars, history
<1>8. QED
  BY <1>1, <1>2, <1>3, <1>4, <1>5, <1>6, <1>7 DEF Next, Boot

LEMMA RecordsStep ==
    ASSUME IInv, [Next]_vars
    PROVE  RecordsAreRegistered'
<1>a. /\ Main \in Callers /\ Persist \subseteq Keys /\ NoRecord \notin Values
      /\ Blank \in Image /\ \A k \in Persist : Blank[k] = NoRecord
      /\ NKeys \in Nat \ {0} /\ Damaged.kind = "damaged"
      /\ \A img : Intact(img).image = img
  BY ParamStoreAssumption DEF Blank, Image, Damaged, Intact
<1>b. TypeOK /\ Control /\ RecordsAreRegistered /\ ExpectedIsThere
  BY DEF IInv
<1>1. ASSUME NEW n \in 0 .. NKeys, PowerOn(n) PROVE RecordsAreRegistered'
  <2>1. \A c \in Callers : pc'[c] \in {"idle", "load"} /\ copy'[c] = Blank
    BY <1>1, <1>a, <1>b DEF PowerOn, Control, TypeOK, RecordsAreRegistered
  <2>2. missed' = "no" /\ file'.kind = "intact" => registered' = Keys
    BY <1>1 DEF PowerOn, Missed, Keys, diskVars
  <2>3. QED BY <1>a, <2>1, <2>2 DEF RecordsAreRegistered, Copied
<1>2. CASE Boot
  <2>1. /\ pc[Main] = "load" /\ UNCHANGED <<registered, file, copy>>
        /\ pc'[Main] \in {"idle", "alloc"}
        /\ \A c \in Callers \ {Main} : pc'[c] = pc[c]
        /\ missed' = "no" => registered = Keys
    BY <1>2, <1>a, <1>b
    DEF Boot, Load, LoadFails, Control, TypeOK, tableVars, diskVars
  <2>2. \A c \in Callers : pc'[c] \in {"idle", "alloc"} /\ copy'[c] = Blank
    BY <1>a, <1>b, <2>1 DEF Control, RecordsAreRegistered
  <2>3. QED BY <1>a, <2>1, <2>2 DEF RecordsAreRegistered, Copied
<1>3. ASSUME NEW c \in Callers, ApiCall(c) PROVE RecordsAreRegistered'
  <2>1. /\ mode = "running" /\ pc[c] = "idle"
        /\ pc'[c] \in {"idle", "notify", "reset"}
        /\ \A d \in Callers \ {c} : pc'[d] = pc[d]
        /\ UNCHANGED <<registered, file, copy, cursor, missed>>
    BY <1>3, <1>b
    DEF ApiCall, RejectedCall, SetSame, Set, Reset, ResetAll, SetCallback,
        CanCall, TypeOK, callVars, tableVars, diskVars, history
  <2>2. \A d \in Callers, k \in Persist : Copied(d, k)' => Copied(d, k)
    BY <2>1 DEF Copied
  <2>3. QED BY <1>b, <2>1, <2>2 DEF RecordsAreRegistered
<1>4. ASSUME NEW c \in Callers, CallStep(c) PROVE RecordsAreRegistered'
  <2>0. /\ op[c] # "none" /\ pc[c] # "idle" /\ mode # "off"
        /\ registered' = registered
    BY <1>4, <1>b
    DEF CallStep, ResetNext, Notify, Alloc, AllocFails, TakeMutex, Gather,
        OpenFails, Open, Write, WriteFails, Flush, Gathered, Control, tableVars
  <2>o. \A d \in Callers \ {c} :
           pc'[d] = pc[d] /\ cursor'[d] = cursor[d] /\ copy'[d] = copy[d]
    BY <1>4, <1>b
    DEF CallStep, ResetNext, Notify, Alloc, AllocFails, TakeMutex, Gather,
        OpenFails, Open, Write, WriteFails, Flush, Return, TypeOK
  \* What is left to show: the copy of c, and the file.
  <2>q. ASSUME /\ pc'[c] \notin {"gather", "write", "flush"} => copy'[c] = Blank,
               /\ \A k \in Persist :
                    /\ copy'[c][k] # NoRecord => k \in registered
                    /\ k \in registered /\ Copied(c, k)' => copy'[c][k] # NoRecord,
               \/ file'.kind # "intact"
               \/ file' = file /\ (missed' = "no" => missed = "no")
               \/ file' = Intact(copy[c])
        PROVE  RecordsAreRegistered'
    <3>1. ASSUME NEW d \in Callers \ {c}, NEW k \in Persist
          PROVE  /\ pc'[d] \notin {"gather", "write", "flush"} => copy'[d] = Blank
                 /\ copy'[d][k] # NoRecord => k \in registered'
                 /\ k \in registered' /\ Copied(d, k)' => copy'[d][k] # NoRecord
      BY <1>b, <2>0, <2>o DEF RecordsAreRegistered, Copied
    <3>2. \A d \in Callers :
             pc'[d] \notin {"gather", "write", "flush"} => copy'[d] = Blank
      BY <1>b, <2>o, <2>q DEF RecordsAreRegistered
    <3>3. missed' = "no" /\ file'.kind = "intact" =>
             \A k \in Persist : file'.image[k] # NoRecord => k \in registered'
      BY <1>a, <1>b, <2>0, <2>q DEF RecordsAreRegistered
    <3>4. QED BY <2>0, <2>q, <3>1, <3>2, <3>3 DEF RecordsAreRegistered
  <2>r. ASSUME NEW r, Return(c, r),
               \/ file'.kind # "intact"
               \/ file' = file /\ missed' = missed
        PROVE  RecordsAreRegistered'
    <3>1. pc'[c] \in {"idle", "reset", "alloc"} /\ copy'[c] = Blank
      BY <1>b, <2>0, <2>r, ReturnControl DEF Return, TypeOK
    <3>2. QED BY <1>a, <2>q, <2>r, <3>1 DEF Copied
  \* A step that keeps copy, cursor and file.
  <2>k. ASSUME UNCHANGED <<copy, cursor, file, missed>>,
               pc[c] \notin {"gather", "write", "flush"},
               pc'[c] \notin {"write", "flush"}
        PROVE  RecordsAreRegistered'
    <3>1. copy[c] = Blank /\ cursor[c] = 0
      BY <1>b, <2>k DEF RecordsAreRegistered, Control
    <3>2. \A k \in Persist : ~Copied(c, k)'
      BY <1>a, <2>k, <3>1 DEF Copied, Keys
    <3>3. QED BY <1>a, <2>q, <2>k, <3>1, <3>2
  <2>1. CASE ResetNext(c)
    <3>1. CASE key[c] \in registered
      BY <1>b, <2>k, <2>1, <3>1 DEF ResetNext, TypeOK, diskVars, history
    <3>2. CASE key[c] \notin registered
      BY <2>r, <2>1, <3>2 DEF ResetNext, diskVars, history
    <3>3. QED BY <3>1, <3>2
  <2>2. CASE Notify(c)
    <3>1. CASE Saved(key[c])
      BY <1>b, <2>k, <2>2, <3>1 DEF Notify, TypeOK, diskVars, history
    <3>2. CASE ~Saved(key[c])
      BY <2>r, <2>2, <3>2 DEF Notify, diskVars, history
    <3>3. QED BY <3>1, <3>2
  <2>3. CASE Alloc(c) \/ TakeMutex(c)
    BY <1>b, <2>k, <2>3 DEF Alloc, TakeMutex, TypeOK, diskVars, history
  <2>4. CASE AllocFails(c)
    BY <2>r, <2>4 DEF AllocFails, diskVars
  <2>5. CASE Gather(c)
    <3>1. /\ pc[c] = "gather" /\ pc'[c] = "gather"
          /\ UNCHANGED <<file, missed>>
          /\ cursor[c] \in Nat /\ cursor'[c] = cursor[c] + 1
          /\ copy[c] \in Image
      BY <1>b, <2>5 DEF Gather, TypeOK, diskVars
    <3>2. ASSUME NEW k \in Persist
          PROVE  /\ copy'[c][k] # NoRecord => k \in registered
                 /\ k \in registered /\ Copied(c, k)' => copy'[c][k] # NoRecord
      <4>1. CASE k = cursor[c] /\ k \in registered
        <5>1. copy'[c][k] = ram[k]
          BY <1>b, <2>5, <3>1, <4>1 DEF Gather, TypeOK, Image
        <5>2. ram[k] \in Values
          BY <1>a, <1>b DEF TypeOK
        <5>3. QED BY <1>a, <4>1, <5>1, <5>2
      <4>2. CASE ~(k = cursor[c] /\ k \in registered)
        <5>1. copy'[c][k] = copy[c][k]
          BY <1>b, <2>5, <3>1, <4>2 DEF Gather, TypeOK, Image
        <5>2. k \in registered /\ Copied(c, k)' => Copied(c, k)
          BY <1>a, <3>1, <4>2 DEF Copied, Keys
        <5>3. QED BY <1>b, <5>1, <5>2 DEF RecordsAreRegistered
      <4>3. QED BY <4>1, <4>2
    <3>3. QED BY <2>q, <3>1, <3>2
  <2>6. CASE OpenFails(c)
    BY <2>r, <2>6 DEF OpenFails
  <2>7. CASE Open(c) \/ Write(c)
    <3>1. /\ pc'[c] \in {"write", "flush"} /\ copy' = copy
          /\ \A k \in Persist : Copied(c, k)
          /\ file'.kind # "intact" \/ file' = Intact(copy[c])
      BY <1>a, <1>b, <2>7
      DEF Open, Write, Gathered, TypeOK, Copied, Keys
    <3>2. QED BY <1>b, <2>q, <3>1 DEF RecordsAreRegistered
  <2>8. CASE WriteFails(c)
    BY <1>a, <2>r, <2>8 DEF WriteFails
  <2>9. CASE Flush(c)
    BY <2>r, <2>9 DEF Flush, history
  <2>10. QED
    BY <1>4, <2>1, <2>2, <2>3, <2>4, <2>5, <2>6, <2>7, <2>8, <2>9 DEF CallStep
<1>5. CASE PowerLoss
  BY <1>a, <1>5 DEF PowerLoss, RecordsAreRegistered, Copied
<1>6. CASE UNCHANGED vars
  BY <1>b, <1>6
  DEF vars, RecordsAreRegistered, Copied, tableVars, diskVars, callVars, history
<1>7. QED
  BY <1>1, <1>2, <1>3, <1>4, <1>5, <1>6 DEF Next

-----------------------------------------------------------------------------
LEMMA IInvInit == Init => IInv
<1> SUFFICES ASSUME Init PROVE IInv
  OBVIOUS
<1>1. TypeOK
  BY ParamStoreAssumption
  DEF Init, TypeOK, Content, Absent, Image, Blank, Keys, Places, Ops
<1>2. Control /\ NoValueForgotten
  BY ParamStoreAssumption
  DEF Init, Control, NoValueForgotten, Blank
<1>e. ExpectedIsThere /\ RecordsAreRegistered
  BY ParamStoreAssumption
  DEF Init, ExpectedIsThere, RecordsAreRegistered, Saving, Copied, Blank
<1>3. SnapshotExclusive
  BY ParamStoreAssumption DEF Init, SnapshotExclusive, Saving
<1>4. QED BY <1>1, <1>2, <1>3, <1>e DEF IInv

\* The inductive invariant: the calls are where Control says, the storage
\* mutex brackets every snapshot, no value is forgotten, the file holds what
\* the next boot is expected to restore, and a copy lacks no registered key.
THEOREM Inductive == Spec => []IInv
<1>1. IInv /\ [Next]_vars => IInv'
  <2> SUFFICES ASSUME IInv, [Next]_vars PROVE IInv'
    OBVIOUS
  <2>1. TypeOK'
    BY TypeStep DEF IInv
  <2>2. QED
    BY <2>1, ControlStep, ExclusiveStep, NoValueForgottenStep, ExpectedStep,
       RecordsStep
    DEF IInv
<1>2. QED
  BY <1>1, IInvInit, PTL DEF Spec

\* Whatever the tasks do and wherever power fails, the storage mutex brackets
\* every write to param.dat.
THEOREM Exclusion == Spec => []SnapshotExclusive
<1>1. IInv => SnapshotExclusive
  BY DEF IInv
<1>2. QED BY <1>1, Inductive, PTL

\* Every value of a persistent parameter is always accounted for: on the file,
\* in a snapshot under way, still to be copied by a call, or named in unsaved
\* because a save failed.
THEOREM NothingForgotten == Spec => []NoValueForgotten
<1>1. IInv => NoValueForgotten
  BY DEF IInv
<1>2. QED BY <1>1, Inductive, PTL

\* When no call is in progress the file agrees with RAM, failed saves apart.
THEOREM QuietFile == Spec => []QuietFileMatchesRam
<1>1. IInv => QuietFileMatchesRam
  <2> SUFFICES ASSUME IInv, mode = "running",
                      \A c \in Callers : pc[c] = "idle",
                      NEW k \in (Persist \cap registered) \ unsaved
               PROVE  file.kind = "intact" /\ file.image[k] = ram[k]
    BY DEF QuietFileMatchesRam
  <2>1. Settled(k)
    BY DEF Settled, Pending, Copied
  <2>2. QED BY <2>1, SettledIsOnFile
<1>2. QED BY <1>1, Inductive, PTL

\* Every boot that does not miss a file that loads brings back each value that
\* was settled when power failed, or that an earlier run missed and left alone,
\* across any number of power cuts.
THEOREM Reboot == Spec => RebootRestores
<1>1. IInv /\ [Next]_vars =>
        [mode # "running" /\ mode' = "running" =>
            \/ missed' # "no"
            \/ \A k \in Persist :
                  expected[k] # NoRecord => ram'[k] = expected[k]]_vars
  <2> SUFFICES ASSUME IInv, Next, mode # "running", mode' = "running",
                      missed' = "no", NEW k \in Persist, expected[k] # NoRecord
               PROVE  ram'[k] = expected[k]
    OBVIOUS
  <2>1. mode \in {"off", "booting"} /\ k \in Keys
    BY ParamStoreAssumption DEF IInv, TypeOK
  <2>2. CASE \E n \in 0 .. NKeys : PowerOn(n)
    <3>1. mode = "off" /\ missed' = Missed
      BY <2>2 DEF PowerOn
    <3>2. file.kind = "intact"
      BY <3>1 DEF IInv, ExpectedIsThere
    <3>3. QED BY <3>1, <3>2 DEF Missed
  <2>3. CASE Load
    <3>1. file.kind = "intact" /\ file.image[k] = expected[k]
      BY <2>3 DEF Load, IInv, ExpectedIsThere
    <3>2. QED BY <2>1, <2>3, <3>1 DEF Load
  <2>4. CASE LoadFails
    BY <2>4 DEF LoadFails
  <2>5. ~\E c \in Callers : ApiCall(c)
    BY DEF ApiCall, RejectedCall, SetSame, Set, Reset, ResetAll, SetCallback,
           CanCall
  \* The boot's own save ends: it missed nothing, so nothing was expected.
  <2>6. ASSUME NEW c \in Callers, CallStep(c) PROVE FALSE
    <3>1. pc[c] \notin {"idle", "load"} /\ (missed' = "no" => missed = "no")
      BY <2>6
      DEF CallStep, ResetNext, Notify, Alloc, AllocFails, TakeMutex, Gather,
          OpenFails, Open, Write, WriteFails, Flush, Gathered, history
    <3>2. mode = "booting" /\ c = Main
      BY <2>1, <3>1 DEF IInv, Control
    <3>3. expected[k] = NoRecord
      BY <3>1, <3>2 DEF IInv, ExpectedIsThere
    <3>4. QED BY <3>3
  <2>7. ~PowerLoss
    BY DEF PowerLoss
  <2>8. QED
    BY <2>2, <2>3, <2>4, <2>5, <2>6, <2>7 DEF Next, Boot
<1>2. QED
  BY <1>1, Inductive, PTL DEF Spec, RebootRestores

\* Only the owner of the storage mutex, with the file open or about to open it,
\* makes a loadable file unloadable, or power failing at that moment; and it
\* opens the file with a record in hand for every record of the file, unless
\* its run has not read the file.
THEOREM OnlySaves == Spec => OnlySaveDestroys
<1>1. IInv /\ [Next]_vars =>
        [file.kind = "intact" /\ file'.kind # "intact" =>
            \E c \in Callers :
               \/ Saving(c)
               \/ /\ Gathered(c)
                  /\ \/ missed # "no"
                     \/ \A k \in Persist :
                           file.image[k] # NoRecord => copy[c][k] # NoRecord]_vars
  <2> DEFINE Covers(c) ==
               \/ missed # "no"
               \/ \A k \in Persist :
                     file.image[k] # NoRecord => copy[c][k] # NoRecord
  <2> SUFFICES ASSUME IInv, Next, file.kind = "intact", file'.kind # "intact"
               PROVE  \E c \in Callers : Saving(c) \/ (Gathered(c) /\ Covers(c))
    OBVIOUS
  <2>1. file' # file
    OBVIOUS
  <2>2. CASE PowerLoss
    BY <2>1, <2>2 DEF PowerLoss, Remains
  <2>3. ASSUME NEW c \in Callers, CallStep(c)
        PROVE  Saving(c) \/ (Gathered(c) /\ Covers(c))
    <3>1. Saving(c) \/ Gathered(c)
      BY <2>1, <2>3
      DEF CallStep, ResetNext, Notify, Notified, Saved, Alloc, AllocFails,
          TakeMutex, Gather, OpenFails, Open, Write, WriteFails, Flush, diskVars, Saving
    <3>2. ASSUME Gathered(c), missed = "no",
                 NEW k \in Persist, file.image[k] # NoRecord
          PROVE  copy[c][k] # NoRecord
      <4>1. mode # "off"
        BY <3>2 DEF Gathered, IInv, Control
      <4>2. k \in registered
        BY <3>2, <4>1 DEF IInv, RecordsAreRegistered
      <4>3. Copied(c, k)
        BY <3>2, ParamStoreAssumption DEF Gathered, Copied, Keys
      <4>4. QED BY <4>2, <4>3 DEF IInv, RecordsAreRegistered
    <3>3. QED BY <3>1, <3>2
  <2>4. QED
    BY <2>1, <2>2, <2>3
    DEF Next, PowerOn, Boot, Load, LoadFails, ApiCall, RejectedCall, SetSame,
        Set, Reset, ResetAll, SetCallback, diskVars
<1>2. QED
  BY <1>1, Inductive, PTL DEF Spec, OnlySaveDestroys
=============================================================================
