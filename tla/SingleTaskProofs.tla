-------------------------- MODULE SingleTaskProofs --------------------------
(***************************************************************************)
(* Proofs about ParamStore with one task that calls, as the firmware is    *)
(* configured: it implements DurableTable, and change callbacks keep their *)
(* owners informed. For any number of keys and values.                     *)
(***************************************************************************)
EXTENDS ParamStoreProofs

\* What a complete snapshot holds, taken now.
TableImage ==
    [k \in Persist |-> IF k \in registered THEN ram[k] ELSE NoRecord]

\* The copy that a save has made is the table's values, because no other task
\* changes them meanwhile; and a file that does not load holds nothing.
CopyIsCurrent ==
    /\ pc[Main] = "gather" =>
          copy[Main] = [k \in Persist |-> IF k < cursor[Main] THEN TableImage[k]
                                                              ELSE NoRecord]
    /\ pc[Main] \in {"write", "flush"} => copy[Main] = TableImage
    /\ pc[Main] \notin {"gather", "write", "flush"} => copy[Main] = Blank
    /\ pc[Main] = "write" => file = Damaged
    /\ file.kind # "intact" => file.image = Blank
    /\ stable.kind # "intact" => stable.image = Blank

\* Until a call is possible the table holds the defaults and nobody watches it.
DownHoldsDefaults ==
    /\ mode = "off" => registered = {}
    /\ mode # "running" => ram = Default /\ callback = {}

\* Only the call that has just changed a value still owes its callback.
OwedToOne ==
    /\ pc[Main] = "notify" /\ op[Main] = "set" => val[Main] = ram[key[Main]]
    /\ \A k \in callback :
          delivered[k] = ram[k] \/ (pc[Main] = "notify" /\ key[Main] = k)

SInv == IInv /\ CopyIsCurrent /\ DownHoldsDefaults /\ OwedToOne

-----------------------------------------------------------------------------
LEMMA SInvInit == Init => SInv
<1> SUFFICES ASSUME Init PROVE SInv
  OBVIOUS
<1>1. Main \in Callers
  BY ParamStoreAssumption
<1>2. CopyIsCurrent /\ DownHoldsDefaults /\ OwedToOne
  BY <1>1
  DEF Init, CopyIsCurrent, DownHoldsDefaults, OwedToOne, Absent
<1>3. QED
  BY <1>2, IInvInit DEF SInv

LEMMA CopyStep ==
    ASSUME Callers = {Main}, SInv, [Next]_vars
    PROVE  CopyIsCurrent'
<1>a. /\ Main \in Callers /\ Persist \subseteq Keys /\ NKeys \in Nat \ {0}
      /\ Damaged.kind = "damaged" /\ Damaged.image = Blank
      /\ \A img : Intact(img).kind = "intact"
  BY ParamStoreAssumption DEF Damaged, Intact
<1>b. TypeOK /\ Control /\ SnapshotExclusive /\ CopyIsCurrent
  BY DEF SInv, IInv
<1>c. \A k \in Persist : k \in Int
  BY <1>a DEF Keys
<1>1. ASSUME NEW n \in 0 .. NKeys, PowerOn(n) PROVE CopyIsCurrent'
  <2>1. pc[Main] = "idle" /\ pc'[Main] \in {"idle", "load"}
    BY <1>1, <1>a, <1>b DEF PowerOn, Control, TypeOK
  <2>2. QED
    BY <1>1, <1>b, <2>1 DEF PowerOn, diskVars, CopyIsCurrent, Blank
<1>2. CASE Load
  BY <1>2, <1>a, <1>b DEF Load, diskVars, CopyIsCurrent, Blank, TypeOK
<1>3. CASE LoadFails
  BY <1>3, <1>a, <1>b DEF LoadFails, diskVars, tableVars, CopyIsCurrent, Blank, TypeOK
<1>4. ASSUME NEW c \in Callers, ApiCall(c) PROVE CopyIsCurrent'
  <2>1. c = Main /\ pc[Main] = "idle"
    BY <1>4
    DEF ApiCall, RejectedCall, SetSame, Set, Reset, ResetAll, SetCallback,
        CanCall
  <2>2. /\ pc'[Main] \in {"idle", "notify", "reset"}
        /\ UNCHANGED <<file, stable, copy>>
    BY <1>4, <1>a, <1>b, <2>1
    DEF ApiCall, RejectedCall, SetSame, Set, Reset, ResetAll, SetCallback,
        diskVars, callVars, TypeOK
  <2>3. QED
    BY <1>b, <2>1, <2>2 DEF CopyIsCurrent, Blank
<1>5. ASSUME NEW c \in Callers, CallStep(c) PROVE CopyIsCurrent'
  <2>a. c = Main
    BY <1>5
  <2>b. ASSUME NEW r, Return(c, r), op[c] # "none",
               file' = file \/ file' = Damaged,
               stable' = stable \/ stable' = file \/ stable' = Damaged
        PROVE CopyIsCurrent'
    <3>1. pc'[Main] \in {"idle", "reset", "alloc"} /\ copy'[Main] = Blank
      BY <1>a, <1>b, <2>a, <2>b DEF Return, TypeOK
    <3>2. QED
      BY <1>a, <1>b, <2>b, <3>1 DEF CopyIsCurrent, Blank
  <2>c. pc[c] # "idle" /\ op[c] # "none"
    BY <1>5, <1>b
    DEF CallStep, ResetNext, Notify, Alloc, AllocFails, TakeMutex, Gather,
        OpenFails, Open, Write, WriteFails, Flush, Gathered, Control
  <2>1. CASE ResetNext(c)
    <3>1. CASE key[c] \in registered
      BY <1>a, <1>b, <2>a, <2>1, <3>1
      DEF ResetNext, diskVars, CopyIsCurrent, Blank, TypeOK
    <3>2. CASE key[c] \notin registered
      BY <2>b, <2>c, <2>1, <3>2 DEF ResetNext, diskVars
    <3>3. QED BY <3>1, <3>2
  <2>2. CASE Notify(c)
    <3>1. CASE Saved(key[c])
      BY <1>a, <1>b, <2>a, <2>2, <3>1
      DEF Notify, diskVars, CopyIsCurrent, Blank, TypeOK
    <3>2. CASE ~Saved(key[c])
      BY <2>b, <2>c, <2>2, <3>2 DEF Notify, diskVars
    <3>3. QED BY <3>1, <3>2
  <2>3. CASE Alloc(c)
    BY <1>a, <1>b, <2>a, <2>3
    DEF Alloc, tableVars, diskVars, CopyIsCurrent, Blank, TypeOK
  <2>4. CASE AllocFails(c)
    BY <2>b, <2>c, <2>4 DEF AllocFails, diskVars
  <2>5. CASE TakeMutex(c)
    <3>1. /\ pc[Main] = "lock" /\ pc'[Main] = "gather"
          /\ UNCHANGED <<file, stable, copy, cursor>> /\ cursor[Main] = 0
      BY <1>a, <1>b, <2>a, <2>5 DEF TakeMutex, TypeOK, Control
    <3>2. \A k \in Persist : ~(k < 0)
      BY <1>a DEF Keys
    <3>3. QED
      BY <1>b, <3>1, <3>2 DEF CopyIsCurrent, Blank
  <2>6. CASE Gather(c)
    <3>1. /\ pc[Main] = "gather" /\ pc' = pc /\ cursor[Main] \in Int
          /\ cursor'[Main] = cursor[Main] + 1
          /\ UNCHANGED <<file, stable, registered, ram>>
      BY <1>a, <1>b, <2>a, <2>6
      DEF Gather, TypeOK, tableVars, diskVars
    <3>2. TableImage' = TableImage
      BY <3>1 DEF TableImage
    <3>3. copy'[Main] = [k \in Persist |-> IF k < cursor[Main] + 1
                                             THEN TableImage[k] ELSE NoRecord]
      <4>1. copy[Main] = [k \in Persist |-> IF k < cursor[Main]
                                              THEN TableImage[k] ELSE NoRecord]
        BY <1>b, <3>1 DEF CopyIsCurrent
      <4>2. CASE cursor[Main] \in Persist \cap registered
        <5>1. copy'[Main] = [copy[Main] EXCEPT ![cursor[Main]] = ram[cursor[Main]]]
          BY <1>a, <1>b, <2>a, <2>6, <4>2 DEF Gather, TypeOK
        <5>2. TableImage[cursor[Main]] = ram[cursor[Main]]
          BY <4>2 DEF TableImage
        <5>3. QED
          BY <1>c, <3>1, <4>1, <5>1, <5>2
      <4>3. CASE cursor[Main] \notin Persist \cap registered
        <5>1. copy'[Main] = copy[Main]
          BY <2>a, <2>6, <4>3 DEF Gather
        <5>2. \A k \in Persist : k = cursor[Main] => TableImage[k] = NoRecord
          BY <4>3 DEF TableImage
        <5>3. QED
          BY <1>c, <3>1, <4>1, <5>1, <5>2
      <4>4. QED BY <4>2, <4>3
    <3>4. QED
      BY <1>b, <3>1, <3>2, <3>3 DEF CopyIsCurrent
  <2>7. CASE OpenFails(c)
    BY <2>b, <2>c, <2>7 DEF OpenFails
  <2>8. CASE Open(c)
    <3>1. /\ pc[Main] = "gather" /\ cursor[Main] = NKeys
          /\ pc'[Main] = "write" /\ file' = Damaged
          /\ UNCHANGED <<stable, registered, ram, copy>>
      BY <1>a, <1>b, <2>a, <2>8 DEF Open, Gathered, TypeOK, tableVars
    <3>2. \A k \in Persist : k < NKeys
      BY <1>a DEF Keys
    <3>3. copy[Main] = TableImage
      BY <1>b, <3>1, <3>2 DEF CopyIsCurrent, TableImage
    <3>4. QED
      BY <1>a, <1>b, <3>1, <3>3 DEF CopyIsCurrent, TableImage
  <2>9. CASE Write(c)
    BY <1>a, <1>b, <2>a, <2>9
    DEF Write, tableVars, CopyIsCurrent, TableImage, TypeOK
  <2>10. CASE WriteFails(c)
    BY <2>b, <2>c, <2>10 DEF WriteFails
  <2>11. CASE Flush(c)
    BY <2>b, <2>c, <2>11 DEF Flush, history
  <2>12. QED
    BY <1>5, <2>1, <2>2, <2>3, <2>4, <2>5, <2>6, <2>7, <2>8, <2>9, <2>10,
       <2>11 DEF CallStep
<1>6. CASE PowerLoss
  <2>1. pc'[Main] = "idle" /\ copy'[Main] = Blank
    BY <1>6, <1>a DEF PowerLoss
  <2>2. file' \in {file, stable, Damaged} /\ stable' = file'
    BY <1>6 DEF PowerLoss, Remains
  <2>3. QED
    BY <1>a, <1>b, <2>1, <2>2 DEF CopyIsCurrent
<1>7. CASE UNCHANGED vars
  BY <1>7, <1>b
  DEF vars, tableVars, diskVars, callVars, CopyIsCurrent, TableImage
<1>8. QED
  BY <1>1, <1>2, <1>3, <1>4, <1>5, <1>6, <1>7 DEF Next, Boot

LEMMA DownStep ==
    ASSUME Callers = {Main}, SInv, [Next]_vars
    PROVE  DownHoldsDefaults'
<1>a. Main \in Callers
  BY ParamStoreAssumption
<1>b. TypeOK /\ Control /\ DownHoldsDefaults
  BY DEF SInv, IInv
<1>1. ASSUME NEW n \in 0 .. NKeys, PowerOn(n) PROVE DownHoldsDefaults'
  BY <1>1 DEF PowerOn, DownHoldsDefaults
<1>2. CASE Boot
  BY <1>2, <1>a, <1>b
  DEF Boot, Load, LoadFails, tableVars, DownHoldsDefaults, Control
<1>3. ASSUME NEW c \in Callers, ApiCall(c) PROVE DownHoldsDefaults'
  BY <1>3, <1>b
  DEF ApiCall, RejectedCall, SetSame, Set, Reset, ResetAll, SetCallback,
      CanCall, DownHoldsDefaults
<1>4. ASSUME NEW c \in Callers, CallStep(c) PROVE DownHoldsDefaults'
  <2>1. c = Main /\ mode # "off"
    BY <1>4, <1>b
    DEF CallStep, ResetNext, Notify, Alloc, AllocFails, TakeMutex, Gather,
        OpenFails, Open, Write, WriteFails, Flush, Gathered, Control
  <2>2. (mode' = mode \/ mode' = "running") /\ registered' = registered
    BY <1>4
    DEF CallStep, ResetNext, Notify, Alloc, AllocFails, TakeMutex, Gather,
        OpenFails, Open, Write, WriteFails, Flush, Return, tableVars
  <2>3. mode = "booting" => UNCHANGED <<ram, callback>>
    BY <1>4, <1>b, <2>1
    DEF CallStep, ResetNext, Notify, Alloc, AllocFails, TakeMutex, Gather,
        OpenFails, Open, Write, WriteFails, Flush, Control, tableVars
  <2>4. QED
    BY <1>b, <2>1, <2>2, <2>3 DEF DownHoldsDefaults, TypeOK
<1>5. CASE PowerLoss
  BY <1>5 DEF PowerLoss, DownHoldsDefaults
<1>6. CASE UNCHANGED vars
  BY <1>6, <1>b DEF vars, tableVars, DownHoldsDefaults
<1>7. QED
  BY <1>1, <1>2, <1>3, <1>4, <1>5, <1>6 DEF Next

LEMMA OwedStep ==
    ASSUME Callers = {Main}, SInv, [Next]_vars
    PROVE  OwedToOne'
<1>a. Main \in Callers
  BY ParamStoreAssumption
<1>b. TypeOK /\ Control /\ OwedToOne
  BY DEF SInv, IInv
<1>1. ASSUME NEW n \in 0 .. NKeys, PowerOn(n) PROVE OwedToOne'
  <2>1. pc'[Main] # "notify"
    BY <1>1, <1>a, <1>b DEF PowerOn, Control, TypeOK
  <2>2. QED
    BY <1>1, <2>1 DEF PowerOn, OwedToOne
<1>2. CASE Boot
  <2>1. pc[Main] = "load" /\ pc'[Main] # "notify" /\ callback' = callback
    BY <1>2, <1>a, <1>b DEF Boot, Load, LoadFails, tableVars, TypeOK
  <2>2. callback = {}
    BY <1>a, <1>b, <2>1 DEF SInv, DownHoldsDefaults, Control
  <2>3. QED
    BY <2>1, <2>2 DEF OwedToOne
<1>3. ASSUME NEW c \in Callers, ApiCall(c) PROVE OwedToOne'
  <2>a. c = Main /\ pc[Main] = "idle" /\ \A k \in callback : delivered[k] = ram[k]
    BY <1>3, <1>b
    DEF ApiCall, RejectedCall, SetSame, Set, Reset, ResetAll, SetCallback,
        CanCall, OwedToOne
  <2>1. CASE RejectedCall(c)
    BY <2>1, <2>a DEF RejectedCall, OwedToOne, tableVars
  <2>2. ASSUME NEW k \in Keys, NEW v \in Values, SetSame(c, k, v)
        PROVE OwedToOne'
    BY <2>2, <2>a DEF SetSame, OwedToOne, tableVars
  <2>3. ASSUME NEW k \in Keys, NEW v \in Values, Set(c, k, v)
        PROVE OwedToOne'
    BY <2>3, <2>a, <1>a, <1>b DEF Set, OwedToOne, TypeOK
  <2>4. ASSUME NEW k \in Keys, Reset(c, k) PROVE OwedToOne'
    BY <2>4, <2>a, <1>a, <1>b DEF Reset, OwedToOne, TypeOK
  <2>5. CASE ResetAll(c)
    BY <2>5, <2>a, <1>a, <1>b DEF ResetAll, OwedToOne, tableVars, TypeOK
  <2>6. ASSUME NEW k \in Keys, NEW on \in BOOLEAN, SetCallback(c, k, on)
        PROVE OwedToOne'
    BY <2>6, <2>a, <1>a, <1>b DEF SetCallback, OwedToOne, callVars, TypeOK
  <2>7. QED
    BY <1>3, <2>1, <2>2, <2>3, <2>4, <2>5, <2>6 DEF ApiCall
<1>4. ASSUME NEW c \in Callers, CallStep(c) PROVE OwedToOne'
  <2>a. c = Main
    BY <1>4
  <2>b. \A r : Return(c, r) => pc'[Main] # "notify"
    BY <1>a, <1>b, <2>a DEF Return, TypeOK
  <2>1. CASE ResetNext(c)
    <3>1. CASE key[c] \in registered
      BY <1>a, <1>b, <2>a, <2>1, <3>1
      DEF ResetNext, OwedToOne, TypeOK
    <3>2. CASE key[c] \notin registered
      BY <1>b, <2>a, <2>b, <2>1, <3>2 DEF ResetNext, OwedToOne
    <3>3. QED BY <3>1, <3>2
  <2>2. CASE Notify(c)
    <3>1. pc[Main] = "notify" /\ pc'[Main] # "notify" /\ key[Main] \in Keys
      BY <1>a, <1>b, <2>a, <2>b, <2>2 DEF Notify, TypeOK
    <3>2. \A k \in callback : delivered'[k] = ram[k]
      BY <1>b, <2>a, <2>2, <3>1 DEF Notify, Notified, OwedToOne, TypeOK
    <3>3. QED
      BY <2>2, <3>1, <3>2 DEF Notify, OwedToOne
  <2>3. CASE ~ResetNext(c) /\ ~Notify(c)
    <3>1. pc[Main] # "notify" /\ pc'[Main] # "notify"
          /\ UNCHANGED <<ram, callback, delivered>>
      BY <1>4, <1>a, <1>b, <2>a, <2>b, <2>3
      DEF CallStep, Alloc, AllocFails, TakeMutex, Gather, OpenFails, Open,
          Write, WriteFails, Flush, Gathered, tableVars, TypeOK
    <3>2. QED
      BY <1>b, <3>1 DEF OwedToOne
  <2>4. QED BY <2>1, <2>2, <2>3
<1>5. CASE PowerLoss
  BY <1>5, <1>a DEF PowerLoss, OwedToOne
<1>6. CASE UNCHANGED vars
  BY <1>6, <1>b DEF vars, tableVars, callVars, OwedToOne
<1>7. QED
  BY <1>1, <1>2, <1>3, <1>4, <1>5, <1>6 DEF Next

LEMMA SInvAlways == ASSUME Callers = {Main} PROVE Spec => []SInv
<1>1. SInv /\ [Next]_vars => SInv'
  <2> SUFFICES ASSUME SInv, [Next]_vars PROVE SInv'
    OBVIOUS
  <2>1. IInv'
    <3>1. TypeOK' BY TypeStep DEF SInv, IInv
    <3>2. QED
      BY <3>1, ControlStep, ExclusiveStep, NoValueForgottenStep, ExpectedStep,
         RecordsStep
      DEF SInv, IInv
  <2>2. QED
    BY <2>1, CopyStep, DownStep, OwedStep DEF SInv
<1>2. QED
  BY <1>1, SInvInit, PTL DEF Spec

\* With one task, whoever watches a parameter knows its value whenever no call
\* is in progress.
THEOREM Delivered == ASSUME Callers = {Main} PROVE Spec => []DeliveredIsCurrent
<1>1. SInv => DeliveredIsCurrent
  <2> SUFFICES ASSUME SInv, \A c \in Callers : pc[c] = "idle", NEW k \in callback
               PROVE  delivered[k] = ram[k]
    BY DEF DeliveredIsCurrent
  <2>1. pc[Main] = "idle"
    BY ParamStoreAssumption
  <2>2. QED
    BY <2>1 DEF SInv, OwedToOne
<1>2. QED
  BY <1>1, SInvAlways, PTL

-----------------------------------------------------------------------------
\* The images that a power cut would leave, while no save has the file open
\* and while one has.
Quiet == ~Saving(Main)

LEMMA QuietDisk ==
    ASSUME Callers = {Main}
    PROVE  /\ Quiet => {f.image : f \in Remains} = {file.image}
           /\ Quiet' => {f.image : f \in Remains}' = {file'.image}
<1>1. Quiet => Remains = {file}
  BY DEF Quiet, Remains
<1>2. Quiet' => Remains' = {file'}
  BY DEF Quiet, Remains, Saving
<1>3. QED
  BY <1>1, <1>2

LEMMA SavingDisk ==
    ASSUME Callers = {Main}
    PROVE  /\ ~Quiet => {f.image : f \in Remains} =
                           {stable.image, file.image, Blank}
           /\ (~Quiet)' => {f.image : f \in Remains}' =
                              {stable'.image, file'.image, Blank}
<1>1. ~Quiet => Remains = {stable, file, Damaged}
  BY DEF Quiet, Remains
<1>2. (~Quiet)' => Remains' = {stable', file', Damaged}
  BY DEF Quiet, Remains, Saving
<1>3. Damaged.image = Blank
  BY DEF Damaged
<1>4. QED
  BY <1>1, <1>2, <1>3

\* A step that neither opens the file nor ends a save, nor changes what the
\* table serves, is none of the abstract table.
LEMMA Stutters ==
    ASSUME Callers = {Main},
           UNCHANGED <<registered, ram, file>>, Quiet, Quiet',
           pc[Main] = "load" <=> pc'[Main] = "load"
    PROVE  UNCHANGED Table!vars
BY QuietDisk DEF Table!vars

\* Every step of the firmware's table is one of the abstract table, or none.
LEMMA RefinementStep ==
    ASSUME Callers = {Main}, SInv, [Next]_vars
    PROVE  [Table!Next]_(Table!vars)
<1>a. /\ Main \in Callers /\ Persist \subseteq Keys /\ NKeys \in Nat \ {0}
      /\ Damaged.image = Blank /\ Default \in [Keys -> Values]
      /\ \A img : Intact(img).image = img
  BY ParamStoreAssumption DEF Damaged, Intact
<1>b. TypeOK /\ Control /\ SnapshotExclusive /\ CopyIsCurrent /\ DownHoldsDefaults
  BY DEF SInv, IInv
<1>c. Table!Keys = Keys /\ Table!Nothing = Blank
      /\ (pc[Main] # "load" => Table!Snapshot = TableImage)
  BY DEF Table!Keys, Keys, Table!Nothing, Blank, Table!Snapshot, TableImage
<1>1. ASSUME NEW n \in 0 .. NKeys, PowerOn(n) PROVE [Table!Next]_(Table!vars)
  <2>1. Quiet /\ Quiet' /\ pc[Main] = "idle" /\ registered = {}
        /\ ram = Default /\ ram' = Default /\ file' = file
        /\ pc'[Main] \in {"idle", "load"}
        /\ (pc'[Main] = "idle" => registered' = 0 .. n - 1)
    BY <1>1, <1>a, <1>b
    DEF PowerOn, Control, TypeOK, DownHoldsDefaults, Quiet, Saving, diskVars
  <2>2. {f.image : f \in Remains}' = {f.image : f \in Remains}
    BY <2>1, QuietDisk
  <2>3. CASE pc'[Main] = "load"
    BY <2>1, <2>2, <2>3 DEF Table!vars
  <2>4. CASE pc'[Main] = "idle"
    BY <2>1, <2>2, <2>4 DEF Table!Next, Table!Recover
  <2>5. QED BY <2>1, <2>3, <2>4
<1>2. CASE Boot
  <2>1. /\ pc[Main] = "load" /\ pc'[Main] \in {"idle", "alloc"}
        /\ UNCHANGED <<registered, file>> /\ Quiet /\ Quiet'
    BY <1>2, <1>a, <1>b
    DEF Boot, Load, LoadFails, tableVars, diskVars, Quiet, Saving, TypeOK
  <2>2. registered = 0 .. NKeys - 1 /\ ram = Default
    BY <2>1, <1>a, <1>b DEF Control, DownHoldsDefaults, Keys
  <2>3. {f.image : f \in Remains} = {file.image}
        /\ {f.image : f \in Remains}' = {f.image : f \in Remains}
    BY <2>1, QuietDisk
  <2>4. ram' = Default \/ ram' = Table!Restored(file.image)
    <3>1. CASE Load
      BY <2>2, <3>1 DEF Load, Table!Restored, Table!Keys, Keys
    <3>2. CASE LoadFails
      BY <2>2, <3>2 DEF LoadFails, tableVars
    <3>3. QED BY <1>2, <3>1, <3>2 DEF Boot
  <2>5. Table!Recover
    BY <1>a, <2>1, <2>2, <2>3, <2>4 DEF Table!Recover
  <2>6. QED BY <2>5 DEF Table!Next
<1>3. ASSUME NEW c \in Callers, ApiCall(c) PROVE [Table!Next]_(Table!vars)
  <2>1. /\ pc[Main] = "idle" /\ pc'[Main] \in {"idle", "notify", "reset"}
        /\ UNCHANGED <<registered, file>> /\ Quiet /\ Quiet'
    BY <1>3, <1>a, <1>b
    DEF ApiCall, RejectedCall, SetSame, Set, Reset, ResetAll, SetCallback,
        CanCall, diskVars, tableVars, callVars, Quiet, Saving, TypeOK
  <2>2. \/ ram' = ram
        \/ \E k \in registered, v \in Values : ram' = [ram EXCEPT ![k] = v]
    <3>1. \A k \in Keys : Default[k] \in Values
      BY <1>a
    <3>2. QED
      BY <1>3, <3>1
      DEF ApiCall, RejectedCall, SetSame, Set, Reset, ResetAll, SetCallback,
          tableVars
  <2>3. CASE ram' = ram
    BY <2>1, <2>3, Stutters
  <2>4. ASSUME NEW k \in registered, NEW v \in Values,
               ram' = [ram EXCEPT ![k] = v]
        PROVE  Table!Next
    <3>1. Table!Assign(k, v)
      BY <2>1, <2>4, QuietDisk DEF Table!Assign
    <3>2. k \in Keys
      BY <1>b DEF TypeOK
    <3>3. QED
      BY <1>c, <3>1, <3>2 DEF Table!Next
  <2>5. QED BY <2>2, <2>3, <2>4
<1>4. ASSUME NEW c \in Callers, CallStep(c) PROVE [Table!Next]_(Table!vars)
  <2>a. c = Main
    BY <1>4
  <2>b. \A r : Return(c, r) => pc'[Main] \in {"idle", "reset", "alloc"}
    BY <1>a, <1>b, <2>a DEF Return, TypeOK
  <2>c. pc[Main] # "load"
    BY <1>4, <2>a
    DEF CallStep, ResetNext, Notify, Alloc, AllocFails, TakeMutex, Gather,
        OpenFails, Open, Write, WriteFails, Flush, Gathered
  <2>1. CASE ResetNext(c)
    <3>1. /\ Quiet /\ Quiet' /\ UNCHANGED <<registered, file>>
          /\ pc'[Main] # "load"
      BY <1>a, <1>b, <2>a, <2>b, <2>1
      DEF ResetNext, diskVars, Quiet, Saving, TypeOK
    <3>2. CASE key[c] \in registered
      <4>1. key[c] \in Keys /\ Default[key[c]] \in Values
        BY <1>a, <1>b DEF TypeOK
      <4>2. Table!Assign(key[c], Default[key[c]])
        BY <2>1, <2>c, <3>1, <3>2, QuietDisk DEF ResetNext, Table!Assign
      <4>3. QED
        BY <1>c, <4>1, <4>2 DEF Table!Next
    <3>3. CASE key[c] \notin registered
      BY <2>1, <2>c, <3>1, <3>3, Stutters DEF ResetNext
    <3>4. QED BY <3>2, <3>3
  <2>2. CASE Notify(c) \/ Alloc(c) \/ AllocFails(c) \/ TakeMutex(c)
             \/ Gather(c) \/ OpenFails(c)
    <3>1. /\ Quiet /\ Quiet' /\ UNCHANGED <<registered, ram, file>>
          /\ pc'[Main] # "load"
      BY <1>a, <1>b, <2>a, <2>b, <2>2
      DEF Notify, Alloc, AllocFails, TakeMutex, Gather, OpenFails, Gathered,
          diskVars, tableVars, Quiet, Saving, TypeOK
    <3>2. QED
      BY <2>c, <3>1, Stutters
  <2>3. CASE Open(c)
    <3>1. /\ Quiet /\ (~Quiet)' /\ UNCHANGED <<registered, ram, stable>>
          /\ file = stable /\ file' = Damaged /\ pc'[Main] # "load"
      BY <1>a, <1>b, <2>a, <2>3
      DEF Open, Gathered, tableVars, Quiet, Saving, TypeOK, SnapshotExclusive
    <3>2. Table!BeginSave
      BY <1>a, <1>c, <2>c, <3>1, QuietDisk, SavingDisk DEF Table!BeginSave
    <3>3. QED BY <3>2 DEF Table!Next
  <2>4. CASE Write(c)
    <3>1. /\ ~Quiet /\ (~Quiet)' /\ UNCHANGED <<registered, ram, stable>>
          /\ file = Damaged /\ file'.image = TableImage /\ pc'[Main] # "load"
      BY <1>a, <1>b, <2>a, <2>4
      DEF Write, tableVars, Quiet, Saving, TypeOK, CopyIsCurrent
    <3>2. Table!WriteSave
      BY <1>a, <1>c, <2>c, <3>1, SavingDisk DEF Table!WriteSave
    <3>3. QED BY <3>2 DEF Table!Next
  <2>5. CASE WriteFails(c)
    <3>1. /\ ~Quiet /\ Quiet' /\ UNCHANGED <<registered, ram>>
          /\ file' = Damaged /\ pc'[Main] # "load"
      BY <1>a, <1>b, <2>a, <2>b, <2>5
      DEF WriteFails, tableVars, Quiet, Saving, TypeOK
    <3>2. Table!FailSave
      BY <1>a, <1>c, <2>c, <3>1, QuietDisk, SavingDisk DEF Table!FailSave
    <3>3. QED BY <3>2 DEF Table!Next
  <2>6. CASE Flush(c)
    <3>1. /\ ~Quiet /\ Quiet' /\ UNCHANGED <<registered, ram, file>>
          /\ file.image = TableImage /\ pc'[Main] # "load"
      BY <1>a, <1>b, <2>a, <2>b, <2>6
      DEF Flush, tableVars, Quiet, Saving, TypeOK, CopyIsCurrent, Control
    <3>2. Table!EndSave
      BY <1>c, <2>c, <3>1, QuietDisk, SavingDisk DEF Table!EndSave
    <3>3. QED BY <3>2 DEF Table!Next
  <2>7. QED
    BY <1>4, <2>1, <2>2, <2>3, <2>4, <2>5, <2>6 DEF CallStep
<1>5. CASE PowerLoss
  <2>1. /\ Quiet' /\ registered' = {} /\ ram' = Default
        /\ file' \in Remains
    BY <1>5, <1>a DEF PowerLoss, Quiet, Saving
  <2>2. Table!Cut
    BY <2>1, QuietDisk DEF Table!Cut
  <2>3. QED BY <2>2 DEF Table!Next
<1>6. CASE UNCHANGED vars
  <2>1. Remains' = Remains
    BY <1>6 DEF vars, diskVars, callVars, Remains, Saving
  <2>2. QED
    BY <1>6, <2>1 DEF vars, tableVars, callVars, Table!vars
<1>7. QED
  BY <1>1, <1>2, <1>3, <1>4, <1>5, <1>6 DEF Next

\* With one task the table of the firmware, with its mutexes, copies, failures
\* and file, is the abstract table of DurableTable.
THEOREM Refines == ASSUME Callers = {Main} PROVE Spec => ImplementsDurableTable
<1>1. Init => Table!Init
  <2> SUFFICES ASSUME Init PROVE Table!Init
    OBVIOUS
  <2>1. Quiet /\ file.image = Blank /\ registered = {} /\ ram = Default
    BY ParamStoreAssumption DEF Init, Quiet, Saving, Absent
  <2>2. {f.image : f \in Remains} = {Blank}
    BY <2>1, QuietDisk
  <2>3. QED
    BY <2>1, <2>2 DEF Table!Init, Table!Nothing, Blank
<1>2. SInv /\ [Next]_vars => [Table!Next]_(Table!vars)
  BY RefinementStep
<1>3. QED
  BY <1>1, <1>2, SInvAlways, PTL DEF Spec, ImplementsDurableTable, Table!Spec
=============================================================================
