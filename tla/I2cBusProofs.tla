---------------------------- MODULE I2cBusProofs ----------------------------
(***************************************************************************)
(* The safety properties of the bus for any devices, any number of slave   *)
(* slots above theirs and any length of the scan. IInv adds to the checked *)
(* properties what they rest on: the registry is usable exactly while the  *)
(* driver's channel is, and a scan starts at the first address.            *)
(***************************************************************************)
EXTENDS I2cBusProps, FiniteSetTheorems, TLAPS

ChannelOK == channel = ready

ScanStarts == pc # "scan" => addr = 1

IInv ==
    /\ TypeOK
    /\ ChannelOK
    /\ ScanStarts
    /\ RegisteredReachable
    /\ EveryAddressTried

\* Sets of addresses are finite.
LEMMA AddrsFinite ==
    ASSUME NEW S, S \subseteq Addrs
    PROVE  IsFiniteSet(S)
<1>1. IsFiniteSet(Addrs)
  BY FS_Interval, I2cBusAssumption DEF Addrs
<1> QED
  BY <1>1, FS_Subset

\* What a reinitialisation configures again fits into the slots.
LEMMA DevicesFit ==
    ASSUME NEW S, S \subseteq Devices
    PROVE  S \subseteq Addrs /\ Cardinality(S) <= SlaveLimit
<1>1. Cardinality(S) <= Cardinality(Devices) /\ IsFiniteSet(S)
  BY FS_Subset, I2cBusAssumption
<1>2. Cardinality(S) \in Nat /\ Cardinality(Devices) \in Nat
  BY <1>1, FS_CardinalityType, I2cBusAssumption
<1> QED
  BY <1>1, <1>2, I2cBusAssumption

\* A free slot takes one more address.
LEMMA OneMoreFits ==
    ASSUME TypeOK, NEW a \in Addrs, CanConfig(a)
    PROVE  slaves \cup {a} \subseteq Addrs /\ Cardinality(slaves \cup {a}) <= SlaveLimit
<1>1. IsFiniteSet(slaves)
  BY AddrsFinite DEF TypeOK
<1>2. Cardinality(slaves \cup {a}) = Cardinality(slaves) + 1
  BY <1>1, FS_AddElement DEF CanConfig
<1>3. Cardinality(slaves) \in Nat
  BY <1>1, FS_CardinalityType
<1> QED
  BY <1>2, <1>3, I2cBusAssumption DEF TypeOK, CanConfig

\* No address: no cardinality above the limit.
LEMMA NoneFits == Cardinality({}) <= SlaveLimit
  BY FS_EmptySet, I2cBusAssumption

LEMMA InitHolds == Init => IInv
<1> SUFFICES ASSUME Init PROVE IInv
  OBVIOUS
<1>1. addr \in 1 .. LastAddr + 1 /\ configured \in 0 .. ReinitAfter
  BY I2cBusAssumption DEF Init
<1>2. Cardinality(slaves) <= SlaveLimit
  BY NoneFits DEF Init
<1>3. TypeOK
  BY <1>1, <1>2 DEF Init, TypeOK
<1> QED
  BY <1>3 DEF Init, IInv, ChannelOK, ScanStarts, RegisteredReachable, EveryAddressTried

-----------------------------------------------------------------------------
\* One lemma for each action

LEMMA StartUpKeeps ==
    ASSUME IInv, Setup \/ Reset \/ StartScan \/ \E d \in Devices : WriteDevice(d)
    PROVE  IInv'
<1>1. CASE Setup
  <2>1. TypeOK'
    BY <1>1, NoneFits DEF Setup, BusInit, SetupDone, IInv, TypeOK, busVars, driverVars, scanVars
  <2> QED
    BY <1>1, <2>1 DEF Setup, BusInit, SetupDone, IInv, ChannelOK, ScanStarts, RegisteredReachable,
                      EveryAddressTried, busVars, driverVars, scanVars
<1>2. CASE Reset
  <2>1. addr' \in 1 .. LastAddr + 1 /\ configured' \in 0 .. ReinitAfter
    BY <1>2, I2cBusAssumption DEF Reset
  <2>2. Cardinality(slaves') <= SlaveLimit
    BY <1>2, NoneFits DEF Reset
  <2>3. TypeOK'
    BY <1>2, <2>1, <2>2 DEF Reset, IInv, TypeOK
  <2> QED
    BY <1>2, <2>3 DEF Reset, IInv, ChannelOK, ScanStarts, RegisteredReachable, EveryAddressTried
<1>3. CASE StartScan
  BY <1>3 DEF StartScan, IInv, TypeOK, ChannelOK, ScanStarts, RegisteredReachable, EveryAddressTried,
              busVars, driverVars, scanVars
<1>4. CASE \E d \in Devices : WriteDevice(d)
  BY <1>4 DEF WriteDevice, IInv, TypeOK, ChannelOK, ScanStarts, RegisteredReachable, EveryAddressTried,
              busVars, driverVars, scanVars
<1> QED
  BY <1>1, <1>2, <1>3, <1>4

LEMMA ConfigDeviceKeeps ==
    ASSUME IInv, NEW d \in Devices, ConfigDevice(d)
    PROVE  IInv'
<1>1. d \in Addrs
  BY I2cBusAssumption
<1>2. slaves' \subseteq Addrs /\ Cardinality(slaves') <= SlaveLimit
  BY <1>1, OneMoreFits DEF ConfigDevice, IInv
<1>3. TypeOK'
  BY <1>2 DEF ConfigDevice, IInv, TypeOK, scanVars
<1> QED
  BY <1>3 DEF ConfigDevice, IInv, ChannelOK, ScanStarts, RegisteredReachable, EveryAddressTried,
              scanVars

\* Both ways to a reinitialisation, the address staying the same.
LEMMA ReinitKeeps ==
    ASSUME IInv, NEW ok \in BOOLEAN, NEW missing \in SUBSET registered,
           Reinit(ok, missing), configured' = 0, pc = "scan",
           UNCHANGED <<registered, addr, pc, zeroed, tried>>
    PROVE  IInv'
<1>1. slaves' \subseteq Addrs /\ Cardinality(slaves') <= SlaveLimit
  BY DevicesFit, NoneFits DEF Reinit, IInv, TypeOK
<1>2. missing \subseteq Devices
  BY DEF IInv, TypeOK
<1>3. TypeOK'
  BY <1>1, <1>2, I2cBusAssumption DEF Reinit, IInv, TypeOK
<1>4. RegisteredReachable'
  BY DEF Reinit, RegisteredReachable
<1> QED
  BY <1>3, <1>4 DEF Reinit, IInv, ChannelOK, ScanStarts, EveryAddressTried

\* The address is left behind: it was left out, or has had its answer.
LEMMA NextAddress ==
    ASSUME IInv, pc = "scan", ~Over, pc' = pc, addr' = addr + 1,
           tried \subseteq tried', LeftOut(addr) \/ addr \in tried'
    PROVE  EveryAddressTried' /\ addr \in Addrs /\ addr' \in 1 .. LastAddr + 1
<1>1. addr \in Addrs /\ addr' \in 1 .. LastAddr + 1
  BY I2cBusAssumption DEF IInv, TypeOK, Over, Addrs
<1>2. ASSUME NEW a \in 1 .. addr' - 1, ~LeftOut(a)
      PROVE  a \in tried'
  <2>1. CASE a = addr
    BY <1>2, <2>1
  <2>2. CASE a # addr
    <3>1. a \in 1 .. addr - 1
      BY <1>1, <2>2 DEF Addrs
    <3> QED
      BY <1>2, <3>1 DEF IInv, EveryAddressTried
  <2> QED
    BY <2>1, <2>2
<1>3. {a \in 1 .. addr' - 1 : ~LeftOut(a)} \subseteq tried'
  BY <1>2
<1> QED
  BY <1>1, <1>3 DEF EveryAddressTried, LeftOut

LEMMA ScanKeeps ==
    ASSUME IInv, Scan
    PROVE  IInv'
<1>1. CASE Skip
  <2>1. EveryAddressTried' /\ addr' \in 1 .. LastAddr + 1
    BY <1>1, NextAddress DEF Skip
  <2> QED
    BY <1>1, <2>1 DEF Skip, IInv, TypeOK, ChannelOK, ScanStarts, RegisteredReachable,
                      busVars, driverVars
<1>2. ASSUME NEW ok \in BOOLEAN, NEW missing \in SUBSET registered,
             ReinitFirst(ok, missing) \/ Retry(ok, missing)
      PROVE  IInv'
  BY <1>2, ReinitKeeps DEF ReinitFirst, Retry, Trying
<1>3. ASSUME NEW hit \in BOOLEAN, Probe(hit)
      PROVE  IInv'
  <2>1. EveryAddressTried' /\ addr \in Addrs /\ addr' \in 1 .. LastAddr + 1
    BY <1>3, NextAddress DEF Probe, Trying
  <2>2. slaves' \subseteq Addrs /\ Cardinality(slaves') <= SlaveLimit
    BY <1>3, <2>1, OneMoreFits DEF Probe, IInv
  <2>3. configured' \in 0 .. ReinitAfter
    BY <1>3, I2cBusAssumption DEF Probe, Trying, IInv, TypeOK
  <2>4. TypeOK'
    BY <1>3, <2>1, <2>2, <2>3 DEF Probe, IInv, TypeOK, busVars
  <2> QED
    BY <1>3, <2>1, <2>4 DEF Probe, Trying, IInv, ChannelOK, ScanStarts, RegisteredReachable, busVars
<1>4. CASE Refused
  <2>1. EveryAddressTried' /\ addr \in Addrs /\ addr' \in 1 .. LastAddr + 1
    BY <1>4, NextAddress DEF Refused, Trying
  <2> QED
    BY <1>4, <2>1 DEF Refused, Trying, IInv, TypeOK, ChannelOK, ScanStarts, RegisteredReachable,
                      busVars, driverVars
<1>5. CASE EndScan
  BY <1>5, I2cBusAssumption DEF EndScan, IInv, TypeOK, ChannelOK, ScanStarts, RegisteredReachable,
              EveryAddressTried, busVars, driverVars
<1> QED
  BY <1>1, <1>2, <1>3, <1>4, <1>5 DEF Scan

LEMMA StepHolds == IInv /\ [Next]_vars => IInv'
<1> SUFFICES ASSUME IInv, [Next]_vars PROVE IInv'
  OBVIOUS
<1>1. CASE UNCHANGED vars
  BY <1>1 DEF vars, busVars, driverVars, scanVars, IInv, TypeOK, ChannelOK, ScanStarts,
              RegisteredReachable, EveryAddressTried
<1> QED
  BY <1>1, StartUpKeeps, ConfigDeviceKeeps, ScanKeeps DEF Next

-----------------------------------------------------------------------------
\* The inductive invariant holds of every behaviour.
THEOREM Inductive == Spec => []IInv
  BY InitHolds, StepHolds, PTL DEF Spec

\* Every variable of the bus keeps its type, and the driver never holds more
\* slaves than it has slots.
THEOREM TypeCorrect == Spec => []TypeOK
<1>1. IInv => TypeOK
  BY DEF IInv
<1> QED
  BY <1>1, Inductive, PTL

\* The driver knows every registered device that it did not refuse itself.
THEOREM DevicesStay == Spec => []RegisteredReachable
<1>1. IInv => RegisteredReachable
  BY DEF IInv
<1> QED
  BY <1>1, Inductive, PTL

\* A scan leaves no address behind without an answer.
THEOREM NoAddressLost == Spec => []EveryAddressTried
<1>1. IInv => EveryAddressTried
  BY DEF IInv
<1> QED
  BY <1>1, Inductive, PTL

\* A scan writes to no registered device that the driver has not refused.
THEOREM DevicesSpared == Spec => ScanSparesDevices
<1>1. IInv /\ [Next]_vars => [zeroed' \cap registered \subseteq zeroed \cup refused]_vars
  <2> SUFFICES ASSUME IInv, Next
               PROVE  zeroed' \cap registered \subseteq zeroed \cup refused
    OBVIOUS
  <2>1. ASSUME NEW hit \in BOOLEAN, Probe(hit)
        PROVE  zeroed' \cap registered \subseteq zeroed \cup refused
    <3>1. addr \in registered => addr \in refused
      BY <2>1 DEF Probe, CanConfig, IInv, ChannelOK, RegisteredReachable
    <3> QED
      BY <2>1, <3>1 DEF Probe
  <2>2. ASSUME ~\E hit \in BOOLEAN : Probe(hit)
        PROVE  zeroed' \subseteq zeroed
    BY <2>2 DEF Next, Setup, BusInit, SetupDone, ConfigDevice, WriteDevice, Reset, StartScan,
                Scan, Skip, ReinitFirst, Retry, Refused, EndScan
  <2> QED
    BY <2>1, <2>2
<1> QED
  BY <1>1, Inductive, PTL DEF Spec, ScanSparesDevices
=============================================================================
