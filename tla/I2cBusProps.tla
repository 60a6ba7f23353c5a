---------------------------- MODULE I2cBusProps ----------------------------
(***************************************************************************)
(* What the bus promises the devices on it, over the behaviours of I2cBus. *)
(***************************************************************************)
EXTENDS I2cBus

TypeOK ==
    /\ ready \in BOOLEAN /\ channel \in BOOLEAN
    /\ registered \subseteq Devices
    /\ slaves \subseteq Addrs /\ Cardinality(slaves) <= SlaveLimit
    /\ pc \in {"off", "setup", "idle", "scan"}
    /\ addr \in 1 .. LastAddr + 1
    /\ configured \in 0 .. ReinitAfter
    /\ refused \subseteq Devices /\ zeroed \subseteq Devices
    /\ tried \subseteq Addrs

\* Whatever the scan does with the slave slots, the driver knows the devices
\* that are registered: they can be read and written between any two scans and
\* after each reinitialisation, but for those it has refused there.
RegisteredReachable ==
    ready => channel /\ registered \ refused \subseteq slaves

\* The scan writes to the port of a registered device only when that device
\* had been lost in a reinitialisation: the driver does not take an address
\* twice. So I! leaves the relays alone.
ScanSparesDevices ==
    [][zeroed' \cap registered \subseteq zeroed \cup refused]_vars

\* No address is passed over because the slave slots were taken: the scan has
\* had another answer for each address behind it.
EveryAddressTried ==
    pc = "scan" => {a \in 1 .. addr - 1 : ~LeftOut(a)} \subseteq tried

\* A scan comes to its end, with every failure of the driver, although it goes
\* back to an address each time that the slots are taken.
ScanEnds ==
    pc = "scan" ~> pc # "scan"
=============================================================================
