------------------------------- MODULE I2cBus -------------------------------
(***************************************************************************)
(* The shared I2C bus, custom/i2c_bus/i2c_bus.c: the registry of devices   *)
(* beside the slaves the SDK's driver knows, and the bus scan of command   *)
(* I!, which uses the same driver and takes its slave slots.               *)
(*                                                                         *)
(* The driver is external; include/ql_iic.h says what its calls return.    *)
(* The firmware's one task runs a scan to its end. An action here is one   *)
(* round of its loop, or one reinitialisation.                             *)
(***************************************************************************)
EXTENDS Naturals, FiniteSets

CONSTANTS
    Devices,     \* addresses that drivers of the firmware register
    LastAddr,    \* the last address of a scan (0x7F)
    SlaveLimit,  \* slaves the driver holds at most (6)
    ReinitAfter  \* slaves after which the scan reinitialises the bus (6)

Addrs == 1 .. LastAddr

ASSUME I2cBusAssumption ==
    /\ LastAddr \in Nat
    /\ Devices \subseteq Addrs
    /\ IsFiniteSet(Devices)
    /\ SlaveLimit \in Nat /\ Cardinality(Devices) < SlaveLimit
    /\ ReinitAfter \in Nat \ {0}

VARIABLES
    ready,       \* g_initialized
    registered,  \* addresses of the active entries of g_devices
    channel,     \* the driver's channel is initialised
    slaves,      \* addresses configured in the driver
    pc,          \* "off", "setup", "idle" or "scan"
    addr,        \* loop variable of the scan
    configured,  \* configured_slaves
    refused,     \* history: devices the driver refused in the last reinit
    zeroed,      \* history: devices whose port holds what a scan wrote to it
    tried        \* history: addresses this scan has finished with

busVars == <<ready, registered>>
driverVars == <<channel, slaves>>
scanVars == <<addr, configured>>
vars == <<busVars, driverVars, pc, scanVars, refused, zeroed, tried>>

Init ==
    /\ ready = FALSE /\ registered = {}
    /\ channel = FALSE /\ slaves = {}
    /\ pc = "off" /\ addr = 1 /\ configured = 0
    /\ refused = {} /\ zeroed = {} /\ tried = {}

-----------------------------------------------------------------------------
\* Ql_IIC_Config: what it returns, and what it adds to the slaves.

TooMany(a) == channel /\ a \notin slaves /\ Cardinality(slaves) >= SlaveLimit

CanConfig(a) == channel /\ a \notin slaves /\ Cardinality(slaves) < SlaveLimit

-----------------------------------------------------------------------------
\* Start-up and use

\* i2c_bus_init
BusInit(ok) ==
    /\ pc = "off"
    /\ ready' = ok /\ channel' = ok
    /\ registered' = {} /\ slaves' = {}
    /\ pc' = "setup"
    /\ UNCHANGED <<scanVars, refused, zeroed, tried>>

\* i2c_bus_config_device, for a driver that initialises.
ConfigDevice(d) ==
    /\ pc = "setup"
    /\ ready /\ d \notin registered
    /\ CanConfig(d)
    /\ slaves' = slaves \cup {d}
    /\ registered' = registered \cup {d}
    /\ UNCHANGED <<ready, channel, pc, scanVars, refused, zeroed, tried>>

\* The drivers are done; those whose configuration failed are not registered.
SetupDone ==
    /\ pc = "setup"
    /\ pc' = "idle"
    /\ UNCHANGED <<busVars, driverVars, scanVars, refused, zeroed, tried>>

\* A driver writes the port of its device, through the driver's channel.
WriteDevice(d) ==
    /\ pc = "idle"
    /\ d \in registered /\ channel /\ d \in slaves
    /\ d \in zeroed
    /\ zeroed' = zeroed \ {d}
    /\ UNCHANGED <<busVars, driverVars, pc, scanVars, refused, tried>>

\* A reset of the module.
Reset ==
    /\ ready' = FALSE /\ registered' = {}
    /\ channel' = FALSE /\ slaves' = {}
    /\ pc' = "off" /\ addr' = 1 /\ configured' = 0
    /\ refused' = {} /\ tried' = {}
    /\ UNCHANGED zeroed

-----------------------------------------------------------------------------
\* i2c_bus_reinit

\* Mutant: the registered devices are not configured again.
ReinitForgets(ok, missing) ==
    /\ ready
    /\ channel' = ok /\ ready' = ok
    /\ slaves' = {}
    /\ refused' = missing

\* The driver is initialised anew and the registered devices configured again;
\* those it refuses are only logged. When it cannot be initialised the bus is
\* not ready any more, for good: nobody calls i2c_bus_init a second time.
Reinit(ok, missing) ==
    /\ ready
    /\ channel' = ok /\ ready' = ok
    /\ slaves' = IF ok THEN registered \ missing ELSE {}
    /\ refused' = missing

-----------------------------------------------------------------------------
\* i2c_bus_scan, called for command I! when the bus is ready

StartScan ==
    /\ pc = "idle"
    /\ ready
    /\ pc' = "scan"
    /\ UNCHANGED <<busVars, driverVars, scanVars, refused, zeroed, tried>>

\* Mutant: the loop goes one address too far.
OverLate == addr > LastAddr + 1

Over == addr > LastAddr

\* Odd addresses over 0x07 are left out.
LeftOut(a) == a > 7 /\ a % 2 = 1

Skip ==
    /\ pc = "scan"
    /\ ~Over /\ LeftOut(addr)
    /\ addr' = addr + 1
    /\ UNCHANGED <<busVars, driverVars, pc, configured, refused, zeroed, tried>>

\* configured_slaves has reached its limit.
ReinitFirst(ok, missing) ==
    /\ pc = "scan"
    /\ ~Over /\ ~LeftOut(addr)
    /\ configured >= ReinitAfter
    /\ Reinit(ok, missing)
    /\ configured' = 0
    /\ UNCHANGED <<registered, pc, addr, zeroed, tried>>

Trying ==
    /\ pc = "scan"
    /\ ~Over /\ ~LeftOut(addr)
    /\ configured < ReinitAfter

\* The address gets a slave slot and is probed: a byte 0 is written to it and
\* then four are read. "hit" tells whether a device took the byte.
Probe(hit) ==
    /\ Trying
    /\ CanConfig(addr)
    /\ slaves' = slaves \cup {addr}
    /\ configured' = configured + 1
    /\ zeroed' = IF hit THEN zeroed \cup ({addr} \cap Devices) ELSE zeroed
    /\ tried' = tried \cup {addr}
    /\ addr' = addr + 1
    /\ UNCHANGED <<busVars, channel, pc, refused>>

\* The driver has the address already, or fails otherwise: on to the next one.
Refused ==
    /\ Trying
    /\ ~TooMany(addr)
    /\ tried' = tried \cup {addr}
    /\ addr' = addr + 1
    /\ UNCHANGED <<busVars, driverVars, pc, configured, refused, zeroed>>

\* Mutant: the address that found all slots taken is not tried again.
RetryNext(ok, missing) ==
    /\ Trying
    /\ TooMany(addr)
    /\ Reinit(ok, missing)
    /\ configured' = 0
    /\ addr' = addr + 1
    /\ UNCHANGED <<registered, pc, zeroed, tried>>

\* Mutant: the bus is not reinitialised before the address is tried again.
RetryOnly(ok, missing) ==
    /\ Trying
    /\ TooMany(addr)
    /\ ok /\ missing = {}
    /\ configured' = 0
    /\ UNCHANGED <<busVars, driverVars, refused, addr, pc, zeroed, tried>>

\* All slots are taken: the bus is reinitialised and the address tried again.
Retry(ok, missing) ==
    /\ Trying
    /\ TooMany(addr)
    /\ Reinit(ok, missing)
    /\ configured' = 0
    /\ UNCHANGED <<registered, addr, pc, zeroed, tried>>

EndScan ==
    /\ pc = "scan"
    /\ Over
    /\ pc' = "idle"
    /\ addr' = 1 /\ configured' = 0
    /\ tried' = {}
    /\ UNCHANGED <<busVars, driverVars, refused, zeroed>>

-----------------------------------------------------------------------------
Scan ==
    \/ Skip
    \/ \E ok \in BOOLEAN : \E missing \in SUBSET registered :
          ReinitFirst(ok, missing) \/ Retry(ok, missing)
    \/ \E hit \in BOOLEAN : Probe(hit)
    \/ Refused
    \/ EndScan

Setup == (\E ok \in BOOLEAN : BusInit(ok)) \/ SetupDone

Next ==
    \/ Setup
    \/ \E d \in Devices : ConfigDevice(d) \/ WriteDevice(d)
    \/ Reset
    \/ StartScan
    \/ Scan

Spec == Init /\ [][Next]_vars

\* The task runs the handler it is in to its end.
FairSpec == Spec /\ WF_vars(Scan)
=============================================================================
