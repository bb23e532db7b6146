---------------------------- MODULE MC_Capabilities ----------------------------
(***************************************************************************)
(* Capabilities and devices for TLC.  A behaviour is about one of them:    *)
(* three tasks that pass channels on, two that share memory, and drivers   *)
(* of two devices that do or do not give their devices up.                 *)
(***************************************************************************)
EXTENDS Integers, Sequences

CONSTANTS
    DeleteCapability, SharedDelete,  \* numbers of delete; see the README
    Drivers, Uart, Disk, Console, NoIsr

VARIABLES
    part,
    started, cspace, maps, fresh, vmspaces, nextId, chans, queues, reading,
    claimed, mmio, isr, interrupts, notes, driving, quieted, enabled,
    priority, line, inService, deleting

Channels == INSTANCE Capabilities WITH
    MaxTasks <- 3, MaxCptr <- 4, MaxChans <- 8, MaxMaps <- 0, MaxObjects <- 1,
    MaxInFlight <- 1, MaxCaps <- 1, MemoryRights <- {}
Memory == INSTANCE Capabilities WITH
    DeleteCapability <- SharedDelete,
    MaxTasks <- 2, MaxCptr <- 3, MaxChans <- 4, MaxMaps <- 2, MaxObjects <- 1,
    MaxInFlight <- 1, MaxCaps <- 2, MemoryRights <- {{"READ", "WRITE"}}
Kept == INSTANCE Devices WITH
    Tasks <- Drivers, Devices <- {Uart, Disk}, Early <- {Disk}, Deleters <- {}
GivenUp == INSTANCE Devices WITH
    Tasks <- Drivers, Devices <- {Uart, Disk}, Early <- {Disk}, Deleters <- Drivers

ASSUME Channels!CapabilitiesAssumption /\ Memory!CapabilitiesAssumption
ASSUME Kept!DevicesAssumption /\ GivenUp!DevicesAssumption

capVars == <<started, cspace, maps, fresh, vmspaces, nextId, chans, queues, reading>>
deviceVars == <<claimed, mmio, isr, interrupts, notes, driving, quieted, enabled,
                priority, line, inService, deleting>>
vars == <<part, capVars, deviceVars>>

Init ==
    /\ part \in {"channels", "memory", "devices kept", "devices given up"}
    /\ Kept!Init
    /\ IF part = "memory" THEN Memory!Init ELSE Channels!Init

Next ==
    /\ UNCHANGED part
    /\ \/ part = "channels" /\ Channels!Next /\ UNCHANGED deviceVars
       \/ part = "memory" /\ Memory!Next /\ UNCHANGED deviceVars
       \/ part = "devices kept" /\ Kept!Next /\ UNCHANGED capVars
       \/ part = "devices given up" /\ GivenUp!Next /\ UNCHANGED capVars

\* The hart takes the interrupts it is shown, and a driver gets to run and does
\* its work: the fairness of module Devices.
Spec ==
    /\ Init /\ [][Next]_vars
    /\ WF_deviceVars(part = "devices kept" /\ Kept!Trap)
    /\ \A t \in Drivers : SF_deviceVars(part = "devices kept" /\ Kept!Drive(t))

-----------------------------------------------------------------------------

\* The two ends of a channel name each other, also after read_message has passed
\* one of them on: a NewChannelMessage never names a channel its reader has not.
NamesPeer == part = "channels" => Channels!NamesPeer

\* No two tasks in read_message wait for each other's lock, which would end in
\* "Likely deadlock detected -- reached maximum wait time" (sync/mutex.rs).
NeverTimesOut == part = "channels" => Channels!NeverTimesOut

\* A capability for shared memory stands for a mapping of its own, and every
\* mapping of a task is that of a capability or of an object it is building:
\* spawn_vmspace and delete leave none behind.
MappingsAccountedFor == part = "memory" => Memory!MappingsAccountedFor

\* An interrupt in service is in the claimed_interrupts of one task, which was
\* told of it once, also while read_message passes the device on.
OneServant ==
    /\ part = "devices kept" => Kept!OneServant
    /\ part = "devices given up" => GivenUp!OneServant

\* A device with an owner is served whenever it asks for it, again and again
\* (claim_device, the external interrupt branch of trap_handler, complete_interrupt).
Served == part = "devices kept" => Kept!Served
=============================================================================
