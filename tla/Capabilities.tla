------------------------------ MODULE Capabilities ------------------------------
(***************************************************************************)
(* Capability spaces and how they come to be filled: capabilities.rs,      *)
(* syscall/vmspace.rs, allocate_shared_memory, the capabilities that       *)
(* send_message and read_message pass on, and syscall/capabilities.rs.     *)
(* All tasks are on the hart that booted, as each is enqueued on the hart  *)
(* of its creator (Ipc), and the kernel is not preempted.  A syscall is    *)
(* one step, but read_message, which holds the lock of its task while it   *)
(* asks for the lock of another, is one step per capability.  Blocking,    *)
(* notification and the order of messages are the subject of Ipc, MMIO     *)
(* capabilities that of Devices; addresses are that of UserMemory and are  *)
(* numbers that are never reused here.                                     *)
(***************************************************************************)
EXTENDS Integers, Sequences, FiniteSetsExt

CONSTANTS
    DeleteCapability, \* the number of the syscall, in a0
    MaxTasks, MaxCptr, MaxChans, MaxMaps, MaxObjects, MaxCaps,  \* bounds
    MemoryRights,     \* the rights asked of allocate_shared_memory
    MaxInFlight       \* bound on the messages in all queues

\* What the constants of an instance satisfy.
CapabilitiesAssumption ==
    /\ MaxTasks \in Nat \ {0} /\ MaxChans \in Nat \ {0}
    /\ MemoryRights \subseteq SUBSET {"READ", "WRITE"}

VARIABLES
    started,   \* the number of tasks; TaskList::next_id - 1
    cspace,    \* task -> CapabilitySpace::inner
    maps,      \* task -> what it has mapped: in-process and shared regions
    fresh,     \* task -> the next address a mapping gets
    vmspaces,  \* task -> VmspaceObjectId -> VmspaceObject::inprocess_mappings
    nextId,    \* task -> MutableState::vmspace_next_id
    chans,     \* the channels UserspaceChannel::new has made
    queues,    \* <<channel, side>> -> messages to be received there
    reading    \* task -> the read_message it is in

vars == <<started, cspace, maps, fresh, vmspaces, nextId, chans, queues, reading>>
memVars == <<maps, fresh>>
vmVars == <<vmspaces, nextId>>

Tasks == 1..MaxTasks
KERNEL_CHANNEL == 0
PARENT_CHANNEL == 1
NoTask == 0
NoCptr == -1
None == [op |-> "none"]

Other(side) == 3 - side
Put(f, k, v) == [x \in DOMAIN f \cup {k} |-> IF x = k THEN v ELSE f[x]]
Drop(f, k) == [x \in DOMAIN f \ {k} |-> f[x]]

\* One end of a channel: what it sends goes to the other side.
Channel(ch, side, tid, cptr, rights) ==
    [kind |-> "channel", chan |-> ch, side |-> side, tid |-> tid, cptr |-> cptr,
     rights |-> rights]

\* The capability space of a task that is made: its end of the kernel channel.
KernelOnly(ch) == [c \in {KERNEL_CHANNEL} |-> Channel(ch, 2, NoTask, NoCptr, {"READ"})]

SharedMemory(region, at, rights) ==
    [kind |-> "memory", region |-> region, at |-> at, rights |-> rights]

All == {"READ", "WRITE", "GRANT"}

\* Mutant: a hart that may be preempted in the kernel, or a hart per task.
Running_Preempted(t) == t \in 1..started /\ reading[t] = None

\* Every syscall of t starts in user mode, on the hart all tasks share.
Running(t) == t \in 1..started /\ \A o \in Tasks : reading[o] = None

-----------------------------------------------------------------------------
(* CapabilitySpace *)

\* The number mint and mint_with take.
NextCptr(space) == IF DOMAIN space = {} THEN 0 ELSE Max(DOMAIN space) + 1

Mints(space, cap) == Put(space, NextCptr(space), cap)

Room(t, n) == NextCptr(cspace[t]) + n <= MaxCptr + 1

-----------------------------------------------------------------------------
(* syscall/vmspace.rs *)

CreateVmspace(t) ==
    /\ Running(t) /\ nextId[t] < MaxObjects
    /\ vmspaces' = [vmspaces EXCEPT ![t] = Put(@, nextId[t], {})]
    /\ nextId' = [nextId EXCEPT ![t] = @ + 1]
    /\ UNCHANGED <<started, cspace, memVars, chans, queues, reading>>

\* The arguments that are refused change nothing.
AllocVmspaceObject(t, id) ==
    /\ Running(t) /\ id \in DOMAIN vmspaces[t] /\ fresh[t] < MaxMaps
    /\ maps' = [maps EXCEPT ![t] = @ \cup {fresh[t]}]
    /\ fresh' = [fresh EXCEPT ![t] = @ + 1]
    /\ vmspaces' = [vmspaces EXCEPT ![t][id] = @ \cup {fresh[t]}]
    /\ UNCHANGED <<started, cspace, nextId, chans, queues, reading>>

\* Mutant: the in-process mappings are left in place.
SpawnVmspace_KeepsMappings(t, id) ==
    LET tid == started + 1
        ch == chans + 2
        c == NextCptr(cspace[t])
    IN  /\ Running(t) /\ id \in DOMAIN vmspaces[t]
        /\ tid \in Tasks /\ ch <= MaxChans /\ Room(t, 1)
        /\ started' = tid
        /\ chans' = ch
        /\ cspace' = [cspace EXCEPT
               ![t] = Mints(@, Channel(ch, 1, tid, PARENT_CHANNEL, All)),
               ![tid] = Put(KernelOnly(ch - 1), PARENT_CHANNEL, Channel(ch, 2, t, c, All))]
        /\ vmspaces' = [vmspaces EXCEPT ![t] = Drop(@, id)]
        /\ UNCHANGED <<memVars, nextId, queues, reading>>

\* A name that is refused ends in a panic, in the drop of the object (UserMemory).
SpawnVmspace(t, id) ==
    LET tid == started + 1
        ch == chans + 2
        c == NextCptr(cspace[t])
    IN  /\ Running(t) /\ id \in DOMAIN vmspaces[t]
        /\ tid \in Tasks /\ ch <= MaxChans /\ Room(t, 1)
        /\ started' = tid
        /\ chans' = ch
        /\ maps' = [maps EXCEPT ![t] = @ \ vmspaces[t][id]]
        /\ cspace' = [cspace EXCEPT
               ![t] = Mints(@, Channel(ch, 1, tid, PARENT_CHANNEL, All)),
               ![tid] = Put(KernelOnly(ch - 1), PARENT_CHANNEL, Channel(ch, 2, t, c, All))]
        /\ vmspaces' = [vmspaces EXCEPT ![t] = Drop(@, id)]
        /\ UNCHANGED <<fresh, nextId, queues, reading>>

-----------------------------------------------------------------------------
(* allocate_shared_memory and DeleteCapability *)

AllocateSharedMemory(t, rights) ==
    /\ Running(t) /\ Room(t, 1) /\ fresh[t] < MaxMaps
    /\ cspace' = [cspace EXCEPT ![t] =
           Mints(@, SharedMemory(<<t, fresh[t]>>, fresh[t], rights \cup {"GRANT"}))]
    /\ maps' = [maps EXCEPT ![t] = @ \cup {fresh[t]}]
    /\ fresh' = [fresh EXCEPT ![t] = @ + 1]
    /\ UNCHANGED <<started, vmVars, chans, queues, reading>>

\* delete takes the CapabilityPtr from a0; its caller passes it in a1.
Delete(t, a1) ==
    LET cptr == DeleteCapability
        held == cptr \in DOMAIN cspace[t]
    IN  /\ Running(t)
        /\ cspace' = [cspace EXCEPT ![t] = Drop(@, cptr)]
        /\ maps' = IF held /\ cspace[t][cptr].kind = "memory"
                   THEN [maps EXCEPT ![t] = @ \ {cspace[t][cptr].at}]
                   ELSE maps
        /\ UNCHANGED <<started, fresh, vmVars, chans, queues, reading>>

-----------------------------------------------------------------------------
(* send_message *)

\* The rights the caller names are compared and then forgotten: what is sent is
\* a clone of the sender's capability.
Sendable(cap) ==
    /\ "GRANT" \in cap.rights
    /\ ~(cap.kind = "memory" /\ "WRITE" \in cap.rights /\ "READ" \notin cap.rights)

InFlight == MapThenSumSet(LAMBDA q : Len(queues[q]), (1..chans) \X {1, 2})

SendMessage(t, c, cs) ==
    LET ch == cspace[t][c]
        to == <<ch.chan, Other(ch.side)>>
    IN  /\ Running(t)
        /\ c \in DOMAIN cspace[t] /\ ch.kind = "channel" /\ "WRITE" \in ch.rights
        /\ InFlight < MaxInFlight
        /\ \A i \in DOMAIN cs : cs[i] \in DOMAIN cspace[t] /\ Sendable(cspace[t][cs[i]])
        /\ queues' = [queues EXCEPT ![to] = Append(@, [i \in DOMAIN cs |-> cspace[t][cs[i]]])]
        /\ UNCHANGED <<started, cspace, memVars, vmVars, chans, reading>>

-----------------------------------------------------------------------------
(* read_message: pop the message, install as many of its capabilities as fit *)

\* Takes the message, then the lock of t, which it keeps until ReadFinish.
ReadMessage(t, c, len) ==
    LET ch == cspace[t][c]
        at == <<ch.chan, ch.side>>
        n == Min({len, Len(Head(queues[at]))})
    IN  /\ Running(t)
        /\ c \in DOMAIN cspace[t] /\ ch.kind = "channel" /\ "READ" \in ch.rights
        /\ queues[at] # <<>>
        /\ chans + n <= MaxChans /\ \A o \in Tasks : Room(o, n)
        /\ (\E i \in 1..n : Head(queues[at])[i].kind = "memory") => fresh[t] + n <= MaxMaps
        /\ queues' = [queues EXCEPT ![at] = Tail(@)]
        /\ reading' = [reading EXCEPT ![t] =
               [from |-> at, caps |-> Head(queues[at]), installed |-> 0,
                left |-> n, writes |-> n]]
        /\ UNCHANGED <<started, cspace, memVars, vmVars, chans>>

\* The capability read_message is about to install.
Installing(t) == reading[t] # None /\ reading[t].left > 0
Cap(t) == Head(reading[t].caps)

Taken(t, n) ==
    LET r == reading[t]
    IN  reading' = [reading EXCEPT ![t] =
            [r EXCEPT !.caps = Tail(@), !.left = @ - 1, !.installed = @ + n]]

\* A channel that leads back to the reader is passed over.
InstallNone(t) ==
    /\ Installing(t) /\ Cap(t).kind = "channel" /\ Cap(t).tid = t
    /\ Taken(t, 0)
    /\ UNCHANGED <<started, cspace, memVars, vmVars, chans, queues>>

\* Mutant: the two ends are given each other's names.
InstallChannel_Swapped(t) ==
    LET o == Cap(t).tid
        ch == chans + 1
    IN  /\ Installing(t) /\ Cap(t).kind = "channel" /\ o # t
        /\ reading[o] = None
        /\ chans' = ch
        /\ cspace' = [cspace EXCEPT
               ![t] = Mints(@, Channel(ch, 2, o, NextCptr(cspace[t]), Cap(t).rights)),
               ![o] = Mints(@, Channel(ch, 1, t, NextCptr(cspace[o]), Cap(t).rights))]
        /\ Taken(t, 1)
        /\ UNCHANGED <<started, memVars, vmVars, queues>>

\* Waits for the lock of the task at the other end of the channel.
InstallChannel(t) ==
    LET o == Cap(t).tid
        ch == chans + 1
    IN  /\ Installing(t) /\ Cap(t).kind = "channel" /\ o # t
        /\ reading[o] = None
        /\ chans' = ch
        /\ cspace' = [cspace EXCEPT
               ![t] = Mints(@, Channel(ch, 2, o, NextCptr(cspace[o]), Cap(t).rights)),
               ![o] = Mints(@, Channel(ch, 1, t, NextCptr(cspace[t]), Cap(t).rights))]
        /\ Taken(t, 1)
        /\ UNCHANGED <<started, memVars, vmVars, queues>>

\* Mutant: the capability keeps the address it had at the sender.
InstallMemory_SendersAddress(t) ==
    /\ Installing(t) /\ Cap(t).kind = "memory"
    /\ cspace' = [cspace EXCEPT ![t] =
           Mints(@, SharedMemory(Cap(t).region, Cap(t).at, Cap(t).rights))]
    /\ maps' = [maps EXCEPT ![t] = @ \cup {fresh[t]}]
    /\ fresh' = [fresh EXCEPT ![t] = @ + 1]
    /\ Taken(t, 1)
    /\ UNCHANGED <<started, vmVars, chans, queues>>

InstallMemory(t) ==
    /\ Installing(t) /\ Cap(t).kind = "memory"
    /\ cspace' = [cspace EXCEPT ![t] =
           Mints(@, SharedMemory(Cap(t).region, fresh[t], Cap(t).rights))]
    /\ maps' = [maps EXCEPT ![t] = @ \cup {fresh[t]}]
    /\ fresh' = [fresh EXCEPT ![t] = @ + 1]
    /\ Taken(t, 1)
    /\ UNCHANGED <<started, vmVars, chans, queues>>

\* What did not fit goes back to the front, and the lock of t is dropped.
ReadFinish(t) ==
    LET r == reading[t]
    IN  /\ r # None /\ r.left = 0
        /\ queues' = IF r.caps = <<>> THEN queues
                     ELSE [queues EXCEPT ![r.from] = <<r.caps>> \o @]
        /\ reading' = [reading EXCEPT ![t] = None]
        /\ UNCHANGED <<started, cspace, memVars, vmVars, chans>>

-----------------------------------------------------------------------------

\* Task::load_init: one task, which holds its kernel channel.
Init ==
    /\ started = 1
    /\ chans = 1
    /\ cspace = [t \in Tasks |->
           IF t = 1 THEN KernelOnly(1) ELSE <<>>]
    /\ maps = [t \in Tasks |-> {}]
    /\ fresh = [t \in Tasks |-> 0]
    /\ vmspaces = [t \in Tasks |-> <<>>]
    /\ nextId = [t \in Tasks |-> 0]
    /\ queues = [q \in (1..MaxChans) \X {1, 2} |-> <<>>]
    /\ reading = [t \in Tasks |-> None]

Steps(t) ==
    InstallNone(t) \/ InstallChannel(t) \/ InstallMemory(t) \/ ReadFinish(t)

Syscalls(t) ==
    \/ CreateVmspace(t)
    \/ \E id \in 0..MaxObjects - 1 :
           AllocVmspaceObject(t, id) \/ SpawnVmspace(t, id)
    \/ \E rights \in MemoryRights : AllocateSharedMemory(t, rights)
    \/ \E c \in 0..MaxCptr :
           \/ Delete(t, c)
           \/ \E n \in 0..MaxCaps : ReadMessage(t, c, n)
           \/ \E n \in 0..MaxCaps : \E cs \in [1..n -> DOMAIN cspace[t]] : SendMessage(t, c, cs)

Next == \E t \in Tasks : Syscalls(t) \/ Steps(t)

Spec == Init /\ [][Next]_vars

-----------------------------------------------------------------------------
(* Properties *)

\* What the capability c of t says of the other end of its channel is true: the
\* capability it names is for the other side of that channel, and names it back.
Answered(t, c) ==
    LET k == cspace[t][c]
        p == cspace[k.tid][k.cptr]
    IN  k.kind = "channel" /\ k.tid # NoTask =>
            /\ k.cptr \in DOMAIN cspace[k.tid]
            /\ p.kind = "channel"
            /\ <<p.chan, p.side>> = <<k.chan, Other(k.side)>>
            /\ <<p.tid, p.cptr>> = <<t, c>>

\* The two ends of a channel name each other: the (other_tid, other_cptr) of a
\* channel capability is the place of the capability for the other end, and the
\* other way round.  A NewChannelMessage with another number would wake the
\* receiver for a channel it does not have.
NamesPeer == \A t \in 1..started : \A c \in DOMAIN cspace[t] : Answered(t, c)

MemoryCaps(t) == {c \in DOMAIN cspace[t] : cspace[t][c].kind = "memory"}

\* A memory capability stands for one mapping of its own task, which delete will
\* deallocate: no two capabilities and no vmspace object share it.
OwnMapping ==
    \A t \in 1..started : \A c \in MemoryCaps(t) :
        /\ cspace[t][c].at \in maps[t]
        /\ \A d \in MemoryCaps(t) \ {c} : cspace[t][d].at # cspace[t][c].at
        /\ \A id \in DOMAIN vmspaces[t] : cspace[t][c].at \notin vmspaces[t][id]

\* A spawned object leaves nothing mapped in its creator: every mapping is that
\* of a capability or of an object still being built.
NothingLeftMapped ==
    \A t \in 1..started :
        maps[t] = {cspace[t][c].at : c \in MemoryCaps(t)}
                      \cup UNION {vmspaces[t][id] : id \in DOMAIN vmspaces[t]}

\* Capabilities and objects stand for mappings of their own, and for all of them.
MappingsAccountedFor == OwnMapping /\ NothingLeftMapped

\* No two tasks wait for each other's lock inside read_message, where the wait
\* ends in "Likely deadlock detected -- reached maximum wait time" (mutex.rs).
NeverTimesOut ==
    \A t, o \in 1..started :
        ~ /\ Installing(t) /\ Cap(t).kind = "channel" /\ Cap(t).tid = o /\ o # t
          /\ Installing(o) /\ Cap(o).kind = "channel" /\ Cap(o).tid = t

\* capabilities_read of ReadResult is the number of capabilities the reader got.
CountsWhatItInstalls ==
    [][\A t \in Tasks : ReadFinish(t) => reading[t].writes = reading[t].installed]_vars

\* A capability the caller holds is gone once delete has been called with it.
DeletesNamed ==
    [][\A t \in Tasks, c \in 0..MaxCptr :
           Delete(t, c) /\ c \in DOMAIN cspace[t] => c \notin DOMAIN cspace'[t]]_vars
=================================================================================
