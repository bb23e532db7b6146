-------------------------- MODULE Capabilities_proofs --------------------------
(***************************************************************************)
(* Capability spaces for any number of tasks, objects, channels and        *)
(* capabilities: read_message never waits for a task that waits for it,    *)
(* every mapping is that of one capability or object, and the two ends of  *)
(* a channel name each other.                                              *)
(***************************************************************************)
EXTENDS Capabilities, WellFoundedInduction, TLAPS

\* The types the proofs need: what is a function of the tasks, and capability
\* numbers that are bounded, so that NextCptr is well defined.
TypeOK ==
    /\ started \in Tasks
    /\ DOMAIN cspace = Tasks /\ DOMAIN maps = Tasks /\ DOMAIN vmspaces = Tasks /\ DOMAIN reading = Tasks
    /\ fresh \in [Tasks -> Nat] /\ nextId \in [Tasks -> Nat]
    /\ \A t \in Tasks : \E n \in Nat : DOMAIN cspace[t] \subseteq 0 .. n

\* One read_message at a time, by a task that was started.
OneReads ==
    /\ \A t \in Tasks : reading[t] # None => t \in 1 .. started
    /\ \A t, o \in Tasks : reading[t] # None /\ reading[o] # None => t = o

\* mint takes a number the capability space does not have.
LEMMA NextIsNew ==
    ASSUME NEW f, NEW n \in Nat, DOMAIN f \subseteq 0 .. n
    PROVE  NextCptr(f) \in Nat /\ NextCptr(f) \notin DOMAIN f
<1> DEFINE D == DOMAIN f
           U == {m \in Nat : \A y \in D : y <= m}
           Less == {ss \in Nat \X Nat : ss[1] < ss[2]}
<1>1. CASE D = {}
  BY <1>1, Zenon DEF NextCptr
<1>2. CASE D # {}
  <2>1. n \in U
    OBVIOUS
  <2>2. IsWellFoundedOn(Less, Nat)
    BY NatLessThanWellFounded, Zenon DEF OpToRel
  <2>3. PICK m \in U : \A y \in U : ~ (<<y, m>> \in Less)
    <3>1. U \subseteq Nat /\ U # {}
      BY <2>1, Zenon
    <3> HIDE DEF U, Less
    <3> QED
      BY <2>2, <3>1, WFMin, Zenon
  <2>4. m \in D
    <3> SUFFICES ASSUME m \notin D PROVE FALSE
      BY Zenon
    <3>1. \A y \in D : y \in Nat /\ y < m
      OBVIOUS
    <3>2. m - 1 \in U /\ m - 1 < m /\ m \in Nat
      BY <1>2, <3>1
    <3>3. <<m - 1, m>> \in Less
      BY <3>2, Zenon
    <3> QED
      BY <2>3, <3>2, <3>3, Zenon
  <2>5. \A y \in D : m >= y /\ y \in Nat
    OBVIOUS
  <2>6. Max(D) \in D /\ \A y \in D : Max(D) >= y
    BY <2>4, <2>5, Zenon DEF Max
  <2> HIDE DEF D
  <2>7. NextCptr(f) = Max(D) + 1
    BY <1>2, Zenon DEF NextCptr, D
  <2> QED
    BY <2>5, <2>6, <2>7 DEF D
<1> QED
  BY <1>1, <1>2, Zenon

\* Adding one number keeps the numbers bounded, removing one as well.
LEMMA PutBounded ==
    ASSUME NEW f, NEW n \in Nat, DOMAIN f \subseteq 0 .. n, NEW k \in Nat, NEW v
    PROVE  \E m \in Nat : DOMAIN Put(f, k, v) \subseteq 0 .. m
<1>1. DOMAIN Put(f, k, v) = DOMAIN f \cup {k}
  BY Zenon DEF Put
<1>2. DOMAIN Put(f, k, v) \subseteq 0 .. (n + k) /\ n + k \in Nat
  BY <1>1
<1> QED
  BY <1>2, Zenon

\* mint: a new number, bounded as before.
LEMMA MintBounded ==
    ASSUME TypeOK, NEW t \in Tasks, NEW v
    PROVE  /\ NextCptr(cspace[t]) \in Nat /\ NextCptr(cspace[t]) \notin DOMAIN cspace[t]
           /\ \E m \in Nat : DOMAIN Mints(cspace[t], v) \subseteq 0 .. m
<1>1. PICK n \in Nat : DOMAIN cspace[t] \subseteq 0 .. n
  BY Zenon DEF TypeOK
<1>2. NextCptr(cspace[t]) \in Nat /\ NextCptr(cspace[t]) \notin DOMAIN cspace[t]
  BY <1>1, NextIsNew, Zenon
<1> QED
  BY <1>1, <1>2, PutBounded, Zenon DEF Mints

\* Every step keeps the types, and read_message to one task at a time.
LEMMA TypeStep ==
    ASSUME TypeOK, OneReads, [Next]_vars
    PROVE  TypeOK' /\ OneReads'
<1>a. ASSUME NEW t \in Tasks, Running(t) PROVE t \in 1 .. started /\ \A o \in Tasks : reading[o] = None
  BY <1>a, Zenon DEF Running
<1>1. CASE UNCHANGED vars
  BY <1>1, Zenon DEF vars, TypeOK, OneReads
<1>2. ASSUME NEW t \in Tasks, CreateVmspace(t) PROVE TypeOK' /\ OneReads'
  BY <1>2 DEF CreateVmspace, TypeOK, OneReads, memVars
<1>3. ASSUME NEW t \in Tasks, NEW id, AllocVmspaceObject(t, id) PROVE TypeOK' /\ OneReads'
  BY <1>3 DEF AllocVmspaceObject, TypeOK, OneReads
<1>4. ASSUME NEW t \in Tasks, NEW id, SpawnVmspace(t, id) PROVE TypeOK' /\ OneReads'
  <2> DEFINE tid == started + 1
             v == Channel(chans + 2, 1, tid, PARENT_CHANNEL, All)
             w == Put(KernelOnly((chans + 2) - 1), PARENT_CHANNEL, Channel(chans + 2, 2, t, NextCptr(cspace[t]), All))
  <2>0. cspace' = [cspace EXCEPT ![t] = Mints(@, v), ![tid] = w]
    BY <1>4, Zenon DEF SpawnVmspace
  <2>1. /\ Running(t) /\ tid \in Tasks /\ started' = tid /\ UNCHANGED <<fresh, nextId, reading>>
        /\ maps' = [maps EXCEPT ![t] = @ \ vmspaces[t][id]]
        /\ vmspaces' = [vmspaces EXCEPT ![t] = Drop(@, id)]
    BY <1>4, Zenon DEF SpawnVmspace
  <2>2. DOMAIN w \subseteq 0 .. 1
    BY DEF Put, KernelOnly, KERNEL_CHANNEL, PARENT_CHANNEL
  <2>3. \E m \in Nat : DOMAIN Mints(cspace[t], v) \subseteq 0 .. m
    BY MintBounded, Zenon
  <2> HIDE DEF v, w, tid
  <2>4. ASSUME NEW u \in Tasks PROVE \E m \in Nat : DOMAIN cspace'[u] \subseteq 0 .. m
    <3>1. cspace'[u] = IF u = tid THEN w ELSE IF u = t THEN Mints(cspace[t], v) ELSE cspace[u]
      BY <2>0, <2>1, Zenon DEF TypeOK
    <3> QED
      BY <2>2, <2>3, <3>1, Zenon DEF TypeOK
  <2>5. OneReads'
    BY <1>a, <2>1, Zenon DEF OneReads
  <2> QED
    BY <2>0, <2>1, <2>4, <2>5, Zenon DEF TypeOK, tid
<1>5. ASSUME NEW t \in Tasks, NEW rights, AllocateSharedMemory(t, rights) PROVE TypeOK' /\ OneReads'
  <2> DEFINE v == SharedMemory(<<t, fresh[t]>>, fresh[t], rights \cup {"GRANT"})
  <2>1. /\ cspace' = [cspace EXCEPT ![t] = Mints(cspace[t], v)]
        /\ maps' = [maps EXCEPT ![t] = @ \cup {fresh[t]}]
        /\ fresh' = [fresh EXCEPT ![t] = @ + 1]
        /\ UNCHANGED <<started, vmspaces, nextId, reading>>
    BY <1>5, Zenon DEF AllocateSharedMemory, vmVars
  <2>2. \E m \in Nat : DOMAIN Mints(cspace[t], v) \subseteq 0 .. m
    BY MintBounded, Zenon
  <2> HIDE DEF v
  <2> QED
    BY <2>1, <2>2 DEF TypeOK, OneReads
<1>6. ASSUME NEW t \in Tasks, NEW a1, Delete(t, a1) PROVE TypeOK' /\ OneReads'
  <2>1. /\ cspace' = [cspace EXCEPT ![t] = Drop(cspace[t], DeleteCapability)]
        /\ DOMAIN maps' = DOMAIN maps
        /\ UNCHANGED <<started, fresh, vmspaces, nextId, reading>>
    BY <1>6, Zenon DEF Delete, vmVars, TypeOK
  <2>2. DOMAIN Drop(cspace[t], DeleteCapability) \subseteq DOMAIN cspace[t]
    BY Zenon DEF Drop
  <2> QED
    BY <2>1, <2>2, Zenon DEF TypeOK, OneReads
<1>7. ASSUME NEW t \in Tasks, NEW c, NEW len, ReadMessage(t, c, len) PROVE TypeOK' /\ OneReads'
  <2>1. /\ Running(t) /\ UNCHANGED <<started, cspace, maps, fresh, vmspaces, nextId>>
        /\ \E r : reading' = [reading EXCEPT ![t] = r]
    BY <1>7, Zenon DEF ReadMessage, memVars, vmVars
  <2> QED
    BY <1>a, <2>1, Zenon DEF TypeOK, OneReads
<1>8. ASSUME NEW t \in Tasks, NEW c, NEW cs, SendMessage(t, c, cs) PROVE TypeOK' /\ OneReads'
  BY <1>8, Zenon DEF SendMessage, memVars, vmVars, TypeOK, OneReads
<1>9. ASSUME NEW t \in Tasks, InstallNone(t) PROVE TypeOK' /\ OneReads'
  <2>1. /\ reading[t] # None /\ UNCHANGED <<started, cspace, maps, fresh, vmspaces, nextId>>
        /\ \E r : reading' = [reading EXCEPT ![t] = r]
    BY <1>9, Zenon DEF InstallNone, Installing, Taken, memVars, vmVars
  <2> QED
    BY <2>1, Zenon DEF TypeOK, OneReads
<1>10. ASSUME NEW t \in Tasks, InstallChannel(t) PROVE TypeOK' /\ OneReads'
  <2> DEFINE o == Cap(t).tid
             v == Channel(chans + 1, 2, o, NextCptr(cspace[o]), Cap(t).rights)
             w == Channel(chans + 1, 1, t, NextCptr(cspace[t]), Cap(t).rights)
  <2>0. cspace' = [cspace EXCEPT ![t] = Mints(@, v), ![o] = Mints(@, w)]
    BY <1>10, Zenon DEF InstallChannel
  <2>1. /\ reading[t] # None /\ o # t /\ UNCHANGED <<started, maps, fresh, vmspaces, nextId>>
        /\ \E r : reading' = [reading EXCEPT ![t] = r]
    BY <1>10, Zenon DEF InstallChannel, Installing, Taken, memVars, vmVars
  <2>2. \E m \in Nat : DOMAIN Mints(cspace[t], v) \subseteq 0 .. m
    BY MintBounded, Zenon
  <2>3. o \in Tasks => \E m \in Nat : DOMAIN Mints(cspace[o], w) \subseteq 0 .. m
    BY MintBounded, Zenon
  <2> HIDE DEF o, v, w
  <2>4. ASSUME NEW u \in Tasks PROVE \E m \in Nat : DOMAIN cspace'[u] \subseteq 0 .. m
    <3>1. cspace'[u] = IF u = o THEN Mints(cspace[o], w) ELSE IF u = t THEN Mints(cspace[t], v) ELSE cspace[u]
      BY <2>0, <2>1, Zenon DEF TypeOK
    <3> QED
      BY <2>2, <2>3, <3>1, Zenon DEF TypeOK
  <2> QED
    BY <2>0, <2>1, <2>4 DEF TypeOK, OneReads
<1>11. ASSUME NEW t \in Tasks, InstallMemory(t) PROVE TypeOK' /\ OneReads'
  <2> DEFINE v == SharedMemory(Cap(t).region, fresh[t], Cap(t).rights)
  <2>1. /\ reading[t] # None
        /\ cspace' = [cspace EXCEPT ![t] = Mints(cspace[t], v)]
        /\ maps' = [maps EXCEPT ![t] = @ \cup {fresh[t]}]
        /\ fresh' = [fresh EXCEPT ![t] = @ + 1]
        /\ UNCHANGED <<started, vmspaces, nextId>>
        /\ \E r : reading' = [reading EXCEPT ![t] = r]
    BY <1>11, Zenon DEF InstallMemory, Installing, Taken, vmVars
  <2>2. \E m \in Nat : DOMAIN Mints(cspace[t], v) \subseteq 0 .. m
    BY MintBounded, Zenon
  <2> HIDE DEF v
  <2> QED
    BY <2>1, <2>2 DEF TypeOK, OneReads
<1>12. ASSUME NEW t \in Tasks, ReadFinish(t) PROVE TypeOK' /\ OneReads'
  <2>1. /\ reading' = [reading EXCEPT ![t] = None]
        /\ UNCHANGED <<started, cspace, maps, fresh, vmspaces, nextId>>
    BY <1>12, Zenon DEF ReadFinish, memVars, vmVars
  <2> QED
    BY <2>1, Zenon DEF TypeOK, OneReads
<1> QED
  BY <1>1, <1>2, <1>3, <1>4, <1>5, <1>6, <1>7, <1>8, <1>9, <1>10, <1>11, <1>12, Zenon
     DEF Next, Syscalls, Steps

\* Task::load_init has the types, and no task in read_message.
LEMMA TypeInit == CapabilitiesAssumption /\ Init => TypeOK /\ OneReads
<1> SUFFICES ASSUME CapabilitiesAssumption, Init PROVE TypeOK /\ OneReads
  BY Zenon
<1>1. \A t \in Tasks : DOMAIN cspace[t] \subseteq 0 .. 0
  BY DEF Init, KernelOnly, KERNEL_CHANNEL
<1>2. started \in Tasks
  BY DEF Init, CapabilitiesAssumption, Tasks
<1>3. OneReads
  BY Zenon DEF Init, OneReads
<1> QED
  BY <1>1, <1>2, <1>3, Zenon DEF Init, TypeOK

\* read_message keeps the lock of its task while it asks for that of another, and
\* still no two tasks ever wait for each other there: the hart that all tasks
\* share takes no other task before read_message has returned.
THEOREM LocksInTurn ==
    ASSUME CapabilitiesAssumption PROVE Spec => []NeverTimesOut
<1>1. Init => TypeOK /\ OneReads
  BY TypeInit, Zenon
<1>2. TypeOK /\ OneReads /\ [Next]_vars => (TypeOK /\ OneReads)'
  BY TypeStep, Zenon
<1>3. TypeOK /\ OneReads => NeverTimesOut
  <2> SUFFICES ASSUME TypeOK, OneReads PROVE NeverTimesOut
    BY Zenon
  <2>1. \A t \in 1 .. started : t \in Tasks
    BY DEF TypeOK, CapabilitiesAssumption, Tasks
  <2> QED
    BY <2>1, Zenon DEF OneReads, NeverTimesOut, Installing
<1> QED
  BY <1>1, <1>2, <1>3, PTL DEF Spec

-----------------------------------------------------------------------------
(* Mappings *)

Memories(space) == {c \in DOMAIN space : space[c].kind = "memory"}

\* How one task's capability space, mappings, next address, objects and next
\* object number fit together.
Placed(space, m, next, objects, id) ==
    /\ \A a \in m : a \in Nat /\ a < next
    /\ \A a \in m : \/ \E c \in Memories(space) : space[c].at = a
                    \/ \E o \in DOMAIN objects : a \in objects[o]
    /\ \A c \in Memories(space) :
           /\ space[c].at \in m
           /\ \A d \in Memories(space) \ {c} : space[d].at # space[c].at
           /\ \A o \in DOMAIN objects : space[c].at \notin objects[o]
    /\ \A o \in DOMAIN objects : o \in Nat /\ o < id /\ objects[o] \subseteq m
    /\ \A o, p \in DOMAIN objects : o # p => objects[o] \cap objects[p] = {}

\* So it is for every task; one that is not started has no memory yet.
AllPlaced ==
    \A t \in Tasks :
        /\ Placed(cspace[t], maps[t], fresh[t], vmspaces[t], nextId[t])
        /\ t \notin 1 .. started => Memories(cspace[t]) = {}

\* The capability of mint for a mapping at the next address.
LEMMA MintMemory ==
    ASSUME NEW space, NEW m, NEW next \in Nat, NEW objects, NEW id,
           Placed(space, m, next, objects, id),
           NEW c, c \notin DOMAIN space, NEW region, NEW rights
    PROVE  Placed(Put(space, c, SharedMemory(region, next, rights)),
                  m \cup {next}, next + 1, objects, id)
<1> DEFINE new == Put(space, c, SharedMemory(region, next, rights))
<1>1. /\ Memories(new) = Memories(space) \cup {c} /\ c \notin Memories(space)
      /\ new[c].at = next /\ \A d \in Memories(space) : new[d] = space[d]
  BY Zenon DEF Memories, Put, SharedMemory
<1> HIDE DEF new
<1>2. next \notin m
  BY DEF Placed
<1> QED
  BY <1>1, <1>2, SMTT(30) DEF Placed, new

\* Any other capability, under a new number.
LEMMA MintOther ==
    ASSUME NEW space, NEW m, NEW next, NEW objects, NEW id,
           Placed(space, m, next, objects, id),
           NEW c, c \notin DOMAIN space, NEW cap, cap.kind # "memory"
    PROVE  /\ Placed(Put(space, c, cap), m, next, objects, id)
           /\ Memories(Put(space, c, cap)) = Memories(space)
<1> DEFINE new == Put(space, c, cap)
<1>1. Memories(new) = Memories(space) /\ \A d \in Memories(space) : new[d] = space[d]
  BY Zenon DEF Memories, Put
<1> HIDE DEF new
<1> QED
  BY <1>1, Zenon DEF Placed, new

\* delete: the capability, and the mapping if it stands for one.
LEMMA DropPlaced ==
    ASSUME NEW space, NEW m, NEW next, NEW objects, NEW id,
           Placed(space, m, next, objects, id), NEW c
    PROVE  /\ Placed(Drop(space, c),
                     IF c \in DOMAIN space /\ space[c].kind = "memory" THEN m \ {space[c].at} ELSE m,
                     next, objects, id)
           /\ Memories(Drop(space, c)) = Memories(space) \ {c}
<1> DEFINE new == Drop(space, c)
<1>1. /\ Memories(new) = Memories(space) \ {c}
      /\ \A d \in Memories(new) : new[d] = space[d]
  BY Zenon DEF Memories, Drop
<1>2. c \in DOMAIN space /\ space[c].kind = "memory" <=> c \in Memories(space)
  BY Zenon DEF Memories
<1> HIDE DEF new
<1>3. CASE c \in Memories(space)
  <2>1. Placed(new, m \ {space[c].at}, next, objects, id)
    BY <1>1, <1>3 DEF Placed
  <2> QED
    BY <1>1, <1>2, <1>3, <2>1, Zenon DEF new
<1>4. CASE c \notin Memories(space)
  <2>1. Placed(new, m, next, objects, id)
    BY <1>1, <1>4, Zenon DEF Placed
  <2> QED
    BY <1>1, <1>2, <1>4, <2>1, Zenon DEF new
<1> QED
  BY <1>3, <1>4, Zenon

\* create_vmspace: an object of its own number, with nothing in it.
LEMMA NewObject ==
    ASSUME NEW space, NEW m, NEW next, NEW objects, NEW id \in Nat,
           Placed(space, m, next, objects, id)
    PROVE  Placed(space, m, next, Put(objects, id, {}), id + 1)
<1> DEFINE new == Put(objects, id, {})
<1>1. /\ DOMAIN new = DOMAIN objects \cup {id} /\ id \notin DOMAIN objects
      /\ new[id] = {} /\ \A o \in DOMAIN objects : new[o] = objects[o]
  BY DEF Placed, Put
<1> HIDE DEF new
<1> QED
  BY <1>1, SMTT(30) DEF Placed, new

\* alloc_vmspace_object: the object has the mapping at the next address.
LEMMA GrowObject ==
    ASSUME NEW space, NEW m, NEW next \in Nat, NEW objects, NEW id,
           Placed(space, m, next, objects, id), NEW o \in DOMAIN objects
    PROVE  Placed(space, m \cup {next}, next + 1, [objects EXCEPT ![o] = @ \cup {next}], id)
<1> DEFINE new == [objects EXCEPT ![o] = @ \cup {next}]
<1>1. /\ DOMAIN new = DOMAIN objects /\ new[o] = objects[o] \cup {next}
      /\ \A p \in DOMAIN objects \ {o} : new[p] = objects[p]
  BY Zenon
<1> HIDE DEF new
<1>2. next \notin m
  BY DEF Placed
<1> QED
  BY <1>1, <1>2, SMTT(30) DEF Placed, new

\* spawn_vmspace: the object is gone, and so are its mappings.
LEMMA DropObject ==
    ASSUME NEW space, NEW m, NEW next, NEW objects, NEW id,
           Placed(space, m, next, objects, id), NEW o \in DOMAIN objects
    PROVE  Placed(space, m \ objects[o], next, Drop(objects, o), id)
<1> DEFINE new == Drop(objects, o)
<1>1. /\ DOMAIN new = DOMAIN objects \ {o}
      /\ \A p \in DOMAIN new : new[p] = objects[p]
  BY Zenon DEF Drop
<1> HIDE DEF new
<1> QED
  BY <1>1, SMTT(30) DEF Placed, new

\* Every step keeps the mappings accounted for, task by task.
LEMMA PlacedStep ==
    ASSUME TypeOK, OneReads, AllPlaced, [Next]_vars
    PROVE  AllPlaced'
<1> DEFINE Fits(u) == Placed(cspace[u], maps[u], fresh[u], vmspaces[u], nextId[u])
           Same(u) == /\ cspace'[u] = cspace[u] /\ maps'[u] = maps[u] /\ fresh'[u] = fresh[u]
                      /\ vmspaces'[u] = vmspaces[u] /\ nextId'[u] = nextId[u]
           Empty(u) == u \notin 1 .. started => Memories(cspace[u]) = {}
<1>a. \A u \in Tasks : Fits(u) /\ Empty(u) /\ fresh[u] \in Nat /\ nextId[u] \in Nat
  BY Zenon DEF AllPlaced, TypeOK
<1>b. ASSUME NEW u \in Tasks, Same(u), UNCHANGED started PROVE Fits(u)' /\ Empty(u)'
  BY <1>a, <1>b, Zenon
<1>c. ASSUME NEW t \in Tasks, UNCHANGED started, \A u \in Tasks \ {t} : Same(u), Fits(t)', Empty(t)'
      PROVE  AllPlaced'
  <2>1. ASSUME NEW u \in Tasks PROVE Fits(u)' /\ Empty(u)'
    BY <1>b, <1>c, Zenon
  <2> QED
    BY <2>1, Zenon DEF AllPlaced
<1>d. ASSUME NEW t \in Tasks, reading[t] # None \/ Running(t) PROVE t \in 1 .. started
  BY <1>d, Zenon DEF OneReads, Running
<1>e. ASSUME UNCHANGED <<started, cspace, memVars, vmVars>> PROVE AllPlaced'
  BY <1>e, Zenon DEF AllPlaced, memVars, vmVars
<1>1. CASE UNCHANGED vars
  BY <1>1, <1>e, Zenon DEF vars, memVars, vmVars
<1>2. ASSUME NEW t \in Tasks, CreateVmspace(t) PROVE AllPlaced'
  <2>1. /\ vmspaces' = [vmspaces EXCEPT ![t] = Put(@, nextId[t], {})]
        /\ nextId' = [nextId EXCEPT ![t] = @ + 1]
        /\ UNCHANGED <<started, cspace, maps, fresh>>
    BY <1>2, Zenon DEF CreateVmspace, memVars
  <2>2. vmspaces'[t] = Put(vmspaces[t], nextId[t], {}) /\ nextId'[t] = nextId[t] + 1
    BY <2>1, Zenon DEF TypeOK
  <2>3. Fits(t)'
    BY <1>a, <2>1, <2>2, NewObject
  <2> QED
    BY <1>a, <1>c, <2>1, <2>3, Zenon DEF TypeOK
<1>3. ASSUME NEW t \in Tasks, NEW id, AllocVmspaceObject(t, id) PROVE AllPlaced'
  <2>1. /\ id \in DOMAIN vmspaces[t]
        /\ maps' = [maps EXCEPT ![t] = @ \cup {fresh[t]}]
        /\ fresh' = [fresh EXCEPT ![t] = @ + 1]
        /\ vmspaces' = [vmspaces EXCEPT ![t][id] = @ \cup {fresh[t]}]
        /\ UNCHANGED <<started, cspace, nextId>>
    BY <1>3, Zenon DEF AllocVmspaceObject
  <2>2. /\ vmspaces'[t] = [vmspaces[t] EXCEPT ![id] = @ \cup {fresh[t]}]
        /\ maps'[t] = maps[t] \cup {fresh[t]} /\ fresh'[t] = fresh[t] + 1
    BY <2>1, Zenon DEF TypeOK
  <2>3. Fits(t)'
    BY <1>a, <2>1, <2>2, GrowObject
  <2> QED
    BY <1>a, <1>c, <2>1, <2>3, Zenon DEF TypeOK
<1>4. ASSUME NEW t \in Tasks, NEW id, SpawnVmspace(t, id) PROVE AllPlaced'
  <2> DEFINE tid == started + 1
             v == Channel(chans + 2, 1, tid, PARENT_CHANNEL, All)
             w == Put(KernelOnly((chans + 2) - 1), PARENT_CHANNEL, Channel(chans + 2, 2, t, NextCptr(cspace[t]), All))
  <2>1. cspace' = [cspace EXCEPT ![t] = Mints(@, v), ![tid] = w]
    BY <1>4, Zenon DEF SpawnVmspace
  <2>2. /\ Running(t) /\ id \in DOMAIN vmspaces[t] /\ tid \in Tasks /\ started' = tid
        /\ maps' = [maps EXCEPT ![t] = @ \ vmspaces[t][id]]
        /\ vmspaces' = [vmspaces EXCEPT ![t] = Drop(@, id)]
        /\ UNCHANGED <<fresh, nextId>>
    BY <1>4, Zenon DEF SpawnVmspace
  <2>3. t \in 1 .. started /\ t # tid /\ tid \notin 1 .. started
    BY <1>d, <2>2 DEF TypeOK, Tasks
  <2>4. Memories(w) = {} /\ v.kind # "memory"
    BY Zenon DEF Memories, Put, KernelOnly, Channel
  <2>5. NextCptr(cspace[t]) \notin DOMAIN cspace[t]
    BY MintBounded, Zenon
  <2> HIDE DEF v, w
  <2>6. /\ cspace'[tid] = w
        /\ cspace'[t] = Put(cspace[t], NextCptr(cspace[t]), v)
        /\ \A u \in Tasks \ {t, tid} : cspace'[u] = cspace[u]
        /\ maps'[t] = maps[t] \ vmspaces[t][id] /\ vmspaces'[t] = Drop(vmspaces[t], id)
        /\ \A u \in Tasks \ {t} : maps'[u] = maps[u] /\ vmspaces'[u] = vmspaces[u]
    BY <2>1, <2>2, <2>3, Zenon DEF TypeOK, Mints
  <2>7. Fits(t)'
    <3>1. Placed(cspace[t], maps[t] \ vmspaces[t][id], fresh[t], Drop(vmspaces[t], id), nextId[t])
      BY <1>a, <2>2, DropObject, Zenon
    <3>2. Placed(cspace'[t], maps[t] \ vmspaces[t][id], fresh[t], Drop(vmspaces[t], id), nextId[t])
      BY <2>4, <2>5, <2>6, <3>1, MintOther
    <3> QED
      BY <2>2, <2>6, <3>2, Zenon
  <2>8. ASSUME NEW u \in Tasks, u = tid PROVE Fits(u)' /\ Empty(u)'
    <3>1. Memories(cspace[u]) = {} /\ Fits(u)
      BY <1>a, <2>2, <2>3, <2>8, Zenon
    <3>2. Placed(w, maps[u], fresh[u], vmspaces[u], nextId[u])
      BY <2>4, <3>1, Zenon DEF Placed
    <3> QED
      BY <2>2, <2>3, <2>4, <2>6, <2>8, <3>2, Zenon
  <2>9. ASSUME NEW u \in Tasks, u \notin {t, tid} PROVE Fits(u)' /\ Empty(u)'
    <3>1. Same(u)
      BY <2>2, <2>6, <2>9, Zenon
    <3>2. u \notin 1 .. tid => u \notin 1 .. started
      BY DEF TypeOK, Tasks
    <3> QED
      BY <1>a, <2>2, <3>1, <3>2, Zenon
  <2>10. t \in 1 .. tid
    BY <2>3 DEF TypeOK, Tasks
  <2>11. \A u \in Tasks : (Fits(u) /\ Empty(u))'
    <3> HIDE DEF Fits
    <3> QED
      BY <2>2, <2>7, <2>8, <2>9, <2>10, Zenon
  <2> QED
    BY <2>11, Zenon DEF AllPlaced
<1>5. ASSUME NEW t \in Tasks, NEW rights, AllocateSharedMemory(t, rights) PROVE AllPlaced'
  <2> DEFINE v == SharedMemory(<<t, fresh[t]>>, fresh[t], rights \cup {"GRANT"})
  <2>1. /\ Running(t)
        /\ cspace' = [cspace EXCEPT ![t] = Mints(@, v)]
        /\ maps' = [maps EXCEPT ![t] = @ \cup {fresh[t]}]
        /\ fresh' = [fresh EXCEPT ![t] = @ + 1]
        /\ UNCHANGED <<started, vmspaces, nextId>>
    BY <1>5, Zenon DEF AllocateSharedMemory, vmVars
  <2>2. NextCptr(cspace[t]) \notin DOMAIN cspace[t]
    BY MintBounded, Zenon
  <2>3. Placed(Put(cspace[t], NextCptr(cspace[t]), v), maps[t] \cup {fresh[t]}, fresh[t] + 1, vmspaces[t], nextId[t])
    BY <1>a, <2>2, MintMemory, Zenon
  <2> HIDE DEF v
  <2>4. /\ cspace'[t] = Put(cspace[t], NextCptr(cspace[t]), v)
        /\ maps'[t] = maps[t] \cup {fresh[t]} /\ fresh'[t] = fresh[t] + 1
    BY <2>1, Zenon DEF TypeOK, Mints
  <2>5. Fits(t)'
    BY <2>1, <2>3, <2>4, Zenon
  <2> QED
    BY <1>c, <1>d, <2>1, <2>5, Zenon DEF TypeOK
<1>6. ASSUME NEW t \in Tasks, NEW a1, Delete(t, a1) PROVE AllPlaced'
  <2> DEFINE k == DeleteCapability
             left == IF k \in DOMAIN cspace[t] /\ cspace[t][k].kind = "memory"
                     THEN maps[t] \ {cspace[t][k].at} ELSE maps[t]
  <2>1. /\ Running(t)
        /\ cspace' = [cspace EXCEPT ![t] = Drop(@, k)]
        /\ UNCHANGED <<started, fresh, vmspaces, nextId>>
    BY <1>6, Zenon DEF Delete, vmVars
  <2>2. maps'[t] = left /\ \A u \in Tasks \ {t} : maps'[u] = maps[u]
    BY <1>6, Zenon DEF Delete, TypeOK
  <2>3. Placed(Drop(cspace[t], k), left, fresh[t], vmspaces[t], nextId[t])
    BY <1>a, DropPlaced, Zenon
  <2> HIDE DEF left
  <2>4. Fits(t)'
    BY <2>1, <2>2, <2>3, Zenon DEF TypeOK
  <2> QED
    BY <1>c, <1>d, <2>1, <2>2, <2>4, Zenon DEF TypeOK
<1>7. ASSUME NEW t \in Tasks, NEW c, NEW len, ReadMessage(t, c, len) PROVE AllPlaced'
  BY <1>7, <1>e, Zenon DEF ReadMessage
<1>8. ASSUME NEW t \in Tasks, NEW c, NEW cs, SendMessage(t, c, cs) PROVE AllPlaced'
  BY <1>8, <1>e, Zenon DEF SendMessage
<1>9. ASSUME NEW t \in Tasks, InstallNone(t) PROVE AllPlaced'
  BY <1>9, <1>e, Zenon DEF InstallNone
<1>10. ASSUME NEW t \in Tasks, InstallChannel(t) PROVE AllPlaced'
  <2> DEFINE o == Cap(t).tid
             v == Channel(chans + 1, 2, o, NextCptr(cspace[o]), Cap(t).rights)
             w == Channel(chans + 1, 1, t, NextCptr(cspace[t]), Cap(t).rights)
  <2>1. /\ o # t /\ UNCHANGED <<started, maps, fresh, vmspaces, nextId>>
        /\ cspace' = [cspace EXCEPT ![t] = Mints(@, v), ![o] = Mints(@, w)]
    BY <1>10, Zenon DEF InstallChannel, memVars, vmVars
  <2>2. v.kind # "memory" /\ w.kind # "memory"
    BY Zenon DEF Channel
  <2> HIDE DEF v, w, o
  <2>3. ASSUME NEW u \in Tasks PROVE Fits(u)' /\ Empty(u)'
    <3>1. \/ cspace'[u] = cspace[u]
          \/ \E cap : cap.kind # "memory" /\ cspace'[u] = Put(cspace[u], NextCptr(cspace[u]), cap)
      <4>1. CASE u = t
        BY <2>1, <2>2, <4>1, Zenon DEF TypeOK, Mints
      <4>2. CASE u = o /\ u # t
        BY <2>1, <2>2, <4>2, Zenon DEF TypeOK, Mints
      <4>3. CASE u \notin {t, o}
        BY <2>1, <4>3, Zenon DEF TypeOK
      <4> QED
        BY <4>1, <4>2, <4>3, Zenon
    <3>2. NextCptr(cspace[u]) \notin DOMAIN cspace[u]
      BY MintBounded, Zenon
    <3>3. /\ Placed(cspace'[u], maps[u], fresh[u], vmspaces[u], nextId[u])
          /\ Memories(cspace'[u]) = Memories(cspace[u])
      BY <1>a, <3>1, <3>2, MintOther
    <3> QED
      BY <1>a, <2>1, <3>3, Zenon
  <2> QED
    BY <2>3, Zenon DEF AllPlaced
<1>11. ASSUME NEW t \in Tasks, InstallMemory(t) PROVE AllPlaced'
  <2> DEFINE v == SharedMemory(Cap(t).region, fresh[t], Cap(t).rights)
  <2>1. /\ reading[t] # None
        /\ cspace' = [cspace EXCEPT ![t] = Mints(@, v)]
        /\ maps' = [maps EXCEPT ![t] = @ \cup {fresh[t]}]
        /\ fresh' = [fresh EXCEPT ![t] = @ + 1]
        /\ UNCHANGED <<started, vmspaces, nextId>>
    BY <1>11, Zenon DEF InstallMemory, Installing, vmVars
  <2>2. NextCptr(cspace[t]) \notin DOMAIN cspace[t]
    BY MintBounded, Zenon
  <2>3. Placed(Put(cspace[t], NextCptr(cspace[t]), v), maps[t] \cup {fresh[t]}, fresh[t] + 1, vmspaces[t], nextId[t])
    BY <1>a, <2>2, MintMemory, Zenon
  <2> HIDE DEF v
  <2>4. /\ cspace'[t] = Put(cspace[t], NextCptr(cspace[t]), v)
        /\ maps'[t] = maps[t] \cup {fresh[t]} /\ fresh'[t] = fresh[t] + 1
    BY <2>1, Zenon DEF TypeOK, Mints
  <2>5. Fits(t)'
    BY <2>1, <2>3, <2>4, Zenon
  <2> QED
    BY <1>c, <1>d, <2>1, <2>5, Zenon DEF TypeOK
<1>12. ASSUME NEW t \in Tasks, ReadFinish(t) PROVE AllPlaced'
  BY <1>12, <1>e, Zenon DEF ReadFinish
<1> QED
  BY <1>1, <1>2, <1>3, <1>4, <1>5, <1>6, <1>7, <1>8, <1>9, <1>10, <1>11, <1>12, Zenon
     DEF Next, Syscalls, Steps

\* Whatever its tasks send, receive, spawn and delete, and whichever number delete
\* takes for a capability: allocate_shared_memory, read_message, delete and
\* spawn_vmspace leave every memory capability with a mapping of its own, and no
\* mapping without a capability or an object.
THEOREM EveryMappingAccountedFor ==
    ASSUME CapabilitiesAssumption PROVE Spec => []MappingsAccountedFor
<1> DEFINE MapInv == TypeOK /\ OneReads /\ AllPlaced
<1>1. Init => MapInv
  <2> SUFFICES ASSUME Init PROVE MapInv
    BY Zenon
  <2>1. \A t \in Tasks : Memories(cspace[t]) = {}
    BY DEF Init, Memories, KernelOnly, Channel
  <2>2. \A t \in Tasks : maps[t] = {} /\ DOMAIN vmspaces[t] = {}
    BY DEF Init
  <2>3. AllPlaced
    BY <2>1, <2>2, Zenon DEF AllPlaced, Placed
  <2> QED
    BY <2>3, TypeInit, Zenon
<1>2. MapInv /\ [Next]_vars => MapInv'
  BY TypeStep, PlacedStep, Zenon
<1>3. MapInv => MappingsAccountedFor
  <2> SUFFICES ASSUME MapInv, NEW t \in 1 .. started
               PROVE  /\ maps[t] = {cspace[t][c].at : c \in MemoryCaps(t)}
                                     \cup UNION {vmspaces[t][id] : id \in DOMAIN vmspaces[t]}
                      /\ \A c \in MemoryCaps(t) :
                             /\ cspace[t][c].at \in maps[t]
                             /\ \A d \in MemoryCaps(t) \ {c} : cspace[t][d].at # cspace[t][c].at
                             /\ \A id \in DOMAIN vmspaces[t] : cspace[t][c].at \notin vmspaces[t][id]
    BY Zenon DEF MappingsAccountedFor, OwnMapping, NothingLeftMapped
  <2>1. t \in Tasks
    BY DEF TypeOK, CapabilitiesAssumption, Tasks
  <2>2. Placed(cspace[t], maps[t], fresh[t], vmspaces[t], nextId[t])
    BY <2>1, Zenon DEF AllPlaced
  <2>3. MemoryCaps(t) = Memories(cspace[t])
    BY Zenon DEF MemoryCaps, Memories
  <2> QED
    BY <2>2, <2>3, SMTT(30) DEF Placed
<1> QED
  BY <1>1, <1>2, <1>3, PTL DEF Spec

-----------------------------------------------------------------------------
(* The ends of a channel *)

Ends == (1 .. MaxChans) \X {1, 2}

\* The capabilities a message can carry when n tasks are started, and the end of a
\* kernel channel, which cannot be granted.
Carried(n) ==
    [kind : {"channel"}, chan : 1 .. MaxChans, side : {1, 2}, tid : 1 .. n, cptr : Nat,
     rights : SUBSET All]
        \cup [kind : {"memory"}, region : Tasks \X Nat, at : Nat, rights : SUBSET All]
KernelEnds ==
    [kind : {"channel"}, chan : 1 .. MaxChans, side : {2}, tid : {NoTask}, cptr : {NoCptr},
     rights : {{"READ"}}]

\* What is held and what is on its way leads to tasks that are started, and
\* read_message has the channels it will need.
CapsOK ==
    /\ chans \in Nat
    /\ \A t \in Tasks : \A c \in DOMAIN cspace[t] :
           c \in Nat /\ cspace[t][c] \in Carried(started) \cup KernelEnds
    /\ \A t \in Tasks \ (1 .. started) : DOMAIN cspace[t] = {}
    /\ queues \in [Ends -> Seq(Seq(Carried(started)))]
    /\ \A t \in Tasks : reading[t] # None =>
           /\ reading[t] \in [from : Ends, caps : Seq(Carried(started)), installed : Nat,
                              left : Nat, writes : Nat]
           /\ reading[t].left <= Len(reading[t].caps)
           /\ chans + reading[t].left <= MaxChans

AllAnswered == \A t \in Tasks : \A c \in DOMAIN cspace[t] : Answered(t, c)

\* A sequence over a set is one over a larger set.
LEMMA SeqGrows ==
    ASSUME NEW S, NEW T, S \subseteq T, NEW s \in Seq(S)
    PROVE  s \in Seq(T)
<1>1. Len(s) \in Nat /\ s = [i \in 1 .. Len(s) |-> s[i]] /\ \A i \in 1 .. Len(s) : s[i] \in T
  OBVIOUS
<1> QED
  BY <1>1

\* What can be carried stays so when a task is started.
LEMMA CarriedGrows ==
    ASSUME NEW n \in Nat
    PROVE  /\ Carried(n) \subseteq Carried(n + 1)
           /\ Seq(Carried(n)) \subseteq Seq(Carried(n + 1))
           /\ Seq(Seq(Carried(n))) \subseteq Seq(Seq(Carried(n + 1)))
<1>1. Carried(n) \subseteq Carried(n + 1)
  <2> SUFFICES ASSUME NEW c \in Carried(n) PROVE c \in Carried(n + 1)
    BY Zenon
  <2>1. 1 .. n \subseteq 1 .. n + 1
    OBVIOUS
  <2> QED
    BY <2>1, Zenon DEF Carried
<1>2. Seq(Carried(n)) \subseteq Seq(Carried(n + 1))
  BY <1>1, SeqGrows, Zenon
<1> QED
  BY <1>1, <1>2, SeqGrows, Zenon

\* The two kinds of capability the kernel makes for tasks.
LEMMA MadeCarried ==
    /\ \A n : \A ch \in 1 .. MaxChans, side \in {1, 2}, tid \in 1 .. n, cptr \in Nat, rights \in SUBSET All :
           Channel(ch, side, tid, cptr, rights) \in Carried(n)
    /\ \A n : \A region \in Tasks \X Nat, at \in Nat, rights \in SUBSET All :
           SharedMemory(region, at, rights) \in Carried(n)
    /\ \A ch \in 1 .. MaxChans : Channel(ch, 2, NoTask, NoCptr, {"READ"}) \in KernelEnds
BY Zenon DEF Channel, SharedMemory, Carried, KernelEnds

\* What read_message installs next.
LEMMA CapCarried ==
    ASSUME CapabilitiesAssumption, TypeOK, CapsOK, NEW t \in Tasks, Installing(t)
    PROVE  /\ Cap(t) \in Carried(started) /\ chans + 1 <= MaxChans
           /\ Tail(reading[t].caps) \in Seq(Carried(started))
           /\ Len(Tail(reading[t].caps)) = Len(reading[t].caps) - 1
<1>1. /\ reading[t].caps \in Seq(Carried(started)) /\ reading[t].left \in Nat
      /\ reading[t].left > 0 /\ reading[t].left <= Len(reading[t].caps)
      /\ chans + reading[t].left <= MaxChans /\ chans \in Nat
  BY Zenon DEF CapsOK, Installing
<1>2. reading[t].caps # <<>> /\ Len(reading[t].caps) \in Nat
  BY <1>1
<1> DEFINE s == reading[t].caps
<1> HIDE DEF s
<1>3. Head(s) \in Carried(started) /\ Tail(s) \in Seq(Carried(started)) /\ Len(Tail(s)) = Len(s) - 1
  BY <1>1, <1>2 DEF s
<1> QED
  BY <1>1, <1>3 DEF Cap, s, CapabilitiesAssumption

\* read_message goes on to the next capability.
LEMMA ReadTakes ==
    ASSUME NEW S, NEW r \in [from : Ends, caps : S, installed : Nat, left : Nat, writes : Nat],
           NEW caps \in S, NEW left \in Nat, NEW installed \in Nat
    PROVE  LET new == [r EXCEPT !.caps = caps, !.left = left, !.installed = installed]
           IN  /\ new \in [from : Ends, caps : S, installed : Nat, left : Nat, writes : Nat]
               /\ new.left = left /\ new.caps = caps
BY Zenon

\* The smaller of two numbers.
LEMMA MinOfTwo ==
    ASSUME NEW a \in Nat, NEW b \in Nat
    PROVE  Min({a, b}) \in Nat /\ Min({a, b}) <= b
<1>1. \E x \in {a, b} : \A y \in {a, b} : x <= y
  OBVIOUS
<1>2. Min({a, b}) \in {a, b} /\ \A y \in {a, b} : Min({a, b}) <= y
  BY <1>1, Zenon DEF Min
<1> QED
  BY <1>2, Zenon

\* Every step keeps what is held, sent and received so.
LEMMA CapsStep ==
    ASSUME CapabilitiesAssumption, TypeOK, OneReads, CapsOK, [Next]_vars
    PROVE  CapsOK'
<1> USE DEF CapabilitiesAssumption
<1> DEFINE Holds(u) == \A c \in DOMAIN cspace[u] :
                           c \in Nat /\ cspace[u][c] \in Carried(started) \cup KernelEnds
           Unborn(u) == u \notin 1 .. started => DOMAIN cspace[u] = {}
           Reads(u) == reading[u] # None =>
               /\ reading[u] \in [from : Ends, caps : Seq(Carried(started)), installed : Nat,
                                  left : Nat, writes : Nat]
               /\ reading[u].left <= Len(reading[u].caps)
               /\ chans + reading[u].left <= MaxChans
           Sent == queues \in [Ends -> Seq(Seq(Carried(started)))]
<1>a. Sent /\ chans \in Nat /\ \A u \in Tasks : Holds(u) /\ Unborn(u) /\ Reads(u)
  BY Zenon DEF CapsOK
<1>b. ASSUME Sent', chans' \in Nat, \A u \in Tasks : (Holds(u) /\ Unborn(u) /\ Reads(u))'
      PROVE  CapsOK'
  BY <1>b, Zenon DEF CapsOK
<1>c. ASSUME UNCHANGED <<started, cspace, chans, queues, reading>> PROVE CapsOK'
  BY <1>c, Zenon DEF CapsOK
<1>d. ASSUME NEW u \in Tasks, UNCHANGED started, cspace'[u] = cspace[u] PROVE (Holds(u) /\ Unborn(u))'
  BY <1>a, <1>d, Zenon
<1>e. ASSUME NEW t \in Tasks, Running(t) PROVE t \in 1 .. started /\ \A o \in Tasks : reading[o] = None
  BY <1>e, Zenon DEF Running
<1>f. ASSUME NEW u \in Tasks, NEW cap \in Carried(started) \cup KernelEnds, u \in 1 .. started,
             UNCHANGED started, cspace'[u] = Mints(cspace[u], cap)
      PROVE  (Holds(u) /\ Unborn(u))'
  <2>1. NextCptr(cspace[u]) \in Nat
    BY MintBounded, Zenon
  <2> QED
    BY <1>a, <1>f, <2>1, Zenon DEF Mints, Put
<1>1. CASE UNCHANGED vars
  BY <1>1, <1>c, Zenon DEF vars
<1>2. ASSUME NEW t \in Tasks, CreateVmspace(t) PROVE CapsOK'
  BY <1>2, <1>c, Zenon DEF CreateVmspace
<1>3. ASSUME NEW t \in Tasks, NEW id, AllocVmspaceObject(t, id) PROVE CapsOK'
  BY <1>3, <1>c, Zenon DEF AllocVmspaceObject
<1>4. ASSUME NEW t \in Tasks, NEW id, SpawnVmspace(t, id) PROVE CapsOK'
  <2> DEFINE tid == started + 1
             v == Channel(chans + 2, 1, tid, PARENT_CHANNEL, All)
             x == Channel(chans + 2, 2, t, NextCptr(cspace[t]), All)
             w == Put(KernelOnly((chans + 2) - 1), PARENT_CHANNEL, x)
  <2>1. cspace' = [cspace EXCEPT ![t] = Mints(@, v), ![tid] = w]
    BY <1>4, Zenon DEF SpawnVmspace
  <2>2. /\ Running(t) /\ tid \in Tasks /\ chans + 2 <= MaxChans
        /\ started' = tid /\ chans' = chans + 2 /\ UNCHANGED <<queues, reading>>
    BY <1>4, Zenon DEF SpawnVmspace
  <2>3. started \in Nat /\ t \in 1 .. started /\ t # tid /\ tid \notin 1 .. started
    BY <1>e, <2>2 DEF TypeOK, Tasks
  <2>4. NextCptr(cspace[t]) \in Nat
    BY MintBounded, Zenon
  <2>5. v \in Carried(tid) /\ x \in Carried(tid)
    <3>1. chans + 2 \in 1 .. MaxChans /\ tid \in 1 .. tid /\ t \in 1 .. tid /\ PARENT_CHANNEL \in Nat
      BY <1>a, <2>2, <2>3 DEF PARENT_CHANNEL
    <3> HIDE DEF tid
    <3> QED
      BY <2>4, <3>1, MadeCarried, Zenon
  <2>6. DOMAIN w = {0, 1} /\ w[0] \in KernelEnds /\ w[1] = x
    <3>1. (chans + 2) - 1 \in 1 .. MaxChans
      BY <1>a, <2>2
    <3> HIDE DEF x
    <3>2. /\ DOMAIN w = {0, 1} /\ w[0] = Channel((chans + 2) - 1, 2, NoTask, NoCptr, {"READ"})
          /\ w[1] = x
      BY DEF Put, KernelOnly, KERNEL_CHANNEL, PARENT_CHANNEL
    <3> QED
      BY <3>1, <3>2, MadeCarried, ZenonT(30)
  <2>7. Carried(started) \subseteq Carried(tid) /\ Seq(Seq(Carried(started))) \subseteq Seq(Seq(Carried(tid)))
    BY <2>3, CarriedGrows, Zenon
  <2> HIDE DEF v, w, x
  <2>8. Sent'
    BY <1>a, <2>2, <2>7, Zenon
  <2>9. ASSUME NEW u \in Tasks PROVE (Holds(u) /\ Unborn(u) /\ Reads(u))'
    <3>1. cspace'[u] = IF u = tid THEN w ELSE IF u = t THEN Mints(cspace[t], v) ELSE cspace[u]
      BY <2>1, <2>2, Zenon DEF TypeOK
    <3>2. CASE u = tid
      <4>1. \A c \in DOMAIN w : c \in Nat /\ w[c] \in Carried(tid) \cup KernelEnds
        BY <2>5, <2>6
      <4>2. u \in 1 .. tid
        BY <2>3, <3>2
      <4> QED
        BY <1>e, <2>2, <3>1, <3>2, <4>1, <4>2, Zenon
    <3>3. CASE u = t /\ u # tid
      <4>1. \A c \in DOMAIN Mints(cspace[t], v) :
                c \in Nat /\ Mints(cspace[t], v)[c] \in Carried(tid) \cup KernelEnds
        BY <1>a, <2>4, <2>5, <2>7, Zenon DEF Mints, Put
      <4>2. u \in 1 .. tid
        BY <2>3, <3>3
      <4> QED
        BY <1>e, <2>2, <3>1, <3>3, <4>1, <4>2, Zenon
    <3>4. CASE u \notin {t, tid}
      <4>1. \A c \in DOMAIN cspace[u] : c \in Nat /\ cspace[u][c] \in Carried(tid) \cup KernelEnds
        BY <1>a, <2>7, Zenon
      <4>2. u \notin 1 .. tid => u \notin 1 .. started
        BY <2>3
      <4> QED
        BY <1>a, <1>e, <2>2, <3>1, <3>4, <4>1, <4>2, Zenon
    <3> QED
      BY <3>2, <3>3, <3>4, Zenon
  <2> QED
    BY <1>a, <1>b, <2>2, <2>8, <2>9
<1>5. ASSUME NEW t \in Tasks, NEW rights \in MemoryRights, AllocateSharedMemory(t, rights) PROVE CapsOK'
  <2> DEFINE v == SharedMemory(<<t, fresh[t]>>, fresh[t], rights \cup {"GRANT"})
  <2>1. /\ Running(t) /\ cspace' = [cspace EXCEPT ![t] = Mints(@, v)]
        /\ UNCHANGED <<started, chans, queues, reading>>
    BY <1>5, Zenon DEF AllocateSharedMemory
  <2>2. v \in Carried(started)
    <3>1. rights \cup {"GRANT"} \in SUBSET All
      BY Zenon DEF All
    <3>2. <<t, fresh[t]>> \in Tasks \X Nat /\ fresh[t] \in Nat
      BY Zenon DEF TypeOK
    <3> QED
      BY <3>1, <3>2, MadeCarried, Zenon
  <2> HIDE DEF v
  <2>3. ASSUME NEW u \in Tasks PROVE (Holds(u) /\ Unborn(u) /\ Reads(u))'
    <3>1. cspace'[u] = IF u = t THEN Mints(cspace[t], v) ELSE cspace[u]
      BY <2>1, Zenon DEF TypeOK
    <3>2. Reads(u)'
      BY <1>a, <2>1, Zenon
    <3> HIDE DEF Holds, Unborn, Reads
    <3> QED
      BY <1>d, <1>e, <1>f, <2>1, <2>2, <3>1, <3>2, Zenon
  <2> QED
    BY <1>a, <1>b, <2>1, <2>3, Zenon
<1>6. ASSUME NEW t \in Tasks, NEW a1, Delete(t, a1) PROVE CapsOK'
  <2>1. /\ cspace' = [cspace EXCEPT ![t] = Drop(@, DeleteCapability)]
        /\ UNCHANGED <<started, chans, queues, reading>>
    BY <1>6, Zenon DEF Delete
  <2>2. ASSUME NEW u \in Tasks PROVE (Holds(u) /\ Unborn(u) /\ Reads(u))'
    <3>1. /\ DOMAIN cspace'[u] \subseteq DOMAIN cspace[u]
          /\ \A c \in DOMAIN cspace'[u] : cspace'[u][c] = cspace[u][c]
      BY <2>1, Zenon DEF TypeOK, Drop
    <3> QED
      BY <1>a, <2>1, <3>1, Zenon
  <2> QED
    BY <1>a, <1>b, <2>1, <2>2, Zenon
<1>7. ASSUME NEW t \in Tasks, NEW c, NEW len \in Nat, ReadMessage(t, c, len) PROVE CapsOK'
  <2> DEFINE ch == cspace[t][c]
             at == <<ch.chan, ch.side>>
             n == Min({len, Len(Head(queues[at]))})
             r == [from |-> at, caps |-> Head(queues[at]), installed |-> 0, left |-> n, writes |-> n]
  <2>1. /\ Running(t) /\ c \in DOMAIN cspace[t] /\ ch.kind = "channel"
        /\ queues[at] # <<>> /\ chans + n <= MaxChans
        /\ queues' = [queues EXCEPT ![at] = Tail(@)]
        /\ reading' = [reading EXCEPT ![t] = r]
        /\ UNCHANGED <<started, cspace, chans>>
    BY <1>7, Zenon DEF ReadMessage
  <2>2. ch \in Carried(started) \cup KernelEnds
    BY <1>a, <2>1, Zenon
  <2>3. at \in Ends
    BY <2>1, <2>2, Zenon DEF Carried, KernelEnds, Ends
  <2> DEFINE q == queues[at]
  <2>4. q \in Seq(Seq(Carried(started))) /\ q # <<>>
    BY <1>a, <2>1, <2>3, Zenon
  <2> HIDE DEF q
  <2>5. Head(q) \in Seq(Carried(started)) /\ Tail(q) \in Seq(Seq(Carried(started)))
    BY <2>4
  <2>6. Len(Head(q)) \in Nat
    BY <2>5
  <2>7. n \in Nat /\ n <= Len(Head(q))
    BY <2>6, MinOfTwo, Zenon DEF q
  <2> HIDE DEF n, at
  <2>8. /\ r \in [from : Ends, caps : Seq(Carried(started)), installed : Nat, left : Nat, writes : Nat]
        /\ r.left = n /\ r.caps = Head(q)
    BY <2>3, <2>5, <2>7, Zenon DEF q
  <2>9. Sent'
    BY <1>a, <2>1, <2>3, <2>5, Zenon DEF q
  <2>10. ASSUME NEW u \in Tasks PROVE (Holds(u) /\ Unborn(u) /\ Reads(u))'
    <3>1. reading'[u] = IF u = t THEN r ELSE reading[u]
      BY <2>1, Zenon DEF TypeOK
    <3>2. Reads(u)'
      <4>1. CASE u = t
        <5> HIDE DEF r
        <5> QED
          BY <2>1, <2>7, <2>8, <3>1, <4>1, Zenon
      <4>2. CASE u # t
        <5> HIDE DEF r
        <5> QED
          BY <1>a, <2>1, <3>1, <4>2, Zenon
      <4> QED
        BY <4>1, <4>2, Zenon
    <3> HIDE DEF Holds, Unborn, Reads
    <3> QED
      BY <1>d, <2>1, <3>2, Zenon
  <2> QED
    BY <1>a, <1>b, <2>1, <2>9, <2>10, Zenon
<1>8. ASSUME NEW t \in Tasks, NEW c, NEW k \in Nat, NEW cs \in [1 .. k -> DOMAIN cspace[t]], SendMessage(t, c, cs)
      PROVE  CapsOK'
  <2> DEFINE ch == cspace[t][c]
             to == <<ch.chan, Other(ch.side)>>
             m == [i \in DOMAIN cs |-> cspace[t][cs[i]]]
  <2>1. /\ \A i \in DOMAIN cs : Sendable(cspace[t][cs[i]])
        /\ queues' = [queues EXCEPT ![to] = Append(@, m)]
        /\ UNCHANGED <<started, cspace, chans, reading>>
    BY <1>8, Zenon DEF SendMessage
  <2>2. ASSUME NEW i \in 1 .. k PROVE cspace[t][cs[i]] \in Carried(started)
    <3>1. cspace[t][cs[i]] \in Carried(started) \cup KernelEnds /\ "GRANT" \in cspace[t][cs[i]].rights
      BY <1>a, <2>1, Zenon DEF Sendable
    <3> QED
      BY <3>1 DEF KernelEnds
  <2>3. m \in Seq(Carried(started))
    BY <2>2
  <2> HIDE DEF m, to
  <2>4. Sent'
    <3>1. ASSUME NEW e \in Ends PROVE Append(queues[e], m) \in Seq(Seq(Carried(started)))
      BY <1>a, <2>3
    <3> QED
      BY <1>a, <2>1, <3>1, Zenon
  <2>5. ASSUME NEW u \in Tasks PROVE (Holds(u) /\ Unborn(u) /\ Reads(u))'
    BY <1>a, <2>1, Zenon
  <2> QED
    BY <1>a, <1>b, <2>1, <2>4, <2>5, Zenon
<1>g. ASSUME NEW t \in Tasks, NEW n, Installing(t), Taken(t, n), n \in {0, 1}, UNCHANGED started,
             chans' \in Nat, chans' <= chans + 1
      PROVE  \A u \in Tasks : Reads(u)'
  <2> DEFINE r == [reading[t] EXCEPT !.caps = Tail(@), !.left = @ - 1, !.installed = @ + n]
  <2>0. reading' = [reading EXCEPT ![t] = r]
    BY <1>g, Zenon DEF Taken
  <2>1. reading[t] # None /\ reading[t].left > 0
    BY <1>g, Zenon DEF Installing
  <2>2. Reads(t)
    BY <1>a, Zenon
  <2>3. /\ Tail(reading[t].caps) \in Seq(Carried(started))
        /\ Len(Tail(reading[t].caps)) = Len(reading[t].caps) - 1 /\ Len(reading[t].caps) \in Nat
    BY <1>g, <2>1, <2>2, CapCarried
  <2>4. /\ r \in [from : Ends, caps : Seq(Carried(started)), installed : Nat, left : Nat, writes : Nat]
        /\ r.left = reading[t].left - 1 /\ r.caps = Tail(reading[t].caps)
    <3>1. /\ reading[t] \in [from : Ends, caps : Seq(Carried(started)), installed : Nat,
                             left : Nat, writes : Nat]
          /\ reading[t].left - 1 \in Nat /\ reading[t].installed + n \in Nat
      BY <1>g, <2>1, <2>2
    <3> QED
      BY <2>3, <3>1, ReadTakes, Zenon
  <2> HIDE DEF r
  <2>5. \A u \in Tasks \ {t} : reading'[u] = None
    BY <2>0, <2>1, Zenon DEF TypeOK, OneReads
  <2>6. reading'[t] = r
    BY <2>0, Zenon DEF TypeOK
  <2>7. r.left <= Len(r.caps) /\ chans' + r.left <= MaxChans
    <3>1. /\ reading[t].left \in Nat /\ reading[t].left <= Len(reading[t].caps)
          /\ chans + reading[t].left <= MaxChans /\ chans \in Nat /\ MaxChans \in Nat
      BY <1>a, <2>1, <2>2, Zenon
    <3>2. chans' \in Nat /\ chans' <= chans + 1
      BY <1>g, Zenon
    <3>3. r.left = reading[t].left - 1 /\ Len(r.caps) = Len(reading[t].caps) - 1 /\ Len(reading[t].caps) \in Nat
      BY <2>3, <2>4, Zenon
    <3> QED
      BY <3>1, <3>2, <3>3, SMTT(30)
  <2>8. Reads(t)'
    BY <1>g, <2>4, <2>6, <2>7, Zenon
  <2> QED
    BY <2>5, <2>8, Zenon
<1>9. ASSUME NEW t \in Tasks, InstallNone(t) PROVE CapsOK'
  <2>1. Installing(t) /\ Taken(t, 0) /\ UNCHANGED <<started, cspace, chans, queues>>
    BY <1>9, Zenon DEF InstallNone
  <2>2. \A u \in Tasks : Reads(u)'
    BY <1>a, <1>g, <2>1
  <2> HIDE DEF Reads
  <2> QED
    BY <1>a, <1>b, <2>1, <2>2, Zenon
<1>10. ASSUME NEW t \in Tasks, InstallChannel(t) PROVE CapsOK'
  <2> DEFINE o == Cap(t).tid
             v == Channel(chans + 1, 2, o, NextCptr(cspace[o]), Cap(t).rights)
             w == Channel(chans + 1, 1, t, NextCptr(cspace[t]), Cap(t).rights)
  <2>1. /\ Installing(t) /\ Taken(t, 1) /\ o # t /\ Cap(t).kind = "channel"
        /\ cspace' = [cspace EXCEPT ![t] = Mints(@, v), ![o] = Mints(@, w)]
        /\ chans' = chans + 1 /\ UNCHANGED <<started, queues>>
    BY <1>10, Zenon DEF InstallChannel
  <2>2. Cap(t) \in Carried(started) /\ chans + 1 \in 1 .. MaxChans
    BY <1>a, <2>1, CapCarried
  <2>3. o \in 1 .. started /\ Cap(t).rights \in SUBSET All
    BY <2>1, <2>2, Zenon DEF Carried
  <2>4. o \in Tasks /\ t \in 1 .. started
    BY <2>1, <2>3, SMTT(30) DEF TypeOK, Tasks, OneReads, Installing
  <2>5. NextCptr(cspace[o]) \in Nat /\ NextCptr(cspace[t]) \in Nat
    BY <2>4, MintBounded, Zenon
  <2>6. v \in Carried(started) /\ w \in Carried(started)
    BY <2>2, <2>3, <2>4, <2>5, MadeCarried, Zenon
  <2> HIDE DEF v, w, o
  <2>7. \A u \in Tasks : Reads(u)'
    BY <1>a, <1>g, <2>1
  <2>8. ASSUME NEW u \in Tasks PROVE (Holds(u) /\ Unborn(u))'
    <3>1. cspace'[u] = IF u = o THEN Mints(cspace[o], w) ELSE IF u = t THEN Mints(cspace[t], v) ELSE cspace[u]
      BY <2>1, Zenon DEF TypeOK
    <3> HIDE DEF Holds, Unborn
    <3> QED
      BY <1>d, <1>f, <2>1, <2>3, <2>4, <2>6, <3>1, ZenonT(30)
  <2>9. Sent' /\ chans' \in Nat
    BY <1>a, <2>1
  <2> HIDE DEF Holds, Unborn, Reads, Sent
  <2> QED
    BY <1>b, <2>7, <2>8, <2>9, Zenon
<1>11. ASSUME NEW t \in Tasks, InstallMemory(t) PROVE CapsOK'
  <2> DEFINE v == SharedMemory(Cap(t).region, fresh[t], Cap(t).rights)
  <2>1. /\ Installing(t) /\ Taken(t, 1) /\ Cap(t).kind = "memory"
        /\ cspace' = [cspace EXCEPT ![t] = Mints(@, v)] /\ UNCHANGED <<started, chans, queues>>
    BY <1>11, Zenon DEF InstallMemory
  <2>2. Cap(t) \in Carried(started)
    BY <2>1, CapCarried, Zenon
  <2>3. Cap(t).region \in Tasks \X Nat /\ Cap(t).rights \in SUBSET All
    BY <2>1, <2>2, Zenon DEF Carried
  <2>4. t \in 1 .. started /\ fresh[t] \in Nat
    BY <2>1, Zenon DEF TypeOK, OneReads, Installing
  <2>5. v \in Carried(started)
    BY <2>3, <2>4, MadeCarried, Zenon
  <2> HIDE DEF v
  <2>6. \A u \in Tasks : Reads(u)'
    BY <1>a, <1>g, <2>1
  <2>7. ASSUME NEW u \in Tasks PROVE (Holds(u) /\ Unborn(u))'
    <3>1. cspace'[u] = IF u = t THEN Mints(cspace[t], v) ELSE cspace[u]
      BY <2>1, Zenon DEF TypeOK
    <3> HIDE DEF Holds, Unborn
    <3> QED
      BY <1>d, <1>f, <2>1, <2>4, <2>5, <3>1, Zenon
  <2> HIDE DEF Reads
  <2> QED
    BY <1>a, <1>b, <2>1, <2>6, <2>7, Zenon
<1>12. ASSUME NEW t \in Tasks, ReadFinish(t) PROVE CapsOK'
  <2> DEFINE r == reading[t]
  <2>1. /\ r # None
        /\ queues' = IF r.caps = <<>> THEN queues ELSE [queues EXCEPT ![r.from] = <<r.caps>> \o @]
        /\ reading' = [reading EXCEPT ![t] = None] /\ UNCHANGED <<started, cspace, chans>>
    BY <1>12, Zenon DEF ReadFinish
  <2>2. r.from \in Ends /\ r.caps \in Seq(Carried(started))
    BY <1>a, <2>1, Zenon
  <2>3. queues[r.from] \in Seq(Seq(Carried(started)))
    BY <1>a, <2>2, Zenon
  <2>4. <<r.caps>> \o queues[r.from] \in Seq(Seq(Carried(started)))
    BY <2>2, <2>3
  <2> HIDE DEF r
  <2>5. Sent'
    BY <1>a, <2>1, <2>2, <2>4, Zenon
  <2>6. ASSUME NEW u \in Tasks PROVE (Holds(u) /\ Unborn(u) /\ Reads(u))'
    <3>1. reading'[u] = IF u = t THEN None ELSE reading[u]
      BY <2>1, Zenon DEF TypeOK
    <3> QED
      BY <1>a, <2>1, <3>1, Zenon
  <2> QED
    BY <1>a, <1>b, <2>1, <2>5, <2>6, Zenon
<1> QED
  <2>1. 0 .. MaxCaps \subseteq Nat
    OBVIOUS
  <2> QED
    BY <2>1, <1>1, <1>2, <1>3, <1>4, <1>5, <1>6, <1>7, <1>8, <1>9, <1>10, <1>11, <1>12, Zenon
       DEF Next, Syscalls, Steps

\* No task has a capability with the number that delete takes.
NoneDeleted == \A t \in Tasks : DeleteCapability \notin DOMAIN cspace[t]

\* Every step keeps the ends of a channel naming each other.
LEMMA AnsweredStep ==
    ASSUME CapabilitiesAssumption, TypeOK, OneReads, CapsOK, AllAnswered, NoneDeleted, [Next]_vars
    PROVE  AllAnswered'
<1> USE DEF CapabilitiesAssumption
<1> DEFINE Kept == \A u \in Tasks : \A c \in DOMAIN cspace[u] :
                       c \in DOMAIN cspace'[u] /\ cspace'[u][c] = cspace[u][c]
<1>a. ASSUME Kept, NEW u \in Tasks, NEW c \in DOMAIN cspace[u] PROVE Answered(u, c)'
  <2> DEFINE k == cspace[u][c]
             p == cspace[k.tid][k.cptr]
  <2> SUFFICES ASSUME k.kind = "channel", k.tid # NoTask
               PROVE  /\ k.cptr \in DOMAIN cspace'[k.tid] /\ cspace'[k.tid][k.cptr] = p
                      /\ p.kind = "channel" /\ <<p.chan, p.side>> = <<k.chan, Other(k.side)>>
                      /\ <<p.tid, p.cptr>> = <<u, c>>
    <3>1. cspace'[u][c] = k
      BY <1>a, ZenonT(30)
    <3> HIDE DEF k
    <3> QED
      BY <3>1, Zenon DEF Answered
  <2>1. k.tid \in Tasks
    <3>1. k \in Carried(started) \cup KernelEnds
      BY Zenon DEF CapsOK
    <3>2. k.tid \in 1 .. started
      BY <3>1, Zenon DEF Carried, KernelEnds
    <3> QED
      BY <3>2 DEF TypeOK, Tasks
  <2>2. /\ k.cptr \in DOMAIN cspace[k.tid]
        /\ p.kind = "channel" /\ <<p.chan, p.side>> = <<k.chan, Other(k.side)>>
        /\ <<p.tid, p.cptr>> = <<u, c>>
    <3>1. Answered(u, c)
      BY Zenon DEF AllAnswered
    <3> QED
      BY <3>1, Zenon DEF Answered
  <2> QED
    BY <1>a, <2>1, <2>2, Zenon
<1>b. ASSUME \A u \in Tasks : /\ DOMAIN cspace'[u] = DOMAIN cspace[u]
                              /\ \A c \in DOMAIN cspace[u] : cspace'[u][c] = cspace[u][c]
      PROVE  AllAnswered'
  BY <1>a, <1>b, Zenon DEF AllAnswered
<1>c. ASSUME UNCHANGED cspace PROVE AllAnswered'
  BY <1>b, <1>c, Zenon
\* A memory capability is minted.
<1>d. ASSUME NEW t \in Tasks, NEW cap, cap.kind = "memory", cspace' = [cspace EXCEPT ![t] = Mints(@, cap)]
      PROVE  AllAnswered'
  <2>1. NextCptr(cspace[t]) \notin DOMAIN cspace[t]
    BY MintBounded, Zenon
  <2>2. cspace'[t] = Put(cspace[t], NextCptr(cspace[t]), cap) /\ \A u \in Tasks \ {t} : cspace'[u] = cspace[u]
    BY <1>d, Zenon DEF TypeOK, Mints
  <2>3. Kept
    BY <2>1, <2>2, Zenon DEF Put
  <2>4. ASSUME NEW u \in Tasks, NEW c \in DOMAIN cspace'[u] PROVE Answered(u, c)'
    <3>1. \/ c \in DOMAIN cspace[u]
          \/ cspace'[u][c] = cap
      BY <2>2, <2>4, Zenon DEF Put
    <3>2. cspace'[u][c] = cap => Answered(u, c)'
      BY <1>d, Zenon DEF Answered
    <3> QED
      BY <1>a, <2>3, <3>1, <3>2, Zenon
  <2> QED
    BY <2>4, Zenon DEF AllAnswered
<1>1. CASE UNCHANGED vars
  BY <1>1, <1>c, Zenon DEF vars
<1>2. ASSUME NEW t \in Tasks, CreateVmspace(t) PROVE AllAnswered'
  BY <1>2, <1>c, Zenon DEF CreateVmspace
<1>3. ASSUME NEW t \in Tasks, NEW id, AllocVmspaceObject(t, id) PROVE AllAnswered'
  BY <1>3, <1>c, Zenon DEF AllocVmspaceObject
<1>4. ASSUME NEW t \in Tasks, NEW id, SpawnVmspace(t, id) PROVE AllAnswered'
  <2> DEFINE n == NextCptr(cspace[t])
             v == Channel(chans + 2, 1, started + 1, PARENT_CHANNEL, All)
             x == Channel(chans + 2, 2, t, n, All)
             w == Put(KernelOnly((chans + 2) - 1), PARENT_CHANNEL, x)
  <2>1. cspace' = [cspace EXCEPT ![t] = Mints(@, v), ![started + 1] = w]
    BY <1>4, Zenon DEF SpawnVmspace
  <2>2. Running(t) /\ started + 1 \in Tasks
    BY <1>4, Zenon DEF SpawnVmspace
  <2>3. PICK tid \in Tasks : tid = started + 1
    BY <2>2, Zenon
  <2>c. PICK c : c = n
    BY Zenon
  <2>4. t # tid /\ DOMAIN cspace[tid] = {} /\ c \notin DOMAIN cspace[t]
    <3>1. t \in 1 .. started /\ tid \notin 1 .. started
      BY <2>2, <2>3 DEF TypeOK, Tasks, Running
    <3> QED
      BY <2>c, <3>1, MintBounded, Zenon DEF CapsOK
  <2>5. /\ cspace'[t] = Put(cspace[t], c, v) /\ cspace'[tid] = w
        /\ \A e \in Tasks \ {t, tid} : cspace'[e] = cspace[e]
    <3> HIDE DEF v, w
    <3> QED
      BY <2>c, <2>1, <2>3, <2>4, Zenon DEF TypeOK, Mints
  <2> DEFINE b == Channel((chans + 2) - 1, 2, NoTask, NoCptr, {"READ"})
  <2>6. DOMAIN w = {0, 1} /\ w[0] = b /\ w[1] = x
    <3> HIDE DEF x
    <3> QED
      BY DEF Put, KernelOnly, KERNEL_CHANNEL, PARENT_CHANNEL
  <2>7. /\ v.kind = "channel" /\ v.chan = chans + 2 /\ v.side = 1 /\ v.tid = tid /\ v.cptr = 1
        /\ x.kind = "channel" /\ x.chan = chans + 2 /\ x.side = 2 /\ x.tid = t /\ x.cptr = c
        /\ b.tid = NoTask
    BY <2>c, <2>3, Zenon DEF Channel, PARENT_CHANNEL
  <2> HIDE DEF n, v, w, x, b
  <2>8. Kept
    BY <2>4, <2>5, Zenon DEF Put
  <2>9. cspace'[t][c] = v /\ c \in DOMAIN cspace'[t]
    BY <2>5, Zenon DEF Put
  <2>10. Answered(t, c)' /\ Answered(tid, 0)' /\ Answered(tid, 1)'
    BY <2>5, <2>6, <2>7, <2>9 DEF Answered, Other
  <2>11. ASSUME NEW e \in Tasks, NEW f \in DOMAIN cspace'[e] PROVE Answered(e, f)'
    <3>1. \/ f \in DOMAIN cspace[e]
          \/ e = t /\ f = c
          \/ e = tid /\ f \in {0, 1}
      BY <2>5, <2>6, <2>11 DEF Put
    <3> QED
      BY <1>a, <2>8, <2>10, <3>1, Zenon
  <2> QED
    BY <2>11, Zenon DEF AllAnswered
<1>5. ASSUME NEW t \in Tasks, NEW rights, AllocateSharedMemory(t, rights) PROVE AllAnswered'
  <2> DEFINE v == SharedMemory(<<t, fresh[t]>>, fresh[t], rights \cup {"GRANT"})
  <2>1. v.kind = "memory"
    BY Zenon DEF SharedMemory
  <2>2. cspace' = [cspace EXCEPT ![t] = Mints(@, v)]
    BY <1>5, Zenon DEF AllocateSharedMemory
  <2> HIDE DEF v
  <2> QED
    BY <1>d, <2>1, <2>2, Zenon
<1>6. ASSUME NEW t \in Tasks, NEW a1, Delete(t, a1) PROVE AllAnswered'
  <2>1. cspace' = [cspace EXCEPT ![t] = Drop(@, DeleteCapability)]
    BY <1>6, Zenon DEF Delete
  <2> QED
    BY <1>b, <2>1, Zenon DEF TypeOK, NoneDeleted, Drop
<1>7. ASSUME NEW t \in Tasks, NEW c, NEW len, ReadMessage(t, c, len) PROVE AllAnswered'
  BY <1>7, <1>c, Zenon DEF ReadMessage
<1>8. ASSUME NEW t \in Tasks, NEW c, NEW cs, SendMessage(t, c, cs) PROVE AllAnswered'
  BY <1>8, <1>c, Zenon DEF SendMessage
<1>9. ASSUME NEW t \in Tasks, InstallNone(t) PROVE AllAnswered'
  BY <1>9, <1>c, Zenon DEF InstallNone
<1>10. ASSUME NEW t \in Tasks, InstallChannel(t) PROVE AllAnswered'
  <2> DEFINE o == Cap(t).tid
             v == Channel(chans + 1, 2, o, NextCptr(cspace[o]), Cap(t).rights)
             w == Channel(chans + 1, 1, t, NextCptr(cspace[t]), Cap(t).rights)
  <2>1. /\ Installing(t) /\ o # t /\ Cap(t).kind = "channel"
        /\ cspace' = [cspace EXCEPT ![t] = Mints(@, v), ![o] = Mints(@, w)]
    BY <1>10, Zenon DEF InstallChannel
  <2>2. Cap(t) \in Carried(started)
    BY <2>1, CapCarried, Zenon
  <2>3. o \in Tasks
    BY <2>1, <2>2, SMTT(30) DEF Carried, TypeOK, Tasks
  <2>4. NextCptr(cspace[o]) \notin DOMAIN cspace[o] /\ NextCptr(cspace[t]) \notin DOMAIN cspace[t]
    BY <2>3, MintBounded, Zenon
  <2>5. PICK u, c, d : u = o /\ c = NextCptr(cspace[t]) /\ d = NextCptr(cspace[o]) /\ u \in Tasks
    BY <2>3, Zenon
  <2>6. /\ v.kind = "channel" /\ v.chan = chans + 1 /\ v.side = 2 /\ v.tid = u /\ v.cptr = d
        /\ w.kind = "channel" /\ w.chan = chans + 1 /\ w.side = 1 /\ w.tid = t /\ w.cptr = c
    BY <2>5, Zenon DEF Channel
  <2> HIDE DEF v, w, o
  <2>7. /\ cspace'[t] = Put(cspace[t], c, v) /\ cspace'[u] = Put(cspace[u], d, w)
        /\ \A e \in Tasks \ {t, u} : cspace'[e] = cspace[e]
    BY <2>1, <2>5, Zenon DEF TypeOK, Mints
  <2>8. Kept
    <3>1. c \notin DOMAIN cspace[t] /\ d \notin DOMAIN cspace[u]
      BY <2>4, <2>5, Zenon
    <3>2. ASSUME NEW e \in Tasks, NEW f \in DOMAIN cspace[e]
          PROVE  f \in DOMAIN cspace'[e] /\ cspace'[e][f] = cspace[e][f]
      <4>1. CASE e = t
        BY <2>7, <3>1, <4>1, Zenon DEF Put
      <4>2. CASE e = u
        BY <2>7, <3>1, <4>2, Zenon DEF Put
      <4>3. CASE e \notin {t, u}
        BY <2>7, <4>3, Zenon
      <4> QED
        BY <4>1, <4>2, <4>3, Zenon
    <3> QED
      BY <3>2, Zenon
  <2>9. /\ DOMAIN cspace'[t] = DOMAIN cspace[t] \cup {c} /\ cspace'[t][c] = v
        /\ DOMAIN cspace'[u] = DOMAIN cspace[u] \cup {d} /\ cspace'[u][d] = w
    BY <2>7, Zenon DEF Put
  <2>10. Answered(t, c)' /\ Answered(u, d)'
    BY <2>6, <2>9 DEF Answered, Other
  <2>11. ASSUME NEW e \in Tasks, NEW f \in DOMAIN cspace'[e] PROVE Answered(e, f)'
    <3>1. \/ f \in DOMAIN cspace[e]
          \/ e = t /\ f = c
          \/ e = u /\ f = d
      BY <2>7, <2>9, <2>11, Zenon
    <3> QED
      BY <1>a, <2>8, <2>10, <3>1, Zenon
  <2> QED
    BY <2>11, Zenon DEF AllAnswered
<1>11. ASSUME NEW t \in Tasks, InstallMemory(t) PROVE AllAnswered'
  <2> DEFINE v == SharedMemory(Cap(t).region, fresh[t], Cap(t).rights)
  <2>1. v.kind = "memory"
    BY Zenon DEF SharedMemory
  <2>2. cspace' = [cspace EXCEPT ![t] = Mints(@, v)]
    BY <1>11, Zenon DEF InstallMemory
  <2> HIDE DEF v
  <2> QED
    BY <1>d, <2>1, <2>2, Zenon
<1>12. ASSUME NEW t \in Tasks, ReadFinish(t) PROVE AllAnswered'
  BY <1>12, <1>c, Zenon DEF ReadFinish
<1> QED
  BY <1>1, <1>2, <1>3, <1>4, <1>5, <1>6, <1>7, <1>8, <1>9, <1>10, <1>11, <1>12, Zenon
     DEF Next, Syscalls, Steps

\* As long as no task holds a capability with the number that delete takes, which
\* is the number of the syscall, the two ends of every channel name each other:
\* spawn_vmspace and read_message give the new ends each other's places, whatever
\* the tasks send on.
THEOREM EndsNameEachOther ==
    ASSUME CapabilitiesAssumption PROVE Spec /\ []NoneDeleted => []NamesPeer
<1> DEFINE PeerInv == TypeOK /\ OneReads /\ CapsOK /\ AllAnswered
<1>1. Init => PeerInv
  <2> SUFFICES ASSUME Init PROVE PeerInv
    BY Zenon
  <2>1. \A t \in Tasks : \A c \in DOMAIN cspace[t] :
            c = 0 /\ cspace[t][c] = Channel(1, 2, NoTask, NoCptr, {"READ"})
    BY DEF Init, KernelOnly, KERNEL_CHANNEL
  <2>2. 1 \in 1 .. MaxChans
    BY DEF CapabilitiesAssumption
  <2>3. Channel(1, 2, NoTask, NoCptr, {"READ"}) \in KernelEnds
    BY <2>2, MadeCarried, Zenon
  <2>4. \A t \in Tasks \ (1 .. started) : DOMAIN cspace[t] = {}
    BY DEF Init, Tasks
  <2>5. queues \in [Ends -> Seq(Seq(Carried(started)))]
    BY DEF Init, Ends
  <2>6. CapsOK
    <3>1. chans \in Nat /\ \A t \in Tasks : reading[t] = None
      BY Zenon DEF Init
    <3> QED
      BY <2>1, <2>3, <2>4, <2>5, <3>1 DEF CapsOK
  <2>7. AllAnswered
    <3>1. Channel(1, 2, NoTask, NoCptr, {"READ"}).tid = NoTask
      BY Zenon DEF Channel
    <3> QED
      BY <2>1, <3>1, Zenon DEF AllAnswered, Answered
  <2> QED
    BY <2>6, <2>7, TypeInit, Zenon
<1>2. PeerInv /\ NoneDeleted /\ [Next]_vars => PeerInv'
  BY TypeStep, CapsStep, AnsweredStep, Zenon
<1>3. PeerInv => NamesPeer
  <2> SUFFICES ASSUME PeerInv PROVE NamesPeer
    BY Zenon
  <2>1. \A t \in 1 .. started : t \in Tasks
    BY DEF TypeOK, CapabilitiesAssumption, Tasks
  <2> QED
    BY <2>1, Zenon DEF NamesPeer, AllAnswered
<1> QED
  BY <1>1, <1>2, <1>3, PTL DEF Spec
=============================================================================
