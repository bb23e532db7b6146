------------------------------ MODULE UserMemory ------------------------------
(***************************************************************************)
(* The memory of user tasks: every task has a UserspaceMemoryManager       *)
(* (mem/manager/mod.rs), which is an address map (module AddressMap) and a *)
(* page table that must agree with it.  Physical regions (mem/region.rs)   *)
(* own page frames; a shared one is counted by an Arc, with an owner in    *)
(* every map that has it, every capability for it and every message that   *)
(* carries such a capability.  A vmspace object (syscall/vmspace.rs) is    *)
(* the memory of a task that is being built by its parent.                 *)
(*                                                                         *)
(* Addresses are kilopages.  A task's lock is held over each system call,  *)
(* so that a system call is one action.  A panic stops the kernel.         *)
(***************************************************************************)
EXTENDS Integers, Sequences, FiniteSets, SequencesExt

CONSTANTS
    Tasks, First, \* the tasks, and the one that is running at the start
    Top,          \* end of the user address space
    Frames,       \* physical page frames
    Regions,      \* names for physical regions
    Guard, None,  \* MemoryRegion::GuardPage, no region
    Dma,          \* whether tasks ask for device-addressable memory
    MaxPages,     \* pages a call asks for
    MaxCaps,      \* bound: capabilities of a task
    MaxMail,      \* bound: messages a task has not read
    MaxMappings   \* bound: mappings of a vmspace object

\* What the constants of an instance satisfy.
UserMemoryAssumption ==
    /\ First \in Tasks
    /\ Regions \subseteq Nat
    /\ {Top, MaxPages, MaxCaps, MaxMail, MaxMappings} \subseteq Nat \ {0}
    /\ Dma \in BOOLEAN
    /\ {Guard, None} \cap (Frames \cup Regions) = {}

VARIABLES
    map,     \* task -> its AddressMap
    table,   \* task -> page -> frame or Guard: the valid entries
    frames,  \* region -> the frames it owns, in order
    refs,    \* region -> its owners, as counted
    free,    \* frames the physical allocator holds
    caps,    \* task -> cptr -> memory capability
    mail,    \* task -> regions of the memory capabilities sent to it
    status,  \* task -> "none", "object" or "running"
    inproc,  \* object -> where its parent has its regions mapped
    panic    \* what the kernel panicked on, or "no"

spaceVars == <<map, table>>
regionVars == <<frames, refs, free>>
capVars == <<caps, mail>>
vmspaceVars == <<status, inproc>>
vars == <<map, table, frames, refs, free, caps, mail, status, inproc, panic>>

Space == INSTANCE AddressMap
    WITH map <- map[First], result <- panic, Backings <- Regions, GuardPage <- Guard,
         AllocKinds <- {"UserAllocated", "Dma", "UserSharedMemory", "Data"}

Pages == 0 .. Top - 1
Find(t, a) == map[t][Space!From(map[t], a)]

\* new(): an empty map with a guard page at address 0.
NewMap == Space!Carve([k \in {Top} |-> Space!Free(0, Top, "Unoccupied")], Top, 0, 1, Guard, "Guard")
NewTable == [p \in {0} |-> Guard]

Init ==
    /\ map = [t \in Tasks |-> NewMap]
    /\ table = [t \in Tasks |-> NewTable]
    /\ frames = [r \in Regions |-> <<>>]
    /\ refs = [r \in Regions |-> 0]
    /\ free = Frames
    /\ caps = [t \in Tasks |-> <<>>]
    /\ mail = [t \in Tasks |-> <<>>]
    /\ status = [t \in Tasks |-> IF t = First THEN "running" ELSE "none"]
    /\ inproc = [t \in Tasks |-> <<>>]
    /\ panic = "no"

Running(t) == panic = "no" /\ status[t] = "running"

Panics(why) ==
    /\ panic' = why
    /\ UNCHANGED <<spaceVars, regionVars, capVars, vmspaceVars>>

-----------------------------------------------------------------------------
(* The memory manager *)

\* find_free_region(): a random page followed by n - 1 others of its region.
\* It may be of an occupied region, except in the linear search at the end.
FindFree(t, n) == {a \in Pages : Find(t, a).end - a >= n}

\* The linear search at the end finds nothing.
Exhausted(t, n) ==
    \A k \in DOMAIN map[t] :
        map[t][k].region = None => map[t][k].end - map[t][k].start < n

\* PageTable::map() of n pages panics, or else AddressMap::alloc() fails.
Clash(t, at, n) == \E p \in at .. at + n - 1 : p \in DOMAIN table[t]
BadMapping(t, at, n) == at + n > Top \/ Space!Occupied(map[t], at, at + n)
Fits(t, at, n) == ~ Clash(t, at, n) /\ ~ BadMapping(t, at, n)

\* The page table and the map of t with the frames fs of region r at `at'.
Mapped(t, at, fs) ==
    [p \in DOMAIN table[t] \cup at .. at + Len(fs) - 1 |->
        IF p \in at .. at + Len(fs) - 1 THEN fs[p - at + 1] ELSE table[t][p]]
Allotted(t, at, n, r, kind) ==
    Space!Carve(map[t], Space!From(map[t], at), at, at + n, r, kind)

\* Regions are made under a name that is not in use.
Fresh == {r \in Regions : refs[r] = 0}
NewRegion == CHOOSE r \in Fresh : \A q \in Fresh : r <= q

\* The frames of a new region of n pages, in any order the allocator has.
NewFrames(n) == {fs \in [1 .. n -> free] : IsInjective(fs)}

Create(r, fs, owners) ==
    /\ frames' = [frames EXCEPT ![r] = fs]
    /\ refs' = [refs EXCEPT ![r] = owners]
    /\ free' = free \ Range(fs)

\* A manager with the parts of a task that dealloc_region() changes.
Manager(t) == [map |-> map[t], table |-> table[t], dropped |-> <<>>, panic |-> "no"]

\* Mutant: the page after the region is unmapped with it.
Unmap_OneMore(m, at, n) == [p \in DOMAIN m.table \ (at .. at + n) |-> m.table[p]]

\* The entries left once n pages from `at' are unmapped.
Unmap(m, at, n) == [p \in DOMAIN m.table \ (at .. at + n - 1) |-> m.table[p]]

\* dealloc_region(): the region that holds `at' leaves the map, and as many
\* pages as it has are unmapped from `at' on.
Dealloc(m, at) ==
    LET k == Space!From(m.map, at)
        r == m.map[k].region
        n == IF r = Guard THEN 1 ELSE Len(frames[r])
        pages == at .. at + n - 1 IN
    IF m.panic # "no" THEN m
    ELSE IF r = None THEN [m EXCEPT !.panic = "unallocated"]
    ELSE IF \E p \in pages : p \notin DOMAIN m.table \/ m.table[p] = Guard
    THEN [m EXCEPT !.panic = "unmapped"]
    ELSE [m EXCEPT !.map = Space!Release(@, k), !.table = Unmap(m, at, n), !.dropped = Append(@, r)]

\* Mutant: the last owner does not give the frames back.
DropOwners_Leak(counts, rs) ==
    LET left == [r \in Regions |-> counts[r] - Cardinality({i \in DOMAIN rs : rs[i] = r})]
        gone == {r \in Range(rs) : left[r] = 0} IN
    /\ refs' = left
    /\ frames' = [r \in Regions |-> IF r \in gone THEN <<>> ELSE frames[r]]
    /\ UNCHANGED free

\* Drop for SharedPhysicalRegion and UniquePhysicalRegion: with its last owner
\* a region gives its frames back.  rs lists the owners that go.
DropOwners(counts, rs) ==
    LET left == [r \in Regions |-> counts[r] - Cardinality({i \in DOMAIN rs : rs[i] = r})]
        gone == {r \in Range(rs) : left[r] = 0} IN
    /\ refs' = left
    /\ frames' = [r \in Regions |-> IF r \in gone THEN <<>> ELSE frames[r]]
    /\ free' = free \cup UNION {Range(frames[r]) : r \in gone}

\* Task t goes on with manager m, and the regions in rs lose an owner as well
\* as those m dropped.
Settle(t, m, rs) ==
    /\ map' = [map EXCEPT ![t] = m.map]
    /\ table' = [table EXCEPT ![t] = m.table]
    /\ DropOwners(refs, m.dropped \o rs)

-----------------------------------------------------------------------------
(* Allocation *)

\* The mapping at `at' is refused: by the page table before the address map.
Refused(t, at, n) ==
    /\ ~ Fits(t, at, n)
    /\ Panics(IF Clash(t, at, n) THEN "already mapped" ELSE "bad mapping")

\* No frames are left; a contiguous run may be missing before that.
OutOfMemory(n, contiguous) ==
    /\ Cardinality(free) < n \/ (contiguous /\ n > 1)
    /\ Panics("out of memory")

\* alloc_region() at an address of its choice.
AllocRegion(t, n, kind) ==
    /\ Fresh # {}
    /\ \/ Exhausted(t, n) /\ Panics("exhausted")
       \/ OutOfMemory(n, kind = "Dma")
       \/ n <= Cardinality(free) /\ \E at \in FindFree(t, n) : Refused(t, at, n)
       \/ \E at \in FindFree(t, n), fs \in NewFrames(n) :
            /\ Fits(t, at, n)
            /\ Create(NewRegion, fs, 1)
            /\ table' = [table EXCEPT ![t] = Mapped(t, at, fs)]
            /\ map' = [map EXCEPT ![t] = Allotted(t, at, n, NewRegion, kind)]
            /\ UNCHANGED <<capVars, vmspaceVars, panic>>

AllocateVirtual(t, n) == Running(t) /\ AllocRegion(t, n, "UserAllocated")

\* allocate_device_addressable_memory().
AllocateDma(t, n) == Dma /\ Running(t) /\ AllocRegion(t, n, "Dma")

\* mint(): the next cptr, with the capability for region r, mapped at `at'.
NextCptr(t) == IF DOMAIN caps[t] = {} THEN 0 ELSE 1 + CHOOSE c \in DOMAIN caps[t] : \A d \in DOMAIN caps[t] : d <= c

\* Mutant: the capability names the page after the first one.
Mint_Next(t, r, at) ==
    /\ NextCptr(t) < MaxCaps
    /\ caps' = [caps EXCEPT ![t] =
           [c \in DOMAIN @ \cup {NextCptr(t)} |->
               IF c = NextCptr(t) THEN [region |-> r, at |-> at + 1] ELSE @[c]]]

Mint(t, r, at) ==
    /\ NextCptr(t) < MaxCaps
    /\ caps' = [caps EXCEPT ![t] =
           [c \in DOMAIN @ \cup {NextCptr(t)} |->
               IF c = NextCptr(t) THEN [region |-> r, at |-> at] ELSE @[c]]]

\* allocate_shared_memory(): the map and the capability own the region.  In
\* the map the region is of the kind UserAllocated.
AllocateShared(t, n) ==
    /\ Running(t)
    /\ Fresh # {}
    /\ \/ Exhausted(t, n) /\ Panics("exhausted")
       \/ OutOfMemory(n, FALSE)
       \/ n <= Cardinality(free) /\ \E at \in FindFree(t, n) : Refused(t, at, n)
       \/ \E at \in FindFree(t, n), fs \in NewFrames(n) :
            /\ Fits(t, at, n)
            /\ Create(NewRegion, fs, 2)
            /\ table' = [table EXCEPT ![t] = Mapped(t, at, fs)]
            /\ map' = [map EXCEPT ![t] = Allotted(t, at, n, NewRegion, "UserAllocated")]
            /\ Mint(t, NewRegion, at)
            /\ UNCHANGED <<mail, vmspaceVars, panic>>

\* deallocate_virtual_memory(): by the kind of the region the address is in,
\* occupied or not.
DeallocateVirtual(t, a) ==
    LET m == Dealloc(Manager(t), a) IN
    /\ Running(t)
    /\ Find(t, a).kind = "UserAllocated"
    /\ IF m.panic # "no" THEN Panics(m.panic)
       ELSE Settle(t, m, <<>>) /\ UNCHANGED <<capVars, vmspaceVars, panic>>

-----------------------------------------------------------------------------
(* Capabilities for memory *)

\* Mutant: the message does not count as an owner.
SendMemory_NoClone(t, u, c) ==
    /\ Running(t)
    /\ status[u] = "running"
    /\ Len(mail[u]) < MaxMail
    /\ mail' = [mail EXCEPT ![u] = Append(@, caps[t][c].region)]
    /\ UNCHANGED <<spaceVars, regionVars, caps, vmspaceVars, panic>>

\* send_message() with a clone of the capability.
SendMemory(t, u, c) ==
    /\ Running(t)
    /\ status[u] = "running"
    /\ Len(mail[u]) < MaxMail
    /\ mail' = [mail EXCEPT ![u] = Append(@, caps[t][c].region)]
    /\ refs' = [refs EXCEPT ![caps[t][c].region] = @ + 1]
    /\ UNCHANGED <<spaceVars, frames, free, caps, vmspaceVars, panic>>

\* apply_shared_region() of the region that came with a message.
ApplyShared(t, at, r) ==
    /\ Fits(t, at, Len(frames[r]))
    /\ table' = [table EXCEPT ![t] = Mapped(t, at, frames[r])]
    /\ map' = [map EXCEPT ![t] = Allotted(t, at, Len(frames[r]), r, "UserSharedMemory")]
    /\ refs' = [refs EXCEPT ![r] = @ + 1]
    /\ UNCHANGED <<frames, free>>

\* apply_shared_region() asserts that `at' is unoccupied before it maps.
Unapplied(t, at, n) ==
    \/ Find(t, at).region # None /\ Panics("occupied")
    \/ Find(t, at).region = None /\ Refused(t, at, n)

\* read_message(): a clone of the region goes to the map, the region that came
\* with the message to the new capability.
ReceiveMemory(t) ==
    LET r == Head(mail[t])
        n == Len(frames[r]) IN
    /\ Running(t)
    /\ mail[t] # <<>>
    /\ \/ Exhausted(t, n) /\ Panics("exhausted")
       \/ \E at \in FindFree(t, n) : Unapplied(t, at, n)
       \/ \E at \in FindFree(t, n) :
            /\ ApplyShared(t, at, r)
            /\ mail' = [mail EXCEPT ![t] = Tail(@)]
            /\ Mint(t, r, at)
            /\ UNCHANGED <<vmspaceVars, panic>>

\* Mutant: the mapping goes, the capability stays.
DeleteCapability_Stays(t, c) ==
    LET m == Dealloc(Manager(t), caps[t][c].at) IN
    /\ Running(t)
    /\ IF m.panic # "no" THEN Panics(m.panic)
       ELSE Settle(t, m, <<>>) /\ UNCHANGED <<capVars, vmspaceVars, panic>>

\* delete(): whatever is mapped where the capability says is deallocated.
DeleteCapability(t, c) ==
    LET m == Dealloc(Manager(t), caps[t][c].at) IN
    /\ Running(t)
    /\ IF m.panic # "no" THEN Panics(m.panic)
       ELSE /\ Settle(t, m, <<caps[t][c].region>>)
            /\ caps' = [caps EXCEPT ![t] = [d \in DOMAIN @ \ {c} |-> @[d]]]
            /\ UNCHANGED <<mail, vmspaceVars, panic>>

-----------------------------------------------------------------------------
(* Vmspace objects.  Only the first task builds others here. *)

CreateVmspace(o) ==
    /\ Running(First)
    /\ status[o] = "none"
    /\ status' = [status EXCEPT ![o] = "object"]
    /\ UNCHANGED <<spaceVars, regionVars, capVars, inproc, panic>>

\* alloc_vmspace_object(): a region of the object, at a given address or a
\* found one, that its parent has mapped as well.
AllocVmspaceObject(o, n, at) ==
    /\ Running(First)
    /\ status[o] = "object"
    /\ Fresh # {}
    /\ Len(inproc[o]) < MaxMappings
    /\ \/ OutOfMemory(n, FALSE)
       \/ n <= Cardinality(free) /\ Refused(o, at, n)
       \/ /\ Fits(o, at, n) /\ n <= Cardinality(free)
          /\ \/ Exhausted(First, n) /\ Panics("exhausted")
             \/ \E b \in FindFree(First, n) : Unapplied(First, b, n)
       \/ \E b \in FindFree(First, n), fs \in NewFrames(n) :
            /\ Fits(o, at, n)
            /\ Fits(First, b, n)
            /\ Create(NewRegion, fs, 2)
            /\ table' = [table EXCEPT ![o] = Mapped(o, at, fs), ![First] = Mapped(First, b, fs)]
            /\ map' = [map EXCEPT ![o] = Allotted(o, at, n, NewRegion, "Data"),
                                  ![First] = Allotted(First, b, n, NewRegion, "UserAllocated")]
            /\ inproc' = [inproc EXCEPT ![o] = Append(@, b)]
            /\ UNCHANGED <<capVars, status, panic>>

\* spawn_vmspace(): the parent's mappings go, one after the other.
SpawnVmspace(o) ==
    LET m == FoldLeft(Dealloc, Manager(First), inproc[o]) IN
    /\ Running(First)
    /\ status[o] = "object"
    /\ IF m.panic # "no" THEN Panics(m.panic)
       ELSE /\ Settle(First, m, <<>>)
            /\ status' = [status EXCEPT ![o] = "running"]
            /\ inproc' = [inproc EXCEPT ![o] = <<>>]
            /\ UNCHANGED <<capVars, panic>>

\* PageTable::deallocate(): a guard page reads as a branch, which it must not
\* meet on the lowest level.
DropFails(t) == Guard \in Range(table[t])

\* spawn_vmspace() with a bad name drops the object and its page table.
SpawnFails(o) ==
    /\ Running(First)
    /\ status[o] = "object"
    /\ DropFails(o)
    /\ Panics("branch on lowest level")

-----------------------------------------------------------------------------
(* Page faults *)

\* with_entry() does not find a leaf: the entry of a guard page is valid and has
\* no permissions, as that of a branch.
WalkFails(t, a) == a \in DOMAIN table[t] /\ table[t][a] = Guard

\* A task that touches an address it may not is never scheduled again and keeps
\* what it owns, which is as if it made no further call.  On the way the kernel
\* resolves the address, for its log, which fails for a guard page.
PageFault(t, a) ==
    /\ Running(t)
    /\ Find(t, a).region = Guard
    /\ WalkFails(t, a)
    /\ Panics("next level page size")

-----------------------------------------------------------------------------

\* Everything but deallocate_virtual_memory().
OtherCalls == \E t \in Tasks :
    \/ \E n \in 1 .. MaxPages :
         \/ AllocateVirtual(t, n) \/ AllocateDma(t, n)
         \/ AllocateShared(t, n)
         \/ \E at \in Pages : t # First /\ AllocVmspaceObject(t, n, at)
    \/ \E c \in DOMAIN caps[t] :
         \/ \E u \in Tasks \ {t} : SendMemory(t, u, c)
         \/ DeleteCapability(t, c)
    \/ ReceiveMemory(t)
    \/ t # First /\ (CreateVmspace(t) \/ SpawnVmspace(t) \/ SpawnFails(t))
    \/ \E a \in Pages : PageFault(t, a)

\* Any address may be passed to deallocate_virtual_memory().
Next == OtherCalls \/ \E t \in Tasks, a \in Pages : DeallocateVirtual(t, a)

Spec == Init /\ [][Next]_vars

\* The addresses of t that another call will deallocate.
Promised(t) ==
    {caps[t][c].at : c \in DOMAIN caps[t]}
        \cup (IF t = First THEN UNION {Range(inproc[o]) : o \in Tasks} ELSE {})

\* A careful task deallocates what an allocation returned, once, and leaves
\* shared memory to its capability and an object's memory to spawn_vmspace().
CarefulNext ==
    \/ OtherCalls
    \/ \E t \in Tasks, a \in Pages :
         /\ Find(t, a).start = a
         /\ Find(t, a).region # None
         /\ a \notin Promised(t)
         /\ DeallocateVirtual(t, a)

-----------------------------------------------------------------------------
(* Correctness *)

\* The values of the variables.
TypeOK ==
    /\ \A t \in Tasks :
         /\ DOMAIN map[t] \subseteq Pages
         /\ \A k \in DOMAIN map[t] : map[t][k] \in Space!Region
         /\ DOMAIN table[t] \subseteq Pages
         /\ Range(table[t]) \subseteq Frames \cup {Guard}
         /\ Range(caps[t]) \subseteq [region : Regions, at : Pages]
         /\ mail[t] \in Seq(Regions)
         /\ inproc[t] \in Seq(Pages)
    /\ frames \in [Regions -> Seq(Frames)]
    /\ refs \in [Regions -> Nat]
    /\ free \subseteq Frames
    /\ status \in [Tasks -> {"none", "object", "running"}]

\* The owners of region r.
Owners(r) ==
    UNION {{<<t, "map", k>> : k \in {j \in DOMAIN map[t] : map[t][j].region = r}} : t \in Tasks}
    \cup UNION {{<<t, "cap", c>> : c \in {d \in DOMAIN caps[t] : caps[t][d].region = r}} : t \in Tasks}
    \cup UNION {{<<t, "mail", i>> : i \in {j \in DOMAIN mail[t] : mail[t][j] = r}} : t \in Tasks}

\* The count of a region is the number of maps, capabilities and messages that
\* own it, whatever tasks deallocate: it is never freed early nor leaked.
OwnersCounted == \A r \in Regions : refs[r] = Cardinality(Owners(r))

\* Every frame is free or of one region: no sequence of calls loses a frame,
\* gives it to two regions or gives it back twice.
FrameOwnedOnce ==
    \A f \in Frames :
        LET of == {r \in Regions : f \in Range(frames[r])} IN
        IF f \in free THEN of = {} ELSE Cardinality(of) = 1

\* A page table maps what the address map says, frame by frame, and nothing
\* else: a task has no access to a frame that it does not own a region of.
TableMatchesMap ==
    \A t \in Tasks, p \in Pages :
        LET r == Find(t, p).region IN
        IF r = None THEN p \notin DOMAIN table[t]
        ELSE /\ p \in DOMAIN table[t]
             /\ table[t][p] = IF r = Guard THEN Guard ELSE frames[r][p - Find(t, p).start + 1]

\* A capability for memory says where its region is mapped, as long as it is
\* held: query_mem_cap() returns that address, delete() deallocates it.
CapabilityNamesMapping ==
    \A t \in Tasks : \A c \in DOMAIN caps[t] :
        LET at == caps[t][c].at IN
        Find(t, at).start = at /\ Find(t, at).region = caps[t][c].region

\* The two panics of dealloc_region() need a task that is not careful.
CarefulNeverPanics == panic \notin {"unallocated", "unmapped"}

\* The assertion of dealloc_region(), "trying to dealloc an unallocated region".
DeallocatesAllocated == panic # "unallocated"

\* "Search for an unoccupied memory region that satisfies the given PageSize
\* and number of pages": the comment on find_free_region().
FindsUnoccupied ==
    \A t \in Tasks, n \in 1 .. MaxPages : \A a \in FindFree(t, n) : Find(t, a).region = None

\* unreachable!("next level page size"), in the walk of the page table.
WalkEndsAtLeaf == panic # "next level page size"

\* expect("Branch found on lowest level page table!"), in the drop of a table.
DropMeetsNoBranch == panic # "branch on lowest level"
===============================================================================
