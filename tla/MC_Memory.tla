------------------------------ MODULE MC_Memory ------------------------------
(***************************************************************************)
(* The kernel's memory management for TLC.  A behaviour is about one part: *)
(* an address map (module AddressMap), the page allocator without and with *)
(* megapages, the memory of tasks that deallocate whatever they like or    *)
(* only what they allocated, or the kernel heap.                           *)
(***************************************************************************)
EXTENDS AddressMap, TLC

CONSTANTS
    Parts,                                  \* the parts an instance looks at
    Width, Counts,                          \* of the page allocator
    First, Tasks, Frames, Regions, Guard,   \* of the memory of tasks
    HeapWords                               \* of the kernel heap

VARIABLES
    part,
    bitmap, given, panic,
    memMap, table, frames, refs, free, caps, mail, status, inproc, memPanic,
    head, next, size, live, heapPanic

Phys == INSTANCE PhysicalMemory WITH
    Pages <- 10, MegaEntries <- 1, PerPage <- 4, EntryBytes <- 8, MegaCounts <- {}
PhysMega == INSTANCE PhysicalMemory WITH
    Pages <- 7, MegaEntries <- 1, PerPage <- 4, EntryBytes <- 8, Counts <- {2, 4}, MegaCounts <- {1}
Careless == INSTANCE UserMemory WITH
    Top <- 3, Dma <- FALSE, MaxPages <- 2, MaxCaps <- 1, MaxMail <- 1, MaxMappings <- 1,
    map <- memMap, panic <- memPanic
User == INSTANCE UserMemory WITH
    Top <- 3, Dma <- TRUE, MaxPages <- 2, MaxCaps <- 1, MaxMail <- 1, MaxMappings <- 1,
    map <- memMap, panic <- memPanic
Heap == INSTANCE KernelHeap WITH MaxAlloc <- 4, panic <- heapPanic

ASSUME /\ Phys!PhysicalMemoryAssumption /\ PhysMega!PhysicalMemoryAssumption
       /\ User!UserMemoryAssumption /\ Heap!HeapAssumption

FrameSymmetry == Permutations(Frames)

pageVars == <<bitmap, given, panic>>
userVars == <<memMap, table, frames, refs, free, caps, mail, status, inproc, memPanic>>
heapVars == <<head, next, size, live, heapPanic>>
MCvars == <<part, vars, pageVars, userVars, heapVars>>

MCInit ==
    /\ part \in Parts
    /\ Init /\ User!Init /\ Heap!Init
    /\ IF part = "megapages" THEN PhysMega!Init ELSE Phys!Init

MCNext ==
    /\ UNCHANGED part
    /\ \/ part = "address map" /\ Next /\ UNCHANGED <<pageVars, userVars, heapVars>>
       \/ part = "pages" /\ Phys!Next /\ UNCHANGED <<vars, userVars, heapVars>>
       \/ part = "megapages" /\ PhysMega!Next /\ UNCHANGED <<vars, userVars, heapVars>>
       \/ part = "tasks" /\ Careless!Next /\ UNCHANGED <<vars, pageVars, heapVars>>
       \/ part = "careful tasks" /\ User!CarefulNext /\ UNCHANGED <<vars, pageVars, heapVars>>
       \/ part = "heap" /\ Heap!Next /\ UNCHANGED <<vars, pageVars, userVars>>

MCSpec == MCInit /\ [][MCNext]_MCvars

-----------------------------------------------------------------------------

\* "This method must not return the same physical page multiple times without it
\* having been deallocated before being reused each time" (mem/phys/mod.rs).
PageHandedOutOnce == part = "pages" => Phys!NeverTwice

\* Nor does it, and no page is lost, with allocations and deallocations within
\* an entry and of whole entries of the bitmap (mem/phys/bitmap.rs); the
\* assertions against a double free never fail for a page that is given back
\* once; and the pages the bitmap is kept in are not handed out, whatever
\* deallocations with a wrong end clear.
PagesAccounted ==
    /\ part = "pages" => Phys!TypeOK /\ Phys!NeverTwice /\ Phys!NothingLost /\ Phys!NoFalseDoubleFree
    /\ part = "megapages" => PhysMega!BitmapKept

\* A region (mem/region.rs) is freed when the last map, capability or message
\* that owns it is gone and no earlier, and each frame is free or of one region,
\* whatever addresses tasks deallocate.
FramesOwned ==
    /\ part = "tasks" => Careless!TypeOK /\ Careless!OwnersCounted /\ Careless!FrameOwnedOnce
    /\ part = "careful tasks" => User!OwnersCounted /\ User!FrameOwnedOnce

\* As long as tasks deallocate only what they allocated, a page table maps what
\* the task's address map holds, frame by frame (mem/manager/mod.rs), and a
\* capability for shared memory says where that memory is, so dealloc_region()
\* meets neither an unallocated region nor an unmapped page.
TableMatchesMap ==
    part = "careful tasks" =>
        User!TableMatchesMap /\ User!CapabilityNamesMapping /\ User!CarefulNeverPanics

\* The nodes of the kernel's free list (mem/heap/free_list.rs) and the blocks it
\* has handed out tile the heap, and a block holds what was asked for.
HeapTiles == part = "heap" => Heap!Tiles /\ Heap!LargeEnough
=============================================================================
