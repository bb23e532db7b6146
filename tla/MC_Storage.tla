------------------------------- MODULE MC_Storage ------------------------------
(***************************************************************************)
(* The drivers and the filesystem for TLC: the rings of a virtqueue, the   *)
(* block and network drivers on it and their initialisation, and FAT32's   *)
(* files and paths.  A behaviour is about one of them; the variables it    *)
(* does not use are 0.                                                     *)
(***************************************************************************)
EXTENDS Integers, Sequences, FiniteSets, TLC

CONSTANT None

VARIABLES
    part,
    \* SplitVirtqueue
    freelist, link, availIndex, availRing, usedIndex, usedRing, lastSeen, pushing, seen, held,
    \* VirtioBlock
    chains, table, available, device, used, commands, freeCommands, freeData, queued, waiting, drops, isr, irq, task,
    requests, lost,
    \* VirtioInit
    which, pc, address, selected, result, offers, picky, status, accepted, queueSelect, queues, notified,
    \* VirtioNet
    txFree, txFreeBuffers, txMap, txAvailable, txDevice, txUsed, rxFree, rxFreeBuffers, rxMap, rxAvailable, rxDevice,
    rxUsed, received, netIsr, netIrq, sent, sending, arrived, handled, panicked,
    \* Fat32
    openFiles, opened, reading, got, opens, errors, fatPanicked,
    \* PathLookup
    roots, lookup, origin, found

-----------------------------------------------------------------------------
(* The drivers *)

\* The indices wrap after four rounds of the ring, and after two.
Single == INSTANCE SplitVirtqueue WITH QueueSize <- 2, IndexMod <- 8, ChainLength <- 1
Chained == INSTANCE SplitVirtqueue WITH QueueSize <- 4, IndexMod <- 8, ChainLength <- 2

\* Two requests fit in the queue, but their commands and data are used up.
Blocks == INSTANCE VirtioBlock WITH
    freelist <- chains, Tasks <- {"t1", "t2"}, NDescriptors <- 8, NCommands <- 2, NData <- 2,
    MaxRequests <- 4, Status <- {0, 1}
\* One request fits in the queue.
FewDescriptors == INSTANCE VirtioBlock WITH
    freelist <- chains, Tasks <- {"t1", "t2"}, NDescriptors <- 4, NCommands <- 2, NData <- 2,
    MaxRequests <- 5, Status <- {0, 1}
\* One command is there.
FewCommands == INSTANCE VirtioBlock WITH
    freelist <- chains, Tasks <- {"t1", "t2", "t3"}, NDescriptors <- 8, NCommands <- 1, NData <- 3,
    MaxRequests <- 3, Status <- {0, 1}

Setup == INSTANCE VirtioInit WITH Half <- 4, Addresses <- {6, 13}

Packets == INSTANCE VirtioNet WITH
    isr <- netIsr, irq <- netIrq, NDescriptors <- 4, NBuffers <- 4, MaxSends <- 4, MaxPackets <- 2, TooLong <- TRUE
\* More packets are sent and arrive than there are buffers.
FewBuffers == INSTANCE VirtioNet WITH
    isr <- netIsr, irq <- netIrq, NDescriptors <- 4, NBuffers <- 2, MaxSends <- 4, MaxPackets <- 3, TooLong <- TRUE

-----------------------------------------------------------------------------
(* The filesystem.  Clusters are numbered from 2.  On the disk the file      *)
(* `long' is scattered and ends in the middle of a block, `exact' ends with  *)
(* its cluster, `empty' has none, `cut' is longer than its clusters and      *)
(* `lost' goes on in a cluster that is not in use.                           *)

Disk ==
    "long" :> [cluster |-> 5, size |-> 5] @@ "exact" :> [cluster |-> 3, size |-> 2] @@
    "empty" :> [cluster |-> 0, size |-> 0] @@ "cut" :> [cluster |-> 6, size |-> 9] @@
    "lost" :> [cluster |-> 7, size |-> 4]
FatTable == [c \in 0..9 |-> CASE c = 5 -> 2 [] c = 2 -> 4 [] c \in {3, 4, 6} -> -1 [] OTHER -> -2]

\* One client, and all files.
AllFiles == INSTANCE Fat32 WITH
    task <- reading, panicked <- fatPanicked, Clients <- {"c1"}, Files <- DOMAIN Disk, FileData <- Disk, Fat <- FatTable,
    SectorSize <- 2, EntriesPerSector <- 4, SectorsPerCluster <- 1, FatStart <- 10, ClustersStart <- 20,
    LastSector <- 26, MaxOpens <- 2, MaxErrors <- 2
\* Two clients and two files.
Shared == INSTANCE Fat32 WITH
    task <- reading, panicked <- fatPanicked, Clients <- {"c1", "c2"}, Files <- {"long", "cut"}, FileData <- Disk,
    Fat <- FatTable, SectorSize <- 2, EntriesPerSector <- 4, SectorsPerCluster <- 1, FatStart <- 10,
    ClustersStart <- 20, LastSector <- 26, MaxOpens <- 2, MaxErrors <- 0
\* A cluster of two sectors.
Clusters == INSTANCE Fat32 WITH
    task <- reading, panicked <- fatPanicked, Clients <- {"c1", "c2"}, Files <- {"one"},
    FileData <- "one" :> [cluster |-> 3, size |-> 4], Fat <- [c \in 0..5 |-> -1],
    SectorSize <- 2, EntriesPerSector <- 4, SectorsPerCluster <- 2, FatStart <- 10, ClustersStart <- 20,
    LastSector <- 25, MaxOpens <- 1, MaxErrors <- 1

\* A small tree.  The root holds a file f and a directory a, and has an entry
\* behind its end.  The directory a holds a file f and a directory with the
\* short name s and a long name in two parts, behind a deleted one.  That
\* directory holds a file with two names and one with one, and is full.
Item(kind, name, cluster) == [kind |-> kind, name |-> name, cluster |-> cluster]
Deleted == Item("deleted", "", 0)
End == Item("end", "", 0)
File(name) == Item("file", name, 0)
LongPart(name) == Item("long", name, 0)
Tree ==
    2 :> << Deleted, File(<<"f">>), Item("directory", <<"a">>, 3), End, File(<<"b">>) >> @@
    3 :> << File(<<"f">>), LongPart(<<"b">>), Deleted, LongPart(<<"g">>), LongPart(<<"f">>),
            Item("directory", <<"s">>, 4), End >> @@
    4 :> << LongPart(<<"b">>), File(<<"t">>), File(<<"f">>) >>

\* What the directories hold, by all of its names.
Named(names, kind, cluster) == [names |-> names, kind |-> kind, cluster |-> cluster]
Held ==
    2 :> {Named({<<"f">>}, "file", 0), Named({<<"a">>}, "directory", 3)} @@
    3 :> {Named({<<"f">>}, "file", 0), Named({<<"s">>, <<"f", "g">>}, "directory", 4)} @@
    4 :> {Named({<<"b">>, <<"t">>}, "file", 0), Named({<<"f">>}, "file", 0)}

\* /x, /x/y and /x/y/z, and with the long name f g; with and without the
\* leading slash.
Names == {"a", "b", "f", "s"}
Absolute ==
    { <<"/", x>> : x \in Names } \cup { <<"/", x, "/", y>> : x, y \in Names }
    \cup { <<"/", "a", "/", y, z>> : y \in {"f", "g"}, z \in {"f", "g"} }
    \cup { <<"/", "a", "/", "f", "g", "/", z>> : z \in Names } \cup { <<"/", x, "/", "s", "/", z>> : x, z \in Names }

Lookups == INSTANCE PathLookup WITH
    task <- lookup, Directories <- Tree, Contents <- Held, RootCluster <- 2,
    Paths <- Absolute \cup { Tail(p) : p \in Absolute } \cup { <<>> },
    RootPaths <- { <<"/", "a">>, <<"/", "a", "/", "s">>, <<"/", "f">>, <<"/", "b">> }, MaxRoots <- 1

ASSUME Single!SplitVirtqueueAssumption /\ Chained!SplitVirtqueueAssumption
ASSUME Blocks!VirtioBlockAssumption /\ FewDescriptors!VirtioBlockAssumption /\ FewCommands!VirtioBlockAssumption
ASSUME Setup!VirtioInitAssumption /\ Packets!VirtioNetAssumption /\ FewBuffers!VirtioNetAssumption

-----------------------------------------------------------------------------
ringVars == <<freelist, link, availIndex, availRing, usedIndex, usedRing, lastSeen, pushing, seen, held>>
blockVars == <<chains, table, available, device, used, commands, freeCommands, freeData, queued, waiting,
    drops, isr, irq, task, requests, lost>>
setupVars == <<which, pc, address, selected, result, offers, picky, status, accepted, queueSelect, queues,
    notified>>
netVars == <<txFree, txFreeBuffers, txMap, txAvailable, txDevice, txUsed, rxFree, rxFreeBuffers, rxMap,
    rxAvailable, rxDevice, rxUsed, received, netIsr, netIrq, sent, sending, arrived, handled, panicked>>
fatVars == <<openFiles, opened, reading, got, opens, errors, fatPanicked>>
lookupVars == <<roots, lookup, origin, found>>
vars == <<part, ringVars, blockVars, setupVars, netVars, fatVars, lookupVars>>

NoRings ==
    /\ freelist = 0 /\ link = 0 /\ availIndex = 0 /\ availRing = 0 /\ usedIndex = 0 /\ usedRing = 0
    /\ lastSeen = 0 /\ pushing = 0 /\ seen = 0 /\ held = 0
NoBlocks ==
    /\ chains = 0 /\ table = 0 /\ available = 0 /\ device = 0 /\ used = 0 /\ commands = 0
    /\ freeCommands = 0 /\ freeData = 0 /\ queued = 0 /\ waiting = 0 /\ drops = 0 /\ isr = 0
    /\ irq = 0 /\ task = 0 /\ requests = 0 /\ lost = 0
NoSetup ==
    /\ which = 0 /\ pc = 0 /\ address = 0 /\ selected = 0 /\ result = 0 /\ offers = 0
    /\ picky = 0 /\ status = 0 /\ accepted = 0 /\ queueSelect = 0 /\ queues = 0 /\ notified = 0
NoNet ==
    /\ txFree = 0 /\ txFreeBuffers = 0 /\ txMap = 0 /\ txAvailable = 0 /\ txDevice = 0 /\ txUsed = 0
    /\ rxFree = 0 /\ rxFreeBuffers = 0 /\ rxMap = 0 /\ rxAvailable = 0 /\ rxDevice = 0 /\ rxUsed = 0
    /\ received = 0 /\ netIsr = 0 /\ netIrq = 0 /\ sent = 0 /\ sending = 0 /\ arrived = 0
    /\ handled = 0 /\ panicked = 0
NoFat ==
    /\ openFiles = 0 /\ opened = 0 /\ reading = 0 /\ got = 0 /\ opens = 0 /\ errors = 0
    /\ fatPanicked = 0
NoLookup ==
    /\ roots = 0 /\ lookup = 0 /\ origin = 0 /\ found = 0

Init ==
    \/ /\ NoBlocks /\ NoSetup /\ NoNet /\ NoFat /\ NoLookup
       /\ \/ part = "single" /\ Single!Init
          \/ part = "chained" /\ Chained!Init
    \/ /\ NoRings /\ NoSetup /\ NoNet /\ NoFat /\ NoLookup
       /\ \/ part = "blocks" /\ Blocks!Init
          \/ part = "few descriptors" /\ FewDescriptors!Init
          \/ part = "few commands" /\ FewCommands!Init
    \/ /\ NoRings /\ NoBlocks /\ NoNet /\ NoFat /\ NoLookup
       /\ part = "setup" /\ Setup!Init
    \/ /\ NoRings /\ NoBlocks /\ NoSetup /\ NoFat /\ NoLookup
       /\ \/ part = "packets" /\ Packets!Init
          \/ part = "few buffers" /\ FewBuffers!Init
    \/ /\ NoRings /\ NoBlocks /\ NoSetup /\ NoNet /\ NoLookup
       /\ \/ part = "files" /\ AllFiles!Init
          \/ part = "shared" /\ Shared!Init
          \/ part = "clusters" /\ Clusters!Init
    \/ /\ NoRings /\ NoBlocks /\ NoSetup /\ NoNet /\ NoFat
       /\ part = "lookups" /\ Lookups!Init

Next ==
    /\ UNCHANGED part
    /\ \/ /\ UNCHANGED <<blockVars, setupVars, netVars, fatVars, lookupVars>>
          /\ \/ part = "single" /\ Single!Next
             \/ part = "chained" /\ Chained!Next
       \/ /\ UNCHANGED <<ringVars, setupVars, netVars, fatVars, lookupVars>>
          /\ \/ part = "blocks" /\ Blocks!Next
             \/ part = "few descriptors" /\ FewDescriptors!Next
             \/ part = "few commands" /\ FewCommands!Next
       \/ /\ UNCHANGED <<ringVars, blockVars, netVars, fatVars, lookupVars>>
          /\ part = "setup" /\ Setup!Next
       \/ /\ UNCHANGED <<ringVars, blockVars, setupVars, fatVars, lookupVars>>
          /\ \/ part = "packets" /\ Packets!Next
             \/ part = "few buffers" /\ FewBuffers!Next
       \/ /\ UNCHANGED <<ringVars, blockVars, setupVars, netVars, lookupVars>>
          /\ \/ part = "files" /\ AllFiles!Next
             \/ part = "shared" /\ Shared!Next
             \/ part = "clusters" /\ Clusters!Next
       \/ /\ UNCHANGED <<ringVars, blockVars, setupVars, netVars, fatVars>>
          /\ part = "lookups" /\ Lookups!Next

\* The device works on what it is given, and its interrupts are handled.
Fairness ==
    /\ WF_blockVars(part = "blocks" /\ Blocks!Interrupt) /\ WF_blockVars(part = "blocks" /\ Blocks!Pop)
    /\ WF_blockVars(part = "blocks" /\ Blocks!PopNone) /\ WF_blockVars(part = "blocks" /\ Blocks!Reclaim)
    /\ WF_blockVars(part = "blocks" /\ Blocks!DeviceTakes)
    /\ \A h \in 0..7 : WF_blockVars(part = "blocks" /\ \E s \in {0, 1} : Blocks!DeviceCompletes(h, s))

Spec == Init /\ [][Next]_vars /\ Fairness

-----------------------------------------------------------------------------

\* The rings and their wrapping indices (splitqueue.rs) are the queues of module
\* Virtqueue: the device never reads an entry before it is written, and neither
\* side reads one twice, skips one, or has one overwritten.
ImplementsVirtqueue ==
    /\ part = "single" => Single!Abstract!Init
    /\ part = "chained" => Chained!Abstract!Init
    /\ [][/\ part = "single" => [Single!Abstract!Next]_(Single!Abstract!queueVars)
          /\ part = "chained" => [Chained!Abstract!Next]_(Chained!Abstract!queueVars)]_vars

\* Descriptors, commands, data blocks and packet buffers are neither lost nor
\* doubled, in whichever order chains come back and whichever of them is used
\* up: what the device may touch stays what the driver wrote for it, and packets
\* are handled once and in order (splitqueue.rs, block_devices/virtio.rs and
\* drivers/virtio.rs).
BuffersConserved ==
    /\ part = "single" => Single!TypeOK /\ Single!DescriptorsConserved
    /\ part = "chained" => Chained!TypeOK /\ Chained!DescriptorsConserved
    /\ part = "blocks" => Blocks!TypeOK /\ Blocks!ChainsIntact /\ Blocks!QueueConserved /\ Blocks!DataConserved
    /\ part = "few descriptors" => FewDescriptors!QueueConserved /\ FewDescriptors!DataConserved
    /\ part = "few commands" => FewCommands!QueueConserved /\ FewCommands!DataConserved
    /\ part = "packets" => Packets!TypeOK /\ Packets!BuffersOwned /\ Packets!InOrder /\ Packets!NoPanic
    /\ part = "few buffers" => FewBuffers!BuffersOwned

\* While a driver is set up (new() in the virtio.rs of both servers) a queue is
\* ready only when the device finds the driver's queue there, and the device is told to go
\* only when both agree on features it has and every queue is ready.
ReadyBeforeUse ==
    part = "setup" => Setup!ReadyQueues /\ Setup!GoesWhenReady /\ Setup!OffersWhatIsUsed

\* A client reads the blocks of its file, each once, in order and to the end,
\* whatever other clients do and the device fails, and a path leads to what its
\* names do (filesystems/fat32.rs).
ReadsFile ==
    /\ part = "files" => AllFiles!ReadsFile /\ AllFiles!ReadToTheEnd /\ AllFiles!InsidePartition
    /\ part = "shared" => Shared!ReadsFile /\ Shared!HandlesDistinct
    /\ part = "clusters" => Clusters!ReadsFile
    /\ part = "lookups" => Lookups!FindsWhatIsThere /\ Lookups!RootsNested

\* A request that reached the device is answered, however completions and the
\* handling of interrupts fall together (block_devices/virtio.rs); an instance has finitely
\* many.  (One that finds no room waits, and is not answered: see the README.)
RequestsAnswered == <>[](part = "blocks" => \A t \in {"t1", "t2"} : task[t].at # "submitted")
================================================================================
