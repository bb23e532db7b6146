---------------------------- MODULE SplitVirtqueue ----------------------------
(***************************************************************************)
(* The split virtqueue of libs/virtio (splitqueue.rs): a descriptor table, *)
(* a ring of available chains the driver writes and a ring of used ones    *)
(* the device writes, each with an index that wraps around, shared by a    *)
(* driver and a device that run at the same time.  The driver allocates    *)
(* chains of ChainLength descriptors, as VirtIoBlockDevice (3) and         *)
(* VirtIoNetDevice (1) do; the device is external.                         *)
(***************************************************************************)
EXTENDS Integers, Sequences, FiniteSets, SequencesExt

CONSTANTS
    QueueSize,    \* a power of two: new() refuses any other
    IndexMod,     \* 2^16 in the code
    ChainLength,
    None

Powers == {1, 2, 4, 8, 16, 32}
\* What the constants of an instance satisfy.
SplitVirtqueueAssumption ==
    /\ QueueSize \in Powers /\ IndexMod \in Powers /\ 2 * QueueSize =< IndexMod
    /\ ChainLength \in 1 .. QueueSize
    /\ None \notin 0 .. QueueSize - 1

Descriptors == 0 .. QueueSize - 1
Index == 0 .. IndexMod - 1
Ring(i) == i % QueueSize

VARIABLES
    freelist,   \* SplitVirtqueue::freelist
    link,       \* `next' of every descriptor in the table
    availIndex, availRing,
    usedIndex, usedRing,
    lastSeen,   \* UsedQueue::last_seen
    pushing,    \* the chain push() is in the middle of: its head, and the next write
    seen, held  \* of the device: available entries it has read, chains it holds

driverVars == <<freelist, link, availIndex, availRing, lastSeen, pushing>>
deviceVars == <<usedIndex, usedRing, seen, held>>
vars == <<driverVars, deviceVars>>

\* new(): every descriptor is free, the memory of the rings is zero.
Init ==
    /\ freelist = [i \in 1 .. QueueSize |-> i - 1]
    /\ link = [d \in Descriptors |-> 0]
    /\ availIndex = 0 /\ availRing = [d \in Descriptors |-> 0]
    /\ usedIndex = 0 /\ usedRing = [d \in Descriptors |-> 0]
    /\ lastSeen = 0
    /\ pushing = <<None, "none">>
    /\ seen = 0 /\ held = {}

-----------------------------------------------------------------------------
(* The driver *)

\* alloc_descriptor() takes from the back of the free list; the driver writes
\* the `next' of every descriptor but the last, whose `next' is the default 0.
Allocate ==
    LET n == Len(freelist)
        chain == [i \in 1 .. ChainLength |-> freelist[n + 1 - i]] IN
    /\ pushing[2] = "none"
    /\ n >= ChainLength
    /\ freelist' = SubSeq(freelist, 1, n - ChainLength)
    /\ link' = [d \in Descriptors |->
                  IF d \in ToSet(chain)
                  THEN LET i == CHOOSE j \in 1 .. ChainLength : chain[j] = d IN
                       IF i = ChainLength THEN 0 ELSE chain[i + 1]
                  ELSE link[d]]
    /\ pushing' = <<chain[1], "ring">>
    /\ UNCHANGED <<availIndex, availRing, lastSeen, deviceVars>>

\* Mutant: the index is written before the entry, as a missing fence allows.
PushRing_IndexFirst ==
    /\ pushing[2] = "ring"
    /\ availIndex' = (availIndex + 1) % IndexMod
    /\ pushing' = <<pushing[1], "index">>
    /\ UNCHANGED <<freelist, link, availRing, lastSeen, deviceVars>>

\* push(): the entry, a fence, ...
PushRing ==
    /\ pushing[2] = "ring"
    /\ availRing' = [availRing EXCEPT ![Ring(availIndex)] = pushing[1]]
    /\ pushing' = <<pushing[1], "index">>
    /\ UNCHANGED <<freelist, link, availIndex, lastSeen, deviceVars>>

\* ... and the index, which wraps around.
PushIndex ==
    /\ pushing[2] = "index"
    /\ availIndex' = (availIndex + 1) % IndexMod
    /\ pushing' = <<None, "none">>
    /\ UNCHANGED <<freelist, link, availRing, lastSeen, deviceVars>>

Chain(head) ==
    LET at[i \in 1 .. ChainLength] == IF i = 1 THEN head ELSE link[at[i - 1]] IN at

\* Mutant: a driver that frees the head of a chain only.
Pop_HeadOnly ==
    /\ pushing[2] = "none" /\ lastSeen # usedIndex
    /\ freelist' = Append(freelist, usedRing[Ring(lastSeen)])
    /\ lastSeen' = (lastSeen + 1) % IndexMod
    /\ UNCHANGED <<link, availIndex, availRing, pushing, deviceVars>>

\* pop(), and the driver freeing the chain it reads from the table.
Pop ==
    /\ pushing[2] = "none" /\ lastSeen # usedIndex
    /\ freelist' = freelist \o Chain(usedRing[Ring(lastSeen)])
    /\ lastSeen' = (lastSeen + 1) % IndexMod
    /\ UNCHANGED <<link, availIndex, availRing, pushing, deviceVars>>

-----------------------------------------------------------------------------
(* The device (external) *)

DeviceTakes ==
    /\ seen # availIndex
    /\ held' = held \cup {availRing[Ring(seen)]}
    /\ seen' = (seen + 1) % IndexMod
    /\ UNCHANGED <<driverVars, usedIndex, usedRing>>

DeviceReturns(h) ==
    /\ h \in held
    /\ usedRing' = [usedRing EXCEPT ![Ring(usedIndex)] = h]
    /\ usedIndex' = (usedIndex + 1) % IndexMod
    /\ held' = held \ {h}
    /\ UNCHANGED <<driverVars, seen>>

Next ==
    \/ Allocate \/ PushRing \/ PushIndex \/ Pop
    \/ DeviceTakes \/ \E h \in Descriptors : DeviceReturns(h)

\* The driver finishes a push it began and looks at the used ring when it is
\* interrupted; the device works on what it is given.
Fairness ==
    /\ WF_vars(PushRing) /\ WF_vars(PushIndex) /\ WF_vars(Pop)
    /\ WF_vars(DeviceTakes) /\ \A h \in Descriptors : WF_vars(DeviceReturns(h))

Spec == Init /\ [][Next]_vars /\ Fairness

-----------------------------------------------------------------------------
(* Properties *)

TypeOK ==
    /\ freelist \in Seq(Descriptors)
    /\ link \in [Descriptors -> Descriptors]
    /\ {availIndex, usedIndex, lastSeen, seen} \subseteq Index
    /\ availRing \in [Descriptors -> Descriptors] /\ usedRing \in [Descriptors -> Descriptors]
    /\ pushing \in (Descriptors \cup {None}) \X {"none", "ring", "index"}
    /\ held \subseteq Descriptors

\* The entries of a ring from index a up to index b.
Between(ring, a, b) ==
    [i \in 1 .. (b + IndexMod - a) % IndexMod |-> ring[Ring(a + i - 1)]]

Outstanding ==
    LET s == Between(availRing, seen, availIndex) \o SetToSeq(held) \o Between(usedRing, lastSeen, usedIndex) IN
    IF pushing[2] = "none" THEN s ELSE Append(s, pushing[1])

\* No descriptor is lost or doubled: each is on the free list or in exactly
\* one chain that is being offered, held by the device or returned, although
\* the chains come back in any order and the table is the only record of them.
DescriptorsConserved ==
    LET all == freelist \o FlattenSeq([i \in DOMAIN Outstanding |-> Chain(Outstanding[i])]) IN
    Len(all) = QueueSize /\ ToSet(all) = Descriptors

\* The rings and their wrapping indices are the queues of module Virtqueue:
\* the device never reads an entry before it is written, and neither side
\* reads one twice, skips one, or has one overwritten.
Abstract == INSTANCE Virtqueue WITH
    Heads <- Descriptors,
    available <- Between(availRing, seen, availIndex),
    device <- held,
    used <- Between(usedRing, lastSeen, usedIndex)
ImplementsVirtqueue == Abstract!Spec

===============================================================================
