---------------------------- MODULE MC_Collections ----------------------------
(***************************************************************************)
(* The collections of shared/collections for TLC.  A behaviour is about    *)
(* one of them; the variables it does not use are 0.  The calls of the     *)
(* parts are those the code gets right: see the README for the others.     *)
(***************************************************************************)
EXTENDS Integers, Sequences, TLC

CONSTANTS None, Values

VARIABLES
    part,
    mem, cursor,            \* of the lists
    slots, len,             \* of the hash table
    map, cache, ub, used,   \* of the cache
    out                     \* what the last call returned

Singly == INSTANCE SinglyLinkedList WITH MaxNodes <- 3, MaxExtend <- 2, AfterSplit <- FALSE

\* Nothing is taken from the front, and no cursor removes the last node.
Doubly == INSTANCE DoublyLinkedList WITH MaxNodes <- 3, MaxExtend <- 2, MaxCount <- 3,
    Calls <- {"push", "pop_back", "insert", "extend", "remove", "clone", "cursor", "backward", "split"}
\* Nobody goes backward.
Queue == INSTANCE DoublyLinkedList WITH MaxNodes <- 3, MaxExtend <- 2, MaxCount <- 3,
    Calls <- {"push", "pop_front", "insert", "extend", "clone", "cursor", "split"}
Appended == INSTANCE DoublyLinkedList WITH MaxNodes <- 4, MaxExtend <- 2, MaxCount <- 4,
    Calls <- {"push", "pop_front", "extend", "clone", "append"}
\* Memory runs out half way through a call.
Failing == INSTANCE DoublyLinkedList WITH MaxNodes <- 3, MaxExtend <- 2, MaxCount <- 5,
    Calls <- {"push", "insert", "extend", "fail"}

\* Keys that collide in a bucket of four, of eight, and not at all.
Colliding == INSTANCE HashMap WITH
    Keys <- {"a", "b", "c", "d"}, Hash <- "a" :> 1 @@ "b" :> 5 @@ "c" :> 9 @@ "d" :> 2,
    Capacities <- {0, 4, 6}, MaxCapacity <- 12, Calls <- {"insert", "get", "drop"}
\* Keys that never meet.
Apart == INSTANCE HashMap WITH
    Keys <- {"a", "b", "c"}, Hash <- "a" :> 0 @@ "b" :> 1 @@ "c" :> 2,
    Capacities <- {4, 5}, MaxCapacity <- 12,
    Calls <- {"insert", "get", "entry", "remove", "reserve", "drop"}

Evicting == INSTANCE LruCache WITH
    Keys <- {"a", "b", "c", "d"}, Values <- {"v"}, CacheCapacity <- 3, Calls <- {"evict", "remove"}
\* Hits on entries other than the last move them.
Moving == INSTANCE LruCache WITH
    Keys <- {"a", "b", "c", "d"}, CacheCapacity <- 3, Calls <- {"evict", "move"}

ASSUME Singly!SinglyLinkedListAssumption /\ Doubly!DoublyLinkedListAssumption
ASSUME Colliding!HashMapAssumption /\ Apart!HashMapAssumption /\ Moving!LruCacheAssumption

listVars == <<mem, cursor>>
tableVars == <<slots, len>>
cacheVars == <<map, cache, ub, used>>
vars == <<part, listVars, tableVars, cacheVars, out>>

NoList == mem = 0 /\ cursor = 0
NoTable == slots = 0 /\ len = 0
NoCache == map = 0 /\ cache = 0 /\ ub = 0 /\ used = 0

Init ==
    \/ /\ NoTable /\ NoCache
       /\ \/ part = "singly" /\ Singly!Init
          \/ part = "doubly" /\ Doubly!Init
          \/ part = "queue" /\ Queue!Init
          \/ part = "appended" /\ Appended!Init
          \/ part = "failing" /\ Failing!Init
    \/ /\ NoList /\ NoCache
       /\ \/ part = "colliding" /\ Colliding!Init
          \/ part = "apart" /\ Apart!Init
    \/ /\ NoList /\ NoTable
       /\ \/ part = "evicting" /\ Evicting!Init
          \/ part = "moving" /\ Moving!Init

Next ==
    /\ UNCHANGED part
    /\ \/ /\ UNCHANGED <<tableVars, cacheVars>>
          /\ \/ part = "singly" /\ Singly!Next
             \/ part = "doubly" /\ Doubly!Next
             \/ part = "queue" /\ Queue!Next
             \/ part = "appended" /\ Appended!Next
             \/ part = "failing" /\ Failing!Next
       \/ /\ UNCHANGED <<listVars, cacheVars>>
          /\ \/ part = "colliding" /\ Colliding!Next
             \/ part = "apart" /\ Apart!Next
       \/ /\ UNCHANGED <<listVars, tableVars>>
          /\ \/ part = "evicting" /\ Evicting!Next
             \/ part = "moving" /\ Moving!Next

Spec == Init /\ [][Next]_vars

-----------------------------------------------------------------------------

\* Every call of the pointer structures of linked_list/singly.rs and doubly.rs
\* changes and returns what the call of a sequence does, also when memory runs
\* out; appending one list to another is concatenation.
ListsAreSequences ==
    /\ part = "singly" => Singly!Abstract!Init
    /\ part = "doubly" => Doubly!Abstract!Init
    /\ part = "appended" => Appended!Abstract!Init
    /\ [][/\ part = "singly" => Singly!Abstract!Next
          /\ part = "doubly" => Doubly!Abstract!Next
          /\ part = "appended" => Appended!Abstract!Next]_vars

\* The pointers are as the methods rely on.  A node is in one list, not freed
\* early and not leaked (singly.rs); the links back mirror the links forward
\* where somebody goes back, and otherwise the count, the tail and the way
\* forward are right, also when memory runs out (doubly.rs); an entry of the
\* table is where the probes of its key end, and the probes of any key end
\* (slot_for_hash); and the cache follows no pointer to a freed entry and keeps
\* its entries in the order of their use, in both directions (lru.rs).
WellLinked ==
    /\ part = "singly" => Singly!TypeOK /\ Singly!LenCounts /\ Singly!NodesOwnedOnce
    /\ part = "doubly" => Doubly!TypeOK /\ Doubly!LinksMirror
    /\ part = "queue" => Queue!ForwardKept
    /\ part = "appended" => Appended!ForwardKept
    /\ part = "failing" => Failing!AllCounted
    /\ part = "colliding" => Colliding!TypeOK /\ Colliding!Findable /\ Colliding!LookupEnds
    /\ part = "evicting" => Evicting!NoDangling /\ Evicting!InOrderOfUse /\ Evicting!BothWays
    /\ part = "moving" => Moving!TypeOK /\ Moving!NoDangling

\* Every call of the hash table (hash_map/mod.rs) changes and returns what that
\* of a map does: with colliding keys as the bucket grows, and with keys that do
\* not collide for removals and entries too.
TableIsMap ==
    /\ part = "colliding" => Colliding!Abstract!Init
    /\ part = "apart" => Apart!Abstract!Init
    /\ [][/\ part = "colliding" => Colliding!Abstract!Next
          /\ part = "apart" => Apart!Abstract!Next]_vars

\* insert() evicts "the least recently used entry in the cache" (lru.rs).
EvictsLeastRecent == [][part = "moving" => Moving!EvictsOldest]_vars
=============================================================================
