------------------------------ MODULE KernelHeap ------------------------------
(***************************************************************************)
(* The kernel's heap, FreeListAllocator of mem/heap/free_list.rs: a singly *)
(* linked list of free nodes, first fit, with the header of a node in      *)
(* front of its data.  Memory is counted in words of eight bytes, so       *)
(* align_to_usize is a rounding that has already happened and a header,    *)
(* next and size, is two words.  The list and the headers are in the same  *)
(* memory: what a node's header says is read from where the node is.       *)
(***************************************************************************)
EXTENDS Naturals, FiniteSets

CONSTANTS
    HeapWords,  \* the size given to init, header of the first node included
    MaxAlloc    \* bound on the words of one request

Header == 2     \* FreeListNode::struct_size()
Null == HeapWords + 1

\* What the constants of an instance satisfy.
HeapAssumption == HeapWords > Header /\ MaxAlloc > 0

VARIABLES
    head,    \* FreeList::head, or Null
    next,    \* address -> FreeListNode::next there
    size,    \* address -> FreeListNode::size there
    live,    \* the blocks handed out: [ptr, words]
    panic

vars == <<head, next, size, live, panic>>

Addresses == 0..HeapWords - 1

-----------------------------------------------------------------------------
(* The list *)

\* The nodes from n on, in order, as a function of their position.
Reaches[n \in 0..Null, k \in Nat] ==
    IF k = 0 \/ n = Null THEN n ELSE Reaches[next[n], k - 1]

FreeNodes == {Reaches[head, k] : k \in 0..HeapWords} \ {Null}

\* Mutant: the header counts as room.
Fits_WithHeader(n, words) == size[n] + Header >= words

\* Large enough for the request, and for one more node with a word of data.
Fits(n, words) == size[n] >= words
Splits(n, words) == size[n] >= words + Header + 1

\* alloc walks to the first node that fits; before it, every node is too small.
FirstFit(k, words) ==
    /\ Reaches[head, k] # Null
    /\ Fits(Reaches[head, k], words)
    /\ \A j \in 0..k - 1 : ~Fits(Reaches[head, j], words)

-----------------------------------------------------------------------------
(* GlobalAlloc *)

\* Links what precedes the k-th node to m.
Relink(k, m, nexts) ==
    IF k = 0 THEN head' = m /\ next' = nexts
             ELSE head' = head /\ next' = [nexts EXCEPT ![Reaches[head, k - 1]] = m]

\* Mutant: the header of the new node is not taken off its size.
AllocSplit_WholeRest(k, words) ==
    LET n == Reaches[head, k]
        m == n + Header + words
    IN  /\ FirstFit(k, words) /\ Splits(n, words)
        /\ size' = [size EXCEPT ![n] = words, ![m] = size[n] - words]
        /\ Relink(k, m, [next EXCEPT ![n] = Null, ![m] = next[n]])
        /\ live' = live \cup {[ptr |-> n + Header, words |-> words]}
        /\ UNCHANGED panic

\* FreeListNode::split: the front serves the request, the rest takes its place.
AllocSplit(k, words) ==
    LET n == Reaches[head, k]
        m == n + Header + words
    IN  /\ FirstFit(k, words) /\ Splits(n, words)
        /\ size' = [size EXCEPT ![n] = words, ![m] = size[n] - words - Header]
        /\ Relink(k, m, [next EXCEPT ![n] = Null, ![m] = next[n]])
        /\ live' = live \cup {[ptr |-> n + Header, words |-> words]}
        /\ UNCHANGED panic

\* The node serves the request as it is.
AllocWhole(k, words) ==
    LET n == Reaches[head, k]
    IN  /\ FirstFit(k, words) /\ ~Splits(n, words)
        /\ ~(k = 0 /\ next[n] = Null)
        /\ Relink(k, next[n], next)
        /\ live' = live \cup {[ptr |-> n + Header, words |-> words]}
        /\ UNCHANGED <<size, panic>>

\* The only node is wanted whole: expect("valid next").
AllocLast(words) ==
    /\ FirstFit(0, words) /\ ~Splits(head, words) /\ next[head] = Null
    /\ panic' = TRUE
    /\ UNCHANGED <<head, next, size, live>>

\* No node fits: a null pointer.
AllocFails(words) ==
    /\ \A n \in FreeNodes : ~Fits(n, words)
    /\ UNCHANGED vars

Dealloc(b) ==
    LET n == b.ptr - Header
    IN  /\ next' = [next EXCEPT ![n] = head]
        /\ head' = n
        /\ live' = live \ {b}
        /\ UNCHANGED <<size, panic>>

-----------------------------------------------------------------------------

\* FreeListAllocator::init: one node over the whole heap.
Init ==
    /\ head = 0
    /\ next = [a \in Addresses |-> Null]
    /\ size = [a \in Addresses |-> IF a = 0 THEN HeapWords - Header ELSE 0]
    /\ live = {}
    /\ panic = FALSE

Next ==
    /\ ~panic
    /\ \/ \E words \in 1..MaxAlloc :
              \/ \E k \in 0..HeapWords : AllocSplit(k, words) \/ AllocWhole(k, words)
              \/ AllocLast(words)
              \/ AllocFails(words)
       \/ \E b \in live : Dealloc(b)

Spec == Init /\ [][Next]_vars

-----------------------------------------------------------------------------
(* Properties *)

Words(a, n) == a..a + n - 1

\* The extent of every node, header included: those in the list, and those handed
\* out, of which the header is still there for dealloc.
Extents ==
    {Words(n, Header + size[n]) : n \in FreeNodes}
        \cup {Words(b.ptr - Header, Header + size[b.ptr - Header]) : b \in live}

\* The nodes tile the heap: splitting, reuse and freeing in any order leave no two
\* nodes that overlap and lose no word, so a block is never handed out twice and
\* no header is inside someone's data.
Tiles ==
    ~panic =>
        /\ Cardinality(Extents) = Cardinality(FreeNodes) + Cardinality(live)
        /\ \A x, y \in Extents : x # y => x \cap y = {}
        /\ UNION Extents = Addresses

\* A block holds what was asked for.
LargeEnough == \A b \in live : size[b.ptr - Header] >= b.words

\* alloc has another node to make the head: expect("valid next").
ValidNext == ~panic
=============================================================================
