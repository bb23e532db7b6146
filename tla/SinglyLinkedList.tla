--------------------------- MODULE SinglyLinkedList ---------------------------
(***************************************************************************)
(* The singly linked list of shared/collections (linked_list/singly.rs),   *)
(* pointer by pointer.  A method is an operator from the state of memory   *)
(* to a new one; methods that use others are composed of them, as in the   *)
(* code.  Memory is a set of nodes; the allocator fails when it is used    *)
(* up.  A list and another one live in it, and a cursor of the first.      *)
(***************************************************************************)
EXTENDS Integers, Sequences, FiniteSets, FiniteSetsExt, SequencesExt

CONSTANTS
    MaxNodes,    \* nodes the allocator can hold out at a time
    Values, None,
    MaxExtend,   \* values extend_from() is given at most
    AfterSplit   \* whether a cursor is used after split()

\* What the constants of an instance satisfy.
SinglyLinkedListAssumption ==
    /\ MaxNodes \in Nat \ {0}
    /\ MaxExtend \in Nat
    /\ AfterSplit \in BOOLEAN
    /\ None \notin Values

Nodes == 1 .. MaxNodes
Names == {"list", "other"}

VARIABLES
    mem,     \* next and val of the nodes, live nodes, head and len of the lists
    cursor,  \* index, previous and position, or None
    out      \* what the last call returned

vars == <<mem, cursor, out>>

Ok == <<"ok">>

Init ==
    /\ mem = [next |-> [n \in Nodes |-> None], val |-> [n \in Nodes |-> None], live |-> {},
              head |-> [l \in Names |-> None], len |-> [l \in Names |-> 0]]
    /\ cursor = None
    /\ out = <<>>

-----------------------------------------------------------------------------
(* Nodes *)

Exhausted(m) == m.live = Nodes
NewNode(m) == Min(Nodes \ m.live)
Alloc(m, v) == [m EXCEPT !.live = @ \cup {NewNode(m)}, !.next[NewNode(m)] = None, !.val[NewNode(m)] = v]
FreeNode(m, n) == [m EXCEPT !.live = @ \ {n}, !.next[n] = None, !.val[n] = None]

\* The nodes of a list in the order its iterator visits them, cut off after
\* one node too many in case it is circular.
Chain(m, l) ==
    LET after[i \in 0 .. MaxNodes] ==
            IF i = 0 THEN m.head[l]
            ELSE IF after[i - 1] = None THEN None ELSE m.next[after[i - 1]]
        length == Cardinality({i \in 0 .. MaxNodes : after[i] # None}) IN
    [i \in 1 .. length |-> after[i - 1]]

Iter(m, l) == LET c == Chain(m, l) IN [i \in DOMAIN c |-> m.val[c[i]]]
LastNode(m, l) == Last(Chain(m, l))

-----------------------------------------------------------------------------
(* Methods of a list *)

PushFront(m, l, v) ==
    LET n == NewNode(m) IN
    [Alloc(m, v) EXCEPT !.next[n] = m.head[l], !.head[l] = n, !.len[l] = @ + 1]

PushBack(m, l, v) ==
    LET n == NewNode(m)
        a == [Alloc(m, v) EXCEPT !.len[l] = @ + 1] IN
    IF m.head[l] = None THEN [a EXCEPT !.head[l] = n] ELSE [a EXCEPT !.next[LastNode(m, l)] = n]

\* Mutant: the count is left as it was.
PopFront_KeepsLen(m, l) ==
    FreeNode([m EXCEPT !.head[l] = m.next[m.head[l]]], m.head[l])

PopFront(m, l) ==
    FreeNode([m EXCEPT !.head[l] = m.next[m.head[l]], !.len[l] = @ - 1], m.head[l])

PopBack(m, l) ==
    LET c == Chain(m, l)
        a == IF Len(c) = 1 THEN [m EXCEPT !.head[l] = None] ELSE [m EXCEPT !.next[c[Len(c) - 1]] = None] IN
    FreeNode([a EXCEPT !.len[l] = @ - 1], Last(c))

\* extend_from(): the values are appended as long as there is memory.
ExtendFrom(m, l, vs) ==
    FoldLeft(LAMBDA a, v : IF Exhausted(a) THEN a ELSE PushBack(a, l, v), m, vs)
Fits(m, vs) == Len(vs) <= MaxNodes - Cardinality(m.live)

AppendOther(m) ==
    LET taken == [m EXCEPT !.head["other"] = None, !.len["other"] = 0, !.len["list"] = @ + m.len["other"]] IN
    IF m.head["list"] = None THEN [taken EXCEPT !.head["list"] = m.head["other"]]
    ELSE IF m.head["other"] = None THEN m
    ELSE [taken EXCEPT !.next[LastNode(m, "list")] = m.head["other"]]

\* Drop: nodes are popped until there are none.
DropList(m, l) == FoldLeft(LAMBDA a, n : PopFront(a, l), m, Chain(m, l))

-----------------------------------------------------------------------------
(* Methods of a cursor: c is the cursor, m the memory *)

CursorMut(m) == [index |-> 0, previous |-> None, position |-> m.head["list"]]

Advance(m, c) ==
    IF c.position = None THEN c
    ELSE [index |-> c.index + 1, previous |-> c.position, position |-> m.next[c.position]]
AdvanceMany(m, n) == FoldLeft(LAMBDA c, i : Advance(m, c), CursorMut(m), [i \in 1 .. n |-> i])

\* Mutant: the node after the removed one is lost.
RemoveAtCursor_Cuts(m, c) ==
    LET a == IF c.previous = None THEN [m EXCEPT !.head["list"] = m.next[c.position]]
             ELSE [m EXCEPT !.next[c.previous] = None] IN
    FreeNode([a EXCEPT !.len["list"] = @ - 1], c.position)

RemoveAtCursor(m, c) ==
    LET a == IF c.previous = None THEN [m EXCEPT !.head["list"] = m.next[c.position]]
             ELSE [m EXCEPT !.next[c.previous] = m.next[c.position]] IN
    FreeNode([a EXCEPT !.len["list"] = @ - 1], c.position)

\* Mutant: the value goes to the front wherever the cursor is.
InsertAtCursor_Front(m, c, v) == PushFront(m, "list", v)

InsertAtCursor(m, c, v) ==
    IF c.previous = None THEN PushFront(m, "list", v)
    ELSE [Alloc(m, v) EXCEPT !.next[c.previous] = NewNode(m), !.next[NewNode(m)] = c.position,
                             !.len["list"] = @ + 1]

\* split(): the rest of the list, from the cursor on, becomes the other one.
SplitAtCursor(m, c) ==
    LET n == m.len["list"] - (IF c.previous = None THEN 0 ELSE c.index)
        a == IF c.previous = None THEN [m EXCEPT !.head["list"] = None] ELSE [m EXCEPT !.next[c.previous] = None] IN
    [a EXCEPT !.head["other"] = c.position, !.len["other"] = n, !.len["list"] = @ - n]
SplitCursor(c) == [c EXCEPT !.position = c.previous]

InsertListAtCursor(m, c) ==
    LET last == LastNode(m, "other")
        a == [m EXCEPT !.len["list"] = @ + m.len["other"], !.len["other"] = 0, !.head["other"] = None] IN
    IF c.previous = None
    THEN [a EXCEPT !.next[last] = m.head["list"], !.head["list"] = m.head["other"]]
    ELSE [a EXCEPT !.next[c.previous] = m.head["other"], !.next[last] = c.position]

-----------------------------------------------------------------------------
(* Calls.  A cursor borrows its list: the list is not used meanwhile. *)

Batches == UNION {[1 .. n -> Values] : n \in 0 .. MaxExtend}
Ranges == 0 .. mem.len["list"] + 1

Returns(m, c, r) == mem' = m /\ cursor' = c /\ out' = r
NoMemory == Exhausted(mem) /\ Returns(mem, cursor, <<"AllocError">>)

CallPush(v) == cursor = None /\
    \/ ~ Exhausted(mem) /\ Returns(PushFront(mem, "list", v), None, Ok)
    \/ ~ Exhausted(mem) /\ Returns(PushBack(mem, "list", v), None, Ok)
    \/ NoMemory

CallPop == cursor = None /\
    IF mem.head["list"] = None THEN Returns(mem, None, <<>>)
    ELSE \/ Returns(PopFront(mem, "list"), None, <<mem.val[mem.head["list"]]>>)
         \/ Returns(PopBack(mem, "list"), None, <<mem.val[LastNode(mem, "list")]>>)

CallExtend(vs) == cursor = None /\
    Returns(ExtendFrom(mem, "list", vs), None, IF Fits(mem, vs) THEN Ok ELSE <<"AllocError">>)

\* insert(): a cursor is advanced and inserts.
CallInsert(at, v) == cursor = None /\
    IF at > mem.len["list"] THEN Returns(mem, None, <<"invalid">>)
    ELSE \/ NoMemory
         \/ ~ Exhausted(mem) /\ Returns(InsertAtCursor(mem, AdvanceMany(mem, at), v), None, Ok)

\* drain(): whether its user takes the values or drops it, all are removed.
CallDrain(from, to) == cursor = None /\
    LET step(s, i) == [m |-> RemoveAtCursor(s.m, s.c),
                       c |-> [s.c EXCEPT !.position = s.m.next[@]],
                       r |-> Append(s.r, s.m.val[s.c.position])]
        end == FoldLeft(step, [m |-> mem, c |-> AdvanceMany(mem, from), r |-> <<>>],
                        [i \in 1 .. to - from |-> i]) IN
    IF from > to \/ to > mem.len["list"] \/ from >= mem.len["list"] THEN Returns(mem, None, <<"invalid">>)
    ELSE Returns(end.m, None, end.r)

CallOther == cursor = None /\
    \/ Returns(AppendOther(mem), None, Ok)
    \/ Returns(DropList(mem, "other"), None, Ok)
    \* fallible_clone(): a clone that does not fit is dropped
    \/ /\ mem.head["other"] = None
       /\ IF Fits(mem, Iter(mem, "list"))
          THEN Returns(ExtendFrom(mem, "other", Iter(mem, "list")), None, Ok)
          ELSE Returns(mem, None, <<"AllocError">>)

CallCursor ==
    \/ cursor = None /\ Returns(mem, CursorMut(mem), Ok)
    \/ cursor # None /\
       \/ Returns(mem, None, Ok)
       \/ Returns(mem, Advance(mem, cursor), Ok)
       \/ IF cursor.position = None THEN Returns(mem, cursor, <<>>)
          ELSE Returns(RemoveAtCursor(mem, cursor), [cursor EXCEPT !.position = mem.next[@]],
                       <<mem.val[cursor.position]>>)
       \/ NoMemory
       \/ \E v \in Values : ~ Exhausted(mem) /\
            Returns(InsertAtCursor(mem, cursor, v), [cursor EXCEPT !.position = NewNode(mem)], Ok)
       \/ mem.head["other"] = None /\
          Returns(SplitAtCursor(mem, cursor), IF AfterSplit THEN SplitCursor(cursor) ELSE None, Ok)
       \/ IF mem.head["other"] = None THEN Returns(mem, cursor, Ok)
          ELSE Returns(InsertListAtCursor(mem, cursor),
                       [cursor EXCEPT !.position = mem.head["other"]], Ok)

Next ==
    \/ \E v \in Values : CallPush(v) \/ \E at \in Ranges : CallInsert(at, v)
    \/ \E vs \in Batches : CallExtend(vs)
    \/ \E from, to \in Ranges : CallDrain(from, to)
    \/ CallPop \/ CallOther \/ CallCursor

Spec == Init /\ [][Next]_vars

-----------------------------------------------------------------------------
(* Correctness *)

\* The values of the variables.
TypeOK ==
    /\ mem.live \subseteq Nodes
    /\ mem.next \in [Nodes -> Nodes \cup {None}]
    /\ mem.head \in [Names -> Nodes \cup {None}]
    /\ mem.len \in [Names -> 0 .. MaxNodes]
    /\ mem.val \in [Nodes -> Values \cup {None}]

\* The length a list keeps is "the number of elements in this list".
LenCounts == \A l \in Names : mem.len[l] = Len(Chain(mem, l))

\* The two lists share no node, and every node that was allocated is in one of
\* them: none is freed while it is reachable, none is leaked.
NodesOwnedOnce ==
    LET nodes(l) == Range(Chain(mem, l)) IN
    nodes("list") \cap nodes("other") = {} /\ nodes("list") \cup nodes("other") = mem.live

\* The list is a sequence, its cursor a position in it.
Abstract == INSTANCE Lists
    WITH seq <- Iter(mem, "list"), other <- Iter(mem, "other"),
         cur <- IF cursor = None THEN None ELSE cursor.index

===============================================================================
