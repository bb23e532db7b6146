--------------------------- MODULE DoublyLinkedList ---------------------------
(***************************************************************************)
(* The doubly linked list of shared/collections (linked_list/doubly.rs),   *)
(* in the manner of module SinglyLinkedList.  Some methods leave pointers  *)
(* to nodes that were freed; a later method that follows one has undefined *)
(* behaviour, and the model stops there with `ub' set.                     *)
(***************************************************************************)
EXTENDS Integers, Sequences, FiniteSets, FiniteSetsExt, SequencesExt

CONSTANTS
    MaxNodes,    \* nodes the allocator can hold out at a time
    Values, None,
    MaxExtend,   \* values extend_from() is given at most
    MaxCount,    \* how far failing calls may bring the count
    Calls        \* the methods that are used

\* What the constants of an instance satisfy.
DoublyLinkedListAssumption ==
    /\ MaxNodes \in Nat \ {0}
    /\ MaxExtend \in Nat /\ MaxCount \in Nat
    /\ None \notin Values

Nodes == 1 .. MaxNodes
Names == {"list", "other"}

VARIABLES
    mem,     \* next, prev and val of the nodes, live nodes; head, tail, len of the lists; ub
    cursor,  \* index and current, or None
    out      \* what the last call returned

vars == <<mem, cursor, out>>

Ok == <<"ok">>

Init ==
    /\ mem = [next |-> [n \in Nodes |-> None], prev |-> [n \in Nodes |-> None],
              val |-> [n \in Nodes |-> None], live |-> {}, ub |-> FALSE,
              head |-> [l \in Names |-> None], tail |-> [l \in Names |-> None],
              len |-> [l \in Names |-> 0]]
    /\ cursor = None
    /\ out = <<>>

-----------------------------------------------------------------------------
(* Nodes *)

Exhausted(m) == m.live = Nodes
Fits(m, vs) == Len(vs) <= MaxNodes - Cardinality(m.live)
Fresh(m) == Min(Nodes \ m.live)

\* The memory m, or undefined behaviour if a node of N was freed.
Using(m, N) == IF N \ {None} \subseteq m.live THEN m ELSE [m EXCEPT !.ub = TRUE]

SetNext(m, n, to) == IF n = None THEN m ELSE [m EXCEPT !.next[n] = to]
SetPrev(m, n, to) == IF n = None THEN m ELSE [m EXCEPT !.prev[n] = to]

\* Mutant: the node before the new one is not told.
NewNode_OneWay(m, v, prev, next) ==
    LET n == Fresh(m)
        a == [Using(m, {prev, next}) EXCEPT !.live = @ \cup {n}, !.val[n] = v, !.prev[n] = prev, !.next[n] = next] IN
    SetNext(a, prev, n)

\* Node::new() links the new node with both neighbours.
NewNode(m, v, prev, next) ==
    LET n == Fresh(m)
        a == [Using(m, {prev, next}) EXCEPT !.live = @ \cup {n}, !.val[n] = v, !.prev[n] = prev, !.next[n] = next] IN
    SetPrev(SetNext(a, prev, n), next, n)

FreeNode(m, n) == [m EXCEPT !.live = @ \ {n}, !.next[n] = None, !.prev[n] = None, !.val[n] = None]

\* The nodes of a list in the order its iterator visits them.
Chain(m, l) ==
    LET after[i \in 0 .. MaxNodes] ==
            IF i = 0 THEN m.head[l]
            ELSE IF after[i - 1] = None THEN None ELSE m.next[after[i - 1]]
        length == Cardinality({i \in 0 .. MaxNodes : after[i] # None}) IN
    [i \in 1 .. length |-> after[i - 1]]
Iter(m, l) == LET c == Chain(m, l) IN [i \in DOMAIN c |-> m.val[c[i]]]

-----------------------------------------------------------------------------
(* Methods of a list *)

PushFront(m, l, v) ==
    LET n == Fresh(m) IN
    [NewNode(m, v, None, m.head[l]) EXCEPT
        !.tail[l] = IF m.head[l] = None THEN n ELSE @, !.head[l] = n, !.len[l] = @ + 1]

PushBack(m, l, v) ==
    LET n == Fresh(m) IN
    [NewNode(m, v, m.tail[l], None) EXCEPT
        !.head[l] = IF @ = None THEN n ELSE @, !.tail[l] = n, !.len[l] = @ + 1]

\* insert() counts the value before it asks for the node.
InsertIn(m, at, v) ==
    LET n == Chain(m, "list")[at + 1] IN
    IF at = 0 THEN PushFront(m, "list", v)
    ELSE IF at = m.len["list"] THEN PushBack(m, "list", v)
    ELSE [NewNode(m, v, m.prev[n], n) EXCEPT !.len["list"] = @ + 1]

\* Mutant: the first value of an empty list is lost.
ExtendFrom_Drops(m, l, vs) ==
    LET rest == IF vs = <<>> THEN vs ELSE Tail(vs) IN
    FoldLeft(LAMBDA a, v : IF Exhausted(a) THEN a ELSE PushBack(a, l, v), m, rest)

\* Mutant: only the first value is counted.
ExtendFrom_CountsOne(m, l, vs) ==
    LET first == IF m.tail[l] # None \/ vs = <<>> \/ Exhausted(m) THEN m ELSE PushBack(m, l, Head(vs))
        rest == IF m.tail[l] # None THEN vs ELSE IF vs = <<>> THEN vs ELSE Tail(vs)
        step(s, v) == IF Exhausted(s.m) \/ s.last = None THEN s
                      ELSE [m |-> NewNode(s.m, v, s.last, None), last |-> Fresh(s.m)]
        end == FoldLeft(step, [m |-> first, last |-> first.tail[l]], rest) IN
    IF Fits(m, vs) THEN [end.m EXCEPT !.tail[l] = end.last] ELSE end.m

\* extend_from(): values are linked one after the other; the tail is set at
\* the end, and not if memory runs out on the way.
ExtendFrom(m, l, vs) ==
    LET first == IF m.tail[l] # None \/ vs = <<>> \/ Exhausted(m) THEN m ELSE PushBack(m, l, Head(vs))
        rest == IF m.tail[l] # None THEN vs ELSE IF vs = <<>> THEN vs ELSE Tail(vs)
        step(s, v) == IF Exhausted(s.m) \/ s.last = None THEN s
                      ELSE [m |-> [NewNode(s.m, v, s.last, None) EXCEPT !.len[l] = @ + 1], last |-> Fresh(s.m)]
        end == FoldLeft(step, [m |-> first, last |-> first.tail[l]], rest) IN
    IF Fits(m, vs) THEN [end.m EXCEPT !.tail[l] = end.last] ELSE end.m

\* Mutant: the count is left alone.
PopFront_KeepsLen(m, l) ==
    LET h == m.head[l]
        a == IF m.next[h] = None THEN [m EXCEPT !.head[l] = None, !.tail[l] = None]
             ELSE [m EXCEPT !.head[l] = m.next[h]] IN
    FreeNode(Using(a, {h}), h)

\* pop_front() leaves the new head its pointer to the old one.
PopFront(m, l) ==
    LET h == m.head[l]
        a == IF m.next[h] = None THEN [m EXCEPT !.head[l] = None, !.tail[l] = None]
             ELSE [m EXCEPT !.head[l] = m.next[h]] IN
    FreeNode([Using(a, {h}) EXCEPT !.len[l] = @ - 1], h)

PopBack(m, l) ==
    LET t == m.tail[l]
        p == m.prev[t]
        a == IF p = None THEN [m EXCEPT !.head[l] = None, !.tail[l] = None]
             ELSE [SetNext(Using(m, {p}), p, None) EXCEPT !.tail[l] = p] IN
    FreeNode([Using(a, {t}) EXCEPT !.len[l] = @ - 1], t)

\* append() leaves the other list's head without a pointer back.
AppendOther(m) ==
    IF m.head["list"] = None
    THEN [m EXCEPT !.head = [list |-> m.head["other"], other |-> None],
                   !.tail = [list |-> m.tail["other"], other |-> m.tail["list"]],
                   !.len = [list |-> m.len["other"], other |-> m.len["list"]]]
    ELSE IF m.head["other"] = None THEN m
    ELSE [SetNext(Using(m, {m.tail["list"]}), m.tail["list"], m.head["other"]) EXCEPT
             !.head["other"] = None, !.tail = [list |-> m.tail["other"], other |-> None],
             !.len = [list |-> m.len["list"] + m.len["other"], other |-> 0]]

DropList(m, l) == FoldLeft(LAMBDA a, n : PopFront(a, l), m, Chain(m, l))

-----------------------------------------------------------------------------
(* Methods of a cursor *)

CursorMut(m) == [index |-> 0, current |-> m.head["list"]]
CursorBackMut(m) == [index |-> IF m.len["list"] = 0 THEN 0 ELSE m.len["list"] - 1, current |-> m.tail["list"]]

Forward(m, c) == IF c.current = None THEN c ELSE [index |-> c.index + 1, current |-> m.next[c.current]]
ForwardMany(m, n) == FoldLeft(LAMBDA c, i : Forward(m, c), CursorMut(m), [i \in 1 .. n |-> i])

Backward(m, c) ==
    IF c.index = m.len["list"] THEN [index |-> Max({c.index - 1, 0}), current |-> m.tail["list"]]
    ELSE IF c.current = None \/ m.prev[c.current] = None THEN c
    ELSE [index |-> c.index - 1, current |-> m.prev[c.current]]

InsertAtCursor(m, c, v) ==
    IF c.index = 0 THEN PushFront(m, "list", v)
    ELSE IF c.current = None THEN PushBack(m, "list", v)
    ELSE [NewNode(m, v, m.prev[c.current], c.current) EXCEPT !.len["list"] = @ + 1]

\* Mutant: the node after the removed one keeps its pointer to it.
RemoveAtCursor_OneWay(m, c) ==
    LET p == m.prev[c.current]
        n == m.next[c.current]
        a == Using(m, {c.current, p, n})
        b == IF p = None THEN [a EXCEPT !.head["list"] = n] ELSE SetNext(a, p, n) IN
    FreeNode([b EXCEPT !.len["list"] = @ - 1], c.current)

\* remove() does not look whether the node was the tail.
RemoveAtCursor(m, c) ==
    LET p == m.prev[c.current]
        n == m.next[c.current]
        a == SetPrev(Using(m, {c.current, p, n}), n, p)
        b == IF p = None THEN [a EXCEPT !.head["list"] = n] ELSE SetNext(a, p, n) IN
    FreeNode([b EXCEPT !.len["list"] = @ - 1], c.current)

SplitAtCursor(m, c) ==
    LET p == m.prev[c.current]
        a == SetPrev(SetNext(Using(m, {c.current, p}), p, None), c.current, None) IN
    IF c.index = 0
    THEN [m EXCEPT !.head = [list |-> None, other |-> m.head["list"]],
                   !.tail = [list |-> None, other |-> m.tail["list"]],
                   !.len = [list |-> 0, other |-> m.len["list"]]]
    ELSE IF c.current = None THEN m
    ELSE [a EXCEPT !.head["other"] = c.current, !.tail = [list |-> p, other |-> m.tail["list"]],
                   !.len = [list |-> c.index, other |-> m.len["list"] - c.index]]

-----------------------------------------------------------------------------
(* Calls.  A cursor borrows its list: the list is not used meanwhile. *)

Batches == UNION {[1 .. n -> Values] : n \in 0 .. MaxExtend}
Ranges == 0 .. mem.len["list"] + 1
May(call) == call \in Calls /\ ~ mem.ub

Returns(m, c, r) == mem' = m /\ cursor' = c /\ out' = r
NoMemory == Exhausted(mem) /\ Returns(mem, cursor, <<"AllocError">>)

CallPush(v) == May("push") /\ cursor = None /\
    \/ ~ Exhausted(mem) /\ Returns(PushFront(mem, "list", v), None, Ok)
    \/ ~ Exhausted(mem) /\ Returns(PushBack(mem, "list", v), None, Ok)
    \/ NoMemory

CallPopFront == May("pop_front") /\ cursor = None /\
    IF mem.head["list"] = None THEN Returns(mem, None, <<>>)
    ELSE Returns(PopFront(mem, "list"), None, <<mem.val[mem.head["list"]]>>)

CallPopBack == May("pop_back") /\ cursor = None /\
    IF mem.tail["list"] = None THEN Returns(mem, None, <<>>)
    ELSE Returns(PopBack(mem, "list"), None, <<mem.val[mem.tail["list"]]>>)

\* An insert() or extend_from() that runs out of memory is the call "fail".
CallInsert(at, v) == May("insert") /\ cursor = None /\
    IF at > mem.len["list"] THEN Returns(mem, None, <<"invalid">>)
    ELSE \/ ~ Exhausted(mem) /\ (at < Len(Chain(mem, "list")) \/ at \in {0, mem.len["list"]}) /\ Returns(InsertIn(mem, at, v), None, Ok)
         \/ at \in Len(Chain(mem, "list")) .. mem.len["list"] - 1 /\ Returns([mem EXCEPT !.ub = TRUE], None, <<"panic">>)
         \/ at \in {0, mem.len["list"]} /\ NoMemory
         \/ May("fail") /\ Exhausted(mem) /\ mem.len["list"] < MaxCount /\ at \in 1 .. Len(Chain(mem, "list")) - 1
            /\ Returns([mem EXCEPT !.len["list"] = @ + 1], None, <<"AllocError">>)

CallExtend(vs) == May("extend") /\ cursor = None /\
    /\ Fits(mem, vs) \/ May("fail")
    /\ Returns(ExtendFrom(mem, "list", vs), None, IF Fits(mem, vs) THEN Ok ELSE <<"AllocError">>)

\* Removing the last node is the call "remove_last".
CallRemove(at) == May("remove") /\ cursor = None /\ (at = mem.len["list"] - 1 => May("remove_last")) /\
    LET c == ForwardMany(mem, at) IN
    IF at >= mem.len["list"] THEN Returns(mem, None, <<>>)
    ELSE Returns(RemoveAtCursor(mem, c), None, <<mem.val[c.current]>>)

CallDrain(from, to) == May("remove") /\ cursor = None /\ (to = mem.len["list"] => May("remove_last")) /\
    LET step(s, i) == [m |-> RemoveAtCursor(s.m, s.c),
                       c |-> [s.c EXCEPT !.current = s.m.next[@]],
                       r |-> Append(s.r, s.m.val[s.c.current])]
        end == FoldLeft(step, [m |-> mem, c |-> ForwardMany(mem, from), r |-> <<>>],
                        [i \in 1 .. to - from |-> i]) IN
    IF from > to \/ to > mem.len["list"] \/ from >= mem.len["list"] THEN Returns(mem, None, <<"invalid">>)
    ELSE Returns(end.m, None, end.r)

CallOther ==
    \/ May("append") /\ cursor = None /\ Returns(AppendOther(mem), None, Ok)
    \/ May("clone") /\ cursor = None /\ Returns(DropList(mem, "other"), None, Ok)
    \/ /\ May("clone") /\ cursor = None /\ mem.head["other"] = None
       /\ IF Fits(mem, Iter(mem, "list"))
          THEN Returns(ExtendFrom(mem, "other", Iter(mem, "list")), None, Ok)
          ELSE Returns(mem, None, <<"AllocError">>)

\* The cursor is not used after split().
CallCursor ==
    \/ May("cursor") /\ cursor = None /\ \E c \in {CursorMut(mem), CursorBackMut(mem)} : Returns(mem, c, Ok)
    \/ cursor # None /\
       \/ May("cursor") /\ Returns(mem, None, Ok)
       \/ May("cursor") /\ Returns(mem, Forward(mem, cursor), Ok)
       \/ May("backward") /\ Returns(mem, Backward(mem, cursor), Ok)
       \/ May("cursor") /\ NoMemory
       \/ May("cursor") /\ ~ Exhausted(mem) /\ \E v \in Values :
            Returns(InsertAtCursor(mem, cursor, v), [cursor EXCEPT !.current = Fresh(mem)], Ok)
       \/ May("remove") /\ (cursor.index = mem.len["list"] - 1 => May("remove_last")) /\
          IF cursor.current = None THEN Returns(mem, cursor, <<>>)
          ELSE Returns(RemoveAtCursor(mem, cursor), [cursor EXCEPT !.current = mem.next[@]],
                       <<mem.val[cursor.current]>>)
       \/ May("split") /\ mem.head["other"] = None /\ Returns(SplitAtCursor(mem, cursor), None, Ok)

Next ==
    \/ \E v \in Values : CallPush(v) \/ \E at \in Ranges : CallInsert(at, v)
    \/ \E vs \in Batches : CallExtend(vs)
    \/ \E at \in Ranges : CallRemove(at) \/ \E to \in Ranges : CallDrain(at, to)
    \/ CallPopFront \/ CallPopBack \/ CallOther \/ CallCursor

Spec == Init /\ [][Next]_vars

-----------------------------------------------------------------------------
(* Correctness *)

\* The values of the variables.
TypeOK ==
    /\ mem.live \subseteq Nodes
    /\ {mem.next, mem.prev} \subseteq [Nodes -> Nodes \cup {None}]
    /\ {mem.head, mem.tail} \subseteq [Names -> Nodes \cup {None}]
    /\ mem.len \in [Names -> 0 .. MaxCount]
    /\ mem.val \in [Nodes -> Values \cup {None}]

\* The list is a sequence, its cursor a position in it.
Abstract == INSTANCE Lists
    WITH seq <- Iter(mem, "list"), other <- Iter(mem, "other"),
         cur <- IF cursor = None THEN None ELSE cursor.index

\* Walking back from the tail visits the nodes of a list in the opposite order,
\* and ends at the head: push_back(), pop_back() and a cursor going backward
\* rely on it.
LinksMirror ==
    \A l \in Names :
        LET c == Chain(mem, l) IN
        /\ mem.tail[l] = IF c = <<>> THEN None ELSE Last(c)
        /\ mem.len[l] = Len(c)
        /\ \A i \in DOMAIN c : mem.prev[c[i]] = IF i = 1 THEN None ELSE c[i - 1]

\* pop_front() and remove() keep the forward direction intact: the count and
\* the tail are right, and no method follows a pointer to a freed node.
ForwardKept ==
    /\ ~ mem.ub
    /\ \A l \in Names :
         LET c == Chain(mem, l) IN
         /\ mem.len[l] = Len(c)
         /\ Range(c) \subseteq mem.live
         /\ mem.tail[l] = IF c = <<>> THEN None ELSE Last(c)

\* A call that fails for want of memory may leave the count of a list too high
\* but never too low: all the values that can be reached are counted.
AllCounted == \A l \in Names : Len(Chain(mem, l)) <= mem.len[l]

\* "head == tail, so reset both", in pop_front(): a head without a next node is
\* the tail.
HeadIsTail == mem.head["list"] # None /\ mem.next[mem.head["list"]] = None => mem.head["list"] = mem.tail["list"]

\* The same in pop_back(): the only node of a list has no previous one, so that
\* both pointers are reset.
OnlyNodeHasNoPrev == mem.head["list"] # None /\ mem.head["list"] = mem.tail["list"] => mem.prev[mem.tail["list"]] = None
===============================================================================
