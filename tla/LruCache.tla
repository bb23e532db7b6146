------------------------------ MODULE LruCache --------------------------------
(***************************************************************************)
(* The cache of shared/collections (lru.rs): a hash map from keys to the   *)
(* entries of a linked list kept in order of use, the most recent first.   *)
(* The map is taken as what module KeyValueMap promises.  Some calls leave *)
(* pointers to freed entries; following one is undefined behaviour, and    *)
(* the model stops there with `ub' set.  Memory does not run out.          *)
(***************************************************************************)
EXTENDS Integers, Sequences, FiniteSets, FiniteSetsExt, SequencesExt

CONSTANTS
    Keys, Values, None,
    CacheCapacity,
    Calls   \* the calls that are made: see MayMove and Next

\* What the constants of an instance satisfy.
LruCacheAssumption == CacheCapacity \in Nat \ {0} /\ None \notin Keys

\* One entry more than the cache keeps is enough to make a new one after one
\* is freed.
Entries == 1 .. CacheCapacity + 1

VARIABLES
    map,    \* the entry of each key, or None
    cache,  \* head, tail; prev, next, value of the entries
    ub,
    out,    \* what the last call returned
    used    \* the keys in the order of their last use, the latest first

vars == <<map, cache, ub, out, used>>

Init ==
    /\ map = [k \in Keys |-> None]
    /\ cache = [head |-> None, tail |-> None, prev |-> [e \in Entries |-> None],
                next |-> [e \in Entries |-> None], value |-> [e \in Entries |-> None]]
    /\ ub = FALSE
    /\ out = <<>>
    /\ used = <<>>

Present == {k \in Keys : map[k] # None}
Live(m) == {m[k] : k \in Keys} \ {None}
KeyOf(e) == CHOOSE k \in Keys : map[k] = e

SetPrev(c, e, to) == IF e = None THEN c ELSE [c EXCEPT !.prev[e] = to]
SetNext(c, e, to) == IF e = None THEN c ELSE [c EXCEPT !.next[e] = to]

\* detach() joins the neighbours and leaves the entry's own pointers.
Detach(c, e) == SetPrev(SetNext(c, c.prev[e], c.next[e]), c.next[e], c.prev[e])
Touched(c, e) == {c.prev[e], c.next[e]} \ {None}

\* Mutant: the old head is not told of the entry in front of it.
MakeHead_OneWay(c, e) ==
    LET d == Detach(c, e) IN
    IF c.head = e THEN c
    ELSE IF c.head = None THEN [d EXCEPT !.head = e, !.tail = e]
    ELSE [d EXCEPT !.head = e, !.next[e] = c.head]

\* make_head() does not look whether the entry was the tail.
MakeHead(c, e) ==
    LET d == Detach(c, e) IN
    IF c.head = e THEN c
    ELSE IF c.head = None THEN [d EXCEPT !.head = e, !.tail = e]
    ELSE [SetPrev(d, c.head, e) EXCEPT !.head = e, !.next[e] = c.head]

\* Of the list, from the head along `next' or from the tail along `prev'.
Walk(first, link) ==
    LET at[i \in 0 .. CacheCapacity] ==
            IF i = 0 THEN first ELSE IF at[i - 1] = None THEN None ELSE link[at[i - 1]] IN
    SelectSeq([i \in 1 .. CacheCapacity + 1 |-> at[i - 1]], LAMBDA e : e # None)
Descending == Walk(cache.head, cache.next)
Ascending == Walk(cache.tail, cache.prev)

-----------------------------------------------------------------------------
(* Calls *)

Using(k) == <<k>> \o SelectSeq(used, LAMBDA x : x # k)
\* The call follows pointers to `touched'.
Returns(m, c, touched, r) ==
    /\ map' = m /\ cache' = c /\ out' = r
    /\ ub' = ~ (touched \subseteq Live(map))

\* The entries the list may be told to move to its head.
MayMove(e) ==
    \/ cache.head = e
    \/ "move" \in Calls /\ e # cache.tail
    \/ "move_tail" \in Calls

Fresh == Min(Entries \ Live(map))
NewEntry(c, e, v) == [c EXCEPT !.prev[e] = None, !.next[e] = None, !.value[e] = v]

InsertPresent(k, v) ==
    /\ map[k] # None /\ MayMove(map[k])
    /\ Returns(map, [MakeHead(cache, map[k]) EXCEPT !.value[map[k]] = v], Touched(cache, map[k]),
               <<cache.value[map[k]]>>)
    /\ used' = Using(k)

InsertAbsent(k, v) ==
    /\ map[k] = None
    /\ Cardinality(Present) < CacheCapacity
    /\ Returns([map EXCEPT ![k] = Fresh], MakeHead(NewEntry(cache, Fresh, v), Fresh),
               {cache.head} \ {None}, <<>>)
    /\ used' = Using(k)

\* Mutant: the tail is not moved to the entry before it.
Evicted_KeepsTail == Detach(cache, cache.tail)

\* What insert() evicts is the tail; a head that is the tail stays.
Evicted == Detach([cache EXCEPT !.tail = cache.prev[cache.tail]], cache.tail)

\* A tail that is None is unwrapped, one that was freed is read: no more calls.
InsertEvicting(k, v) ==
    /\ map[k] = None /\ "evict" \in Calls
    /\ Cardinality(Present) = CacheCapacity
    /\ LET last == KeyOf(cache.tail) IN
       IF cache.tail \notin Live(map) THEN ub' = TRUE /\ UNCHANGED <<map, cache, out, used>>
       ELSE /\ map' = [map EXCEPT ![last] = None, ![k] = Fresh]
            /\ cache' = MakeHead(NewEntry([Evicted EXCEPT !.value[cache.tail] = None], Fresh, v), Fresh)
            /\ out' = <<cache.value[cache.tail]>>
            /\ ub' = ~ (Touched(cache, cache.tail) \subseteq Live(map) /\ cache.head \in Live(map) \ {cache.tail})
            /\ used' = <<k>> \o SelectSeq(used, LAMBDA x : x # last)

\* Mutant: a hit changes nothing of the list.
Get_NoMove(k) ==
    IF map[k] = None THEN Returns(map, cache, {}, <<>>) /\ UNCHANGED used
    ELSE Returns(map, cache, {}, <<cache.value[map[k]]>>) /\ used' = Using(k)

\* get() and get_mut()
Get(k) ==
    IF map[k] = None THEN Returns(map, cache, {}, <<>>) /\ UNCHANGED used
    ELSE /\ MayMove(map[k])
         /\ Returns(map, MakeHead(cache, map[k]), Touched(cache, map[k]), <<cache.value[map[k]]>>)
         /\ used' = Using(k)

Removed(e) ==
    LET c == IF cache.head = e
             THEN [cache EXCEPT !.tail = IF @ = e THEN None ELSE @, !.head = cache.next[e]]
             ELSE IF cache.tail = e THEN [cache EXCEPT !.tail = cache.prev[e]] ELSE cache IN
    [Detach(c, e) EXCEPT !.value[e] = None]

RemoveKey(k) == "remove" \in Calls /\
    IF map[k] = None THEN Returns(map, cache, {}, <<>>) /\ UNCHANGED used
    ELSE /\ Returns([map EXCEPT ![k] = None], Removed(map[k]), Touched(cache, map[k]), <<cache.value[map[k]]>>)
         /\ used' = SelectSeq(used, LAMBDA x : x # k)

Next ==
    /\ ~ ub
    /\ \E k \in Keys :
         \/ Get(k) \/ RemoveKey(k)
         \/ \E v \in Values : InsertPresent(k, v) \/ InsertAbsent(k, v) \/ InsertEvicting(k, v)

Spec == Init /\ [][Next]_vars

-----------------------------------------------------------------------------
(* Correctness *)

\* The values of the variables.
TypeOK ==
    /\ map \in [Keys -> Entries \cup {None}]
    /\ {cache.head, cache.tail} \subseteq Entries \cup {None}
    /\ cache.value \in [Entries -> Values \cup {None}]
    /\ Cardinality(Present) <= CacheCapacity

\* No call follows a pointer to an entry that was freed.
NoDangling == ~ ub

\* The list holds the entries of the map, in the order of their use: iterating
\* by descending usage is what values_descending() says.
InOrderOfUse == [i \in DOMAIN used |-> map[used[i]]] = Descending

\* Ascending is descending turned round.
BothWays == Ascending = Reverse(Descending)

\* insert() evicts "the least recently used entry in the cache".
EvictsOldest == \A k \in Keys : (map[k] # None /\ map'[k] = None /\ Len(used') = Len(used)) => k = Last(used)
EvictsLeastRecent == [][EvictsOldest]_vars
===============================================================================
