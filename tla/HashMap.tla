------------------------------- MODULE HashMap --------------------------------
(***************************************************************************)
(* The hash table of shared/collections (hash_map/mod.rs): open addressing *)
(* with quadratic probing.  A slot is vacant or holds a key and its value; *)
(* a removed entry leaves a vacant slot.                                   *)
(***************************************************************************)
EXTENDS Integers, Sequences, FiniteSets, FiniteSetsExt

CONSTANTS
    Keys, Values, None,
    Hash,         \* the hash of each key
    Capacities,   \* what with_capacity() is asked for; 0 is new()
    MaxCapacity,  \* larger tables do not fit in memory
    Calls         \* the methods that are used

\* What the constants of an instance satisfy.
HashMapAssumption ==
    /\ Hash \in [Keys -> Nat]
    /\ Capacities \subseteq Nat
    /\ MaxCapacity \in Nat
    /\ None \notin Keys

LOAD_FACTOR_LIMIT == 70

VARIABLES
    slots,  \* the bucket: function from 0 .. capacity - 1 to slots
    len,    \* entries counted
    out     \* what the last call returned, or <<"hangs">>

vars == <<slots, len, out>>

Bucket(capacity) == [i \in 0 .. capacity - 1 |-> None]
Capacity(s) == Cardinality(DOMAIN s)

Init ==
    /\ \E c \in Capacities : slots = Bucket(c)
    /\ len = 0
    /\ out = <<>>

-----------------------------------------------------------------------------
(* Probing *)

NextPowerOfTwo(n) == Min({2 ^ i : i \in 0 .. 8} \cap (n .. 2 ^ 8))

h(hash, attempt, capacity) == (hash + (attempt * attempt + attempt) \div 2) % NextPowerOfTwo(capacity)

\* The slots that are looked at, in order; after two rounds they repeat.
Probes(hash, capacity) ==
    [i \in 0 .. 2 * NextPowerOfTwo(capacity) |-> IF i = 0 THEN hash % capacity ELSE h(hash, i, capacity)]

\* slot_for_hash(): the first slot that is vacant or holds the key; None if the
\* search goes on for ever.  Indices beyond the bucket are skipped.
SlotFor(s, k) ==
    LET probes == Probes(Hash[k], Capacity(s))
        ends == {i \in DOMAIN probes : probes[i] \in DOMAIN s /\ (s[probes[i]] = None \/ s[probes[i]][1] = k)} IN
    IF ends = {} THEN None ELSE probes[Min(ends)]

Occupied(s, i) == s[i] # None

\* Mutant: the entries are copied to the indices they had.
Rehash_SameIndex(s, capacity) == [i \in 0 .. capacity - 1 |-> IF i \in DOMAIN s THEN s[i] ELSE None]

\* resize() probes the new bucket for each entry of the old one, in its order.
Rehash(s, capacity) ==
    LET move[n \in 0 .. Capacity(s)] ==
            IF n = 0 THEN Bucket(capacity)
            ELSE IF Occupied(s, n - 1) THEN [move[n - 1] EXCEPT ![SlotFor(move[n - 1], s[n - 1][1])] = s[n - 1]]
            ELSE move[n - 1] IN
    move[Capacity(s)]

\* The bucket resize(to) leaves, the old one if memory runs out.
Resize(s, to) ==
    LET capacity == IF Capacity(s) = 0 THEN NextPowerOfTwo(to) ELSE Max({2 * Capacity(s), to}) IN
    IF capacity > MaxCapacity THEN s ELSE Rehash(s, capacity)

LoadFactor(s) == (len * 100) \div Capacity(s)

\* Mutant: a new table has two slots.
Grown_Small(s) ==
    LET t == IF Capacity(s) = 0 THEN Resize(s, 2) ELSE s IN
    IF Capacity(t) > 0 /\ LoadFactor(t) > LOAD_FACTOR_LIMIT THEN Resize(t, 2 * Capacity(t)) ELSE t

\* The bucket insert() works with.
Grown(s) ==
    LET t == IF Capacity(s) = 0 THEN Resize(s, 4) ELSE s IN
    IF Capacity(t) > 0 /\ LoadFactor(t) > LOAD_FACTOR_LIMIT THEN Resize(t, 2 * Capacity(t)) ELSE t
GrowthFails(s) == LET t == IF Capacity(s) = 0 THEN Resize(s, 4) ELSE s IN
    Capacity(t) = 0 \/ (LoadFactor(t) > LOAD_FACTOR_LIMIT /\ Grown(s) = t)

\* The bucket entry() and raw_entry_mut() work with: reserve(1).
Reserved(s, first) ==
    LET t == IF Capacity(s) = 0 THEN Resize(s, first) ELSE s IN
    IF len + 1 <= Capacity(t) THEN t ELSE Resize(t, len + 1)

-----------------------------------------------------------------------------
(* Methods *)

Returns(s, n, r) == slots' = s /\ len' = n /\ out' = r
Hangs(s) == Returns(s, len, <<"hangs">>)
NoMemory(s) == Returns(s, len, <<"AllocError">>)

\* Mutant: a key that is present keeps its value.
Insert_KeepsOld(k, v) == "insert" \in Calls /\
    LET s == Grown(slots)
        i == SlotFor(s, k) IN
    IF GrowthFails(slots) THEN NoMemory(s)
    ELSE IF i = None THEN Hangs(s)
    ELSE IF Occupied(s, i) THEN Returns(s, len, <<v>>)
    ELSE Returns([s EXCEPT ![i] = <<k, v>>], len + 1, <<>>)

Insert(k, v) == "insert" \in Calls /\
    LET s == Grown(slots)
        i == SlotFor(s, k) IN
    IF GrowthFails(slots) THEN NoMemory(s)
    ELSE IF i = None THEN Hangs(s)
    ELSE IF Occupied(s, i) THEN Returns([s EXCEPT ![i] = <<k, v>>], len, <<s[i][2]>>)
    ELSE Returns([s EXCEPT ![i] = <<k, v>>], len + 1, <<>>)

\* Mutant: the first probe alone decides.
GetMut_FirstProbe(k, v) == "get" \in Calls /\
    LET i == Hash[k] % Capacity(slots) IN
    IF Capacity(slots) = 0 THEN Returns(slots, len, <<>>)
    ELSE IF Occupied(slots, i) THEN Returns([slots EXCEPT ![i] = <<k, v>>], len, <<slots[i][2]>>)
    ELSE Returns(slots, len, <<>>)

Get(k) == "get" \in Calls /\
    LET i == SlotFor(slots, k) IN
    IF Capacity(slots) = 0 THEN Returns(slots, len, <<>>)
    ELSE IF i = None THEN Hangs(slots)
    ELSE Returns(slots, len, IF Occupied(slots, i) THEN <<slots[i][2]>> ELSE <<>>)

\* get_mut(), and the value is replaced
GetMut(k, v) == "get" \in Calls /\
    LET i == SlotFor(slots, k) IN
    IF Capacity(slots) = 0 THEN Returns(slots, len, <<>>)
    ELSE IF i = None THEN Hangs(slots)
    ELSE IF Occupied(slots, i) THEN Returns([slots EXCEPT ![i] = <<k, v>>], len, <<slots[i][2]>>)
    ELSE Returns(slots, len, <<>>)

Remove(k) == "remove" \in Calls /\
    LET i == SlotFor(slots, k) IN
    IF Capacity(slots) = 0 THEN Returns(slots, len, <<>>)
    ELSE IF i = None THEN Hangs(slots)
    ELSE IF Occupied(slots, i) THEN Returns([slots EXCEPT ![i] = None], len - 1, <<slots[i][2]>>)
    ELSE Returns(slots, len, <<>>)

\* or_insert() and its variants on the entry of k in bucket s
EntryOrInsert(s, k, v) ==
    LET i == SlotFor(s, k) IN
    IF len + 1 > Capacity(s) THEN NoMemory(s)
    ELSE IF i = None THEN Hangs(s)
    ELSE IF Occupied(s, i) THEN Returns(s, len, <<s[i][2]>>)
    ELSE Returns([s EXCEPT ![i] = <<k, v>>], len + 1, <<v>>)

\* entry(k) gives a new table four slots, raw_entry_mut() one.
OrInsert(k, v) == "entry" \in Calls /\ EntryOrInsert(Reserved(slots, 4), k, v)

\* A raw entry is found like any other, but without a key of one's own.
RawGet(k) == Get(k)
RawOrInsert(k, v) == "entry" \in Calls /\ EntryOrInsert(Reserved(slots, 1), k, v)
RawRemove(k) == {"entry", "remove"} \subseteq Calls /\
    LET s == Reserved(slots, 1)
        i == SlotFor(s, k) IN
    IF len + 1 > Capacity(s) THEN NoMemory(s)
    ELSE IF i = None THEN Hangs(s)
    ELSE IF Occupied(s, i) THEN Returns([s EXCEPT ![i] = None], len - 1, <<s[i][2]>>)
    ELSE Returns(s, len, <<>>)

Reserve(n) == "reserve" \in Calls /\
    IF len + n <= Capacity(slots) THEN Returns(slots, len, <<"ok">>)
    ELSE LET s == Resize(slots, len + n) IN
         Returns(s, len, IF len + n > Capacity(s) THEN <<"AllocError">> ELSE <<"ok">>)

\* The table is dropped and another made.
Drop == "drop" \in Calls /\ \E c \in Capacities : Returns(Bucket(c), 0, <<>>)

Next ==
    /\ out # <<"hangs">>
    /\ \/ \E k \in Keys :
            \/ Get(k) \/ RawGet(k) \/ Remove(k) \/ RawRemove(k)
            \/ \E v \in Values : Insert(k, v) \/ GetMut(k, v) \/ OrInsert(k, v) \/ RawOrInsert(k, v)
       \/ \E n \in 1 .. 2 : Reserve(n)
       \/ Drop

Spec == Init /\ [][Next]_vars

-----------------------------------------------------------------------------
(* Correctness *)

Stored == {slots[i] : i \in {j \in DOMAIN slots : slots[j] # None}}

\* The values of the variables; `len' counts the entries.
TypeOK ==
    /\ DOMAIN slots = 0 .. Capacity(slots) - 1
    /\ Stored \subseteq Keys \X Values
    /\ len = Cardinality({i \in DOMAIN slots : slots[i] # None})
    /\ Capacity(slots) <= MaxCapacity

\* Every entry of the bucket is the one its key's probes end at.
Findable == \A i \in DOMAIN slots : slots[i] # None => SlotFor(slots, slots[i][1]) = i

\* Whatever key is looked up, the probes end: at the key or at a vacant slot.
LookupEnds == Capacity(slots) > 0 => \A k \in Keys : SlotFor(slots, k) # None

Contents == [k \in {e[1] : e \in Stored} |-> (CHOOSE e \in Stored : e[1] = k)[2]]
Abstract == INSTANCE KeyValueMap WITH map <- Contents

===============================================================================
