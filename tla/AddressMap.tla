------------------------------ MODULE AddressMap ------------------------------
(***************************************************************************)
(* The address map of one task (mem/manager/address_map.rs): a BTreeMap    *)
(* from the last address of a region to the region, which always covers    *)
(* the whole user address space.  Addresses are pages 0 .. Top-1.          *)
(*                                                                         *)
(* UserspaceMemoryManager::new() puts a guard page at address 0 before the *)
(* map is used, and nothing ever frees it.                                 *)
(***************************************************************************)
EXTENDS Naturals, WellFoundedInduction, TLAPS

CONSTANTS
    Top,        \* end of the user address space
    Backings,   \* the backed MemoryRegions callers pass to alloc()
    GuardPage,  \* MemoryRegion::GuardPage
    AllocKinds, \* the AddressRegionKinds callers pass to alloc()
    None        \* no MemoryRegion: the region is unoccupied

ASSUME AddressMapAssumption ==
    /\ Top \in Nat
    /\ Top > 1
    /\ GuardPage \notin Backings
    /\ None \notin Backings \cup {GuardPage}
    /\ {"Guard", "Unoccupied"} \cap AllocKinds = {}

Kinds == AllocKinds \cup {"Guard", "Unoccupied"}
Region == [start : 0 .. Top, end : 0 .. Top,
           region : Backings \cup {GuardPage, None}, kind : Kinds]

VARIABLES
    map,     \* last address -> Region
    result   \* what the last call returned

vars == <<map, result>>

-----------------------------------------------------------------------------
(* BTreeMap *)

\* range(a..).next(): the entry with the least key from a on.
HasFrom(m, a) == \E k \in DOMAIN m : k >= a
From(m, a) == CHOOSE k \in DOMAIN m : k >= a /\ \A j \in DOMAIN m : j >= a => k <= j

\* range(..b).next(): the entry with the least key, if that is below b.
LeastBelow(m, b, k) == k \in DOMAIN m /\ k < b /\ \A j \in DOMAIN m : k <= j

Insert(m, k, r) == [j \in DOMAIN m \cup {k} |-> IF j = k THEN r ELSE m[j]]
Remove(m, K) == [j \in DOMAIN m \ K |-> m[j]]

-----------------------------------------------------------------------------
(* Operations *)

Free(s, e, k) == [start |-> s, end |-> e, region |-> None, kind |-> k]

\* The mapping once [s, e) is cut out of the unoccupied region at key k.  A
\* piece left over on one side only keeps the kind of the old region.
Carve(m, k, s, e, b, kind) ==
    LET old == m[k]
        before == old.start # s
        after == old.end # e
        left == IF before /\ after THEN "Unoccupied" ELSE old.kind
        m1 == Remove(m, {k})
        m2 == IF before THEN Insert(m1, s - 1, Free(old.start, s, left)) ELSE m1
        m3 == Insert(m2, e - 1, [start |-> s, end |-> e, region |-> b, kind |-> kind]) IN
    IF after THEN Insert(m3, old.end - 1, Free(e, old.end, left)) ELSE m3

\* Mutant: the end of the range is not compared.
Occupied_NoEnd(m, s, e) ==
    LET r == m[From(m, s)] IN r.start > s \/ r.region # None

\* The region found for s does not hold [s, e) or is occupied.
Occupied(m, s, e) ==
    LET r == m[From(m, s)] IN r.start > s \/ r.end < e \/ r.region # None

Alloc(s, e, b, kind) ==
    /\ HasFrom(map, s)
    /\ ~ Occupied(map, s, e)
    /\ map' = Carve(map, From(map, s), s, e, b, kind)
    /\ result' = "Ok"

AllocError(s, e) ==
    /\ HasFrom(map, s) => Occupied(map, s, e)
    /\ result' = IF HasFrom(map, s) THEN "Occupied" ELSE "OutOfBounds"
    /\ UNCHANGED map

\* The region found for s is not exactly [s, e) or is unoccupied.
Nonexistent(m, s, e) ==
    LET r == m[From(m, s)] IN r.start # s \/ r.end # e \/ r.region = None

\* The unoccupied entries that free() merges into the region at key k: the
\* first entry of the map when it lies below, and the next ones above.
MergedBelow(m, k) == {j \in DOMAIN m : LeastBelow(m, m[k].start, j) /\ m[j].region = None}
MergedAbove(m, k) ==
    {j \in DOMAIN m : /\ j >= m[k].end
                      /\ \A i \in DOMAIN m : m[k].end <= i /\ i <= j => m[i].region = None}

\* free(): the merged region keeps the kind of the freed one.
Release(m, k) ==
    LET below == MergedBelow(m, k)
        above == MergedAbove(m, k)
        s == IF below = {} THEN m[k].start ELSE m[CHOOSE j \in below : TRUE].start
        e == IF above = {} THEN m[k].end
             ELSE m[CHOOSE j \in above : \A i \in above : i <= j].end IN
    Insert(Remove(m, {k} \cup below \cup above), e - 1, Free(s, e, m[k].kind))

\* Callers free the span of a region they found, and never a guard page's.
FreeRegion(s, e) ==
    /\ HasFrom(map, s)
    /\ ~ Nonexistent(map, s, e)
    /\ map[From(map, s)].kind # "Guard"
    /\ map' = Release(map, e - 1)
    /\ result' = "Ok"

FreeError(s, e) ==
    /\ HasFrom(map, s) => Nonexistent(map, s, e)
    /\ result' = IF HasFrom(map, s) THEN "Nonexistent" ELSE "OutOfBounds"
    /\ UNCHANGED map

\* AddressMap::new() and the manager's guard page.
Init ==
    /\ map = Carve([k \in {Top} |-> Free(0, Top, "Unoccupied")], Top, 0, 1, GuardPage, "Guard")
    /\ result = "Ok"

Next == \E s \in 0 .. Top - 1, e \in 1 .. Top :
    /\ s < e
    /\ \/ \E b \in Backings, kind \in AllocKinds : Alloc(s, e, b, kind)
       \/ e = s + 1 /\ Alloc(s, e, GuardPage, "Guard")
       \/ AllocError(s, e)
       \/ FreeRegion(s, e)
       \/ FreeError(s, e)

Spec == Init /\ [][Next]_vars

-----------------------------------------------------------------------------
(* Correctness *)

\* The values of the variables.
TypeOK ==
    /\ DOMAIN map \subseteq 0 .. Top - 1
    /\ \A k \in DOMAIN map : map[k] \in Region
    /\ result \in {"Ok", "Occupied", "Nonexistent", "OutOfBounds"}

\* find() returns the region that contains the address asked for, whatever was
\* allocated and freed before: the regions cover the address space and the
\* first key from an address on is never that of a region further up.
FindContains ==
    \A a \in 0 .. Top - 1 :
        HasFrom(map, a) /\ LET r == map[From(map, a)] IN r.start <= a /\ a < r.end

\* free() removes the key it computes from the span, not the key it found: the
\* unwrap() on the removed entry never panics, and it is the entry it checked.
FreeRemovesWhatItChecked ==
    \A s \in 0 .. Top - 1, e \in 1 .. Top :
        s < e /\ ~ Nonexistent(map, s, e) => From(map, s) = e - 1

\* The comment in free(), "Coalesce free regions around into a single region":
\* no two unoccupied regions are neighbours.
Coalesced ==
    \A j, k \in DOMAIN map :
        map[j].region = None /\ map[k].region = None => map[j].end # map[k].start

\* The regions that are held, as the callers see them.
HeldRegions ==
    {[start |-> map[k].start, end |-> map[k].end, region |-> map[k].region] :
        k \in {j \in DOMAIN map : map[j].region # None}}

Space == INSTANCE AddressSpace
    WITH Backings <- Backings \cup {GuardPage}, held <- HeldRegions

\* The map implements an address space: alloc() never takes an address that is
\* held and forgets no other region, free() releases exactly one.  The guard
\* page at address 0 is held from the start.
ImplementsAddressSpace == [][Space!Next]_HeldRegions

-----------------------------------------------------------------------------
(* Proofs.  The regions tile the address space, for every size of it:      *)
(* whatever was allocated and freed, find() returns the region of the      *)
(* address, and alloc() and free() act on exactly one region.              *)

(* A region's key is its last address. *)
Keyed(m) ==
    \A k \in DOMAIN m : k \in 0 .. Top - 1 /\ m[k] \in Region /\ m[k].end = k + 1 /\ m[k].start <= k

\* A region starts above every region with a smaller key.
Apart(m) ==
    \A j, k \in DOMAIN m : j < k => j < m[k].start

\* Every address is in a region.
Covered(m) ==
    \A a \in 0 .. Top - 1 : \E k \in DOMAIN m : m[k].start <= a /\ a <= k

\* The first region is a guard page that is never freed, which is why free()
\* finds nothing to merge below a region.
Guarded(m) ==
    0 \in DOMAIN m /\ m[0].region = GuardPage /\ m[0].kind = "Guard"

Tiled(m) == Keyed(m) /\ Apart(m) /\ Covered(m) /\ Guarded(m)

IInv == Tiled(map) /\ result \in {"Ok", "Occupied", "Nonexistent", "OutOfBounds"}

-----------------------------------------------------------------------------
(* Orders *)

Less == {ss \in Nat \X Nat : ss[1] < ss[2]}

\* A non-empty set of naturals has a least element.
LEMMA Least ==
    ASSUME NEW S \in SUBSET Nat, S # {}
    PROVE  \E x \in S : \A y \in S : x <= y
<1>1. IsWellFoundedOn(Less, Nat)
  BY NatLessThanWellFounded, Zenon DEF OpToRel, Less
<1>2. PICK x \in S : \A y \in S : ~ (<<y, x>> \in Less)
  BY <1>1, WFMin, Zenon
<1>3. ASSUME NEW y \in S PROVE x <= y
  <2>1. x \in Nat /\ y \in Nat
    OBVIOUS
  <2>2. <<y, x>> \notin Less
    BY <1>2
  <2>3. ASSUME y < x PROVE <<y, x>> \in Less
    BY <2>1, <2>3 DEF Less
  <2> QED
    BY <2>1, <2>2, <2>3
<1> QED
  BY <1>3

\* A non-empty set of naturals below a bound has a greatest element.
LEMMA Greatest ==
    ASSUME NEW N \in Nat, NEW S \in SUBSET (0 .. N), S # {}
    PROVE  \E x \in S : \A y \in S : y <= x
<1> DEFINE D == {d \in Nat : \E x \in S : d = N - x}
<1>1. D \in SUBSET Nat /\ D # {}
  <2>1. PICK x \in S : TRUE
    BY Zenon
  <2>2. N - x \in Nat
    OBVIOUS
  <2>3. N - x \in D
    BY <2>2
  <2> QED
    BY <2>3, Zenon
<1> HIDE DEF D
<1>2. PICK d \in D : \A c \in D : d <= c
  BY <1>1, Least
<1>3. PICK x \in S : d = N - x
  BY DEF D
<1>4. ASSUME NEW y \in S PROVE y <= x
  <2>1. N - y \in D
    BY DEF D
  <2> QED
    BY <1>2, <1>3, <2>1
<1> QED
  BY <1>4

-----------------------------------------------------------------------------
(* Finding a region *)

\* The region that holds an address is the one find() returns.
LEMMA FromIs ==
    ASSUME NEW m, Keyed(m), Apart(m), NEW a \in Nat, NEW k \in DOMAIN m, m[k].start <= a, a <= k
    PROVE  HasFrom(m, a) /\ From(m, a) = k
<1>1. k \in Nat /\ m[k].start \in Nat
  BY DEF Keyed, Region
<1>2. ASSUME NEW j \in DOMAIN m, j >= a PROVE k <= j
  <2>1. j \in Nat
    BY DEF Keyed
  <2> QED
    BY <1>1, <1>2, <2>1 DEF Apart
<1>3. ASSUME NEW i \in DOMAIN m, i >= a, \A j \in DOMAIN m : j >= a => i <= j PROVE i = k
  <2>1. i \in Nat
    BY DEF Keyed
  <2> QED
    BY <1>1, <1>2, <1>3, <2>1
<1> QED
  BY <1>1, <1>2, <1>3 DEF HasFrom, From

\* find() succeeds on every address, with a region that contains it.
LEMMA FromFinds ==
    ASSUME NEW m, Tiled(m), NEW a \in 0 .. Top - 1
    PROVE  /\ HasFrom(m, a)
           /\ From(m, a) \in DOMAIN m
           /\ m[From(m, a)].start <= a
           /\ a <= From(m, a)
           /\ m[From(m, a)].end = From(m, a) + 1
<1>1. PICK k \in DOMAIN m : m[k].start <= a /\ a <= k
  BY DEF Tiled, Covered
<1>2. HasFrom(m, a) /\ From(m, a) = k
  BY <1>1, FromIs DEF Tiled
<1> QED
  BY <1>1, <1>2 DEF Tiled, Keyed

-----------------------------------------------------------------------------
(* Allocating *)

\* n is m after [s, e) was cut out of the unoccupied region at key k: every
\* other region is as it was, and the pieces of the old one tile its span.
Carved(m, n, k, s, e, b, kind) ==
    /\ DOMAIN n = (DOMAIN m \ {k}) \cup {e - 1}
                     \cup (IF m[k].start # s THEN {s - 1} ELSE {})
                     \cup (IF e - 1 # k THEN {k} ELSE {})
    /\ n[e - 1] = [start |-> s, end |-> e, region |-> b, kind |-> kind]
    /\ m[k].start # s =>
         \E l \in {"Unoccupied", m[k].kind} : n[s - 1] = Free(m[k].start, s, l)
    /\ e - 1 # k =>
         \E l \in {"Unoccupied", m[k].kind} : n[k] = Free(e, k + 1, l)
    /\ \A j \in DOMAIN m \ {k} : n[j] = m[j]

\* alloc() cuts the range out of the region it found.
LEMMA CarveShape ==
    ASSUME NEW m, Keyed(m), Apart(m),
           NEW k \in DOMAIN m, NEW s \in 0 .. Top - 1, NEW e \in 1 .. Top, s < e,
           m[k].start <= s, e <= m[k].end,
           NEW b, NEW kind
    PROVE  Carved(m, Carve(m, k, s, e, b, kind), k, s, e, b, kind)
<1> DEFINE old == m[k]
           before == old.start # s
           after == old.end # e
           left == IF before /\ after THEN "Unoccupied" ELSE old.kind
           m1 == Remove(m, {k})
           m2 == IF before THEN Insert(m1, s - 1, Free(old.start, s, left)) ELSE m1
           m3 == Insert(m2, e - 1, [start |-> s, end |-> e, region |-> b, kind |-> kind])
           n == Carve(m, k, s, e, b, kind)
<1>1. n = IF after THEN Insert(m3, old.end - 1, Free(e, old.end, left)) ELSE m3
  BY DEF Carve
<1> SUFFICES Carved(m, n, k, s, e, b, kind)
  OBVIOUS
<1> HIDE DEF n
<1>2. /\ k \in Nat /\ s \in Nat /\ e \in Nat /\ old.start \in Nat
      /\ old.end = k + 1 /\ old.end - 1 = k
  BY DEF Keyed, Region
<1>3. left \in {"Unoccupied", m[k].kind}
  OBVIOUS
<1>4. ASSUME NEW j \in DOMAIN m \ {k} PROVE (j # e - 1 /\ j # s - 1) \/ (~ before /\ j # e - 1)
  <2>1. j \in Nat /\ m[j].start \in Nat
    BY DEF Keyed, Region
  <2>2. j < old.start \/ k < m[j].start
    BY <1>2, <2>1 DEF Apart
  <2>3. m[j].start <= j
    BY DEF Keyed
  <2> QED
    BY <1>2, <2>1, <2>2, <2>3
<1>5. /\ DOMAIN m1 = DOMAIN m \ {k}
      /\ \A j \in DOMAIN m1 : m1[j] = m[j]
  BY DEF Remove
<1>6. /\ DOMAIN m2 = DOMAIN m1 \cup (IF before THEN {s - 1} ELSE {})
      /\ \A j \in DOMAIN m1 : m2[j] = m[j]
      /\ before => m2[s - 1] = Free(old.start, s, left)
  <2> HIDE DEF m1
  <2>1. CASE before
    <3>1. \A j \in DOMAIN m1 : j # s - 1
      BY <1>4, <1>5, <2>1
    <3> QED
      BY <1>5, <2>1, <3>1 DEF Insert
  <2>2. CASE ~ before
    BY <1>5, <2>2
  <2> QED
    BY <2>1, <2>2
<1>7. /\ DOMAIN m3 = DOMAIN m2 \cup {e - 1}
      /\ m3[e - 1] = [start |-> s, end |-> e, region |-> b, kind |-> kind]
      /\ \A j \in DOMAIN m1 : m3[j] = m[j]
      /\ before => m3[s - 1] = Free(old.start, s, left)
  <2>1. \A j \in DOMAIN m1 : j # e - 1
    BY <1>4, <1>5
  <2>2. s - 1 # e - 1
    BY <1>2
  <2> HIDE DEF m1, m2
  <2> QED
    BY <1>6, <2>1, <2>2 DEF Insert
<1>8. CASE after
  <2>1. e - 1 # k
    BY <1>2, <1>8
  <2>2. before => s - 1 # k
    BY <1>2
  <2>3. n = Insert(m3, k, Free(e, k + 1, left))
    BY <1>1, <1>2, <1>8
  <2> HIDE DEF m1, m2, m3, left
  <2>4. /\ DOMAIN n = DOMAIN m3 \cup {k}
        /\ n[k] = Free(e, k + 1, left)
        /\ n[e - 1] = [start |-> s, end |-> e, region |-> b, kind |-> kind]
        /\ \A j \in DOMAIN m1 : n[j] = m[j]
        /\ before => n[s - 1] = Free(old.start, s, left)
    BY <1>5, <1>6, <1>7, <2>1, <2>2, <2>3 DEF Insert
  <2>5. DOMAIN n = (DOMAIN m \ {k}) \cup {e - 1}
                     \cup (IF m[k].start # s THEN {s - 1} ELSE {})
                     \cup (IF e - 1 # k THEN {k} ELSE {})
    BY <1>5, <1>6, <1>7, <2>1, <2>4
  <2>6. /\ m[k].start # s => \E l \in {"Unoccupied", m[k].kind} : n[s - 1] = Free(m[k].start, s, l)
        /\ \E l \in {"Unoccupied", m[k].kind} : n[k] = Free(e, k + 1, l)
    BY <1>3, <2>4, Zenon
  <2> QED
    BY <1>5, <2>4, <2>5, <2>6, Zenon DEF Carved
<1>9. CASE ~ after
  <2>1. e - 1 = k
    BY <1>2, <1>9
  <2>2. n = m3
    BY <1>1, <1>9
  <2> HIDE DEF m1, m2, m3, left
  <2>3. DOMAIN n = (DOMAIN m \ {k}) \cup {e - 1}
                     \cup (IF m[k].start # s THEN {s - 1} ELSE {})
                     \cup (IF e - 1 # k THEN {k} ELSE {})
    BY <1>5, <1>6, <1>7, <2>1, <2>2
  <2>4. m[k].start # s => \E l \in {"Unoccupied", m[k].kind} : n[s - 1] = Free(m[k].start, s, l)
    BY <1>3, <1>7, <2>2, Zenon
  <2> QED
    BY <1>5, <1>7, <2>1, <2>2, <2>3, <2>4, Zenon DEF Carved
<1> QED
  BY <1>8, <1>9

\* alloc() keeps the map a tiling.
LEMMA CarveTiled ==
    ASSUME NEW m, Tiled(m),
           NEW k \in DOMAIN m, NEW s \in 0 .. Top - 1, NEW e \in 1 .. Top, s < e,
           m[k].start <= s, e <= m[k].end, m[k].region = None,
           NEW b \in Backings \cup {GuardPage}, NEW kind \in Kinds
    PROVE  Tiled(Carve(m, k, s, e, b, kind))
<1> DEFINE n == Carve(m, k, s, e, b, kind)
<1> HIDE DEF n
<1>1. Carved(m, n, k, s, e, b, kind)
  BY CarveShape, Zenon DEF Tiled, n
<1>2. /\ k \in Nat /\ s \in Nat /\ e \in Nat /\ Top \in Nat
      /\ m[k].start \in Nat /\ m[k].kind \in Kinds
      /\ m[k].end = k + 1 /\ k < Top
  BY AddressMapAssumption DEF Tiled, Keyed, Region
<1>3. ASSUME NEW j \in DOMAIN n
      PROVE  \/ j \in DOMAIN m \ {k} /\ n[j] = m[j]
             \/ j = e - 1 /\ n[j] = [start |-> s, end |-> e, region |-> b, kind |-> kind]
             \/ /\ j = s - 1 /\ m[k].start < s
                /\ \E l \in Kinds : n[j] = Free(m[k].start, s, l)
             \/ /\ j = k /\ e - 1 < k
                /\ \E l \in Kinds : n[j] = Free(e, k + 1, l)
  BY <1>1, <1>2 DEF Kinds, Carved
<1>4. ASSUME NEW j \in DOMAIN m \ {k}
      PROVE  /\ j \in Nat /\ m[j].start \in Nat /\ m[j].start <= j
             /\ j < m[k].start \/ k < m[j].start
  BY <1>2 DEF Tiled, Keyed, Apart, Region
<1>5. Keyed(n)
  <2> SUFFICES ASSUME NEW j \in DOMAIN n
               PROVE  j \in 0 .. Top - 1 /\ n[j] \in Region /\ n[j].end = j + 1 /\ n[j].start <= j
    BY DEF Keyed
  <2>1. CASE j \in DOMAIN m \ {k} /\ n[j] = m[j]
    BY <2>1 DEF Tiled, Keyed
  <2>2. CASE j = e - 1 /\ n[j] = [start |-> s, end |-> e, region |-> b, kind |-> kind]
    BY <1>2, <2>2 DEF Region
  <2>3. CASE j = s - 1 /\ m[k].start < s /\ \E l \in Kinds : n[j] = Free(m[k].start, s, l)
    BY <1>2, <2>3 DEF Region, Free
  <2>4. CASE j = k /\ e - 1 < k /\ \E l \in Kinds : n[j] = Free(e, k + 1, l)
    BY <1>2, <2>4 DEF Region, Free
  <2> QED
    BY <1>3, <2>1, <2>2, <2>3, <2>4
<1>6. Apart(n)
  <2> SUFFICES ASSUME NEW i \in DOMAIN n, NEW j \in DOMAIN n, i < j
               PROVE  i < n[j].start
    BY DEF Apart
  <2>1. CASE j \in DOMAIN m \ {k}
    <3>1. CASE i \in DOMAIN m \ {k}
      BY <1>1, <2>1, <3>1 DEF Tiled, Apart, Carved
    <3>2. CASE i \notin DOMAIN m \ {k}
      <4>1. i \in Nat /\ m[k].start <= i /\ i <= k
        BY <1>2, <1>3, <3>2
      <4> QED
        BY <1>1, <1>2, <1>4, <2>1, <4>1 DEF Carved
    <3> QED
      BY <3>1, <3>2
  <2>2. CASE j \notin DOMAIN m \ {k}
    <3>1. CASE i \in DOMAIN m \ {k}
      <4>1. m[k].start <= n[j].start /\ j \in Nat /\ n[j].start \in Nat /\ j <= k
        BY <1>2, <1>3, <2>2 DEF Free
      <4> QED
        BY <1>2, <1>4, <3>1, <4>1
    <3>2. CASE i \notin DOMAIN m \ {k}
      BY <1>2, <1>3, <2>2, <3>2 DEF Free
    <3> QED
      BY <3>1, <3>2
  <2> QED
    BY <2>1, <2>2
<1>7. Covered(n)
  <2> SUFFICES ASSUME NEW a \in 0 .. Top - 1
               PROVE  \E j \in DOMAIN n : n[j].start <= a /\ a <= j
    BY DEF Covered
  <2>1. PICK i \in DOMAIN m : m[i].start <= a /\ a <= i
    BY DEF Tiled, Covered
  <2>2. CASE i # k
    BY <1>1, <2>1, <2>2 DEF Carved
  <2>3. CASE i = k /\ a < s
    <3>1. m[k].start # s /\ s - 1 \in DOMAIN n
      BY <1>1, <1>2, <2>1, <2>3 DEF Carved
    <3>2. n[s - 1].start = m[k].start
      BY <1>1, <3>1 DEF Free, Carved
    <3> QED
      BY <1>2, <2>1, <2>3, <3>1, <3>2
  <2>4. CASE i = k /\ s <= a /\ a < e
    <3>1. e - 1 \in DOMAIN n /\ n[e - 1].start = s
      BY <1>1 DEF Carved
    <3> QED
      BY <1>2, <2>4, <3>1
  <2>5. CASE i = k /\ e <= a
    <3>1. e - 1 # k /\ k \in DOMAIN n
      BY <1>1, <1>2, <2>1, <2>5 DEF Carved
    <3>2. n[k].start = e
      BY <1>1, <3>1 DEF Free, Carved
    <3> QED
      BY <2>1, <2>5, <3>1, <3>2
  <2> QED
    BY <1>2, <2>2, <2>3, <2>4, <2>5
<1>8. Guarded(n)
  <2>1. k # 0
    BY AddressMapAssumption DEF Tiled, Guarded
  <2> QED
    BY <1>1, <2>1 DEF Tiled, Guarded, Carved
<1> QED
  BY <1>5, <1>6, <1>7, <1>8 DEF Tiled, n

-----------------------------------------------------------------------------
(* Freeing *)

\* n is m after the region at key k was freed: it reaches up to key t, over
\* unoccupied regions only, and every other region is as it was.
Freed(m, n, k, t) ==
    /\ t \in DOMAIN m
    /\ k <= t
    /\ \A j \in DOMAIN m : k < j /\ j <= t => m[j].region = None
    /\ DOMAIN n = {j \in DOMAIN m : j < k \/ t <= j}
    /\ n[t] = Free(m[k].start, t + 1, m[k].kind)
    /\ \A j \in DOMAIN n \ {t} : n[j] = m[j]

\* free() merges the region with the unoccupied ones above it, and with none
\* below: the lowest entry of the map is the guard page.
LEMMA ReleaseShape ==
    ASSUME NEW m, Tiled(m), NEW k \in DOMAIN m
    PROVE  \E t \in DOMAIN m : Freed(m, Release(m, k), k, t)
<1> DEFINE above == MergedAbove(m, k)
           e == IF above = {} THEN m[k].end
                ELSE m[CHOOSE j \in above : \A i \in above : i <= j].end
           n == Release(m, k)
<1>1. \A j \in DOMAIN m : j \in Nat /\ j <= Top /\ m[j].end = j + 1
  BY AddressMapAssumption DEF Tiled, Keyed
<1>2. MergedBelow(m, k) = {}
  <2> SUFFICES ASSUME NEW j \in DOMAIN m, LeastBelow(m, m[k].start, j), m[j].region = None
               PROVE  FALSE
    BY DEF MergedBelow
  <2>1. j = 0
    BY <1>1 DEF LeastBelow, Tiled, Guarded
  <2> QED
    BY <2>1, AddressMapAssumption DEF Tiled, Guarded
<1>3. n = Insert(Remove(m, {k} \cup above), e - 1, Free(m[k].start, e, m[k].kind))
  <2> DEFINE below == MergedBelow(m, k)
             s == IF below = {} THEN m[k].start ELSE m[CHOOSE j \in below : TRUE].start
  <2>1. n = Insert(Remove(m, {k} \cup below \cup above), e - 1, Free(s, e, m[k].kind))
    BY DEF Release
  <2>2. {k} \cup below \cup above = {k} \cup above /\ s = m[k].start
    BY <1>2
  <2> HIDE DEF n, e, s, above, below
  <2> QED
    BY <2>1, <2>2
<1> SUFFICES \E t \in DOMAIN m : Freed(m, n, k, t)
  OBVIOUS
<1>4. ASSUME NEW j \in DOMAIN m
      PROVE  j \in above <=> k < j /\ \A i \in DOMAIN m : k < i /\ i <= j => m[i].region = None
  BY <1>1 DEF MergedAbove
<1>5. above \subseteq DOMAIN m
  BY DEF MergedAbove
<1>6. PICK t \in {k} \cup above : e = t + 1 /\ \A j \in {k} \cup above : j <= t
  <2>1. CASE above = {}
    BY <1>1, <2>1
  <2>2. CASE above # {}
    <3>1. \E j \in above : \A i \in above : i <= j
      <4>1. above \in SUBSET (0 .. Top) /\ Top \in Nat
        BY <1>1, <1>5, AddressMapAssumption
      <4> HIDE DEF above
      <4> QED
        BY <2>2, <4>1, Greatest, Zenon
    <3> DEFINE t == CHOOSE j \in above : \A i \in above : i <= j
    <3>2. t \in above /\ \A i \in above : i <= t
      BY <3>1, Zenon
    <3>3. e = m[t].end
      BY <2>2, Zenon
    <3> HIDE DEF t, e, above
    <3>4. k <= t
      BY <1>1, <1>4, <1>5, <3>2
    <3> QED
      BY <1>1, <1>5, <3>2, <3>3, <3>4
  <2> QED
    BY <2>1, <2>2
<1> HIDE DEF n, e, above
<1>7. t \in DOMAIN m /\ t \in Nat /\ k \in Nat /\ k <= t /\ e - 1 = t
  BY <1>1, <1>5, <1>6
<1>8. ASSUME NEW j \in DOMAIN m PROVE j \in {k} \cup above <=> k <= j /\ j <= t
  BY <1>1, <1>4, <1>6, <1>7
<1>9. /\ DOMAIN n = (DOMAIN m \ ({k} \cup above)) \cup {t}
      /\ n[t] = Free(m[k].start, t + 1, m[k].kind)
      /\ \A j \in DOMAIN n \ {t} : n[j] = m[j]
  BY <1>3, <1>6, <1>7 DEF Insert, Remove
<1>10. DOMAIN n = {j \in DOMAIN m : j < k \/ t <= j}
  BY <1>1, <1>7, <1>8, <1>9
<1>11. \A j \in DOMAIN m : k < j /\ j <= t => m[j].region = None
  BY <1>1, <1>4, <1>7, <1>8
<1> QED
  BY <1>7, <1>9, <1>10, <1>11 DEF Freed

\* free() keeps the map a tiling.
LEMMA ReleaseTiled ==
    ASSUME NEW m, Tiled(m), NEW k \in DOMAIN m, k # 0
    PROVE  Tiled(Release(m, k))
<1> DEFINE n == Release(m, k)
<1>1. PICK t \in DOMAIN m : Freed(m, n, k, t)
  BY ReleaseShape
<1> SUFFICES Tiled(n)
  OBVIOUS
<1> HIDE DEF n
<1>2. ASSUME NEW j \in DOMAIN m
      PROVE  /\ j \in Nat /\ j \in 0 .. Top - 1 /\ m[j] \in Region
             /\ m[j].start \in Nat /\ m[j].start <= j /\ m[j].end = j + 1
  BY DEF Tiled, Keyed, Region
<1>3. /\ k <= t
      /\ DOMAIN n = {j \in DOMAIN m : j < k \/ t <= j}
      /\ n[t].start = m[k].start
      /\ \A j \in DOMAIN n \ {t} : n[j] = m[j]
  BY <1>1 DEF Freed, Free
<1>4. Keyed(n)
  <2> SUFFICES ASSUME NEW j \in DOMAIN n
               PROVE  j \in 0 .. Top - 1 /\ n[j] \in Region /\ n[j].end = j + 1 /\ n[j].start <= j
    BY DEF Keyed
  <2>1. CASE j # t
    BY <1>2, <1>3, <2>1
  <2>2. CASE j = t
    <3>1. n[t] = Free(m[k].start, t + 1, m[k].kind)
      BY <1>1 DEF Freed
    <3> QED
      BY <1>2, <1>3, <2>2, <3>1, AddressMapAssumption DEF Free, Region
  <2> QED
    BY <2>1, <2>2
<1>5. Apart(n)
  <2> SUFFICES ASSUME NEW i \in DOMAIN n, NEW j \in DOMAIN n, i < j
               PROVE  i < n[j].start
    BY DEF Apart
  <2>1. CASE j # t
    BY <1>3, <2>1 DEF Tiled, Apart
  <2>2. CASE j = t
    <3>1. i < k
      BY <1>2, <1>3, <2>2
    <3> QED
      BY <1>3, <2>2, <3>1 DEF Tiled, Apart
  <2> QED
    BY <2>1, <2>2
<1>6. Covered(n)
  <2> SUFFICES ASSUME NEW a \in 0 .. Top - 1
               PROVE  \E j \in DOMAIN n : n[j].start <= a /\ a <= j
    BY DEF Covered
  <2>1. PICK i \in DOMAIN m : m[i].start <= a /\ a <= i
    BY DEF Tiled, Covered
  <2>2. CASE i < k \/ t < i
    <3>1. i \in DOMAIN n /\ n[i] = m[i]
      BY <1>2, <1>3, <2>2
    <3> QED
      BY <2>1, <3>1
  <2>3. CASE k <= i /\ i <= t
    <3>1. i = k \/ k < m[i].start
      BY <1>2, <2>3 DEF Tiled, Apart
    <3>2. m[k].start <= a /\ a <= t
      BY <1>2, <2>1, <2>3, <3>1
    <3> QED
      BY <1>2, <1>3, <3>2
  <2> QED
    BY <1>2, <2>2, <2>3
<1>7. Guarded(n)
  <2>1. 0 \in DOMAIN n /\ 0 # t
    BY <1>2, <1>3 DEF Tiled, Guarded
  <2> QED
    BY <1>3, <2>1 DEF Tiled, Guarded
<1> QED
  BY <1>4, <1>5, <1>6, <1>7 DEF Tiled

-----------------------------------------------------------------------------
(* The specification *)

\* AddressMap::new() and the guard page make a tiling.
LEMMA InitInv == Init => IInv
<1> SUFFICES ASSUME Init PROVE IInv
  OBVIOUS
<1> USE AddressMapAssumption
<1>1. map = [j \in {0, Top - 1} |->
               IF j = Top - 1 THEN Free(1, Top, "Unoccupied")
               ELSE [start |-> 0, end |-> 1, region |-> GuardPage, kind |-> "Guard"]]
  <2> DEFINE new == [k \in {Top} |-> Free(0, Top, "Unoccupied")]
             guard == [start |-> 0, end |-> 1, region |-> GuardPage, kind |-> "Guard"]
  <2>1. new[Top].start = 0 /\ new[Top].end = Top /\ new[Top].kind = "Unoccupied" /\ Top # 1
    BY DEF Free
  <2>2. Remove(new, {Top}) = [j \in {} |-> new[j]]
    BY DEF Remove
  <2>3. map = Insert(Insert(Remove(new, {Top}), 0, guard), Top - 1, Free(1, Top, "Unoccupied"))
    <3>1. map = Carve(new, Top, 0, 1, GuardPage, "Guard")
      BY DEF Init
    <3>2. 1 - 1 = 0
      OBVIOUS
    <3> HIDE DEF new
    <3> QED
      BY <2>1, <3>1, <3>2 DEF Carve
  <2> HIDE DEF new, guard
  <2>4. Insert(Remove(new, {Top}), 0, guard) = [j \in {0} |-> guard]
    BY <2>2, SMTT(30) DEF Insert
  <2>5. map = [j \in {0} \cup {Top - 1} |-> IF j = Top - 1 THEN Free(1, Top, "Unoccupied") ELSE guard]
    BY <2>3, <2>4, Zenon DEF Insert
  <2> QED
    BY <2>5 DEF guard
<1>2. map[0] = [start |-> 0, end |-> 1, region |-> GuardPage, kind |-> "Guard"]
  BY <1>1
<1>3. map[Top - 1] = Free(1, Top, "Unoccupied") /\ DOMAIN map = {0, Top - 1}
  BY <1>1
<1>4. Keyed(map)
  BY <1>2, <1>3 DEF Keyed, Region, Kinds, Free
<1>5. Apart(map)
  BY <1>2, <1>3 DEF Apart, Free
<1>6. Covered(map)
  BY <1>2, <1>3 DEF Covered, Free
<1>7. Guarded(map)
  BY <1>2, <1>3 DEF Guarded
<1> QED
  BY <1>4, <1>5, <1>6, <1>7 DEF IInv, Tiled, Init

\* What a call of alloc() that succeeds knows of the region it found.
LEMMA AllocFound ==
    ASSUME Tiled(map), NEW s \in 0 .. Top - 1, NEW e \in 1 .. Top, ~ Occupied(map, s, e)
    PROVE  LET k == From(map, s) IN
           k \in DOMAIN map /\ map[k].start <= s /\ e <= map[k].end /\ map[k].region = None
<1>1. From(map, s) \in DOMAIN map /\ map[From(map, s)].start <= s
  BY FromFinds
<1>2. map[From(map, s)] \in Region
  BY <1>1 DEF Tiled, Keyed
<1> QED
  BY <1>1, <1>2, AddressMapAssumption DEF Occupied, Region

\* What a call of free() that succeeds knows of the region it found.
LEMMA FreeFound ==
    ASSUME Tiled(map), NEW s \in 0 .. Top - 1, NEW e \in 1 .. Top, ~ Nonexistent(map, s, e)
    PROVE  /\ From(map, s) = e - 1 /\ e - 1 \in DOMAIN map
           /\ map[e - 1].start = s /\ map[e - 1].end = e /\ map[e - 1].region # None
<1>1. From(map, s) \in DOMAIN map /\ map[From(map, s)].end = From(map, s) + 1
  BY FromFinds
<1>2. From(map, s) \in Nat
  BY <1>1 DEF Tiled, Keyed
<1>3. From(map, s) = e - 1
  BY <1>1, <1>2 DEF Nonexistent
<1> QED
  BY <1>1, <1>3 DEF Nonexistent

\* Every call keeps the map a tiling.
LEMMA NextInv == IInv /\ [Next]_vars => IInv'
<1> SUFFICES ASSUME IInv, [Next]_vars PROVE IInv'
  OBVIOUS
<1>1. CASE UNCHANGED vars
  BY <1>1 DEF IInv, vars
<1>2. ASSUME NEW s \in 0 .. Top - 1, NEW e \in 1 .. Top, s < e,
             NEW b \in Backings \cup {GuardPage}, NEW kind \in Kinds, Alloc(s, e, b, kind)
      PROVE  IInv'
  <2>1. ~ Occupied(map, s, e) /\ map' = Carve(map, From(map, s), s, e, b, kind) /\ result' = "Ok"
    BY <1>2 DEF Alloc
  <2>2. Tiled(map')
    BY <1>2, <2>1, AllocFound, CarveTiled DEF IInv
  <2> QED
    BY <2>1, <2>2 DEF IInv
<1>3. ASSUME NEW s \in 0 .. Top - 1, NEW e \in 1 .. Top, FreeRegion(s, e) PROVE IInv'
  <2>1. ~ Nonexistent(map, s, e) /\ map[From(map, s)].kind # "Guard"
    BY <1>3 DEF FreeRegion
  <2>2. e - 1 \in DOMAIN map /\ e - 1 # 0
    BY <2>1, FreeFound DEF IInv, Tiled, Guarded
  <2>3. Tiled(map')
    BY <1>3, <2>2, ReleaseTiled DEF FreeRegion, IInv
  <2> QED
    BY <1>3, <2>3 DEF FreeRegion, IInv
<1>4. ASSUME NEW s, NEW e, AllocError(s, e) \/ FreeError(s, e) PROVE IInv'
  BY <1>4 DEF AllocError, FreeError, IInv
<1> QED
  BY <1>1, <1>2, <1>3, <1>4 DEF Next, Kinds

\* The regions tile the address space in every reachable state.
THEOREM AlwaysTiled == Spec => []IInv
<1> QED
  BY InitInv, NextInv, PTL DEF Spec

\* Type correctness of the map and of what its operations return.
THEOREM MapTypeCorrect == Spec => []TypeOK
<1>1. IInv => TypeOK
  BY AddressMapAssumption DEF IInv, Tiled, Keyed, TypeOK
<1> QED
  BY <1>1, AlwaysTiled, PTL

\* find() returns the region that contains the address, for every address and
\* after every sequence of alloc() and free().
THEOREM FindIsRight == Spec => []FindContains
<1>1. ASSUME IInv PROVE FindContains
  <2> SUFFICES ASSUME NEW a \in 0 .. Top - 1
               PROVE  HasFrom(map, a) /\ map[From(map, a)].start <= a /\ a < map[From(map, a)].end
    BY DEF FindContains
  <2>1. From(map, a) \in Nat
    BY <1>1, FromFinds DEF IInv, Tiled, Keyed
  <2> QED
    BY <1>1, <2>1, FromFinds DEF IInv
<1> QED
  BY <1>1, AlwaysTiled, PTL

\* The entry free() removes is the one it checked: its unwrap() never panics.
THEOREM FreeIsRight == Spec => []FreeRemovesWhatItChecked
<1>1. ASSUME IInv PROVE FreeRemovesWhatItChecked
  BY <1>1, FreeFound DEF IInv, FreeRemovesWhatItChecked
<1> QED
  BY <1>1, AlwaysTiled, PTL

-----------------------------------------------------------------------------
(* Refinement *)

Record(m, k) == [start |-> m[k].start, end |-> m[k].end, region |-> m[k].region]
HeldIn(m) == {Record(m, k) : k \in {j \in DOMAIN m : m[j].region # None}}

\* A region alloc() makes overlaps no held one, and no held one is lost.
LEMMA AllocTakes ==
    ASSUME NEW m, Tiled(m),
           NEW k \in DOMAIN m, NEW s \in 0 .. Top - 1, NEW e \in 1 .. Top, s < e,
           m[k].start <= s, e <= m[k].end, m[k].region = None,
           NEW b \in Backings \cup {GuardPage}, NEW kind \in Kinds
    PROVE  LET r == [start |-> s, end |-> e, region |-> b] IN
           /\ \A o \in HeldIn(m) : ~ Space!Overlap(r, o)
           /\ HeldIn(Carve(m, k, s, e, b, kind)) = HeldIn(m) \cup {r}
<1> DEFINE n == Carve(m, k, s, e, b, kind)
           r == [start |-> s, end |-> e, region |-> b]
<1>1. Carved(m, n, k, s, e, b, kind)
  BY CarveShape, Zenon DEF Tiled
<1> HIDE DEF n
<1>2. k \in Nat /\ m[k].start \in Nat /\ m[k].end = k + 1
  BY DEF Tiled, Keyed, Region
<1>3. ASSUME NEW o \in HeldIn(m) PROVE ~ Space!Overlap(r, o)
  <2>1. PICK j \in DOMAIN m : m[j].region # None /\ o = Record(m, j)
    BY DEF HeldIn
  <2>2. j \in Nat /\ m[j].start \in Nat /\ m[j].end = j + 1 /\ o.start = m[j].start /\ o.end = j + 1
    BY <2>1 DEF Tiled, Keyed, Region, Record
  <2>3. j < m[k].start \/ k < m[j].start
    BY <1>2, <2>1, <2>2 DEF Tiled, Apart
  <2> QED
    BY <1>2, <2>2, <2>3 DEF Space!Overlap
<1>4. ASSUME NEW j \in DOMAIN n, n[j].region # None
      PROVE  j \in DOMAIN m \ {k} \/ j = e - 1
  <2>1. j = s - 1 /\ m[k].start # s => n[j].region = None
    BY <1>1 DEF Carved, Free
  <2>2. j = k /\ e - 1 # k => n[j].region = None
    BY <1>1 DEF Carved, Free
  <2> QED
    BY <1>1, <1>4, <2>1, <2>2 DEF Carved
<1>5. Record(n, e - 1) = r /\ e - 1 \in DOMAIN n /\ n[e - 1].region # None
  BY <1>1, AddressMapAssumption DEF Carved, Record
<1>6. ASSUME NEW j \in DOMAIN m \ {k}
      PROVE  j \in DOMAIN n /\ Record(n, j) = Record(m, j) /\ n[j] = m[j]
  BY <1>1 DEF Carved, Record
<1>7. ASSUME NEW o \in HeldIn(n) PROVE o \in HeldIn(m) \cup {r}
  <2>1. PICK j \in DOMAIN n : n[j].region # None /\ o = Record(n, j)
    BY DEF HeldIn
  <2>2. CASE j = e - 1
    BY <1>5, <2>1, <2>2
  <2>3. CASE j \in DOMAIN m \ {k}
    BY <1>6, <2>1, <2>3 DEF HeldIn
  <2> QED
    BY <1>4, <2>1, <2>2, <2>3
<1>8. ASSUME NEW o \in HeldIn(m) PROVE o \in HeldIn(n)
  <2>1. PICK j \in DOMAIN m : m[j].region # None /\ o = Record(m, j)
    BY DEF HeldIn
  <2>2. j \in DOMAIN m \ {k}
    BY <2>1
  <2> QED
    BY <1>6, <2>1, <2>2 DEF HeldIn
<1>9. r \in HeldIn(n)
  BY <1>5 DEF HeldIn
<1>10. HeldIn(n) = HeldIn(m) \cup {r}
  BY <1>7, <1>8, <1>9
<1> QED
  BY <1>3, <1>10 DEF n

\* free() releases the region it was asked for, and no other.
LEMMA FreeReleases ==
    ASSUME NEW m, Tiled(m), NEW k \in DOMAIN m, m[k].region # None
    PROVE  HeldIn(Release(m, k)) = HeldIn(m) \ {Record(m, k)}
<1> DEFINE n == Release(m, k)
<1>1. PICK t \in DOMAIN m : Freed(m, n, k, t)
  BY ReleaseShape
<1> SUFFICES HeldIn(n) = HeldIn(m) \ {Record(m, k)}
  OBVIOUS
<1> HIDE DEF n
<1>2. /\ k <= t
      /\ \A j \in DOMAIN m : k < j /\ j <= t => m[j].region = None
      /\ DOMAIN n = {j \in DOMAIN m : j < k \/ t <= j}
      /\ n[t].region = None
      /\ \A j \in DOMAIN n \ {t} : n[j] = m[j]
  BY <1>1 DEF Freed, Free
<1>3. \A j \in DOMAIN m : j \in Nat /\ m[j].end = j + 1
  BY DEF Tiled, Keyed
<1>4. ASSUME NEW j \in DOMAIN m, Record(m, j) = Record(m, k) PROVE j = k
  <2>1. m[j].end = m[k].end
    BY <1>4 DEF Record
  <2> QED
    BY <1>3, <2>1
<1>5. ASSUME NEW o \in HeldIn(n) PROVE o \in HeldIn(m) \ {Record(m, k)}
  <2>1. PICK j \in DOMAIN n : n[j].region # None /\ o = Record(n, j)
    BY DEF HeldIn
  <2>2. j \in DOMAIN m /\ j # t /\ n[j] = m[j] /\ j # k
    BY <1>2, <1>3, <2>1
  <2>3. o = Record(m, j) /\ m[j].region # None
    BY <2>1, <2>2 DEF Record
  <2> QED
    BY <1>4, <2>2, <2>3 DEF HeldIn
<1>6. ASSUME NEW o \in HeldIn(m) \ {Record(m, k)} PROVE o \in HeldIn(n)
  <2>1. PICK j \in DOMAIN m : m[j].region # None /\ o = Record(m, j)
    BY DEF HeldIn
  <2>2. j # k
    BY <1>6, <2>1
  <2>3. j < k \/ t < j
    BY <1>2, <1>3, <2>1, <2>2
  <2>4. j \in DOMAIN n /\ n[j] = m[j]
    BY <1>2, <1>3, <2>3
  <2>5. o = Record(n, j) /\ n[j].region # None
    BY <2>1, <2>4 DEF Record
  <2> QED
    BY <2>4, <2>5 DEF HeldIn
<1> QED
  BY <1>5, <1>6

\* Every call takes one region, releases one, or changes none.
THEOREM MapImplementsSpace == Spec => ImplementsAddressSpace
<1>1. HeldRegions = HeldIn(map) /\ HeldRegions' = HeldIn(map')
  BY DEF HeldRegions, HeldIn, Record
<1>2. ASSUME IInv, [Next]_vars PROVE [Space!Next]_HeldRegions
  <2>1. CASE map' = map
    BY <1>1, <2>1
  <2>2. ASSUME NEW s \in 0 .. Top - 1, NEW e \in 1 .. Top, s < e,
               NEW b \in Backings \cup {GuardPage}, NEW kind \in Kinds, Alloc(s, e, b, kind)
        PROVE  Space!Next
    <3> DEFINE r == [start |-> s, end |-> e, region |-> b]
    <3>1. ~ Occupied(map, s, e) /\ map' = Carve(map, From(map, s), s, e, b, kind)
      BY <2>2 DEF Alloc
    <3>2. /\ \A o \in HeldIn(map) : ~ Space!Overlap(r, o)
          /\ HeldIn(map') = HeldIn(map) \cup {r}
      BY <1>2, <2>2, <3>1, AllocFound, AllocTakes DEF IInv
    <3>3. r \in Space!Held /\ r.start < r.end
      BY <2>2, AddressMapAssumption DEF Space!Held
    <3>4. Space!Take(r)
      BY <1>1, <3>2, <3>3 DEF Space!Take
    <3> QED
      BY <3>3, <3>4 DEF Space!Next
  <2>3. ASSUME NEW s \in 0 .. Top - 1, NEW e \in 1 .. Top, FreeRegion(s, e) PROVE Space!Next
    <3> DEFINE r == Record(map, e - 1)
    <3>1. e - 1 \in DOMAIN map /\ map[e - 1].region # None /\ map' = Release(map, e - 1)
      BY <1>2, <2>3, FreeFound DEF FreeRegion, IInv
    <3>2. HeldIn(map') = HeldIn(map) \ {r}
      BY <1>2, <3>1, FreeReleases DEF IInv
    <3>3. r \in HeldIn(map)
      BY <3>1 DEF HeldIn
    <3>4. r \in Space!Held
      BY <1>2, <3>1 DEF IInv, Tiled, Keyed, Region, Record, Space!Held
    <3>5. Space!Release(r)
      BY <1>1, <3>2, <3>3 DEF Space!Release
    <3> QED
      BY <3>4, <3>5 DEF Space!Next
  <2> QED
    BY <1>2, <2>1, <2>2, <2>3 DEF Next, vars, AllocError, FreeError, Kinds
<1> QED
  BY <1>2, AlwaysTiled, PTL DEF Spec, ImplementsAddressSpace
=============================================================================
