--------------------------- MODULE PhysicalMemory ---------------------------
(***************************************************************************)
(* The physical page allocator (mem/phys/bitmap.rs): one bit per page, in  *)
(* entries of Width bits (64 in the code).  Pages are numbered from        *)
(* mem_start; page Pages is the first one past mem_end.  mem_start is      *)
(* taken to be aligned to the megapage size.                               *)
(*                                                                         *)
(* Callers hand back what they were given, the way they were given it: the *)
(* owner of an allocation (mem/region.rs) remembers how it was made.       *)
(***************************************************************************)
EXTENDS Integers, FiniteSets, FiniteSetsExt

CONSTANTS
    Width,       \* bits of an entry
    Pages,       \* pages between mem_start and mem_end
    MegaEntries, \* entries a megapage takes
    PerPage,     \* entries of the bitmap in a page
    EntryBytes,  \* bytes of an entry
    Counts,      \* page counts callers ask alloc_contiguous() for
    MegaCounts   \* megapage counts they ask it for

\* What the constants of an instance satisfy.
PhysicalMemoryAssumption ==
    /\ {Width, Pages, MegaEntries, PerPage, EntryBytes} \subseteq Nat \ {0}
    /\ Counts \cup MegaCounts \subseteq Nat \ {0}

VARIABLES
    bitmap,  \* entry -> the bits that are set
    given,   \* allocations that were not deallocated
    panic    \* the assertion that failed, or "no"

vars == <<bitmap, given, panic>>

Size == Pages \div Width + 1
Entries == 0 .. Size - 1
Bits == 0 .. Width - 1

\* The bitmap lies at mem_start.  init() divides its number of entries by the
\* bytes of a page.
BitmapPages == 0 .. (Size - 1) \div PerPage
Reserved == Size \div (PerPage * EntryBytes) + 1

\* An allocation: n pages or megapages from a page on.  One made by alloc() is
\* given back by dealloc(), one made by alloc_contiguous() by its counterpart.
Allocation == [page : Nat, n : Nat \ {0}, mega : BOOLEAN, by : {"alloc", "contiguous"}]
PagesOf(a) == a.page .. a.page + a.n * (IF a.mega THEN MegaEntries * Width ELSE 1) - 1

Used == {i * Width + b : <<i, b>> \in {x \in Entries \X Bits : x[2] \in bitmap[x[1]]}}

\* The bitmap with the pages of P set, and cleared.
SetBits(P) == [i \in Entries |-> bitmap[i] \cup {b \in Bits : i * Width + b \in P}]
ClearBits(P) == [i \in Entries |-> {b \in bitmap[i] : i * Width + b \notin P}]

\* Mutant: init() reserves nothing when the bitmap fits a page.
Init_NoReserve ==
    /\ bitmap = [i \in Entries |-> {b \in Bits : i * Width + b < Reserved - 1}]
    /\ given = {}
    /\ panic = "no"

Init ==
    /\ bitmap = [i \in Entries |-> {b \in Bits : i * Width + b < Reserved}]
    /\ given = {}
    /\ panic = "no"

-----------------------------------------------------------------------------
(* Allocation *)

Give(page, n, mega, by) ==
    given' = given \cup {[page |-> page, n |-> n, mega |-> mega, by |-> by]}

NotFull == {i \in Entries : bitmap[i] # Bits}

\* Mutant: the bit of the page is not set.
AllocPage_NoSet ==
    LET i == Min(NotFull)
        page == i * Width + Min(Bits \ bitmap[i]) IN
    /\ NotFull # {}
    /\ page <= Pages
    /\ Give(page, 1, FALSE, "alloc")
    /\ UNCHANGED bitmap

\* alloc(Kilopage): the first clear bit.
AllocPage ==
    LET i == Min(NotFull)
        page == i * Width + Min(Bits \ bitmap[i]) IN
    /\ NotFull # {}
    /\ page <= Pages
    /\ Give(page, 1, FALSE, "alloc")
    /\ bitmap' = SetBits({page})

\* The first bit of entry i from which n are clear.  The last place of the
\* entry is not tried.
ClearRuns(i, n) == {b \in 0 .. Width - n - 1 : b .. b + n - 1 \cap bitmap[i] = {}}

\* alloc_contig_4k_intra_pages(): n pages within an entry.  A run past mem_end
\* is marked and passed over.
AllocIntra(n) ==
    LET fits == IF n = Width THEN {i \in Entries : bitmap[i] = {}}
                ELSE {i \in Entries : ClearRuns(i, n) # {}}
        start(i) == i * Width + (IF n = Width THEN 0 ELSE Min(ClearRuns(i, n)))
        passed == {i \in fits : start(i) >= Pages /\ (n = Width => i = Min(fits))}
        page == start(Min(fits)) IN
    /\ fits # {}
    /\ IF page < Pages
       THEN /\ Give(page, n, FALSE, "contiguous")
            /\ bitmap' = SetBits(page .. page + n - 1)
       ELSE /\ bitmap' = SetBits(UNION {start(i) .. start(i) + n - 1 : i \in passed})
            /\ UNCHANGED given

\* Clear bits at the top of entry i.
LeadingZeros(i) == IF bitmap[i] = {} THEN Width ELSE Width - 1 - Max(bitmap[i])

\* The entry alloc_contig_4k_inter_pages() settles on for n pages, searching
\* from entry s; Size if there is none.
Search(n) ==
    LET k == n \div Width
        r == n % Width
        found[s \in 0 .. Size + k + 1] ==
            IF s + k > Size THEN Size
            ELSE IF \E i \in s .. s + k - 1 : bitmap[i] # {} THEN found[s + k]
            ELSE IF r = 0 THEN s
            ELSE IF s + k = Size THEN Size
            ELSE IF LeadingZeros(s + k) < r THEN found[s + k + 1]
            ELSE s IN
    found[0]

\* alloc_contig_4k_inter_pages(): whole entries, and the low bits of the next.
AllocInter(n) ==
    LET page == Search(n) * Width IN
    /\ page < Pages
    /\ Give(page, n, FALSE, "contiguous")
    /\ bitmap' = SetBits(page .. page + n - 1)

\* The megapages of alloc_contiguous(): whole entries, a multiple of the count.
AllocMega(n, by) ==
    LET k == MegaEntries * n
        starts == {s \in Entries : /\ s % k = 0
                                   /\ s + k <= Size
                                   /\ \A i \in s .. s + k - 1 : bitmap[i] = {}}
        page == Min(starts) * Width IN
    /\ starts # {}
    /\ Give(page, n, TRUE, by)
    /\ bitmap' = SetBits(page .. page + k * Width - 1)

AllocContiguous(n) == IF n <= Width THEN AllocIntra(n) ELSE AllocInter(n)

-----------------------------------------------------------------------------
(* Deallocation *)

\* Entries from..to-1 are checked to be full and cleared.
FreeEntries(from, to) ==
    IF to <= Size /\ \A i \in from .. to - 1 : bitmap[i] = Bits
    THEN /\ bitmap' = [i \in Entries |-> IF i \in from .. to - 1 THEN {} ELSE bitmap[i]]
         /\ UNCHANGED panic
    ELSE /\ panic' = "double free"
         /\ UNCHANGED bitmap

\* dealloc(): one page, or the 512 entries from a megapage on.
Dealloc(a) ==
    IF a.mega THEN LET i == a.page \div Width IN FreeEntries(i, i + MegaEntries * Width)
    ELSE IF a.page \in Used
    THEN bitmap' = ClearBits({a.page}) /\ UNCHANGED panic
    ELSE panic' = "double free" /\ UNCHANGED bitmap

\* Mutant: the mask is not rotated to the first bit of the run.
DeallocIntra_NoRotate(a) ==
    LET i == a.page \div Width IN
    bitmap' = [bitmap EXCEPT ![i] = IF a.n = Width THEN {} ELSE @ \ (0 .. a.n - 1)]

\* Mutant: the last page of the run stays set.
DeallocIntra_OffByOne(a) ==
    LET i == a.page \div Width
        b == a.page % Width IN
    bitmap' = [bitmap EXCEPT ![i] = IF a.n = Width THEN {} ELSE @ \ (b .. b + a.n - 2)]

\* The run of an entry is cleared without a look at it.
DeallocIntra(a) ==
    LET i == a.page \div Width
        b == a.page % Width IN
    bitmap' = [bitmap EXCEPT ![i] = IF a.n = Width THEN {} ELSE @ \ (b .. b + a.n - 1)]

\* Whole entries are checked and cleared, then the low bits of the next one.
DeallocInter(a) ==
    LET i == a.page \div Width
        k == a.n \div Width IN
    IF \A j \in i .. i + k - 1 : bitmap[j] = Bits
    THEN bitmap' = ClearBits(PagesOf(a)) /\ UNCHANGED panic
    ELSE panic' = "double free" /\ UNCHANGED bitmap

\* The slice of a megapage run is as long as its end index.
DeallocContiguous(a) ==
    LET i == a.page \div Width IN
    IF a.mega THEN FreeEntries(i, i + i + MegaEntries * a.n)
    ELSE IF a.n <= Width THEN DeallocIntra(a) /\ UNCHANGED panic
    ELSE DeallocInter(a)

-----------------------------------------------------------------------------

Allocate ==
    /\ \/ AllocPage
       \/ \E n \in Counts : AllocContiguous(n)
       \/ \E n \in MegaCounts : AllocMega(n, "contiguous")
       \/ MegaCounts # {} /\ AllocMega(1, "alloc")
    /\ UNCHANGED panic

Deallocate == \E a \in given :
    /\ given' = given \ {a}
    /\ IF a.by = "alloc" THEN Dealloc(a) ELSE DeallocContiguous(a)

Next == panic = "no" /\ (Allocate \/ Deallocate)

Spec == Init /\ [][Next]_vars

-----------------------------------------------------------------------------
(* Correctness *)

\* The values of the variables.
TypeOK ==
    /\ bitmap \in [Entries -> SUBSET Bits]
    /\ \A a \in given : a \in Allocation
    /\ panic \in {"no", "double free"}

\* The contract of alloc() and alloc_contiguous(): they "must not return the
\* same physical page multiple times without it having been deallocated before
\* being reused".
NeverTwice == \A a, b \in given : a # b => PagesOf(a) \cap PagesOf(b) = {}

\* The pages the bitmap itself is kept in are never handed out, whatever the
\* deallocations clear.
BitmapKept == \A a \in given : PagesOf(a) \cap BitmapPages = {}

\* The assertions of dealloc() and dealloc_contiguous() fail on a double free
\* only: giving back an allocation once never fails one.
NoFalseDoubleFree == panic = "no"

\* No sequence of allocations loses memory: the pages in use are the reserved
\* ones and those of the allocations, apart from bits that stand for no page.
NothingLost ==
    panic = "no" =>
        Used \cap 0 .. Pages - 1 =
            ((0 .. Reserved - 1) \cup UNION {PagesOf(a) : a \in given}) \cap 0 .. Pages - 1
=============================================================================
