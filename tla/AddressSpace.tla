----------------------------- MODULE AddressSpace -----------------------------
(***************************************************************************)
(* What a task's address map promises: a set of regions that are held, no  *)
(* two of them on one address, each held from the allocation that made it  *)
(* to the deallocation of exactly that region, which returns its backing.  *)
(***************************************************************************)
EXTENDS Naturals

CONSTANTS Top, Backings

VARIABLE held

Held == [start : 0 .. Top, end : 0 .. Top, region : Backings]

\* The half-open spans of a and b share an address.
Overlap(a, b) == a.start < b.end /\ b.start < a.end

Take(r) ==
    /\ r.start < r.end
    /\ \A o \in held : ~ Overlap(r, o)
    /\ held' = held \cup {r}

Release(r) ==
    /\ r \in held
    /\ held' = held \ {r}

Init == held = {}

Next == \E r \in Held : Take(r) \/ Release(r)

Spec == Init /\ [][Next]_held
===============================================================================
