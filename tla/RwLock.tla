-------------------------------- MODULE RwLock --------------------------------
(***************************************************************************)
(* SpinRwLock of sync/rwlock.rs, the lock of the task table, the claimed   *)
(* devices and the ISR registry: one action per atomic operation, which    *)
(* interleave, and a weak compare-exchange that may fail spuriously.  What *)
(* the fetch_sub of unlock_shared, an Acquire without a Release, would let *)
(* weaker memory do is not modelled.                                       *)
(***************************************************************************)
EXTENDS Naturals, TLAPS

CONSTANTS
    Harts,     \* the harts that share the lock
    Readers,   \* those of them that call read()
    Writers,   \* those of them that call write() or upgrade a ReadGuard
    MaxCalls   \* bound on the calls of one hart

VARIABLES
    lock,      \* SpinRwLock::lock
    readers,   \* SpinRwLock::readers
    upgrading, \* the harts inside ReadGuard::upgrade
    calls,     \* hart -> calls it has made
    pc         \* hart -> label

vars == <<lock, readers, upgrading, calls, pc>>

\* The values SpinRwLock::lock takes: no guard, read guards, a write guard, and
\* the last reader on its way out.
Free == 0
Shared == 1
Exclusive == 2
Closing == 4

Labels == {"idle", "cas", "load", "add", "reading", "close", "count", "free",
           "reopen", "wcas", "writing"}

Goto(h, from, to) == pc[h] = from /\ pc' = [pc EXCEPT ![h] = to]

\* Where unlock_shared returns to: upgrade goes on to lock_exclusive.
After(h) == IF h \in upgrading THEN "wcas" ELSE "idle"

Call(h) ==
    /\ calls[h] < MaxCalls
    /\ calls' = [calls EXCEPT ![h] = @ + 1]

-----------------------------------------------------------------------------
(* read, lock_shared and try_lock_shared *)

Read(h) ==
    /\ h \in Readers
    /\ Goto(h, "idle", "cas")
    /\ Call(h)
    /\ UNCHANGED <<lock, readers, upgrading>>

TrySharedWins(h) ==
    /\ Goto(h, "cas", "add")
    /\ lock = Free
    /\ lock' = Shared
    /\ UNCHANGED <<readers, upgrading, calls>>

TrySharedFails(h) ==
    /\ Goto(h, "cas", "load")
    /\ UNCHANGED <<lock, readers, upgrading, calls>>

\* Mutant: whoever is not kept out by a writer may read.
LoadShared_NotExclusive(h) ==
    /\ Goto(h, "load", IF lock # Exclusive THEN "add" ELSE "cas")
    /\ UNCHANGED <<lock, readers, upgrading, calls>>

LoadShared(h) ==
    /\ Goto(h, "load", IF lock = Shared THEN "add" ELSE "cas")
    /\ UNCHANGED <<lock, readers, upgrading, calls>>

AddReader(h) ==
    /\ Goto(h, "add", "reading")
    /\ readers' = readers + 1
    /\ UNCHANGED <<lock, upgrading, calls>>

-----------------------------------------------------------------------------
(* Drop of ReadGuard, upgrade and unlock_shared *)

\* The fetch_sub; up says whether upgrade or Drop makes the call.
UnlockShared(h, up) ==
    /\ up => h \in Writers
    /\ Goto(h, "reading", IF readers = 1 THEN "close" ELSE IF up THEN "wcas" ELSE "idle")
    /\ readers' = readers - 1
    /\ upgrading' = IF up THEN upgrading \cup {h} ELSE upgrading
    /\ UNCHANGED <<lock, calls>>

Close(h) ==
    /\ Goto(h, "close", "count")
    /\ lock' = Closing
    /\ UNCHANGED <<readers, upgrading, calls>>

\* Mutant: the last reader leaves without looking again, and without opening.
CountAgain_Leaves(h) ==
    /\ Goto(h, "count", After(h))
    /\ UNCHANGED <<lock, readers, upgrading, calls>>

CountAgain(h) ==
    /\ Goto(h, "count", IF readers = 0 THEN "free" ELSE "reopen")
    /\ UNCHANGED <<lock, readers, upgrading, calls>>

\* Mutant: the last reader leaves the lock shared.
OpenFree_Shared(h) ==
    /\ Goto(h, "free", After(h))
    /\ lock' = Shared
    /\ UNCHANGED <<readers, upgrading, calls>>

OpenFree(h) ==
    /\ Goto(h, "free", After(h))
    /\ lock' = Free
    /\ UNCHANGED <<readers, upgrading, calls>>

OpenShared(h) ==
    /\ Goto(h, "reopen", After(h))
    /\ lock' = Shared
    /\ UNCHANGED <<readers, upgrading, calls>>

-----------------------------------------------------------------------------
(* write, lock_exclusive and Drop of WriteGuard *)

Write(h) ==
    /\ h \in Writers
    /\ Goto(h, "idle", "wcas")
    /\ Call(h)
    /\ UNCHANGED <<lock, readers, upgrading>>

\* A compare-exchange that fails changes nothing and is tried again.
TryExclusive(h) ==
    /\ Goto(h, "wcas", "writing")
    /\ lock = Free
    /\ lock' = Exclusive
    /\ upgrading' = upgrading \ {h}
    /\ UNCHANGED <<readers, calls>>

UnlockExclusive(h) ==
    /\ Goto(h, "writing", "idle")
    /\ lock' = Free
    /\ UNCHANGED <<readers, upgrading, calls>>

-----------------------------------------------------------------------------

Init ==
    /\ lock = Free
    /\ readers = 0
    /\ upgrading = {}
    /\ calls = [h \in Harts |-> 0]
    /\ pc = [h \in Harts |-> "idle"]

\* What a hart does on its own: everything but the choice to call.
Steps(h) ==
    \/ TrySharedWins(h) \/ TrySharedFails(h) \/ LoadShared(h) \/ AddReader(h)
    \/ \E up \in BOOLEAN : UnlockShared(h, up)
    \/ Close(h) \/ CountAgain(h) \/ OpenFree(h) \/ OpenShared(h)
    \/ TryExclusive(h) \/ UnlockExclusive(h)

Next == \E h \in Harts : Read(h) \/ Write(h) \/ Steps(h)

Spec == Init /\ [][Next]_vars

\* A hart inside a lock operation keeps executing, and a guard is dropped; the
\* weak compare-exchange of a free lock does not fail spuriously for ever.
Fairness ==
    \A h \in Harts : WF_vars(Steps(h)) /\ SF_vars(TrySharedWins(h))

FairSpec == Spec /\ Fairness

-----------------------------------------------------------------------------
(* Properties *)

\* Writers are alone: a hart with a WriteGuard, which hands out &mut T
\* (rwlock.rs DerefMut), shares the data with no other guard.
Exclusion ==
    \A w, h \in Harts :
        pc[w] = "writing" /\ h # w => pc[h] \notin {"reading", "writing"}

\* When the last guard is gone the lock is free again: the two stores of
\* unlock_shared leave neither a reader count nor a mark that keeps writers out.
IdleIsFree ==
    (\A h \in Harts : pc[h] \in {"idle", "cas", "load", "wcas"})
        => lock = Free /\ readers = 0

\* Both: what a SpinRwLock promises to those who hold its guards.
GuardsExclude == Exclusion /\ IdleIsFree

\* Among readers alone, a read() returns: the mark the last reader leaves while
\* it counts again is always taken away, whoever overtakes it.
ReadReturns ==
    \A h \in Harts : pc[h] \in {"cas", "load"} ~> pc[h] = "reading"

-----------------------------------------------------------------------------
(* SpinRwLock excludes, and is free when idle, for any number of writing     *)
(* harts as long as at most one hart calls read().                           *)

OneReader == \A a, b \in Readers : a = b

TypeOK ==
    /\ lock \in {Free, Shared, Exclusive, Closing}
    /\ readers \in Nat
    /\ pc \in [Harts -> Labels]

\* Where a hart is when it is on the reading side of the lock.
ReadSide == {"cas", "load", "add", "reading", "close", "count", "free"}

\* The lock says where the one reader and the one writer are.  "reopen" is out:
\* nobody can have joined the last reader while it counts again.
LockSays ==
    \A h \in Harts :
        /\ pc[h] # "reopen"
        /\ pc[h] \in ReadSide => h \in Readers
        /\ pc[h] \in {"add", "reading", "close"} => lock = Shared
        /\ pc[h] \in {"count", "free"} => lock = Closing
        /\ pc[h] = "writing" => lock = Exclusive

\* And the other way round, by the hart that set it.
SetBySomeone ==
    /\ lock = Shared => \E h \in Harts : pc[h] \in {"add", "reading", "close"}
    /\ lock = Closing => \E h \in Harts : pc[h] \in {"count", "free"}
    /\ lock = Exclusive => \E h \in Harts : pc[h] = "writing"

OneWriter == \A g, h \in Harts : pc[g] = "writing" /\ pc[h] = "writing" => g = h

Counted ==
    /\ \A h \in Harts : pc[h] = "reading" => readers = 1
    /\ (\A h \in Harts : pc[h] # "reading") => readers = 0

IInv == TypeOK /\ LockSays /\ SetBySomeone /\ OneWriter /\ Counted

\* Initially every hart is idle and the lock is free.
LEMMA InitIInv == Init => IInv
  BY DEF Init, IInv, TypeOK, LockSays, SetBySomeone, OneWriter, Counted, Labels,
         Free, Shared, Exclusive, Closing, ReadSide

\* Each atomic operation of rwlock.rs keeps the invariant when one hart reads.
LEMMA StepIInv == OneReader /\ IInv /\ [Next]_vars => IInv'
<1> SUFFICES ASSUME OneReader, IInv, [Next]_vars PROVE IInv'
  OBVIOUS
<1> USE DEF IInv, TypeOK, LockSays, SetBySomeone, OneWriter, Counted, Labels, ReadSide,
            Free, Shared, Exclusive, Closing, Goto, OneReader
<1>1. CASE UNCHANGED vars
  BY <1>1 DEF vars
<1>2. ASSUME NEW h \in Harts, Read(h) PROVE IInv'
  BY <1>2 DEF Read
<1>3. ASSUME NEW h \in Harts, Write(h) PROVE IInv'
  BY <1>3 DEF Write
<1>4. ASSUME NEW h \in Harts, TrySharedWins(h) PROVE IInv'
  BY <1>4 DEF TrySharedWins
<1>5. ASSUME NEW h \in Harts, TrySharedFails(h) PROVE IInv'
  BY <1>5 DEF TrySharedFails
<1>6. ASSUME NEW h \in Harts, LoadShared(h) PROVE IInv'
  BY <1>6 DEF LoadShared
<1>7. ASSUME NEW h \in Harts, AddReader(h) PROVE IInv'
  BY <1>7 DEF AddReader
<1>8. ASSUME NEW h \in Harts, NEW up \in BOOLEAN, UnlockShared(h, up) PROVE IInv'
  BY <1>8 DEF UnlockShared
<1>9. ASSUME NEW h \in Harts, Close(h) PROVE IInv'
  BY <1>9 DEF Close
<1>10. ASSUME NEW h \in Harts, CountAgain(h) PROVE IInv'
  BY <1>10 DEF CountAgain
<1>11. ASSUME NEW h \in Harts, OpenFree(h) PROVE IInv'
  BY <1>11 DEF OpenFree, After
<1>12. ASSUME NEW h \in Harts, OpenShared(h) PROVE IInv'
  BY <1>12 DEF OpenShared, After
<1>13. ASSUME NEW h \in Harts, TryExclusive(h) PROVE IInv'
  BY <1>13 DEF TryExclusive
<1>14. ASSUME NEW h \in Harts, UnlockExclusive(h) PROVE IInv'
  BY <1>14 DEF UnlockExclusive
<1> QED
  BY <1>1, <1>2, <1>3, <1>4, <1>5, <1>6, <1>7, <1>8, <1>9, <1>10, <1>11, <1>12, <1>13,
     <1>14 DEF Next, Steps

\* With at most one reading hart, writers are alone with the data and the lock is
\* free when no guard is left (rwlock.rs), whatever the number of harts.
THEOREM OneReaderExcludes ==
    ASSUME OneReader
    PROVE  Spec => []GuardsExclude
<1>1. OneReader
  OBVIOUS
<1>2. IInv /\ [Next]_vars => IInv'
  BY <1>1, StepIInv
<1>3. IInv => GuardsExclude
  BY DEF IInv, TypeOK, LockSays, SetBySomeone, OneWriter, Counted, GuardsExclude, Exclusion, IdleIsFree,
         Free, Shared, Exclusive, Closing, ReadSide
<1> QED
  BY InitIInv, <1>2, <1>3, PTL DEF Spec
===============================================================================
