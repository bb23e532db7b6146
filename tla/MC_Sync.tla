------------------------------- MODULE MC_Sync -------------------------------
(***************************************************************************)
(* The locks of the kernel for TLC.  A behaviour is about one of them: a   *)
(* Lazy with its SpinMutex (module Sync), a SpinRwLock with one hart that  *)
(* reads, or one with harts that only read.                                *)
(***************************************************************************)
EXTENDS Sync

CONSTANTS
    One,       \* the hart that reads the SpinRwLock of part "written"
    Three,     \* the harts that write it
    MaxCalls

VARIABLES part, rwlock, readers, upgrading, calls, rwpc

Written == INSTANCE RwLock WITH
    Harts <- Three, Readers <- One, Writers <- Three, lock <- rwlock, pc <- rwpc
ReadOnly == INSTANCE RwLock WITH
    Harts <- Three, Readers <- Three, Writers <- {}, lock <- rwlock, pc <- rwpc

rwVars == <<rwlock, readers, upgrading, calls, rwpc>>
MCvars == <<part, vars, rwVars>>

MCInit == part \in {"lazy", "written", "read only"} /\ Init /\ Written!Init

MCNext ==
    /\ UNCHANGED part
    /\ \/ part = "lazy" /\ Next /\ UNCHANGED rwVars
       \/ part = "written" /\ Written!Next /\ UNCHANGED vars
       \/ part = "read only" /\ ReadOnly!Next /\ UNCHANGED vars

MCSpec ==
    /\ MCInit /\ [][MCNext]_MCvars
    /\ \A h \in Harts : WF_vars(part = "lazy" /\ Step(h))
    /\ \A h \in Three :
        /\ WF_rwVars(part = "read only" /\ ReadOnly!Steps(h))
        /\ SF_rwVars(part = "read only" /\ ReadOnly!TrySharedWins(h))

-----------------------------------------------------------------------------

\* With one hart that reads, whoever has a WriteGuard (rwlock.rs) is alone with
\* the data, and when the last guard is gone the lock is free again.
GuardsExclude == part = "written" => Written!GuardsExclude

\* A hart that needs a Lazy gets the reference, for the initialiser lets those
\* go on that wait for it; and among harts that only read, read() returns: the
\* mark the last reader leaves while it counts again (unlock_shared) is always
\* taken away.
EveryoneGetsIn == (part = "lazy" => ReferenceArrives) /\ (part = "read only" => ReadOnly!ReadReturns)
=============================================================================
