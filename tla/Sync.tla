--------------------------------- MODULE Sync ---------------------------------
(***************************************************************************)
(* A Lazy static that holds a SpinMutex with SameHartDeadlockDetection, as *)
(* Scheduler::inner is: sync/lazy.rs, sync/mutex.rs and utils.rs, one      *)
(* action per atomic operation.  Every access pairs Acquire with Release,  *)
(* so the operations interleave; the weak compare-exchange may fail        *)
(* spuriously.  A hart that holds the lock may ask for it again, which is  *)
(* the mistake the deadlock detection is there to report.                  *)
(***************************************************************************)
EXTENDS Naturals, TLAPS

CONSTANTS
    Harts,   \* hart ids
    Values,  \* what the initialiser f may return
    Uninit,  \* the contents of MaybeUninit::uninit()
    NoHart   \* usize::MAX, the hart_id of a free lock

ASSUME SyncAssumption == Uninit \notin Values /\ NoHart \notin Harts

VARIABLES
    init_state,  \* Lazy::init_state
    value,       \* Lazy::value
    lock,        \* SpinMutex::lock
    hart_id,     \* SameHartDeadlockDetection::hart_id
    guards,      \* the harts that own a SpinMutexGuard (history)
    pc           \* hart -> label

lazyVars == <<init_state, value>>
mutexVars == <<lock, hart_id, guards>>
vars == <<init_state, value, lock, hart_id, guards, pc>>

\* "acquire" is where a hart has its reference to the mutex; "panic" and
\* "timedout" are the two panics of acquire_lock.
Labels == {"idle", "cas", "init", "publish", "wait", "acquire", "check", "gather",
           "inside", "release", "panic", "timedout"}

Goto(h, from, to) == pc[h] = from /\ pc' = [pc EXCEPT ![h] = to]

-----------------------------------------------------------------------------
(* Lazy::init_if_needed *)

\* Mutant: a value being initialised is taken for ready.
Load_NoWait(h) ==
    /\ Goto(h, "idle", IF init_state = 0 THEN "cas" ELSE "acquire")
    /\ UNCHANGED <<lazyVars, mutexVars>>

Load(h) ==
    /\ Goto(h, "idle", CASE init_state = 0 -> "cas"
                         [] init_state = 1 -> "wait"
                         [] init_state = 2 -> "acquire")
    /\ UNCHANGED <<lazyVars, mutexVars>>

Claim(h) ==
    /\ Goto(h, "cas", IF init_state = 0 THEN "init" ELSE "wait")
    /\ init_state' = IF init_state = 0 THEN 1 ELSE init_state
    /\ UNCHANGED <<value, mutexVars>>

Initialise(h, v) ==
    /\ Goto(h, "init", "publish")
    /\ value' = v
    /\ UNCHANGED <<init_state, mutexVars>>

\* Mutant: the final store is missing.
Publish_Missing(h) ==
    /\ Goto(h, "publish", "acquire")
    /\ UNCHANGED <<lazyVars, mutexVars>>

Publish(h) ==
    /\ Goto(h, "publish", "acquire")
    /\ init_state' = 2
    /\ UNCHANGED <<value, mutexVars>>

\* wait_for_init leaves its loop.
WaitForInit(h) ==
    /\ init_state = 2
    /\ Goto(h, "wait", "acquire")
    /\ UNCHANGED <<lazyVars, mutexVars>>

-----------------------------------------------------------------------------
(* SpinMutex::acquire_lock and unlock *)

\* Mutant: the lock is set without being compared.
Acquire_Swap(h) ==
    /\ Goto(h, "acquire", "gather")
    /\ lock' = TRUE
    /\ guards' = guards \cup {h}
    /\ UNCHANGED <<lazyVars, hart_id>>

Acquire(h) ==
    /\ ~ lock
    /\ Goto(h, "acquire", "gather")
    /\ lock' = TRUE
    /\ guards' = guards \cup {h}
    /\ UNCHANGED <<lazyVars, hart_id>>

AcquireFails(h) ==
    /\ Goto(h, "acquire", "check")
    /\ UNCHANGED <<lazyVars, mutexVars>>

WouldDeadlock(h) ==
    /\ hart_id = h
    /\ Goto(h, "check", "panic")
    /\ UNCHANGED <<lazyVars, mutexVars>>

\* Not this hart's lock: spin again, or give up once the second is over.
Spin(h) ==
    /\ hart_id # h
    /\ Goto(h, "check", "acquire") \/ Goto(h, "check", "timedout")
    /\ UNCHANGED <<lazyVars, mutexVars>>

GatherMetadata(h) ==
    /\ Goto(h, "gather", "inside")
    /\ hart_id' = h
    /\ UNCHANGED <<lazyVars, lock, guards>>

\* A second lock() by the hart that holds the guard.
LockAgain(h) ==
    /\ Goto(h, "inside", "acquire")
    /\ UNCHANGED <<lazyVars, mutexVars>>

\* Mutant: the hart id is left behind.
Unlocked_Forgets(h) ==
    /\ Goto(h, "inside", "release")
    /\ UNCHANGED <<lazyVars, mutexVars>>

\* The guard is dropped: unlock() forgets the hart id, then frees the lock.
Unlocked(h) ==
    /\ Goto(h, "inside", "release")
    /\ hart_id' = NoHart
    /\ UNCHANGED <<lazyVars, lock, guards>>

\* Mutant: the hart id is forgotten only after the lock was freed.
Release_ForgetsLate(h) ==
    \/ /\ pc[h] = "release"
       /\ lock /\ h \in guards
       /\ lock' = FALSE
       /\ guards' = guards \ {h}
       /\ UNCHANGED <<lazyVars, hart_id, pc>>
    \/ /\ h \notin guards
       /\ Goto(h, "release", "idle")
       /\ hart_id' = NoHart
       /\ UNCHANGED <<lazyVars, lock, guards>>

Release(h) ==
    /\ Goto(h, "release", "idle")
    /\ lock' = FALSE
    /\ guards' = guards \ {h}
    /\ UNCHANGED <<lazyVars, hart_id>>

-----------------------------------------------------------------------------
Init ==
    /\ init_state = 0
    /\ value = Uninit
    /\ lock = FALSE
    /\ hart_id = NoHart
    /\ guards = {}
    /\ pc = [h \in Harts |-> "idle"]

\* A hart inside a call; the others are the caller's choice.
Step(h) ==
    \/ Claim(h) \/ (\E v \in Values : Initialise(h, v)) \/ Publish(h) \/ WaitForInit(h)
    \/ Acquire(h) \/ AcquireFails(h) \/ WouldDeadlock(h) \/ Spin(h) \/ GatherMetadata(h)
    \/ Release(h)

Next == \E h \in Harts : Step(h) \/ Load(h) \/ LockAgain(h) \/ Unlocked(h)

Spec == Init /\ [][Next]_vars

\* A hart in the middle of a call keeps executing.
FairSpec == Spec /\ \A h \in Harts : WF_vars(Step(h))

-----------------------------------------------------------------------------
(* Correctness *)

\* The values of the variables.
TypeOK ==
    /\ init_state \in 0 .. 2
    /\ value \in Values \cup {Uninit}
    /\ lock \in BOOLEAN
    /\ hart_id \in Harts \cup {NoHart}
    /\ guards \subseteq Harts
    /\ pc \in [Harts -> Labels]

Initialising == {"cas", "init", "publish", "wait"}

\* No hart gets a reference to a value that is not yet written, whoever else
\* is initialising it: assume_init_ref() is sound.
NoUninitialisedUse ==
    \A h \in Harts : pc[h] \notin Initialising \cup {"idle"} => value # Uninit

\* The value is written once: no second initialiser replaces it under the
\* references that were handed out.
ValueStays == [][value # Uninit => value' = value]_value

\* At most one hart owns the mutex, and the lock says so.
Exclusion ==
    /\ \A g, h \in guards : g = h
    /\ guards # {} => lock

\* "Deadlock detected" is no false alarm: a hart panics only over a lock it
\* owns itself, even when it meets the lock between another hart's
\* compare-exchange and that hart's gather_metadata().
NoFalseAlarm == \A h \in Harts : pc[h] = "panic" => h \in guards

\* A hart that asks again for the mutex it owns is told so, and does not spin
\* until the time is over.
RelockDetected == \A h \in Harts : h \in guards /\ pc[h] = "acquire" ~> pc[h] = "panic"

\* Whoever needs the Lazy gets the reference: the initialiser lets the waiting
\* harts go on.
ReferenceArrives == \A h \in Harts : pc[h] \in Initialising ~> pc[h] = "acquire"

-----------------------------------------------------------------------------
(* Proofs: Lazy initialises once and its value is never read too early;      *)
(* SpinMutex excludes, and its deadlock detection raises no false alarm: for *)
(* any number of harts.                                                      *)

\* init_state tells whether the value is written, and at most one hart is
\* between the compare-exchange and the final store.
LazyInv ==
    /\ init_state = 0 => value = Uninit
    /\ init_state = 2 => value # Uninit
    /\ \A h \in Harts : pc[h] \in {"init", "publish"} => init_state = 1
    /\ \A g, h \in Harts :
          pc[g] \in {"init", "publish"} /\ pc[h] \in {"init", "publish"} => g = h
    /\ \A h \in Harts : pc[h] = "init" => value = Uninit
    /\ \A h \in Harts : pc[h] = "publish" => value # Uninit
    /\ \A h \in Harts : pc[h] \notin Initialising \cup {"idle"} => init_state = 2

\* The recorded hart id is that of the owner, and is gone before the lock is.
MutexInv ==
    /\ Exclusion
    /\ \A h \in Harts : pc[h] \in {"gather", "inside", "release", "panic"} => h \in guards
    /\ hart_id # NoHart => hart_id \in guards
    /\ \A h \in Harts : pc[h] = "release" => hart_id = NoHart

IInv == TypeOK /\ LazyInv /\ MutexInv

\* A hart that moves leaves the others where they are.
LEMMA Moves ==
    ASSUME TypeOK, NEW h \in Harts, NEW from, NEW to, Goto(h, from, to)
    PROVE  /\ pc[h] = from
           /\ pc'[h] = to
           /\ \A g \in Harts : g # h => pc'[g] = pc[g]
  BY DEF Goto, TypeOK

\* Where the first load of init_if_needed leads.
LEMMA LoadTarget ==
    ASSUME TypeOK, NEW h \in Harts, Load(h)
    PROVE  \/ init_state = 0 /\ Goto(h, "idle", "cas")
           \/ init_state = 1 /\ Goto(h, "idle", "wait")
           \/ init_state = 2 /\ Goto(h, "idle", "acquire")
<1>1. init_state \in {0, 1, 2}
  BY DEF TypeOK
<1>2. CASE init_state = 0 BY <1>2 DEF Load
<1>3. CASE init_state = 1 BY <1>3 DEF Load
<1>4. CASE init_state = 2 BY <1>4 DEF Load
<1> QED
  BY <1>1, <1>2, <1>3, <1>4

\* The initial state satisfies the invariant.
LEMMA InitInv == Init => IInv
<1> SUFFICES ASSUME Init PROVE IInv
  OBVIOUS
<1>1. TypeOK
  <2>1. lock \in BOOLEAN
    BY Zenon DEF Init
  <2>2. init_state \in 0 .. 2
    BY DEF Init
  <2>3. pc \in [Harts -> Labels]
    BY DEF Init, Labels
  <2> QED
    BY <2>1, <2>2, <2>3, Zenon DEF Init, TypeOK
<1>2. LazyInv
  BY DEF Init, LazyInv, Initialising
<1>3. MutexInv
  BY DEF Init, MutexInv, Exclusion
<1> QED
  BY <1>1, <1>2, <1>3 DEF IInv

\* Types are kept.
LEMMA TypeStep == TypeOK /\ Next => TypeOK'
<1> SUFFICES ASSUME TypeOK, NEW h \in Harts, Step(h) \/ Load(h) \/ LockAgain(h) \/ Unlocked(h)
             PROVE  TypeOK'
  BY DEF Next
<1> USE DEF TypeOK, Labels, Goto, lazyVars, mutexVars
<1>1. CASE Load(h) BY <1>1 DEF Load
<1>2. CASE Claim(h) BY <1>2 DEF Claim
<1>3. ASSUME NEW v \in Values, Initialise(h, v) PROVE TypeOK' BY <1>3 DEF Initialise
<1>4. CASE Publish(h) BY <1>4 DEF Publish
<1>5. CASE WaitForInit(h) BY <1>5 DEF WaitForInit
<1>6. CASE Acquire(h) BY <1>6 DEF Acquire
<1>7. CASE AcquireFails(h) BY <1>7 DEF AcquireFails
<1>8. CASE WouldDeadlock(h) BY <1>8 DEF WouldDeadlock
<1>9. CASE Spin(h) BY <1>9 DEF Spin
<1>10. CASE GatherMetadata(h) BY <1>10 DEF GatherMetadata
<1>11. CASE LockAgain(h) BY <1>11 DEF LockAgain
<1>12. CASE Unlocked(h) BY <1>12 DEF Unlocked
<1>13. CASE Release(h) BY <1>13, Zenon DEF Release
<1> QED
  BY <1>1, <1>2, <1>3, <1>4, <1>5, <1>6, <1>7, <1>8, <1>9, <1>10, <1>11, <1>12, <1>13 DEF Step

\* The Lazy's part of the invariant is kept.
LEMMA LazyStep == TypeOK /\ LazyInv /\ Next => LazyInv'
<1> SUFFICES ASSUME TypeOK, LazyInv,
                    NEW h \in Harts, Step(h) \/ Load(h) \/ LockAgain(h) \/ Unlocked(h)
             PROVE  LazyInv'
  BY DEF Next
<1> USE DEF LazyInv, Initialising, lazyVars, mutexVars
<1>1. CASE Load(h)
  <2>1. \/ init_state = 0 /\ Goto(h, "idle", "cas")
        \/ init_state = 1 /\ Goto(h, "idle", "wait")
        \/ init_state = 2 /\ Goto(h, "idle", "acquire")
    BY <1>1, LoadTarget
  <2> QED
    BY <1>1, <2>1, Moves DEF Load
<1>2. CASE Claim(h)
  <2>1. CASE init_state = 0
    BY <1>2, <2>1, Moves DEF Claim
  <2>2. CASE init_state # 0
    BY <1>2, <2>2, Moves DEF Claim
  <2> QED
    BY <2>1, <2>2
<1>3. ASSUME NEW v \in Values, Initialise(h, v) PROVE LazyInv'
  BY <1>3, Moves, SyncAssumption DEF Initialise
<1>4. CASE Publish(h) BY <1>4, Moves DEF Publish
<1>5. CASE WaitForInit(h) BY <1>5, Moves DEF WaitForInit
<1>6. CASE Acquire(h) BY <1>6, Moves DEF Acquire
<1>7. CASE AcquireFails(h) BY <1>7, Moves DEF AcquireFails
<1>8. CASE WouldDeadlock(h) BY <1>8, Moves DEF WouldDeadlock
<1>9. CASE Spin(h) BY <1>9, Moves DEF Spin
<1>10. CASE GatherMetadata(h) BY <1>10, Moves DEF GatherMetadata
<1>11. CASE LockAgain(h) BY <1>11, Moves DEF LockAgain
<1>12. CASE Unlocked(h) BY <1>12, Moves DEF Unlocked
<1>13. CASE Release(h) BY <1>13, Moves DEF Release
<1> QED
  BY <1>1, <1>2, <1>3, <1>4, <1>5, <1>6, <1>7, <1>8, <1>9, <1>10, <1>11, <1>12, <1>13 DEF Step

\* The mutex's part of the invariant is kept.
LEMMA MutexStep == TypeOK /\ MutexInv /\ Next => MutexInv'
<1> SUFFICES ASSUME TypeOK, MutexInv,
                    NEW h \in Harts, Step(h) \/ Load(h) \/ LockAgain(h) \/ Unlocked(h)
             PROVE  MutexInv'
  BY DEF Next
<1> USE DEF MutexInv, Exclusion, lazyVars, mutexVars
<1>1. CASE Load(h)
  <2>1. Goto(h, "idle", "cas") \/ Goto(h, "idle", "wait") \/ Goto(h, "idle", "acquire")
    BY <1>1, LoadTarget
  <2> QED
    BY <1>1, <2>1, Moves DEF Load
<1>2. CASE Claim(h)
  <2>1. \E to \in {"init", "wait"} : Goto(h, "cas", to)
    BY <1>2, Zenon DEF Claim, Goto
  <2> QED
    BY <1>2, <2>1, Moves DEF Claim
<1>3. ASSUME NEW v \in Values, Initialise(h, v) PROVE MutexInv'
  BY <1>3, Moves DEF Initialise
<1>4. CASE Publish(h) BY <1>4, Moves DEF Publish
<1>5. CASE WaitForInit(h) BY <1>5, Moves DEF WaitForInit
<1>6. CASE Acquire(h)
  <2>1. guards = {} /\ guards' = {h} /\ lock' /\ hart_id' = hart_id
    BY <1>6 DEF Acquire
  <2>2. hart_id = NoHart
    BY <2>1
  <2> QED
    BY <1>6, <2>1, <2>2, Moves DEF Acquire
<1>7. CASE AcquireFails(h) BY <1>7, Moves DEF AcquireFails
<1>8. CASE WouldDeadlock(h)
  BY <1>8, Moves, SyncAssumption DEF WouldDeadlock
<1>9. CASE Spin(h) BY <1>9, Moves DEF Spin
<1>10. CASE GatherMetadata(h)
  <2>1. h \in guards
    BY <1>10, Moves DEF GatherMetadata
  <2>2. \A g \in Harts : pc[g] = "release" => g = h
    BY <2>1
  <2> QED
    BY <1>10, <2>1, <2>2, Moves DEF GatherMetadata
<1>11. CASE LockAgain(h) BY <1>11, Moves DEF LockAgain
<1>12. CASE Unlocked(h) BY <1>12, Moves DEF Unlocked
<1>13. CASE Release(h)
  <2>1. pc[h] = "release" /\ h \in guards /\ hart_id = NoHart
    BY <1>13, Moves DEF Release
  <2>2. guards' = {}
    BY <1>13, <2>1 DEF Release
  <2>3. \A g \in Harts : g # h => pc[g] \notin {"gather", "inside", "release", "panic"}
    BY <2>1
  <2> QED
    BY <1>13, <2>1, <2>2, <2>3, Moves DEF Release
<1> QED
  BY <1>1, <1>2, <1>3, <1>4, <1>5, <1>6, <1>7, <1>8, <1>9, <1>10, <1>11, <1>12, <1>13 DEF Step

-----------------------------------------------------------------------------
\* The invariant holds in every state of Lazy and SpinMutex.
THEOREM SyncInvariant == Spec => []IInv
<1>1. IInv /\ [Next]_vars => IInv'
  <2> SUFFICES ASSUME IInv, [Next]_vars PROVE IInv'
    OBVIOUS
  <2>1. CASE Next
    BY <2>1, TypeStep, LazyStep, MutexStep DEF IInv
  <2>2. CASE UNCHANGED vars
    BY <2>2 DEF vars, IInv, TypeOK, LazyInv, MutexInv, Exclusion
  <2> QED
    BY <2>1, <2>2
<1> QED
  BY InitInv, <1>1, PTL DEF Spec

\* Every variable keeps its type: init_state never leaves 0b00, 0b01, 0b10, so
\* the unreachable!() of init_if_needed is unreachable.
THEOREM SyncTypeCorrect == Spec => []TypeOK
<1>1. IInv => TypeOK
  BY DEF IInv
<1> QED
  BY SyncInvariant, <1>1, PTL

\* assume_init_ref() is only reached once the value is written.
THEOREM InitialisedBeforeUse == Spec => []NoUninitialisedUse
<1>1. IInv => NoUninitialisedUse
  BY DEF IInv, LazyInv, NoUninitialisedUse
<1> QED
  BY SyncInvariant, <1>1, PTL

\* The initialiser's value is written once and stays.
THEOREM WrittenOnce == Spec => ValueStays
<1>1. IInv /\ [Next]_vars => [value # Uninit => value' = value]_value
  <2> SUFFICES ASSUME IInv, Next, value # Uninit PROVE value' = value
    BY DEF vars
  <2>1. PICK h \in Harts : Step(h) \/ Load(h) \/ LockAgain(h) \/ Unlocked(h)
    BY DEF Next
  <2>2. ASSUME NEW v \in Values, Initialise(h, v) PROVE FALSE
    BY <2>2, Moves DEF IInv, LazyInv, Initialise
  <2> QED
    BY <2>1, <2>2 DEF Step, Load, LockAgain, Unlocked, Claim, Publish, WaitForInit, Acquire,
       AcquireFails, WouldDeadlock, Spin, GatherMetadata, Release, lazyVars, mutexVars
<1> QED
  BY SyncInvariant, <1>1, PTL DEF Spec, ValueStays

\* At most one hart is between acquire_lock() and unlock().
THEOREM MutualExclusion == Spec => []Exclusion
<1>1. IInv => Exclusion
  BY DEF IInv, MutexInv
<1> QED
  BY SyncInvariant, <1>1, PTL

\* "Deadlock detected" is raised only by a hart that owns the lock.
THEOREM AlarmsAreTrue == Spec => []NoFalseAlarm
<1>1. IInv => NoFalseAlarm
  BY DEF IInv, MutexInv, NoFalseAlarm
<1> QED
  BY SyncInvariant, <1>1, PTL
=============================================================================
