------------------------------- MODULE WaitList -------------------------------
(***************************************************************************)
(* WaitList (waitlist.rs): tasks acquire a key and wait in a queue of      *)
(* oneshot channels while another one has it; dropping the token sends to  *)
(* the first of the queue.  A waiting task's future may be dropped.        *)
(***************************************************************************)
EXTENDS Integers, Sequences, FiniteSets

CONSTANTS
    Tasks, Keys,
    Rounds,      \* bound: acquisitions of a task
    MaxDropped   \* bound: futures dropped while they wait

VARIABLES
    map,       \* the keys that are taken, with the tasks that wait
    task,      \* of a task: what it does, and on which key
    sent,      \* tasks whose oneshot has been sent to
    rounds,
    dropped,   \* futures that were dropped
    arrived    \* history: per key, the tasks that have it or wait, as they came

vars == <<map, task, sent, rounds, dropped, arrived>>

Idle == [at |-> "idle", key |-> CHOOSE k \in Keys : TRUE]

Init ==
    /\ map = [k \in {} |-> <<>>]
    /\ task = [t \in Tasks |-> Idle]
    /\ sent = {} /\ rounds = [t \in Tasks |-> 0] /\ dropped = {}
    /\ arrived = [k \in Keys |-> <<>>]

With(k, queue) == [j \in DOMAIN map \cup {k} |-> IF j = k THEN queue ELSE map[j]]

\* Mutant: the newcomer goes to the front of the queue.
Acquire_Front(t, k) ==
    /\ task[t].at = "idle" /\ rounds[t] < Rounds /\ t \notin dropped
    /\ rounds' = [rounds EXCEPT ![t] = @ + 1]
    /\ arrived' = [arrived EXCEPT ![k] = Append(@, t)]
    /\ IF k \in DOMAIN map
       THEN map' = With(k, <<t>> \o map[k]) /\ task' = [task EXCEPT ![t] = [at |-> "waiting", key |-> k]]
       ELSE map' = With(k, <<>>) /\ task' = [task EXCEPT ![t] = [at |-> "holding", key |-> k]]
    /\ UNCHANGED <<sent, dropped>>

\* acquire(), up to the await.
Acquire(t, k) ==
    /\ task[t].at = "idle" /\ rounds[t] < Rounds /\ t \notin dropped
    /\ rounds' = [rounds EXCEPT ![t] = @ + 1]
    /\ arrived' = [arrived EXCEPT ![k] = Append(@, t)]
    /\ IF k \in DOMAIN map
       THEN map' = With(k, Append(map[k], t)) /\ task' = [task EXCEPT ![t] = [at |-> "waiting", key |-> k]]
       ELSE map' = With(k, <<>>) /\ task' = [task EXCEPT ![t] = [at |-> "holding", key |-> k]]
    /\ UNCHANGED <<sent, dropped>>

\* recv() is answered.
Receive(t) ==
    /\ task[t].at = "waiting" /\ t \in sent
    /\ task' = [task EXCEPT ![t].at = "holding"]
    /\ sent' = sent \ {t}
    /\ UNCHANGED <<map, rounds, dropped, arrived>>

\* Mutant: the key is freed although there are tasks that wait.
DropToken_AlwaysRemoves(t) ==
    LET k == task[t].key IN
    /\ task[t].at = "holding"
    /\ task' = [task EXCEPT ![t] = Idle]
    /\ arrived' = [arrived EXCEPT ![k] = Tail(@)]
    /\ map' = [j \in DOMAIN map \ {k} |-> map[j]]
    /\ sent' = IF map[k] = <<>> THEN sent ELSE sent \cup {Head(map[k])}
    /\ UNCHANGED <<rounds, dropped>>

\* Mutant: the next one is not told.
DropToken_Silent(t) ==
    LET k == task[t].key IN
    /\ task[t].at = "holding"
    /\ task' = [task EXCEPT ![t] = Idle]
    /\ arrived' = [arrived EXCEPT ![k] = Tail(@)]
    /\ IF map[k] = <<>> THEN map' = [j \in DOMAIN map \ {k} |-> map[j]] ELSE map' = With(k, Tail(map[k]))
    /\ UNCHANGED <<sent, rounds, dropped>>

\* AcquiredToken::drop()
DropToken(t) ==
    LET k == task[t].key IN
    /\ task[t].at = "holding"
    /\ task' = [task EXCEPT ![t] = Idle]
    /\ arrived' = [arrived EXCEPT ![k] = Tail(@)]
    /\ IF map[k] = <<>>
       THEN map' = [j \in DOMAIN map \ {k} |-> map[j]] /\ UNCHANGED sent
       ELSE map' = With(k, Tail(map[k])) /\ sent' = sent \cup {Head(map[k])}
    /\ UNCHANGED <<rounds, dropped>>

\* The future of acquire() is dropped: its sender stays in the queue.
DropFuture(t) ==
    /\ task[t].at = "waiting" /\ Cardinality(dropped) < MaxDropped
    /\ dropped' = dropped \cup {t}
    /\ task' = [task EXCEPT ![t] = Idle]
    /\ UNCHANGED <<map, sent, rounds, arrived>>

Step(t) == (\E k \in Keys : Acquire(t, k)) \/ Receive(t) \/ DropToken(t)
Next == \E t \in Tasks : Step(t) \/ DropFuture(t)

\* The executor runs a task that was woken, and a token is dropped some day.
Fairness == \A t \in Tasks : WF_vars(Receive(t)) /\ WF_vars(DropToken(t))

Spec == Init /\ [][Next]_vars /\ Fairness

-----------------------------------------------------------------------------
(* Properties *)

\* A key is acquired by one task at a time, counting the one sent to.
Owners(k) == {t \in Tasks : task[t].key = k /\ (task[t].at = "holding" \/ (task[t].at = "waiting" /\ t \in sent))}
OneHolder == \A k \in Keys : Cardinality(Owners(k)) <= 1

\* Keys are acquired in the order they were asked for: the one that has the
\* key is the one that came first, and the queue is the rest.
FirstCome ==
    \A k \in Keys :
        /\ (k \in DOMAIN map) <=> arrived[k] # <<>>
        /\ k \in DOMAIN map => map[k] = Tail(arrived[k])

===============================================================================
