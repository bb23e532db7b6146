----------------------------- MODULE Ipc_proofs -----------------------------
(***************************************************************************)
(* The theorems about module Ipc, and the proofs that every step keeps the *)
(* rest of its inductive invariant.                                        *)
(***************************************************************************)
EXTENDS Ipc_inv

-----------------------------------------------------------------------------
(* Every step keeps the Waits part of the invariant. *)

\* The idle tasks are tasks.
LEMMA IdleType == \A u \in IdleTasks : u \in Tasks
  BY IpcAssumption DEF IdleTasks

\* The kernel channel a notification goes to exists.
LEMMA NotifyType == ASSUME IInv, NEW t \in Tasks, pc[t] \in {"notify", "note"} \cup NoteHolds
                    PROVE NotifyQueue(t) \in Queues
<1>1. op[t].q \in UserQueues
  BY Zenon DEF IInv, Locks
<1>2. Owner[op[t].q] \in Tasks
  BY <1>1, IpcAssumption, Zenon DEF UserQueues
<1> QED
  BY <1>2, IpcAssumption, Zenon DEF NotifyQueue

\* Two harts never run the same task.
LEMMA RunApart == ASSUME IInv, NEW g \in Harts, NEW h \in Harts, g # h
                  PROVE current[g] # current[h] /\ current[g] # next[h]
  BY Zenon DEF IInv, RunQueues, TypeOK

\* A step of a running task that changes no task state and no wait queue keeps
\* Waits if it establishes what its own new label claims.
LEMMA WaitsStay ==
    ASSUME IInv, NEW h \in Harts, NEW t \in Tasks, t = current[h],
           UNCHANGED <<state, waitq, ret>>,
           pc[t] \notin Parked, pc'[t] \notin Parked \cup {"unborn"},
           \A u \in Tasks : u # t => pc'[u] = pc[u] /\ op'[u] = op[u],
           pc'[t] = "ready" => waitq[op'[t].q] # <<>>,
           pc'[t] = "noteready" => waitq[NotifyQueue(t)'] # <<>>,
           pc'[t] \in Reading => Owner[op'[t].q] = t,
           \A u \in Tasks : pc'[u] \in WaitHolds => queue'[op'[u].q] = <<>>
    PROVE  Waits'
<1>1. Waits /\ state[t] = "Ready" /\ Owner \in [Queues -> Tasks]
  BY IpcAssumption, Zenon DEF IInv, LifeCycle
<1>2. \A q \in Queues : waitq[q] # <<>> =>
          waitq[q] = <<Owner[q]>> /\ state[Owner[q]] = "Blocked" /\ op'[Owner[q]].q = q
  BY <1>1 DEF Waits
<1>3. \A u \in Tasks : state[u] = "Blocked" => ret[u] = "recv" /\ waitq[op'[u].q] = <<u>>
  BY <1>1, ZenonT(30) DEF Waits
<1>4. \A u \in Tasks : pc'[u] = "ready" => waitq[op'[u].q] # <<>>
  BY <1>1 DEF Waits
<1>5. \A u \in Tasks : pc'[u] = "noteready" => waitq[NotifyQueue(u)'] # <<>>
  BY <1>1 DEF Waits, NotifyQueue
<1>6. \A u \in Tasks : pc'[u] \in Reading \/ (pc'[u] \in Parked \cup {"unborn"} /\ ret[u] = "recv")
          => Owner[op'[u].q] = u
  BY <1>1 DEF Waits
<1> QED
  BY <1>2, <1>3, <1>4, <1>5, <1>6, Zenon DEF Waits

\* wake_one() empties the wait queue, whose lock the waker holds.
LEMMA WaitsWake ==
    ASSUME IInv, NEW h \in Harts, NEW t \in Tasks, t = current[h],
           NEW q \in Queues, waitq[q] # <<>>, wqlock[q] = t,
           state' = [state EXCEPT ![Head(waitq[q])] = "Ready"],
           waitq' = [waitq EXCEPT ![q] = Tail(@)],
           UNCHANGED <<queue, ret>>,
           pc[t] \notin Parked, pc'[t] \in {"push", "user"},
           \A u \in Tasks : u # t => pc'[u] = pc[u] /\ op'[u] = op[u]
    PROVE  Waits'
<1>1. Waits /\ state[t] = "Ready" /\ Owner \in [Queues -> Tasks]
  BY IpcAssumption, Zenon DEF IInv, LifeCycle
<1>2. PICK w \in Tasks : w = Owner[q] /\ waitq[q] = <<w>> /\ state[w] = "Blocked" /\ op[w].q = q
  BY <1>1 DEF Waits
<1>3. /\ state \in [Tasks -> {"Ready", "Blocked", "Dead"}]
      /\ waitq \in [Queues -> Seq(Tasks)]
      /\ \A u \in Tasks : op[u].q \in Queues
  BY Zenon DEF IInv, TypeOK, Op
<1>4. \A u \in Tasks : state'[u] = IF u = w THEN "Ready" ELSE state[u]
  BY <1>2, <1>3
<1>5. \A p \in Queues : waitq'[p] = IF p = q THEN <<>> ELSE waitq[p]
  BY <1>2, <1>3
<1>6. \A p \in Queues : waitq'[p] # <<>> =>
          waitq'[p] = <<Owner[p]>> /\ state'[Owner[p]] = "Blocked" /\ op'[Owner[p]].q = p
  BY <1>1, <1>2, <1>4, <1>5 DEF Waits
<1>7. \A u \in Tasks : state'[u] = "Blocked" => ret[u] = "recv" /\ waitq'[op'[u].q] = <<u>>
  <2> SUFFICES ASSUME NEW u \in Tasks, state'[u] = "Blocked"
               PROVE  ret[u] = "recv" /\ waitq'[op'[u].q] = <<u>>
    BY Zenon
  <2>1. u # w /\ u # t /\ state[u] = "Blocked" /\ op'[u].q = op[u].q
    BY <1>1, <1>2, <1>4, Zenon
  <2>2. ret[u] = "recv" /\ waitq[op[u].q] = <<u>>
    BY <1>1, <2>1, SMTT(30) DEF Waits
  <2>3. op[u].q # q
    BY <1>2, <2>1, <2>2
  <2> QED
    BY <1>3, <1>5, <2>1, <2>2, <2>3, Zenon
<1>8. \A u \in Tasks : u # t => (pc[u] = "ready" => op[u].q # q) /\ (pc[u] = "noteready" => NotifyQueue(u) # q)
  BY DEF IInv, Locks
<1>9. \A u \in Tasks : pc'[u] = "ready" => waitq'[op'[u].q] # <<>>
  BY <1>1, <1>3, <1>5, <1>8 DEF Waits
<1>10. \A u \in Tasks : pc'[u] = "noteready" => waitq'[NotifyQueue(u)'] # <<>>
  <2> SUFFICES ASSUME NEW u \in Tasks, pc'[u] = "noteready" PROVE waitq'[NotifyQueue(u)'] # <<>>
    BY Zenon
  <2>1. u # t /\ pc[u] = "noteready" /\ NotifyQueue(u)' = NotifyQueue(u)
    BY Zenon DEF NotifyQueue
  <2>2. NotifyQueue(u) \in Queues
    BY <2>1, NotifyType, Zenon DEF NoteHolds
  <2> QED
    BY <1>1, <1>5, <1>8, <2>1, <2>2 DEF Waits
<1>11. \A u \in Tasks : pc'[u] \in Reading \/ (pc'[u] \in Parked \cup {"unborn"} /\ ret[u] = "recv")
          => Owner[op'[u].q] = u
  BY <1>1 DEF Waits, Reading, Parked
<1>12. \A u \in Tasks : pc'[u] \in WaitHolds => queue[op'[u].q] = <<>>
  BY <1>1 DEF Waits, WaitHolds
<1> QED
  BY <1>6, <1>7, <1>9, <1>10, <1>11, <1>12, Zenon DEF Waits

\* A task that leaves its hart, Ready or Dead, is in no wait queue.
LEMMA WaitsYield ==
    ASSUME IInv, NEW h \in Harts, NEW t \in Tasks, t = current[h],
           NEW s \in {"Ready", "Dead"}, NEW r \in {"user", "unreachable"},
           state' = [state EXCEPT ![t] = s], ret' = [ret EXCEPT ![t] = r],
           pc' = [pc EXCEPT ![t] = "scan"],
           UNCHANGED <<waitq, op, queue>>,
           pc[t] \notin Parked
    PROVE  Waits'
<1>1. Waits /\ state[t] = "Ready" /\ Owner \in [Queues -> Tasks]
  BY IpcAssumption, Zenon DEF IInv, LifeCycle
<1>2. /\ state \in [Tasks -> {"Ready", "Blocked", "Dead"}]
      /\ ret \in [Tasks -> {"user", "recv", "unreachable"}]
      /\ pc \in [Tasks -> Labels]
  BY Zenon DEF IInv, TypeOK
<1>3. \A u \in Tasks : /\ state'[u] = IF u = t THEN s ELSE state[u]
                       /\ ret'[u] = IF u = t THEN r ELSE ret[u]
                       /\ pc'[u] = IF u = t THEN "scan" ELSE pc[u]
                       /\ NotifyQueue(u)' = NotifyQueue(u)
  BY <1>2, Zenon DEF NotifyQueue
<1>4. \A q \in Queues : waitq[q] # <<>> =>
          waitq[q] = <<Owner[q]>> /\ state'[Owner[q]] = "Blocked" /\ op[Owner[q]].q = q
  BY <1>1, <1>3 DEF Waits
<1>5. \A u \in Tasks : state'[u] = "Blocked" => ret'[u] = "recv" /\ waitq[op[u].q] = <<u>>
  BY <1>1, <1>3 DEF Waits
<1>6. \A u \in Tasks : /\ pc'[u] = "ready" => waitq[op[u].q] # <<>>
                       /\ pc'[u] = "noteready" => waitq[NotifyQueue(u)'] # <<>>
                       /\ pc'[u] \in WaitHolds => queue[op[u].q] = <<>>
  BY <1>1, <1>3 DEF Waits, WaitHolds
<1>7. \A u \in Tasks : pc'[u] \in Reading \/ (pc'[u] \in Parked \cup {"unborn"} /\ ret'[u] = "recv")
          => Owner[op[u].q] = u
  BY <1>1, <1>3 DEF Waits, Reading
<1> QED
  BY <1>4, <1>5, <1>6, <1>7, Zenon DEF Waits

\* Every step keeps at most the Blocked receiver in a wait queue.
LEMMA WaitsStep == ASSUME IInv, NEW h \in Harts, NEW t \in Tasks, t = current[h], Step(h)
                   PROVE Waits'
<1>a. /\ pc \in [Tasks -> Labels] /\ op \in [Tasks -> Op] /\ next[h] \in Tasks
      /\ waitq \in [Queues -> Seq(Tasks)] /\ queue \in [Queues -> Seq(Message)]
      /\ op[t].q \in Queues
  BY Zenon DEF IInv, TypeOK, Op
<1>b. Waits
  BY Zenon DEF IInv
<1>c. \A u \in Tasks : /\ pc[u] \in WaitHolds => inner[op[u].q] = u /\ queue[op[u].q] = <<>>
                       /\ pc[u] \in WaitHolds => op[u].q \in Queues
  <2>1. \A u \in Tasks : op[u].q \in Queues
    BY <1>a, Zenon DEF Op
  <2>2. Locks
    BY Zenon DEF IInv
  <2>3. \A u \in Tasks : pc[u] \in WaitHolds => inner[op[u].q] = u
    BY <2>1, <2>2 DEF Locks
  <2> QED
    BY <1>b, <2>1, <2>3, Zenon DEF Waits
<1>d. None \notin Tasks
  BY IpcAssumption, Zenon
<1>e. Locks
  BY Zenon DEF IInv
<1> USE DEF Goto, At
<1>1. CASE SendLock(h)
  <2>1. /\ UNCHANGED <<state, waitq, ret, queue>>
        /\ pc[t] \notin Parked /\ pc'[t] \notin Parked \cup {"unborn", "ready", "noteready"} \cup WaitHolds
        /\ \A u \in Tasks : u # t => pc'[u] = pc[u] /\ op'[u] = op[u]
    BY <1>1, <1>a, Zenon DEF SendLock, taskVars, chanVars, Parked, WaitHolds
  <2>2. pc'[t] \in Reading => Owner[op'[t].q] = t
    BY <1>1, <1>a, Zenon DEF SendLock, Reading, taskVars, chanVars
  <2>3. \A u \in Tasks : pc'[u] \in WaitHolds => queue'[op'[u].q] = <<>>
    BY <1>c, <2>1, Zenon
  <2> QED
    BY <2>1, <2>2, <2>3, WaitsStay, Zenon
<1>2. CASE SendNotify(h)
  <2>1. /\ UNCHANGED <<state, waitq, ret, queue>>
        /\ pc[t] \notin Parked /\ pc'[t] \notin Parked \cup {"unborn", "ready", "noteready"} \cup WaitHolds
        /\ \A u \in Tasks : u # t => pc'[u] = pc[u] /\ op'[u] = op[u]
    BY <1>2, <1>a, Zenon DEF SendNotify, taskVars, chanVars, Parked, WaitHolds
  <2>2. pc'[t] \in Reading => Owner[op'[t].q] = t
    BY <1>2, <1>a, Zenon DEF SendNotify, Reading, taskVars, chanVars
  <2>3. \A u \in Tasks : pc'[u] \in WaitHolds => queue'[op'[u].q] = <<>>
    BY <1>c, <2>1, Zenon
  <2> QED
    BY <2>1, <2>2, <2>3, WaitsStay, Zenon
<1>3. CASE NoteLock(h)
  <2>1. /\ UNCHANGED <<state, waitq, ret, queue>>
        /\ pc[t] \notin Parked /\ pc'[t] \notin Parked \cup {"unborn", "ready", "noteready"} \cup WaitHolds
        /\ \A u \in Tasks : u # t => pc'[u] = pc[u] /\ op'[u] = op[u]
    BY <1>3, <1>a, Zenon DEF NoteLock, taskVars, chanVars, Parked, WaitHolds
  <2>2. pc'[t] \in Reading => Owner[op'[t].q] = t
    BY <1>3, <1>a, Zenon DEF NoteLock, Reading, taskVars, chanVars
  <2>3. \A u \in Tasks : pc'[u] \in WaitHolds => queue'[op'[u].q] = <<>>
    BY <1>c, <2>1, Zenon
  <2> QED
    BY <2>1, <2>2, <2>3, WaitsStay, Zenon
<1>4. CASE NotePush(h)
  <2>1. inner[NotifyQueue(t)] = t /\ NotifyQueue(t) \in Queues
    BY <1>4, <1>a, <1>e, NotifyType, Zenon DEF NotePush, Locks, SendHolds, NoteHolds
  <2>2. \A p \in Queues : p # NotifyQueue(t) => queue'[p] = queue[p]
    BY <1>4, <1>a, Zenon DEF NotePush, PushBack, NotifyQueue
  <2>3. UNCHANGED <<state, waitq, ret>> /\ pc[t] \notin Parked /\ pc'[t] \in {"push", "noteready"}
    BY <1>4, <1>a, SMTT(30) DEF NotePush, taskVars, Parked
  <2>4. \A u \in Tasks : u # t => pc'[u] = pc[u] /\ op'[u] = op[u]
    BY <1>4, <1>a, Zenon DEF NotePush, taskVars
  <2>5. pc'[t] = "noteready" => waitq[NotifyQueue(t)] # <<>> /\ op' = op
    BY <1>4, <1>a, Zenon DEF NotePush, NotifyQueue
  <2>6. \A u \in Tasks : pc'[u] \in WaitHolds => queue'[op'[u].q] = <<>>
    <3> SUFFICES ASSUME NEW u \in Tasks, pc'[u] \in WaitHolds PROVE queue'[op'[u].q] = <<>>
      BY Zenon
    <3>1. u # t
      BY <2>3, Zenon DEF WaitHolds
    <3>2. pc[u] \in WaitHolds /\ op'[u] = op[u]
      BY <2>4, <3>1, Zenon
    <3> QED
      BY <1>c, <2>1, <2>2, <3>1, <3>2
  <2>7. /\ pc'[t] \notin Parked \cup {"unborn"} \cup Reading
        /\ pc'[t] = "ready" => waitq[op'[t].q] # <<>>
        /\ pc'[t] = "noteready" => waitq[NotifyQueue(t)'] # <<>>
    BY <2>3, <2>5, Zenon DEF Parked, Reading, NotifyQueue
  <2> QED
    BY <2>3, <2>4, <2>6, <2>7, WaitsStay, SMTT(30)
<1>5. CASE NoteReady(h)
  <2>1. NotifyQueue(t) \in Queues /\ waitq[NotifyQueue(t)] # <<>> /\ wqlock[NotifyQueue(t)] = t
    <3>1. pc[t] = "noteready"
      BY <1>5, Zenon DEF NoteReady
    <3>2. NotifyQueue(t) \in Queues
      BY <3>1, NotifyType, Zenon DEF NoteHolds
    <3> QED
      BY <1>b, <1>e, <3>1, <3>2 DEF Waits, Locks
  <2> QED
    BY <1>5, <1>a, <2>1, WaitsWake, Zenon DEF NoteReady, MakeReady, NotifyQueue, Parked
<1>6. CASE Push(h)
  <2>1. inner[op[t].q] = t /\ op[t].q \in Queues
    BY <1>6, <1>a, <1>e, NotifyType, SMTT(30) DEF Push, Locks, SendHolds, NoteHolds
  <2>2. \A p \in Queues : p # op[t].q => queue'[p] = queue[p]
    BY <1>6, <1>a, Zenon DEF Push, PushBack, NotifyQueue
  <2>3. UNCHANGED <<state, waitq, ret>> /\ pc[t] \notin Parked /\ pc'[t] \in {"user", "ready"}
    BY <1>6, <1>a, Zenon DEF Push, Return, taskVars, Parked
  <2>4. \A u \in Tasks : u # t => pc'[u] = pc[u] /\ op'[u] = op[u]
    BY <1>6, <1>a, Zenon DEF Push, Return, taskVars
  <2>5. pc'[t] = "ready" => waitq[op[t].q] # <<>> /\ op' = op
    BY <1>6, <1>a, Zenon DEF Push, Return, NotifyQueue
  <2>6. \A u \in Tasks : pc'[u] \in WaitHolds => queue'[op'[u].q] = <<>>
    <3> SUFFICES ASSUME NEW u \in Tasks, pc'[u] \in WaitHolds PROVE queue'[op'[u].q] = <<>>
      BY Zenon
    <3>1. u # t
      BY <2>3, Zenon DEF WaitHolds
    <3>2. pc[u] \in WaitHolds /\ op'[u] = op[u]
      BY <2>4, <3>1, Zenon
    <3> QED
      BY <1>c, <2>1, <2>2, <3>1, <3>2
  <2>7. /\ pc'[t] \notin Parked \cup {"unborn"} \cup Reading
        /\ pc'[t] = "ready" => waitq[op'[t].q] # <<>>
        /\ pc'[t] = "noteready" => waitq[NotifyQueue(t)'] # <<>>
    BY <2>3, <2>5, Zenon DEF Parked, Reading, NotifyQueue
  <2> QED
    BY <2>3, <2>4, <2>6, <2>7, WaitsStay, SMTT(30)
<1>7. CASE Ready(h)
  <2>1. waitq[op[t].q] # <<>> /\ wqlock[op[t].q] = t
    <3>1. pc[t] = "ready"
      BY <1>7, Zenon DEF Ready
    <3> QED
      BY <1>a, <1>b, <1>e, <3>1 DEF Waits, Locks
  <2> QED
    BY <1>7, <1>a, <2>1, WaitsWake, Zenon DEF Ready, MakeReady, Return, Parked
<1>8. CASE RecvPop(h)
  <2>1. /\ UNCHANGED <<state, waitq, ret>> /\ inner[op[t].q] = None
        /\ pc[t] \in Reading \ WaitHolds /\ pc'[t] \in {"got", "user"}
        /\ op'[t].q = op[t].q \/ pc'[t] = "user"
        /\ \A u \in Tasks : u # t => pc'[u] = pc[u] /\ op'[u] = op[u]
        /\ \A p \in Queues : p # op[t].q => queue'[p] = queue[p]
    BY <1>8, <1>a, Zenon DEF RecvPop, taskVars, Reading, WaitHolds, Op
  <2>2. pc'[t] \in Reading => Owner[op'[t].q] = t
    BY <1>b, <2>1, SMTT(30) DEF Waits, Reading
  <2>3. \A u \in Tasks : pc'[u] \in WaitHolds => queue'[op'[u].q] = <<>>
    BY <1>c, <1>d, <2>1, SMTT(30) DEF WaitHolds
  <2> QED
    BY <2>1, <2>2, <2>3, WaitsStay, Zenon DEF Parked, Reading
<1>9. CASE TryRecvEmpty(h)
  <2>1. /\ UNCHANGED <<state, waitq, ret, queue>>
        /\ pc[t] \notin Parked /\ pc'[t] \notin Parked \cup {"unborn", "ready", "noteready"} \cup WaitHolds
        /\ \A u \in Tasks : u # t => pc'[u] = pc[u] /\ op'[u] = op[u]
    BY <1>9, <1>a, Zenon DEF TryRecvEmpty, Return, taskVars, chanVars, Parked, WaitHolds
  <2>2. pc'[t] \in Reading => Owner[op'[t].q] = t
    BY <1>9, <1>a, Zenon DEF TryRecvEmpty, Return, Reading, taskVars, chanVars
  <2>3. \A u \in Tasks : pc'[u] \in WaitHolds => queue'[op'[u].q] = <<>>
    BY <1>c, <2>1, Zenon
  <2> QED
    BY <2>1, <2>2, <2>3, WaitsStay, Zenon
<1>10. CASE RecvEmpty(h)
  <2>1. /\ UNCHANGED <<state, waitq, ret, op, queue>>
        /\ pc[t] = "recv" /\ pc'[t] = "wait" /\ queue[op[t].q] = <<>>
        /\ \A u \in Tasks : u # t => pc'[u] = pc[u]
    BY <1>10, <1>a, SMTT(30) DEF RecvEmpty, taskVars
  <2>2. Owner[op[t].q] = t
    BY <1>b, <2>1, SMTT(30) DEF Waits, Reading
  <2>3. \A u \in Tasks : pc'[u] \in WaitHolds => queue'[op'[u].q] = <<>>
    BY <1>c, <2>1, Zenon
  <2> QED
    BY <2>1, <2>2, <2>3, WaitsStay, Zenon DEF Parked
<1>11. CASE WaitLock(h)
  <2>1. /\ UNCHANGED <<state, waitq, ret, op, queue>>
        /\ pc[t] = "wait" /\ pc'[t] = "block"
        /\ \A u \in Tasks : u # t => pc'[u] = pc[u]
    BY <1>11, <1>a, Zenon DEF WaitLock, taskVars
  <2>2. Owner[op[t].q] = t
    BY <1>b, <2>1, Zenon DEF Waits, Reading
  <2>3. \A u \in Tasks : pc'[u] \in WaitHolds => queue'[op'[u].q] = <<>>
    BY <1>c, <2>1, Zenon DEF WaitHolds
  <2> QED
    BY <2>1, <2>2, <2>3, WaitsStay, SMTT(30) DEF Parked
<1>12. CASE WaitBlock(h)
  <2> DEFINE q == op[t].q
  <2>1. /\ pc[t] = "block" /\ pc' = [pc EXCEPT ![t] = "scan"]
        /\ waitq' = [waitq EXCEPT ![q] = Append(@, t)]
        /\ state' = [state EXCEPT ![t] = "Blocked"] /\ ret' = [ret EXCEPT ![t] = "recv"]
        /\ UNCHANGED <<queue, op>>
    BY <1>12, Zenon DEF WaitBlock
  <2>2. /\ state \in [Tasks -> {"Ready", "Blocked", "Dead"}]
        /\ ret \in [Tasks -> {"user", "recv", "unreachable"}]
        /\ state[t] = "Ready" /\ Owner[q] = t /\ waitq[q] = <<>>
    <3>1. state[t] = "Ready"
      BY <2>1, Zenon DEF IInv, LifeCycle, Parked
    <3>2. Owner[q] = t
      BY <1>b, <2>1, Zenon DEF Waits, Reading
    <3>3. waitq[q] = <<>>
      BY <1>a, <1>b, <3>1, <3>2, Zenon DEF Waits
    <3> QED
      BY <3>1, <3>2, <3>3, Zenon DEF IInv, TypeOK
  <2>3. \A u \in Tasks : /\ state'[u] = IF u = t THEN "Blocked" ELSE state[u]
                         /\ ret'[u] = IF u = t THEN "recv" ELSE ret[u]
                         /\ pc'[u] = IF u = t THEN "scan" ELSE pc[u]
                         /\ NotifyQueue(u)' = NotifyQueue(u)
    BY <1>a, <2>1, <2>2, Zenon DEF NotifyQueue
  <2>4. \A p \in Queues : waitq'[p] = IF p = q THEN <<t>> ELSE waitq[p]
    BY <1>a, <2>1, <2>2
  <2>5. op' = op /\ queue' = queue /\ q \in Queues /\ \A p \in Queues : Owner[p] \in Tasks
    BY <1>a, <2>1, IpcAssumption, Zenon
  <2>6. \A p \in Queues : waitq'[p] # <<>> =>
            waitq'[p] = <<Owner[p]>> /\ state'[Owner[p]] = "Blocked" /\ op[Owner[p]].q = p
    BY <1>b, <2>2, <2>3, <2>4, <2>5, SMTT(30) DEF Waits
  <2>7. \A u \in Tasks : state'[u] = "Blocked" => ret'[u] = "recv" /\ waitq'[op[u].q] = <<u>>
    <3> SUFFICES ASSUME NEW u \in Tasks, u # t, state[u] = "Blocked" PROVE ret[u] = "recv" /\ waitq'[op[u].q] = <<u>>
      BY <2>3, <2>4, <2>5, SMTT(30)
    <3>1. ret[u] = "recv" /\ waitq[op[u].q] = <<u>> /\ op[u].q \in Queues
      BY <1>a, <1>b, SMTT(30) DEF Waits, Op
    <3>2. op[u].q # q
      BY <2>2, <3>1
    <3> QED
      BY <2>4, <3>1, <3>2, SMTT(30)
  <2>8. \A u \in Tasks : pc'[u] = "ready" => waitq'[op[u].q] # <<>>
    <3>1. \A u \in Tasks : op[u].q \in Queues
      BY <1>a, Zenon DEF Op
    <3> QED
      BY <1>b, <2>3, <2>4, <3>1 DEF Waits
  <2>9. \A u \in Tasks : pc'[u] = "noteready" => waitq'[NotifyQueue(u)'] # <<>>
    BY <1>b, <2>3, <2>4, NotifyType, SMTT(30) DEF Waits, NoteHolds
  <2>10. \A u \in Tasks : pc'[u] \in Reading \/ (pc'[u] \in Parked \cup {"unborn"} /\ ret'[u] = "recv")
            => Owner[op[u].q] = u
    BY <1>b, <2>2, <2>3 DEF Waits
  <2>11. \A u \in Tasks : pc'[u] \in WaitHolds => queue[op[u].q] = <<>>
    BY <1>c, <2>3, SMTT(30) DEF WaitHolds
  <2> QED
    BY <2>5, <2>6, <2>7, <2>8, <2>9, <2>10, <2>11, SMTT(30) DEF Waits
<1>13. ASSUME NEW v \in BOOLEAN, ReadFinish(h, v) PROVE Waits'
  <2>1. /\ UNCHANGED <<state, waitq, ret, queue>>
        /\ pc[t] \notin Parked /\ pc'[t] \notin Parked \cup {"unborn", "ready", "noteready"} \cup WaitHolds
        /\ \A u \in Tasks : u # t => pc'[u] = pc[u] /\ op'[u] = op[u]
    BY <1>13, <1>a, SMTT(30) DEF ReadFinish, Return, taskVars, chanVars, Parked, WaitHolds
  <2>2. pc'[t] \in Reading => Owner[op'[t].q] = t
    <3>1. pc[t] = "got" /\ (pc'[t] = "user" \/ op' = op)
      BY <1>13, <1>a, SMTT(30) DEF ReadFinish, Return
    <3> QED
      BY <1>b, <3>1, SMTT(30) DEF Waits, Reading
  <2>3. \A u \in Tasks : pc'[u] \in WaitHolds => queue'[op'[u].q] = <<>>
    BY <1>c, <2>1, SMTT(30)
  <2> QED
    BY <2>1, <2>2, <2>3, WaitsStay, SMTT(30)
<1>14. CASE ReadPutBack(h)
  <2>1. /\ UNCHANGED <<state, waitq, ret>> /\ inner[op[t].q] = None
        /\ pc[t] \in Reading \ WaitHolds /\ pc'[t] \in {"got", "user"}
        /\ op'[t].q = op[t].q \/ pc'[t] = "user"
        /\ \A u \in Tasks : u # t => pc'[u] = pc[u] /\ op'[u] = op[u]
        /\ \A p \in Queues : p # op[t].q => queue'[p] = queue[p]
    BY <1>14, <1>a, SMTT(30) DEF ReadPutBack, Return, taskVars, Reading, WaitHolds, Op
  <2>2. pc'[t] \in Reading => Owner[op'[t].q] = t
    BY <1>b, <2>1 DEF Waits, Reading
  <2>3. \A u \in Tasks : pc'[u] \in WaitHolds => queue'[op'[u].q] = <<>>
    BY <1>c, <1>d, <2>1 DEF WaitHolds
  <2> QED
    BY <2>1, <2>2, <2>3, WaitsStay, Zenon DEF Parked, Reading
<1>15. CASE ScanRound(h)
  <2>1. /\ UNCHANGED <<state, waitq, queue, ret, op>> /\ pc[t] = "scan"
        /\ \A u \in Tasks : pc'[u] = pc[u] \/ (u = t /\ pc'[u] = "switch")
    BY <1>15, <1>a, Zenon DEF ScanRound, taskVars, chanVars
  <2>2. \A u \in Tasks : NotifyQueue(u)' = NotifyQueue(u)
    BY <2>1, Zenon DEF NotifyQueue
  <2>3. \A u \in Tasks : pc'[u] \in Reading \/ (pc'[u] \in Parked \cup {"unborn"} /\ ret[u] = "recv")
            => Owner[op[u].q] = u
    BY <1>b, <2>1 DEF Waits, Reading, Parked
  <2>4. \A u \in Tasks : pc'[u] = "ready" => waitq[op[u].q] # <<>>
    BY <1>b, <2>1 DEF Waits
  <2>5. \A u \in Tasks : pc'[u] = "noteready" => waitq[NotifyQueue(u)'] # <<>>
    <3> SUFFICES ASSUME NEW u \in Tasks, pc'[u] = "noteready" PROVE waitq[NotifyQueue(u)] # <<>>
      BY <2>2, SMTT(30)
    <3>1. pc[u] = "noteready"
      BY <2>1, Zenon
    <3> QED
      BY <1>b, <3>1, Zenon DEF Waits
  <2>6. \A u \in Tasks : pc'[u] \in WaitHolds => queue[op[u].q] = <<>>
    BY <1>b, <2>1, SMTT(30) DEF Waits, WaitHolds
  <2> QED
    BY <1>b, <2>1, <2>3, <2>4, <2>5, <2>6, SMTT(30) DEF Waits
<1>16. CASE Switch(h)
  <2> DEFINE to == next[h]
  <2>1. /\ UNCHANGED <<state, waitq, queue, ret, op>> /\ pc[t] = "switch"
        /\ pc' = [pc EXCEPT ![t] = "out", ![to] = ret[to]]
    BY <1>16, Zenon DEF Switch, taskVars, chanVars
  <2>2. pc[to] \in Parked /\ ret[to] \in {"user", "recv", "unreachable"} /\ to \in Tasks
    BY <2>1, <1>a, Zenon DEF IInv, RunQueues, TypeOK, Parked
  <2>3. ret[to] = "recv" => Owner[op[to].q] = to
    BY <1>b, <2>2, SMTT(30) DEF Waits
  <2> HIDE DEF to
  <2>4. \A u \in Tasks : /\ pc'[u] = IF u = to THEN ret[to] ELSE IF u = t THEN "out" ELSE pc[u]
                         /\ NotifyQueue(u)' = NotifyQueue(u)
    BY <1>a, <2>1, <2>2, Zenon DEF NotifyQueue
  <2>5. UNCHANGED <<state, waitq, queue, ret, op>>
    BY <2>1, Zenon
  <2>6. \A u \in Tasks : pc'[u] \in Reading \/ (pc'[u] \in Parked \cup {"unborn"} /\ ret[u] = "recv")
            => Owner[op[u].q] = u
    <3> SUFFICES ASSUME NEW u \in Tasks,
                        pc'[u] \in Reading \/ (pc'[u] \in Parked \cup {"unborn"} /\ ret[u] = "recv")
                 PROVE  Owner[op[u].q] = u
      BY Zenon
    <3>1. CASE u = to
      <4>1. ret[to] = "recv"
        BY <2>2, <2>4, <3>1, Zenon DEF Reading, Parked
      <4> QED
        BY <2>3, <3>1, <4>1, Zenon
    <3>2. CASE u # to
      <4>1. pc'[u] = pc[u] \/ (u = t /\ pc'[u] = "out")
        BY <2>4, <3>2, Zenon
      <4>2. pc[t] \in Parked /\ "out" \notin Reading
        BY <2>1, Zenon DEF Parked, Reading
      <4>3. pc[u] \in Reading \/ (pc[u] \in Parked \cup {"unborn"} /\ ret[u] = "recv")
        BY <4>1, <4>2, Zenon
      <4> QED
        BY <1>b, <4>3, Zenon DEF Waits
    <3> QED
      BY <3>1, <3>2, Zenon
  <2>7. \A u \in Tasks : pc'[u] = "ready" => waitq[op[u].q] # <<>>
    BY <1>b, <2>2, <2>4, SMTT(30) DEF Waits
  <2>8. \A u \in Tasks : pc'[u] = "noteready" => waitq[NotifyQueue(u)'] # <<>>
    <3> SUFFICES ASSUME NEW u \in Tasks, pc'[u] = "noteready" PROVE waitq[NotifyQueue(u)] # <<>>
      BY <2>4, Zenon
    <3>1. pc[u] = "noteready"
      BY <2>2, <2>4, Zenon
    <3> QED
      BY <1>b, <3>1, Zenon DEF Waits
  <2>9. \A u \in Tasks : pc'[u] \in WaitHolds => queue[op[u].q] = <<>>
    BY <1>b, <2>2, <2>4 DEF Waits, WaitHolds
  <2> QED
    BY <1>b, <2>5, <2>6, <2>7, <2>8, <2>9, Zenon DEF Waits
<1>17. CASE Timer(h)
  <2>1. /\ ret' = [ret EXCEPT ![t] = "user"]
        /\ pc' = [pc EXCEPT ![t] = "scan"] /\ pc[t] = "user"
        /\ UNCHANGED <<state, waitq, op, queue>>
    BY <1>17, Zenon DEF Timer, taskVars, chanVars
  <2>2. state[t] = "Ready" /\ state \in [Tasks -> {"Ready", "Blocked", "Dead"}]
    BY <2>1, Zenon DEF LifeCycle, IInv, TypeOK, Parked
  <2>3. state' = [state EXCEPT ![t] = "Ready"]
    BY <2>1, <2>2, Zenon
  <2> QED
    BY <2>1, <2>3, WaitsYield, Zenon DEF Parked
<1>18. CASE Exit(h)
  <2>1. /\ state' = [state EXCEPT ![t] = "Dead"] /\ ret' = [ret EXCEPT ![t] = "unreachable"]
        /\ pc' = [pc EXCEPT ![t] = "scan"] /\ pc[t] = "user"
        /\ UNCHANGED <<waitq, op, queue>>
    BY <1>18, Zenon DEF Exit, chanVars
  <2> QED
    BY <2>1, WaitsYield, Zenon DEF Parked
<1>19. CASE FaultKill(h)
  <2>1. /\ state' = [state EXCEPT ![t] = "Dead"] /\ ret' = [ret EXCEPT ![t] = "user"]
        /\ pc' = [pc EXCEPT ![t] = "scan"] /\ pc[t] = "user"
        /\ UNCHANGED <<waitq, op, queue>>
    BY <1>19, SMTT(30) DEF FaultKill, chanVars
  <2> QED
    BY <2>1, WaitsYield, Zenon DEF Parked
<1>20. CASE EnableNotifications(h)
  <2>1. UNCHANGED <<state, waitq, queue, ret, op, pc>>
    BY <1>20, Zenon DEF EnableNotifications, chanVars
  <2> QED
    BY <1>b, <2>1, SMTT(30) DEF Waits, NotifyQueue
<1>21. ASSUME NEW q \in UserQueues, NEW n \in CapCounts, SendMessage(h, q, n) PROVE Waits'
  <2>1. /\ UNCHANGED <<state, waitq, ret, queue>>
        /\ pc[t] \notin Parked /\ pc'[t] \notin Parked \cup {"unborn", "ready", "noteready"} \cup WaitHolds
        /\ \A u \in Tasks : u # t => pc'[u] = pc[u] /\ op'[u] = op[u]
    BY <1>21, <1>a, Zenon DEF SendMessage, taskVars, chanVars, Parked, WaitHolds
  <2>2. pc'[t] \in Reading => Owner[op'[t].q] = t
    BY <1>21, <1>a, SMTT(30) DEF SendMessage, Reading, taskVars, chanVars
  <2>3. \A u \in Tasks : pc'[u] \in WaitHolds => queue'[op'[u].q] = <<>>
    BY <1>c, <2>1, Zenon
  <2> QED
    BY <2>1, <2>2, <2>3, WaitsStay, Zenon
<1>22. ASSUME NEW q \in Queues, NEW b \in BufLens, NEW nb \in BOOLEAN, ReadMessage(h, q, b, nb) PROVE Waits'
  <2>1. /\ UNCHANGED <<state, waitq, ret, queue>>
        /\ pc[t] \notin Parked /\ pc'[t] \notin Parked \cup {"unborn", "ready", "noteready"} \cup WaitHolds
        /\ \A u \in Tasks : u # t => pc'[u] = pc[u] /\ op'[u] = op[u]
    BY <1>22, <1>a, Zenon DEF ReadMessage, NoOp, taskVars, chanVars, Parked, WaitHolds
  <2>2. pc'[t] \in Reading => Owner[op'[t].q] = t
    BY <1>22, <1>a, SMTT(30) DEF ReadMessage, NoOp, Reading, taskVars, chanVars
  <2>3. \A u \in Tasks : pc'[u] \in WaitHolds => queue'[op'[u].q] = <<>>
    BY <1>c, <2>1, SMTT(30)
  <2> QED
    BY <2>1, <2>2, <2>3, WaitsStay, Zenon
<1>23. ASSUME NEW c \in Tasks, Spawn(h, c) PROVE Waits'
  <2>1. /\ UNCHANGED <<state, waitq, queue, ret, op>> /\ pc[c] = "unborn"
        /\ pc' = [pc EXCEPT ![c] = "out"]
    BY <1>23, SMTT(30) DEF Spawn, chanVars
  <2>2. \A u \in Tasks : /\ pc'[u] = IF u = c THEN "out" ELSE pc[u]
                         /\ NotifyQueue(u)' = NotifyQueue(u)
    BY <1>a, <2>1, SMTT(30) DEF NotifyQueue
  <2> QED
    BY <1>b, <2>1, <2>2 DEF Waits, Reading, Parked, WaitHolds
<1>24. ASSUME NEW c \in Claimants, Interrupt(h, c) PROVE Waits'
  <2>1. /\ UNCHANGED <<state, waitq, ret, queue>>
        /\ pc[t] \notin Parked /\ pc'[t] \notin Parked \cup {"unborn", "ready", "noteready"} \cup WaitHolds
        /\ \A u \in Tasks : u # t => pc'[u] = pc[u] /\ op'[u] = op[u]
    BY <1>24, <1>a, Zenon DEF Interrupt, taskVars, chanVars, Parked, WaitHolds
  <2>2. pc'[t] \in Reading => Owner[op'[t].q] = t
    BY <1>24, <1>a, SMTT(30) DEF Interrupt, Reading, taskVars, chanVars
  <2>3. \A u \in Tasks : pc'[u] \in WaitHolds => queue'[op'[u].q] = <<>>
    BY <1>c, <2>1, SMTT(30)
  <2> QED
    BY <2>1, <2>2, <2>3, WaitsStay, Zenon
<1> QED
  BY Zenon, <1>1, <1>2, <1>3, <1>4, <1>5, <1>6, <1>7, <1>8, <1>9, <1>10, <1>11, <1>12,
     <1>13, <1>14, <1>15, <1>16, <1>17, <1>18, <1>19, <1>20, <1>21, <1>22, <1>23, <1>24 DEF Step, KernelStep, Syscall

-----------------------------------------------------------------------------
(* Every step keeps the rest of it, and the theorems. *)


\* A step of a running task that changes no task state keeps LifeCycle.
LEMMA LifeCycleStay ==
    ASSUME IInv, NEW h \in Harts, NEW t \in Tasks, t = current[h],
           UNCHANGED <<state, current, next, ret>>,
           pc[t] \notin Parked,
           pc'[t] \notin {"unreachable", "switch"},
           t \in IdleTasks => pc'[t] \notin Reading,
           \A u \in Tasks : u # t => pc'[u] = pc[u]
    PROVE  LifeCycle'
<1>1. LifeCycle /\ \A g \in Harts : current[g] \in Tasks
  BY Zenon DEF IInv, TypeOK
<1>2. state[t] = "Ready"
  BY <1>1, Zenon DEF LifeCycle
<1>3. \A u \in Tasks : pc'[u] # "unreachable" /\ (pc'[u] \notin Parked \cup {"unborn"} => state[u] = "Ready")
  BY <1>1, <1>2, Zenon DEF LifeCycle, RunsOnlyReady
<1>4. \A u \in Tasks : state[u] # "Ready" => pc'[u] \in Parked
  BY <1>1, <1>2, Zenon DEF LifeCycle
<1>5. \A g \in Harts : pc'[current[g]] = "switch" => state[next[g]] = "Ready"
  BY <1>1, RunApart, Zenon DEF LifeCycle
<1>6. \A u \in IdleTasks : state[u] = "Ready" /\ pc'[u] \notin Reading /\ ret[u] = "user"
  BY <1>1, IdleType, Zenon DEF LifeCycle
<1> QED
  BY <1>1, <1>3, <1>4, <1>5, <1>6, ZenonT(30) DEF LifeCycle, RunsOnlyReady

\* wake_one() makes the Blocked receiver Ready.
LEMMA LifeCycleWake ==
    ASSUME IInv, NEW h \in Harts, NEW t \in Tasks, t = current[h],
           NEW q \in Queues, waitq[q] # <<>>,
           state' = [state EXCEPT ![Head(waitq[q])] = "Ready"],
           UNCHANGED <<current, next, ret>>,
           pc[t] \notin Parked, pc'[t] \in {"push", "user"},
           \A u \in Tasks : u # t => pc'[u] = pc[u]
    PROVE  LifeCycle'
<1>1. LifeCycle /\ \A g \in Harts : current[g] \in Tasks /\ next[g] \in Tasks
  BY Zenon DEF IInv, TypeOK
<1>2. state[t] = "Ready" /\ state \in [Tasks -> {"Ready", "Blocked", "Dead"}]
  BY <1>1, SMTT(30) DEF LifeCycle, IInv, TypeOK
<1>3. PICK w \in Tasks : w = Head(waitq[q]) /\ state[w] = "Blocked" /\ ret[w] = "recv"
  BY IpcAssumption, SMTT(30) DEF IInv, Waits
<1>4. \A u \in Tasks : state'[u] = IF u = w THEN "Ready" ELSE state[u]
  BY <1>2, <1>3, Zenon
<1>5. \A u \in Tasks : pc'[u] # "unreachable" /\ (pc'[u] \notin Parked \cup {"unborn"} => state'[u] = "Ready")
  BY <1>1, <1>2, <1>4 DEF LifeCycle, RunsOnlyReady
<1>6. \A u \in Tasks : state'[u] # "Ready" => pc'[u] \in Parked
  BY <1>1, <1>2, <1>4 DEF LifeCycle
<1>7. \A g \in Harts : pc'[current[g]] = "switch" => state'[next[g]] = "Ready"
  BY <1>1, <1>4, RunApart DEF LifeCycle
<1>8. \A u \in IdleTasks : state'[u] = "Ready" /\ pc'[u] \notin Reading /\ ret[u] = "user"
  BY <1>1, <1>4, IdleType DEF LifeCycle, Reading
<1>9. \A u \in Tasks : ret[u] = "unreachable" => state'[u] = "Dead"
  BY <1>1, <1>3, <1>4 DEF LifeCycle
<1> QED
  BY <1>5, <1>6, <1>7, <1>8, <1>9, SMTT(30) DEF LifeCycle, RunsOnlyReady

\* A task that gives up its hart is parked, with a state it may leave in.
LEMMA LifeCycleYield ==
    ASSUME IInv, NEW h \in Harts, NEW t \in Tasks, t = current[h],
           NEW s \in {"Ready", "Blocked", "Dead"}, NEW r \in {"user", "recv", "unreachable"},
           state' = [state EXCEPT ![t] = s], ret' = [ret EXCEPT ![t] = r],
           pc' = [pc EXCEPT ![t] = "scan"],
           UNCHANGED <<current, next>>,
           pc[t] \notin Parked,
           r = "unreachable" => s = "Dead",
           t \in IdleTasks => s = "Ready" /\ r = "user"
    PROVE  LifeCycle'
<1>1. LifeCycle /\ \A g \in Harts : current[g] \in Tasks /\ next[g] \in Tasks
  BY Zenon DEF IInv, TypeOK
<1>2. /\ state \in [Tasks -> {"Ready", "Blocked", "Dead"}]
      /\ ret \in [Tasks -> {"user", "recv", "unreachable"}]
      /\ pc \in [Tasks -> Labels]
  BY Zenon DEF IInv, TypeOK
<1>3. \A u \in Tasks : pc'[u] # "unreachable" /\ (pc'[u] \notin Parked \cup {"unborn"} => state'[u] = "Ready")
  BY <1>1, <1>2 DEF LifeCycle, RunsOnlyReady, Parked
<1>4. \A u \in Tasks : state'[u] # "Ready" => pc'[u] \in Parked
  BY <1>1, <1>2, Zenon DEF LifeCycle, Parked
<1>5. \A g \in Harts : pc'[current[g]] = "switch" => state'[next[g]] = "Ready"
  <2> SUFFICES ASSUME NEW g \in Harts, pc'[current[g]] = "switch" PROVE state'[next[g]] = "Ready"
    BY Zenon
  <2>1. g # h
    BY <1>2, Zenon
  <2>2. current[g] # t /\ next[g] # t
    BY <2>1, RunApart, Zenon
  <2> QED
    BY <1>1, <1>2, <2>2, Zenon DEF LifeCycle
<1>6. \A u \in IdleTasks : state'[u] = "Ready" /\ pc'[u] \notin Reading /\ ret'[u] = "user"
  BY <1>1, <1>2, IdleType, Zenon DEF LifeCycle, Reading
<1>7. \A u \in Tasks : ret'[u] = "unreachable" => state'[u] = "Dead"
  BY <1>1, <1>2, SMTT(30) DEF LifeCycle
<1> QED
  BY <1>3, <1>4, <1>5, <1>6, <1>7 DEF LifeCycle, RunsOnlyReady

\* Every step chooses and runs Ready tasks only.
LEMMA LifeCycleStep == ASSUME IInv, NEW h \in Harts, NEW t \in Tasks, t = current[h], Step(h)
                       PROVE LifeCycle'
<1>a. pc \in [Tasks -> Labels] /\ next[h] \in Tasks
  BY Zenon DEF IInv, TypeOK
<1>b. LifeCycle
  BY Zenon DEF IInv
<1>c. t \in IdleTasks => pc[t] \notin Reading /\ t \notin UserTasks
  BY <1>b, SMTT(30) DEF LifeCycle, UserTasks
<1> USE DEF Goto, At, Parked, Reading
<1>1. CASE SendLock(h)
  BY <1>1, <1>a, <1>c, LifeCycleStay, Zenon DEF SendLock, taskVars, schedVars
<1>2. CASE SendNotify(h)
  BY <1>2, <1>a, <1>c, LifeCycleStay, Zenon DEF SendNotify, taskVars, schedVars
<1>3. CASE NoteLock(h)
  BY <1>3, <1>a, <1>c, LifeCycleStay, Zenon DEF NoteLock, taskVars, schedVars
<1>4. CASE NotePush(h)
  BY <1>4, <1>a, <1>c, LifeCycleStay, Zenon DEF NotePush, PushBack, taskVars, schedVars
<1>5. CASE NoteReady(h)
  <2>1. waitq[NotifyQueue(t)] # <<>> /\ NotifyQueue(t) \in Queues
    BY <1>5, NotifyType, Zenon DEF NoteReady, IInv, Waits, NoteHolds, TypeOK, Op
  <2> QED
    BY <1>5, <1>a, <2>1, LifeCycleWake, ZenonT(30) DEF NoteReady, MakeReady, NotifyQueue, schedVars
<1>6. CASE Push(h)
  BY <1>6, <1>a, <1>c, LifeCycleStay, ZenonT(30) DEF Push, PushBack, Return, taskVars, schedVars
<1>7. CASE Ready(h)
  <2>1. waitq[op[t].q] # <<>> /\ op[t].q \in Queues
    BY <1>7, ZenonT(30) DEF Ready, IInv, Waits, NoteHolds, TypeOK, Op
  <2> QED
    BY <1>7, <1>a, <2>1, LifeCycleWake, Zenon DEF Ready, MakeReady, Return, schedVars
<1>8. CASE RecvPop(h)
  BY <1>8, <1>a, <1>c, LifeCycleStay, Zenon DEF RecvPop, taskVars, schedVars
<1>9. CASE TryRecvEmpty(h)
  BY <1>9, <1>a, <1>c, LifeCycleStay, ZenonT(30) DEF TryRecvEmpty, Return, taskVars, schedVars
<1>10. CASE RecvEmpty(h)
  BY <1>10, <1>a, <1>c, LifeCycleStay, SMTT(30) DEF RecvEmpty, taskVars, schedVars
<1>11. CASE WaitLock(h)
  BY <1>11, <1>a, <1>c, LifeCycleStay, Zenon DEF WaitLock, taskVars, schedVars
<1>12. CASE WaitBlock(h)
  <2>1. /\ state' = [state EXCEPT ![t] = "Blocked"] /\ ret' = [ret EXCEPT ![t] = "recv"]
        /\ pc' = [pc EXCEPT ![t] = "scan"] /\ pc[t] = "block"
        /\ UNCHANGED <<current, next>>
    BY <1>12, SMTT(30) DEF WaitBlock, schedVars
  <2>2. t \notin IdleTasks
    BY <1>12, <1>c, SMTT(30) DEF WaitBlock
  <2> QED
    BY <2>1, <2>2, LifeCycleYield, Zenon
<1>13. ASSUME NEW v \in BOOLEAN, ReadFinish(h, v) PROVE LifeCycle'
  BY <1>13, <1>a, <1>c, LifeCycleStay, SMTT(30) DEF ReadFinish, Return, taskVars, schedVars
<1>14. CASE ReadPutBack(h)
  BY <1>14, <1>a, <1>c, LifeCycleStay, Zenon DEF ReadPutBack, Return, taskVars, schedVars
<1>15. CASE ScanRound(h)
  <2>1. /\ UNCHANGED <<state, current, ret>> /\ pc[t] = "scan"
        /\ \A u \in Tasks : u # t => pc'[u] = pc[u]
        /\ \A g \in Harts : g # h => next'[g] = next[g]
        /\ pc'[t] \in {"scan", "switch"}
    BY <1>15, <1>a, ZenonT(30) DEF ScanRound, taskVars, IInv, TypeOK
  <2>2. pc'[t] = "switch" => state[next'[h]] = "Ready"
    BY <1>15, <1>a, <1>b, SMTT(30) DEF ScanRound, LifeCycle, IdleTasks, IInv, TypeOK
  <2>3. \A g \in Harts : current[g] \in Tasks
    BY Zenon DEF IInv, TypeOK
  <2>4. \A g \in Harts : pc'[current'[g]] = "switch" => state'[next'[g]] = "Ready"
    BY <1>b, <2>1, <2>2, <2>3, RunApart DEF LifeCycle
  <2>5. \A u \in Tasks : pc'[u] # "unreachable" /\ (pc'[u] \notin Parked \cup {"unborn"} => state'[u] = "Ready")
    BY <1>b, <2>1, Zenon DEF LifeCycle, RunsOnlyReady
  <2>6. \A u \in Tasks : state'[u] # "Ready" => pc'[u] \in Parked
    BY <1>b, <2>1, Zenon DEF LifeCycle
  <2>7. \A u \in IdleTasks : state'[u] = "Ready" /\ pc'[u] \notin Reading /\ ret'[u] = "user"
    BY <1>b, <2>1, IdleType DEF LifeCycle
  <2> QED
    BY <1>b, <2>1, <2>4, <2>5, <2>6, <2>7, SMTT(30) DEF LifeCycle, RunsOnlyReady
<1>16. CASE Switch(h)
  <2> USE DEF Parked
  <2> DEFINE to == next[h]
  <2>1. /\ to \in Tasks
        /\ pc' = [pc EXCEPT ![t] = "out", ![to] = ret[to]]
        /\ current' = [current EXCEPT ![h] = to]
        /\ pc[t] = "switch" /\ UNCHANGED <<state, next, ret>>
    BY <1>16, <1>a, SMTT(30) DEF Switch, taskVars
  <2>2. state[to] = "Ready" /\ ret[to] \in {"user", "recv"}
    <3>1. ret[to] \in {"user", "recv", "unreachable"}
      BY <2>1, Zenon DEF IInv, TypeOK
    <3> QED
      BY <1>b, <2>1, <3>1, Zenon DEF LifeCycle
  <2>3. to \in IdleTasks => ret[to] = "user"
    BY <1>b, Zenon DEF LifeCycle
  <2> HIDE DEF to
  <2>4. \A u \in Tasks : pc'[u] = IF u = to THEN ret[to] ELSE IF u = t THEN "out" ELSE pc[u]
    BY <1>a, <2>1, Zenon
  <2>9. UNCHANGED <<state, ret>>
    BY <2>1, Zenon
  <2>5. \A u \in Tasks : pc'[u] # "unreachable" /\ (pc'[u] \notin Parked \cup {"unborn"} => state'[u] = "Ready")
    BY <1>b, <2>9, <2>2, <2>4, SMTT(30) DEF LifeCycle, RunsOnlyReady
  <2>6. \A u \in Tasks : state'[u] # "Ready" => pc'[u] \in Parked
    BY <1>b, <2>9, <2>2, <2>4, Zenon DEF LifeCycle
  <2>7. \A u \in IdleTasks : state'[u] = "Ready" /\ pc'[u] \notin Reading /\ ret'[u] = "user"
    BY <1>b, <2>9, <2>3, <2>4, IdleType DEF LifeCycle
  <2>8. \A g \in Harts : pc'[current'[g]] = "switch" => state'[next'[g]] = "Ready"
    <3> SUFFICES ASSUME NEW g \in Harts, pc'[current'[g]] = "switch" PROVE state[next[g]] = "Ready"
      BY <2>1, SMTT(30)
    <3>1. current \in [Harts -> Tasks]
      BY Zenon DEF IInv, TypeOK
    <3>2. g # h /\ current'[g] = current[g] /\ current[g] \in Tasks
      BY <2>1, <2>2, <2>4, <3>1, Zenon
    <3>3. pc[current[g]] = "switch"
      BY <2>2, <2>4, <3>2, Zenon
    <3> QED
      BY <1>b, <3>3, Zenon DEF LifeCycle
  <2> QED
    BY <1>b, <2>1, <2>5, <2>6, <2>7, <2>8, Zenon DEF LifeCycle, RunsOnlyReady
<1>17. CASE Timer(h)
  <2>1. /\ ret' = [ret EXCEPT ![t] = "user"]
        /\ pc' = [pc EXCEPT ![t] = "scan"] /\ pc[t] = "user"
        /\ UNCHANGED <<state, current, next>>
    BY <1>17, Zenon DEF Timer, taskVars, schedVars
  <2>2. state[t] = "Ready" /\ state \in [Tasks -> {"Ready", "Blocked", "Dead"}]
    BY <1>b, <2>1, Zenon DEF LifeCycle, IInv, TypeOK
  <2>3. state' = [state EXCEPT ![t] = "Ready"]
    BY <2>1, <2>2, Zenon
  <2> QED
    BY <2>1, <2>3, LifeCycleYield, Zenon
<1>18. CASE Exit(h)
  <2>1. /\ state' = [state EXCEPT ![t] = "Dead"] /\ ret' = [ret EXCEPT ![t] = "unreachable"]
        /\ pc' = [pc EXCEPT ![t] = "scan"] /\ pc[t] = "user"
        /\ UNCHANGED <<current, next>>
    BY <1>18, Zenon DEF Exit, schedVars
  <2>2. t \notin IdleTasks
    BY <1>18, <1>c, Zenon DEF Exit
  <2> QED
    BY <2>1, <2>2, LifeCycleYield, Zenon
<1>19. CASE FaultKill(h)
  <2>1. /\ state' = [state EXCEPT ![t] = "Dead"] /\ ret' = [ret EXCEPT ![t] = "user"]
        /\ pc' = [pc EXCEPT ![t] = "scan"] /\ pc[t] = "user"
        /\ UNCHANGED <<current, next>>
    BY <1>19, Zenon DEF FaultKill, schedVars
  <2>2. t \notin IdleTasks
    BY <1>19, <1>c, SMTT(30) DEF FaultKill
  <2> QED
    BY <2>1, <2>2, LifeCycleYield, Zenon
<1>20. CASE EnableNotifications(h)
  <2>1. UNCHANGED <<state, current, next, ret, pc>>
    BY <1>20, Zenon DEF EnableNotifications, schedVars
  <2> QED
    BY <1>b, <2>1, SMTT(30) DEF LifeCycle, RunsOnlyReady
<1>21. ASSUME NEW q \in UserQueues, NEW n \in CapCounts, SendMessage(h, q, n) PROVE LifeCycle'
  BY <1>21, <1>a, <1>c, LifeCycleStay, Zenon DEF SendMessage, taskVars, schedVars
<1>22. ASSUME NEW q \in Queues, NEW b \in BufLens, NEW nb \in BOOLEAN, ReadMessage(h, q, b, nb) PROVE LifeCycle'
  BY <1>22, <1>a, <1>c, LifeCycleStay, SMTT(30) DEF ReadMessage, taskVars, schedVars
<1>23. ASSUME NEW c \in Tasks, Spawn(h, c) PROVE LifeCycle'
  <2>1. /\ pc' = [pc EXCEPT ![c] = "out"] /\ pc[c] = "unborn"
        /\ UNCHANGED <<state, current, next, ret>>
    BY <1>23, Zenon DEF Spawn
  <2>2. \A u \in Tasks : pc'[u] = IF u = c THEN "out" ELSE pc[u]
    BY <1>a, <2>1, Zenon
  <2>3. \A g \in Harts : current[g] \in Tasks
    BY Zenon DEF IInv, TypeOK
  <2>4. \A u \in IdleTasks : u \in Tasks
    BY IpcAssumption DEF IdleTasks
  <2> QED
    BY <1>b, <2>1, <2>2, <2>3, <2>4, SMTT(30) DEF LifeCycle, RunsOnlyReady
<1>24. ASSUME NEW c \in Claimants, Interrupt(h, c) PROVE LifeCycle'
  BY <1>24, <1>a, <1>c, LifeCycleStay, Zenon DEF Interrupt, taskVars, schedVars
<1> QED
  BY Zenon, <1>1, <1>2, <1>3, <1>4, <1>5, <1>6, <1>7, <1>8, <1>9, <1>10, <1>11, <1>12,
     <1>13, <1>14, <1>15, <1>16, <1>17, <1>18, <1>19, <1>20, <1>21, <1>22, <1>23, <1>24 DEF Step, KernelStep, Syscall

\* Every step keeps a queue with a waiter and a free lock empty.
LEMMA NoLostWakeupStep == ASSUME IInv, NEW h \in Harts, NEW t \in Tasks, t = current[h], Step(h)
                          PROVE NoLostWakeup'
<1>a. /\ pc \in [Tasks -> Labels] /\ op[t].q \in Queues
      /\ inner \in [Queues -> Tasks \cup {None}]
      /\ waitq \in [Queues -> Seq(Tasks)] /\ queue \in [Queues -> Seq(Message)]
      /\ None \notin Tasks
  BY IpcAssumption, Zenon DEF IInv, TypeOK, Op
<1>b. NoLostWakeup
  BY Zenon DEF IInv
<1>c. Waits /\ Locks
  BY Zenon DEF IInv
<1> USE DEF Goto, At
<1>1. CASE SendLock(h)
  <2>1. UNCHANGED <<queue, waitq>> /\ inner' = [inner EXCEPT ![op[t].q] = t]
    BY <1>1, SMTT(30) DEF SendLock
  <2> QED
    BY <1>a, <1>b, <2>1, SMTT(30) DEF NoLostWakeup
<1>2. CASE SendNotify(h)
  <2>1. UNCHANGED <<queue, inner, waitq>>
    BY <1>2, Zenon DEF SendNotify, chanVars
  <2> QED
    BY <1>b, <2>1, Zenon DEF NoLostWakeup
<1>3. CASE NoteLock(h)
  <2>1. UNCHANGED <<queue, waitq>> /\ inner' = [inner EXCEPT ![NotifyQueue(t)] = t]
    BY <1>3, Zenon DEF NoteLock, NotifyQueue
  <2> QED
    BY <1>a, <1>b, <2>1, Zenon DEF NoLostWakeup
<1>4. CASE NotePush(h)
  <2>1. NotifyQueue(t) \in Queues /\ inner[NotifyQueue(t)] = t
    BY <1>4, <1>a, <1>c, NotifyType, ZenonT(30) DEF NotePush, Locks, SendHolds, NoteHolds
  <2>2. /\ waitq' = waitq
        /\ \A p \in Queues : p # NotifyQueue(t) => queue'[p] = queue[p] /\ inner'[p] = inner[p]
        /\ waitq[NotifyQueue(t)] # <<>> => inner'[NotifyQueue(t)] = inner[NotifyQueue(t)]
    BY <1>4, <1>a, <2>1, Zenon DEF NotePush, PushBack, NotifyQueue
  <2> QED
    BY <1>a, <1>b, <2>1, <2>2, ZenonT(30) DEF NoLostWakeup
<1>5. CASE NoteReady(h)
  <2>1. NotifyQueue(t) \in Queues /\ waitq[NotifyQueue(t)] # <<>>
    BY <1>5, <1>a, <1>c, NotifyType, ZenonT(30) DEF NoteReady, Waits, NoteHolds
  <2>2. waitq[NotifyQueue(t)] = <<Owner[NotifyQueue(t)]>>
    BY <1>c, <2>1, Zenon DEF Waits
  <2>3. /\ queue' = queue
        /\ inner' = [inner EXCEPT ![NotifyQueue(t)] = None]
        /\ waitq' = [waitq EXCEPT ![NotifyQueue(t)] = Tail(@)]
    BY <1>5, ZenonT(30) DEF NoteReady, MakeReady, NotifyQueue
  <2>4. waitq'[NotifyQueue(t)] = <<>>
    BY <1>a, <2>1, <2>2, <2>3, SMTT(30)
  <2> QED
    BY <1>a, <1>b, <2>1, <2>3, <2>4, SMTT(30) DEF NoLostWakeup
<1>6. CASE Push(h)
  <2>1. op[t].q \in Queues /\ inner[op[t].q] = t
    BY <1>6, <1>a, <1>c, ZenonT(30) DEF Push, Locks, SendHolds, NoteHolds
  <2>2. /\ waitq' = waitq
        /\ \A p \in Queues : p # op[t].q => queue'[p] = queue[p] /\ inner'[p] = inner[p]
        /\ waitq[op[t].q] # <<>> => inner'[op[t].q] = inner[op[t].q]
    BY <1>6, <1>a, <2>1, Zenon DEF Push, PushBack, NotifyQueue
  <2> QED
    BY <1>a, <1>b, <2>1, <2>2, Zenon DEF NoLostWakeup
<1>7. CASE Ready(h)
  <2>1. op[t].q \in Queues /\ waitq[op[t].q] # <<>>
    BY <1>7, <1>a, <1>c, ZenonT(30) DEF Ready, Waits, NoteHolds
  <2>2. waitq[op[t].q] = <<Owner[op[t].q]>>
    BY <1>c, <2>1, SMTT(30) DEF Waits
  <2>3. /\ queue' = queue
        /\ inner' = [inner EXCEPT ![op[t].q] = None]
        /\ waitq' = [waitq EXCEPT ![op[t].q] = Tail(@)]
    BY <1>7, ZenonT(30) DEF Ready, MakeReady, NotifyQueue
  <2>4. waitq'[op[t].q] = <<>>
    BY <1>a, <2>1, <2>2, <2>3
  <2> QED
    BY <1>a, <1>b, <2>1, <2>3, <2>4, Zenon DEF NoLostWakeup
<1>8. CASE RecvPop(h)
  <2>1. /\ UNCHANGED <<inner, waitq>> /\ inner[op[t].q] = None /\ queue[op[t].q] # <<>>
        /\ \A p \in Queues : p # op[t].q => queue'[p] = queue[p]
    BY <1>8, <1>a, Zenon DEF RecvPop
  <2>2. waitq[op[t].q] = <<>>
    BY <1>a, <1>b, <2>1, SMTT(30) DEF NoLostWakeup
  <2> QED
    BY <1>b, <2>1, <2>2, Zenon DEF NoLostWakeup
<1>9. CASE TryRecvEmpty(h)
  <2>1. UNCHANGED <<queue, inner, waitq>>
    BY <1>9, ZenonT(30) DEF TryRecvEmpty, chanVars
  <2> QED
    BY <1>b, <2>1, Zenon DEF NoLostWakeup
<1>10. CASE RecvEmpty(h)
  <2>1. UNCHANGED <<queue, waitq>> /\ inner' = [inner EXCEPT ![op[t].q] = t]
    BY <1>10, Zenon DEF RecvEmpty
  <2> QED
    BY <1>a, <1>b, <2>1, Zenon DEF NoLostWakeup
<1>11. CASE WaitLock(h)
  <2>1. UNCHANGED <<queue, inner, waitq>>
    BY <1>11, Zenon DEF WaitLock
  <2> QED
    BY <1>b, <2>1, Zenon DEF NoLostWakeup
<1>12. CASE WaitBlock(h)
  <2>1. /\ queue' = queue /\ pc[t] = "block"
        /\ \A p \in Queues : p # op[t].q => inner'[p] = inner[p] /\ waitq'[p] = waitq[p]
    BY <1>12, <1>a, ZenonT(30) DEF WaitBlock
  <2>2. queue[op[t].q] = <<>>
    BY <1>c, <2>1, ZenonT(30) DEF Waits, WaitHolds
  <2> QED
    BY <1>b, <2>1, <2>2, SMTT(30) DEF NoLostWakeup
<1>13. ASSUME NEW v \in BOOLEAN, ReadFinish(h, v) PROVE NoLostWakeup'
  <2>1. UNCHANGED <<queue, inner, waitq>>
    BY <1>13, SMTT(30) DEF ReadFinish, chanVars
  <2> QED
    BY <1>b, <2>1, Zenon DEF NoLostWakeup
<1>14. CASE ReadPutBack(h)
  <2>1. /\ UNCHANGED <<inner, waitq>> /\ pc[t] = "putback"
        /\ \A p \in Queues : p # op[t].q => queue'[p] = queue[p]
    BY <1>14, <1>a, ZenonT(30) DEF ReadPutBack
  <2>2. Owner[op[t].q] = t /\ state[t] = "Ready"
    BY <1>c, <2>1, ZenonT(30) DEF Waits, Reading, IInv, LifeCycle, Parked
  <2>3. waitq[op[t].q] = <<>>
    BY <1>a, <1>c, <2>2, ZenonT(30) DEF Waits
  <2> QED
    BY <1>b, <2>1, <2>3, SMTT(30) DEF NoLostWakeup
<1>15. CASE ScanRound(h)
  <2>1. UNCHANGED <<queue, inner, waitq>>
    BY <1>15, Zenon DEF ScanRound, chanVars
  <2> QED
    BY <1>b, <2>1, Zenon DEF NoLostWakeup
<1>16. CASE Switch(h)
  <2>1. UNCHANGED <<queue, inner, waitq>>
    BY <1>16, Zenon DEF Switch, chanVars
  <2> QED
    BY <1>b, <2>1, Zenon DEF NoLostWakeup
<1>17. CASE Timer(h)
  <2>1. UNCHANGED <<queue, inner, waitq>>
    BY <1>17, SMTT(30) DEF Timer, chanVars
  <2> QED
    BY <1>b, <2>1, Zenon DEF NoLostWakeup
<1>18. CASE Exit(h)
  <2>1. UNCHANGED <<queue, inner, waitq>>
    BY <1>18, Zenon DEF Exit, chanVars
  <2> QED
    BY <1>b, <2>1, Zenon DEF NoLostWakeup
<1>19. CASE FaultKill(h)
  <2>1. UNCHANGED <<queue, inner, waitq>>
    BY <1>19, Zenon DEF FaultKill, chanVars
  <2> QED
    BY <1>b, <2>1, Zenon DEF NoLostWakeup
<1>20. CASE EnableNotifications(h)
  <2>1. UNCHANGED <<queue, inner, waitq>>
    BY <1>20, Zenon DEF EnableNotifications, chanVars
  <2> QED
    BY <1>b, <2>1, Zenon DEF NoLostWakeup
<1>21. ASSUME NEW q \in UserQueues, NEW n \in CapCounts, SendMessage(h, q, n) PROVE NoLostWakeup'
  <2>1. UNCHANGED <<queue, inner, waitq>>
    BY <1>21, Zenon DEF SendMessage, chanVars
  <2> QED
    BY <1>b, <2>1, Zenon DEF NoLostWakeup
<1>22. ASSUME NEW q \in Queues, NEW b \in BufLens, NEW nb \in BOOLEAN, ReadMessage(h, q, b, nb) PROVE NoLostWakeup'
  <2>1. UNCHANGED <<queue, inner, waitq>>
    BY <1>22, Zenon DEF ReadMessage, chanVars
  <2> QED
    BY <1>b, <2>1, Zenon DEF NoLostWakeup
<1>23. ASSUME NEW c \in Tasks, Spawn(h, c) PROVE NoLostWakeup'
  <2>1. UNCHANGED <<queue, inner, waitq>>
    BY <1>23, Zenon DEF Spawn, chanVars
  <2> QED
    BY <1>b, <2>1, Zenon DEF NoLostWakeup
<1>24. ASSUME NEW c \in Claimants, Interrupt(h, c) PROVE NoLostWakeup'
  <2>1. UNCHANGED <<queue, inner, waitq>>
    BY <1>24, Zenon DEF Interrupt, chanVars
  <2> QED
    BY <1>b, <2>1, Zenon DEF NoLostWakeup
<1> QED
  BY Zenon, <1>1, <1>2, <1>3, <1>4, <1>5, <1>6, <1>7, <1>8, <1>9, <1>10, <1>11, <1>12,
     <1>13, <1>14, <1>15, <1>16, <1>17, <1>18, <1>19, <1>20, <1>21, <1>22, <1>23, <1>24 DEF Step, KernelStep, Syscall

-----------------------------------------------------------------------------
(* The invariant of the specification *)

\* The state begin_scheduling() leaves satisfies the invariant.
LEMMA InitInv == Init => IInv
<1> SUFFICES ASSUME Init PROVE IInv
  BY Zenon
<1>1. TypeOK
  <2>1. op \in [Tasks -> Op]
    BY NoOpType, Zenon DEF Init
  <2> QED
    BY <2>1, IpcAssumption DEF Init, TypeOK, Labels
<1>2. \A t \in Tasks : /\ pc[t] \in {"user", "out", "unborn"}
                       /\ pc[t] = "user" <=> t \in IdleTasks
                       /\ pc[t] = "unborn" => t \notin BootTasks
                       /\ state[t] = "Ready" /\ ret[t] = "user" /\ slock[t] = None
  BY Zenon DEF Init
<1>3. \A q \in Queues : waitq[q] = <<>> /\ inner[q] = None /\ wqlock[q] = None
  BY Zenon DEF Init
<1>4. RunQueues
  <2>1. \A h \in Harts : /\ runq[h] = BootQueue[h] /\ runq[h] # <<>>
                         /\ current[h] = Idle[h] /\ next[h] = Idle[h]
                         /\ Idle[h] \in Tasks /\ Idle[h] \in IdleTasks
    BY IpcAssumption, Zenon DEF Init, IdleTasks
  <2>2. \A h \in Harts : Idle[h] \in Members(BootQueue[h])
    <3> SUFFICES ASSUME NEW h \in Harts PROVE Idle[h] \in Members(BootQueue[h])
      BY Zenon
    <3>1. BootQueue[h] \in Seq(Tasks) /\ BootQueue[h] # <<>> /\ Head(BootQueue[h]) = Idle[h]
      BY IpcAssumption, Zenon
    <3>2. 1 \in DOMAIN BootQueue[h] /\ BootQueue[h][1] = Idle[h]
      BY <3>1
    <3> QED
      BY <3>2, Zenon DEF Members
  <2>3. \A g, h \in Harts, t \in Tasks :
            t \in Members(BootQueue[g]) /\ t \in Members(BootQueue[h]) => g = h
    BY IpcAssumption, Zenon
  <2>4. \A h \in Harts, t \in Tasks : t \in Members(BootQueue[h]) =>
            t \in BootTasks /\ (t \in IdleTasks => t = Idle[h])
    BY <2>2, <2>3, IdleType, SMTT(30) DEF BootTasks, IdleTasks
  <2> QED
    BY <1>2, <2>1, <2>2, <2>3, <2>4, SMTT(30) DEF RunQueues
<1>5. Locks
  <2>1. None \notin Tasks
    BY IpcAssumption, SMTT(30)
  <2> QED
    BY <1>2, <1>3, <2>1, Zenon DEF Locks, SendHolds, WaitHolds, NoteHolds
<1>6. Waits
  BY <1>2, <1>3, Zenon DEF Waits, Reading, WaitHolds
<1>7. LifeCycle
  <2>1. \A h \in Harts : current[h] \in Tasks
    BY <1>1, Zenon DEF TypeOK
  <2> QED
    BY <1>2, <2>1, IdleType, Zenon DEF LifeCycle, RunsOnlyReady, Reading
<1>8. NoLostWakeup
  BY <1>3, Zenon DEF NoLostWakeup
<1> QED
  BY <1>1, <1>4, <1>5, <1>6, <1>7, <1>8, Zenon DEF IInv

\* A step of any hart keeps the invariant.
LEMMA NextInv == IInv /\ [Next]_vars => IInv'
<1>1. ASSUME IInv, Next PROVE IInv'
  <2>1. PICK h \in Harts : Step(h)
    BY <1>1, Zenon DEF Next, Step
  <2>2. current[h] \in Tasks
    BY <1>1, Zenon DEF IInv, TypeOK
  <2> QED
    BY Zenon, <1>1, <2>1, <2>2, TypeStep, RunQueuesStep, LocksStep, LifeCycleStep, WaitsStep,
       NoLostWakeupStep DEF IInv
<1>2. ASSUME IInv, UNCHANGED vars PROVE IInv'
  <2>1. TypeOK' /\ NoLostWakeup'
    BY <1>2, SMTT(30) DEF IInv, vars, TypeOK, NoLostWakeup
  <2>2. RunQueues'
    BY <1>2, SMTT(30) DEF IInv, vars, RunQueues
  <2>3. Locks'
    BY <1>2 DEF IInv, vars, Locks, NotifyQueue
  <2>4. Waits'
    BY <1>2, Zenon DEF IInv, vars, Waits, NotifyQueue
  <2>5. LifeCycle'
    BY <1>2, Zenon DEF IInv, vars, LifeCycle, RunsOnlyReady
  <2> QED
    BY <2>1, <2>2, <2>3, <2>4, <2>5, SMTT(30) DEF IInv
<1> QED
  BY <1>1, <1>2, Zenon

\* The inductive invariant holds in every reachable state.
THEOREM Invariant == Spec => []IInv
  BY InitInv, NextInv, PTL DEF Spec

\* Every variable keeps its type: message queues, lock holders, run queues and
\* the arguments of the system call each task is in.
THEOREM TypeCorrect == Spec => []TypeOK
<1>1. IInv => TypeOK
  BY Zenon DEF IInv
<1> QED
  BY <1>1, Invariant, PTL

\* recv() and send() lose no wakeup, for any number of harts, tasks and queues:
\* no message can be pushed between recv()'s empty check and the receiver's
\* entry into the wait queue.
THEOREM NoWakeupIsLost == Spec => []NoLostWakeup
<1>1. IInv => NoLostWakeup
  BY Zenon DEF IInv
<1> QED
  BY <1>1, Invariant, PTL

\* Blocked and queued are the same thing: WaitQueue::wait and wake_one change
\* the task state and the wait queue together.
THEOREM BlockedMeansQueued == Spec => []BlockedIffWaiting
<1>1. IInv => BlockedIffWaiting
  <2> SUFFICES ASSUME IInv PROVE BlockedIffWaiting
    BY Zenon
  <2>1. Waits /\ \A t \in Tasks : op[t].q \in Queues
    BY Zenon DEF IInv, TypeOK, Op
  <2>2. \A t \in Tasks, q \in Queues : Waiting(t, q) <=> waitq[q] = <<t>>
    <3> SUFFICES ASSUME NEW t \in Tasks, NEW q \in Queues PROVE Waiting(t, q) <=> waitq[q] = <<t>>
      BY Zenon
    <3>1. CASE waitq[q] = <<>>
      BY <3>1 DEF Waiting, Members
    <3>2. CASE waitq[q] # <<>>
      <4>1. waitq[q] = <<Owner[q]>>
        BY <2>1, <3>2, Zenon DEF Waits
      <4>2. Members(waitq[q]) = {Owner[q]}
        BY <4>1 DEF Members
      <4> QED
        BY <4>1, <4>2, SMTT(30) DEF Waiting
    <3> QED
      BY <3>1, <3>2, Zenon
  <2>3. ASSUME NEW t \in Tasks, NEW q \in Queues, waitq[q] = <<t>>
        PROVE  Owner[q] = t /\ state[t] = "Blocked" /\ op[t].q = q
    <3>1. waitq[q] # <<>>
      BY <2>3
    <3>2. waitq[q] = <<Owner[q]>> /\ state[Owner[q]] = "Blocked" /\ op[Owner[q]].q = q
      BY <2>1, <3>1, Zenon DEF Waits
    <3>3. Owner[q] = t
      BY <2>3, <3>2, SMTT(30)
    <3> QED
      BY <3>2, <3>3, Zenon
  <2>4. \A t \in Tasks : state[t] = "Blocked" => waitq[op[t].q] = <<t>>
    BY <2>1, Zenon DEF Waits
  <2> QED
    BY <2>1, <2>2, <2>3, <2>4 DEF BlockedIffWaiting
<1> QED
  BY <1>1, Invariant, PTL

\* The scheduler runs Ready tasks only and never comes back into the Exit
\* system call of a dead task.
THEOREM OnlyReadyRuns == Spec => []RunsOnlyReady
<1>1. IInv => RunsOnlyReady
  BY Zenon DEF IInv, LifeCycle
<1> QED
  BY <1>1, Invariant, PTL

\* schedule() is entered and left with no spin lock held.
THEOREM NoLockAcrossSwitch == Spec => []SwitchHoldsNoLock
<1>1. IInv => SwitchHoldsNoLock
  BY DEF IInv, Locks, SwitchHoldsNoLock, SendHolds, WaitHolds, NoteHolds, Parked
<1> QED
  BY <1>1, Invariant, PTL

\* No step of any hart revives a dead task or runs it on.
THEOREM DeadForever == Spec => DeadStaysDead
<1>1. ASSUME IInv, [Next]_vars
      PROVE  [\A t \in Tasks : state[t] = "Dead" => state'[t] = "Dead" /\ pc'[t] \in Parked]_vars
  <2>1. CASE UNCHANGED vars
    BY <2>1, Zenon
  <2>2. CASE Next
    <3>1. PICK h \in Harts : Step(h)
      BY <2>2, Zenon DEF Next, Step
    <3> DEFINE t == current[h]
    <3>2. t \in Tasks /\ state \in [Tasks -> {"Ready", "Blocked", "Dead"}] /\ LifeCycle'
      BY <1>1, <3>1, LifeCycleStep, SMTT(30) DEF IInv, TypeOK
    <3>3. ASSUME NEW u \in Tasks, state[u] = "Dead" PROVE state'[u] = "Dead"
      <4>1. u # t \/ pc[t] \in Parked
        BY <1>1, <3>3, Zenon DEF IInv, LifeCycle
      <4>2. \A q \in Queues : waitq[q] # <<>> => Head(waitq[q]) # u
        <5> SUFFICES ASSUME NEW q \in Queues, waitq[q] # <<>>, Head(waitq[q]) = u PROVE FALSE
          BY Zenon
        <5>1. waitq[q] = <<Owner[q]>> /\ state[Owner[q]] = "Blocked"
          BY <1>1, Zenon DEF IInv, Waits
        <5> QED
          BY <3>3, <5>1
      <4>3. \/ state' = state
            \/ pc[t] \notin Parked /\ \E s \in {"Blocked", "Dead"} : state' = [state EXCEPT ![t] = s]
            \/ NoteReady(h) \/ Ready(h)
        BY <3>1, Zenon DEF Step, KernelStep, Syscall, At, Parked, taskVars, SendLock, SendNotify,
              NoteLock, NotePush, Push, RecvPop, TryRecvEmpty, RecvEmpty, WaitLock, WaitBlock,
              ReadFinish, ReadPutBack, ScanRound, Switch, Timer, Exit, FaultKill,
              EnableNotifications, SendMessage, ReadMessage, Spawn, Interrupt
      <4>4. CASE NoteReady(h)
        <5>1. /\ pc[t] = "noteready"
              /\ state' = [state EXCEPT ![Head(waitq[NotifyQueue(t)])] = "Ready"]
          BY <4>4, ZenonT(30) DEF NoteReady, MakeReady, At, NotifyQueue
        <5>2. NotifyQueue(t) \in Queues /\ waitq[NotifyQueue(t)] # <<>>
          BY <1>1, <3>2, <5>1, NotifyType, Zenon DEF IInv, Waits, NoteHolds
        <5> QED
          BY <3>2, <3>3, <4>2, <5>1, <5>2, Zenon
      <4>5. CASE Ready(h)
        <5>1. /\ pc[t] = "ready"
              /\ state' = [state EXCEPT ![Head(waitq[op[t].q])] = "Ready"]
          BY <4>5, ZenonT(30) DEF Ready, MakeReady, At
        <5>2. op[t].q \in Queues /\ waitq[op[t].q] # <<>>
          BY <1>1, <3>2, <5>1, SMTT(30) DEF IInv, Waits, TypeOK, Op
        <5> QED
          BY <3>2, <3>3, <4>2, <5>1, <5>2, SMTT(30)
      <4> QED
        BY <3>2, <3>3, <4>1, <4>3, <4>4, <4>5, Zenon
    <3>4. \A u \in Tasks : state'[u] = "Dead" => pc'[u] \in Parked
      BY <3>2, Zenon DEF LifeCycle
    <3> QED
      BY <3>3, <3>4, Zenon
  <2> QED
    BY <1>1, <2>1, <2>2, Zenon
<1> QED
  BY <1>1, Invariant, PTL DEF Spec, DeadStaysDead
=============================================================================
