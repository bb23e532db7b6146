------------------------------- MODULE Ipc_inv ------------------------------
(***************************************************************************)
(* The inductive invariant of module Ipc, for any number of harts, tasks and *)
(* queues and any placement of the boot tasks on the harts, and the proofs *)
(* that every step keeps its types, run queues and locks.                  *)
(***************************************************************************)
EXTENDS Ipc, TLAPS

\* Every hart runs a task of its own run queue, which it shares with no other
\* hart; a spawned task that is not running is parked in context_switch.
RunQueues ==
    /\ \A h \in Harts : /\ runq[h] # <<>>
                        /\ current[h] \in Members(runq[h])
                        /\ next[h] \in Members(runq[h])
                        /\ Idle[h] \in Members(runq[h])
                        /\ pc[current[h]] \notin {"out", "unborn"}
    /\ \A g, h \in Harts, t \in Tasks : t \in Members(runq[g]) /\ t \in Members(runq[h]) => g = h
    /\ \A h \in Harts, t \in Tasks : t \in Members(runq[h]) =>
          pc[t] # "unborn" /\ (t # current[h] => pc[t] = "out")

\* Who holds which lock follows from where each task stands.
Locks ==
    /\ \A t \in Tasks, q \in Queues :
          inner[q] = t <=> \/ pc[t] \in SendHolds \cup WaitHolds /\ op[t].q = q
                           \/ pc[t] \in NoteHolds /\ NotifyQueue(t) = q
    /\ \A t \in Tasks, q \in Queues :
          wqlock[q] = t <=> \/ pc[t] \in {"ready", "block"} /\ op[t].q = q
                            \/ pc[t] = "noteready" /\ NotifyQueue(t) = q
    /\ \A t, u \in Tasks : slock[u] = t <=> u = t /\ pc[t] = "putback"
    /\ \A t \in Tasks : pc[t] \in {"notify", "note"} \cup NoteHolds => op[t].q \in UserQueues

\* A wait queue holds at most the receiver, Blocked in recv() on that queue.
Reading == {"recv", "wait", "block", "got", "putback"}
Waits ==
    /\ \A q \in Queues : waitq[q] # <<>> =>
          waitq[q] = <<Owner[q]>> /\ state[Owner[q]] = "Blocked" /\ op[Owner[q]].q = q
    /\ \A t \in Tasks : state[t] = "Blocked" => ret[t] = "recv" /\ waitq[op[t].q] = <<t>>
    /\ \A t \in Tasks : pc[t] = "ready" => waitq[op[t].q] # <<>>
    /\ \A t \in Tasks : pc[t] = "noteready" => waitq[NotifyQueue(t)] # <<>>
    /\ \A t \in Tasks : pc[t] \in Reading \/ (pc[t] \in Parked \cup {"unborn"} /\ ret[t] = "recv")
          => Owner[op[t].q] = t
    /\ \A t \in Tasks : pc[t] \in WaitHolds => queue[op[t].q] = <<>>

\* Only a Ready task is chosen, only a Ready task executes, and the idle tasks
\* are always Ready.
LifeCycle ==
    /\ RunsOnlyReady
    /\ \A t \in Tasks : state[t] # "Ready" => pc[t] \in Parked
    /\ \A t \in Tasks : ret[t] = "unreachable" => state[t] = "Dead"
    /\ \A h \in Harts : pc[current[h]] = "switch" => state[next[h]] = "Ready"
    /\ \A t \in IdleTasks : state[t] = "Ready" /\ pc[t] \notin Reading /\ ret[t] = "user"

IInv == TypeOK /\ RunQueues /\ Locks /\ Waits /\ LifeCycle /\ NoLostWakeup

\* One step of hart h.
Step(h) == KernelStep(h) \/ Syscall(h) \/ Timer(h) \/ \E c \in Claimants : Interrupt(h, c)

\* The operation of a task that is in no system call has its type.
LEMMA NoOpType == \A t \in Tasks : NoOp(t) \in Op
  BY IpcAssumption, Zenon DEF NoOp, NoMsg, Op, Message

\* Pushing on either end of a VecDeque keeps its type.
LEMMA SeqPush == ASSUME NEW S, NEW s \in Seq(S), NEW x \in S
                 PROVE Append(s, x) \in Seq(S) /\ <<x>> \o s \in Seq(S)
  OBVIOUS

\* pop_front() of a queue that is not empty, and a rotation, keep its type.
LEMMA SeqPop == ASSUME NEW S, NEW s \in Seq(S), s # <<>>
                PROVE /\ Head(s) \in S
                      /\ Tail(s) \in Seq(S)
                      /\ Append(Tail(s), Head(s)) \in Seq(S)
                      /\ Append(Tail(s), Head(s)) # <<>>
                      /\ Append(Tail(s), Head(s))[1] \in S
<1>1. Append(Tail(s), Head(s)) \in Seq(S)
  OBVIOUS
<1>2. Len(Append(Tail(s), Head(s))) = Len(s) /\ Len(s) >= 1
  OBVIOUS
<1> QED
  BY <1>1, <1>2

\* The push of send() keeps the types of what it changes.
LEMMA PushType == ASSUME TypeOK, NEW t \in Tasks, NEW q \in Queues, NEW n \in Nat, PushBack(t, q, n)
                  PROVE /\ sent' \in [Queues -> Nat]
                        /\ queue' \in [Queues -> Seq(Message)]
                        /\ inner' \in [Queues -> Tasks \cup {None}]
                        /\ wqlock' \in [Queues -> Tasks \cup {None}]
<1>1. Append(queue[q], [seq |-> sent[q] + 1, caps |-> n]) \in Seq(Message)
  BY SeqPush DEF TypeOK, Message
<1> QED
  BY <1>1 DEF TypeOK, PushBack

\* wake_one() keeps the types of what it changes.
LEMMA ReadyType == ASSUME TypeOK, NEW q \in Queues, waitq[q] # <<>>, MakeReady(q)
                   PROVE /\ state' \in [Tasks -> {"Ready", "Blocked", "Dead"}]
                         /\ waitq' \in [Queues -> Seq(Tasks)]
                         /\ inner' \in [Queues -> Tasks \cup {None}]
                         /\ wqlock' \in [Queues -> Tasks \cup {None}]
<1>1. Tail(waitq[q]) \in Seq(Tasks)
  BY SeqPop, Zenon DEF TypeOK
<1> QED
  BY <1>1, Zenon DEF TypeOK, MakeReady

\* Every step keeps the types.
LEMMA TypeStep == ASSUME IInv, NEW h \in Harts, NEW t \in Tasks, t = current[h], Step(h)
                  PROVE TypeOK'
<1>a. TypeOK
  BY Zenon DEF IInv
<1>b. op[t].q \in Queues /\ NotifyQueue(t) \in Queues
  BY <1>a, IpcAssumption, Zenon DEF TypeOK, Op, NotifyQueue
<1>c. op[t].caps \in Nat /\ op[t].buf \in Nat /\ op[t].msg \in Message
  BY <1>a, SMTT(30) DEF TypeOK, Op
<1>d. NoOp(t) \in Op
  BY NoOpType, Zenon
<1>e. pc \in [Tasks -> Labels] /\ op \in [Tasks -> Op] /\ slock \in [Tasks -> Tasks \cup {None}]
  BY <1>a, Zenon DEF TypeOK
<1> USE DEF Goto, At
<1>1. CASE SendLock(h)
  BY <1>1, <1>a, <1>b, SMTT(30) DEF SendLock, TypeOK, taskVars, chanVars, schedVars, Labels
<1>2. CASE SendNotify(h)
  BY <1>2, <1>a, Zenon DEF SendNotify, TypeOK, taskVars, chanVars, schedVars, Labels
<1>3. CASE NoteLock(h)
  BY <1>3, <1>a, <1>b, Zenon DEF NoteLock, TypeOK, taskVars, chanVars, schedVars, Labels
<1>4. CASE NotePush(h)
  <2>1. PushBack(t, NotifyQueue(t), 0)
    BY <1>4, <1>b, Zenon DEF NotePush, NotifyQueue
  <2>2. /\ sent' \in [Queues -> Nat]
        /\ queue' \in [Queues -> Seq(Message)]
        /\ inner' \in [Queues -> Tasks \cup {None}]
        /\ wqlock' \in [Queues -> Tasks \cup {None}]
    BY <1>a, <1>b, <2>1, PushType, 0 \in Nat, Zenon
  <2>3. pc' \in [Tasks -> Labels] /\ notes' \in [Queues -> Nat]
    BY <1>4, <1>a, <1>b, SMTT(30) DEF NotePush, TypeOK, Labels
  <2> QED
    BY <1>4, <1>a, <1>b, <2>2, <2>3, Zenon DEF NotePush, TypeOK, taskVars, schedVars
<1>5. CASE NoteReady(h)
  <2>1. MakeReady(NotifyQueue(t)) /\ waitq[NotifyQueue(t)] # <<>>
    BY <1>5, <1>b, Zenon DEF NoteReady, NotifyQueue, IInv, Waits
  <2> QED
    BY <1>5, <1>a, <1>b, <2>1, ReadyType, Zenon DEF NoteReady, TypeOK, taskVars, chanVars, schedVars, Labels
<1>6. CASE Push(h)
  <2>1. PushBack(t, op[t].q, op[t].caps)
    BY <1>6, <1>b, <1>c, <1>d, Zenon DEF Push
  <2>2. /\ sent' \in [Queues -> Nat]
        /\ queue' \in [Queues -> Seq(Message)]
        /\ inner' \in [Queues -> Tasks \cup {None}]
        /\ wqlock' \in [Queues -> Tasks \cup {None}]
    BY <1>a, <1>b, <1>c, <2>1, PushType, Zenon
  <2>3. pc' \in [Tasks -> Labels] /\ op' \in [Tasks -> Op]
    BY <1>6, <1>d, <1>e, Zenon DEF Push, Return, Labels
  <2> QED
    BY <1>6, <1>a, <1>b, <1>c, <1>d, <2>2, <2>3, Zenon DEF Push, TypeOK, taskVars, schedVars
<1>7. CASE Ready(h)
  <2>1. MakeReady(op[t].q) /\ waitq[op[t].q] # <<>>
    BY <1>7, <1>b, <1>d, Zenon DEF Ready, IInv, Waits
  <2> QED
    BY <1>7, <1>a, <1>b, <1>d, <2>1, ReadyType, Zenon DEF Ready, Return, TypeOK, taskVars, chanVars, schedVars, Labels
<1>8. CASE RecvPop(h)
  <2>1. /\ Head(queue[op[t].q]) \in Message
        /\ Tail(queue[op[t].q]) \in Seq(Message)
    BY <1>8, <1>a, <1>b, SeqPop, Zenon DEF RecvPop, TypeOK
  <2>2. op' \in [Tasks -> Op]
    <3>1. [op[t] EXCEPT !.msg = Head(queue[op[t].q])] \in Op
      BY <1>e, <2>1, ZenonT(30) DEF Op
    <3> QED
      BY <1>8, <1>e, <3>1, Zenon DEF RecvPop
  <2>3. taken' \in [Queues -> Nat]
    BY <1>8, <1>a, <1>b, <2>1, Zenon DEF RecvPop, TypeOK, Message
  <2> QED
    BY <1>8, <1>a, <1>b, <2>1, <2>2, <2>3, Zenon DEF RecvPop, TypeOK, taskVars, chanVars, schedVars, Labels
<1>9. CASE TryRecvEmpty(h)
  BY <1>9, <1>a, <1>d, Zenon DEF TryRecvEmpty, Return, TypeOK, taskVars, chanVars, schedVars, Labels
<1>10. CASE RecvEmpty(h)
  BY <1>10, <1>a, <1>b, Zenon DEF RecvEmpty, TypeOK, taskVars, chanVars, schedVars, Labels
<1>11. CASE WaitLock(h)
  BY <1>11, <1>a, <1>b, SMTT(30) DEF WaitLock, TypeOK, taskVars, chanVars, schedVars, Labels
<1>12. CASE WaitBlock(h)
  <2>1. Append(waitq[op[t].q], t) \in Seq(Tasks)
    BY <1>a, <1>b, SeqPush, Zenon DEF TypeOK
  <2> QED
    BY <1>12, <1>a, <1>b, <2>1, Zenon DEF WaitBlock, TypeOK, taskVars, chanVars, schedVars, Labels
<1>13. ASSUME NEW v \in BOOLEAN, ReadFinish(h, v) PROVE TypeOK'
  <2>1. pc' \in [Tasks -> Labels] /\ op' \in [Tasks -> Op] /\ slock' \in [Tasks -> Tasks \cup {None}]
    <3>1. CASE v /\ Remaining(op[t].msg.caps, op[t].buf) # 0
      BY <1>13, <1>e, <3>1, Zenon DEF ReadFinish, Labels
    <3>2. CASE ~ (v /\ Remaining(op[t].msg.caps, op[t].buf) # 0)
      BY <1>13, <1>d, <1>e, <3>2, Zenon DEF ReadFinish, Return, Labels
    <3> QED
      BY <3>1, <3>2, Zenon
  <2> QED
    BY <1>13, <1>a, <1>d, <2>1, Zenon DEF ReadFinish, TypeOK, chanVars, schedVars
<1>14. CASE ReadPutBack(h)
  <2>1. [op[t].msg EXCEPT !.caps = Remaining(op[t].msg.caps, op[t].buf)] \in Message
    BY <1>b, <1>c, <1>d DEF Message, Remaining
  <2>2. <<[op[t].msg EXCEPT !.caps = Remaining(op[t].msg.caps, op[t].buf)]>> \o queue[op[t].q] \in Seq(Message)
    BY <1>a, <1>b, <1>c, <1>d, <2>1, SeqPush, Zenon DEF TypeOK
  <2> QED
    BY <1>14, <1>a, <1>b, <1>c, <1>d, <2>2, Zenon DEF ReadPutBack, Return, TypeOK, taskVars, chanVars, schedVars, Labels
<1>15. CASE ScanRound(h)
  <2>1. Rotated(h) \in Seq(Tasks)
    BY <1>a, SeqPop, Zenon DEF TypeOK, IInv, RunQueues, Rotated
  <2>2. Rotated(h)[1] \in Tasks
    BY <1>a, SeqPop, ZenonT(30) DEF TypeOK, IInv, RunQueues, Rotated
  <2>3. scan \in [Harts -> Nat] /\ next \in [Harts -> Tasks] /\ Idle[h] \in Tasks
    BY <1>a, IpcAssumption, Zenon DEF TypeOK
  <2>4. runq' \in [Harts -> Seq(Tasks)]
    BY <1>15, <1>a, <2>1, Zenon DEF ScanRound, TypeOK
  <2>5. scan' \in [Harts -> Nat] /\ next' \in [Harts -> Tasks] /\ pc' \in [Tasks -> Labels]
    <3>1. CASE state[Rotated(h)[1]] = "Ready"
      BY <1>15, <1>e, <2>2, <2>3, <3>1 DEF ScanRound, Labels
    <3>2. CASE state[Rotated(h)[1]] # "Ready" /\ scan[h] + 1 = Len(runq[h])
      BY <1>15, <1>e, <2>3, <3>2, SMTT(30) DEF ScanRound, Labels
    <3>3. CASE state[Rotated(h)[1]] # "Ready" /\ scan[h] + 1 # Len(runq[h])
      BY <1>15, <1>e, <2>3, <3>3 DEF ScanRound, Labels
    <3> QED
      BY <3>1, <3>2, <3>3, Zenon
  <2> QED
    BY <1>15, <1>a, <2>4, <2>5, SMTT(30) DEF ScanRound, TypeOK, taskVars, chanVars
<1>16. CASE Switch(h)
  BY <1>16, <1>a, Zenon DEF Switch, TypeOK, taskVars, chanVars, schedVars, Labels
<1>17. CASE Timer(h)
  BY <1>17, <1>a, Zenon DEF Timer, TypeOK, taskVars, chanVars, schedVars, Labels
<1>18. CASE Exit(h)
  BY <1>18, <1>a, Zenon DEF Exit, TypeOK, taskVars, chanVars, schedVars, Labels
<1>19. CASE FaultKill(h)
  BY <1>19, <1>a, Zenon DEF FaultKill, TypeOK, taskVars, chanVars, schedVars, Labels
<1>20. CASE EnableNotifications(h)
  BY <1>20, <1>a, Zenon DEF EnableNotifications, TypeOK, taskVars, chanVars, schedVars, Labels
<1>21. ASSUME NEW q \in UserQueues, NEW n \in CapCounts, SendMessage(h, q, n) PROVE TypeOK'
  <2>1. [NoOp(t) EXCEPT !.q = q, !.caps = n] \in Op
    BY <1>d, IpcAssumption, Zenon DEF Op, UserQueues
  <2> QED
    BY <1>21, <1>a, <1>d, <2>1, SMTT(30) DEF SendMessage, TypeOK, taskVars, chanVars, schedVars, Labels
<1>22. ASSUME NEW q \in Queues, NEW b \in BufLens, NEW nb \in BOOLEAN, ReadMessage(h, q, b, nb) PROVE TypeOK'
  <2>1. [NoOp(t) EXCEPT !.q = q, !.buf = b, !.nonblocking = nb] \in Op
    BY <1>d, IpcAssumption, Zenon DEF Op
  <2> QED
    BY <1>22, <1>a, <1>d, <2>1, Zenon DEF ReadMessage, TypeOK, taskVars, chanVars, schedVars, Labels
<1>23. ASSUME NEW c \in Tasks, Spawn(h, c) PROVE TypeOK'
  <2>1. Append(runq[h], c) \in Seq(Tasks)
    BY <1>a, SeqPush, Zenon DEF TypeOK
  <2> QED
    BY <1>23, <1>a, <2>1, Zenon DEF Spawn, TypeOK, taskVars, chanVars, schedVars, Labels
<1>24. ASSUME NEW c \in Claimants, Interrupt(h, c) PROVE TypeOK'
  <2>1. [NoOp(t) EXCEPT !.q = KernelChannel[c]] \in Op
    BY <1>d, IpcAssumption, Zenon DEF Op, UserTasks
  <2> QED
    BY <1>24, <1>a, <1>d, <2>1, Zenon DEF Interrupt, TypeOK, taskVars, chanVars, schedVars, Labels
<1> QED
  BY Zenon, <1>1, <1>2, <1>3, <1>4, <1>5, <1>6, <1>7, <1>8, <1>9, <1>10, <1>11, <1>12,
     <1>13, <1>14, <1>15, <1>16, <1>17, <1>18, <1>19, <1>20, <1>21, <1>22, <1>23, <1>24 DEF Step, KernelStep, Syscall

\* rotate_left keeps the members of the run queue, push_back adds one.
LEMMA RotateMembers == ASSUME NEW S, NEW s \in Seq(S), s # <<>>
                       PROVE /\ Members(Append(Tail(s), Head(s))) = Members(s)
                             /\ Append(Tail(s), Head(s))[1] \in Members(s)
<1> DEFINE r == Append(Tail(s), Head(s))
<1>1. Len(r) = Len(s) /\ Len(s) \in Nat /\ Len(s) >= 1
  OBVIOUS
<1>2. r[Len(s)] = s[1]
  OBVIOUS
<1>3. \A i \in 1..(Len(s) - 1) : r[i] = s[i + 1]
  OBVIOUS
<1> HIDE DEF r
<1>4. ASSUME NEW i \in 1..Len(r) PROVE \E j \in 1..Len(s) : s[j] = r[i]
  <2>1. CASE i = Len(s)
    BY <1>1, <1>2, <1>4, <2>1
  <2>2. CASE i # Len(s)
    <3>1. i \in 1..(Len(s) - 1) /\ i + 1 \in 1..Len(s)
      BY <1>1, <2>2
    <3> QED
      BY <1>3, <1>4, <3>1, Zenon
  <2> QED
    BY <2>1, <2>2, Zenon
<1>5. ASSUME NEW i \in 1..Len(s) PROVE \E j \in 1..Len(r) : r[j] = s[i]
  <2>1. CASE i = 1
    BY <1>1, <1>2, <1>5, <2>1
  <2>2. CASE i # 1
    <3>1. i - 1 \in 1..(Len(s) - 1) /\ i - 1 \in 1..Len(r) /\ (i - 1) + 1 = i
      BY <1>1, <2>2
    <3> QED
      BY <1>3, <1>5, <3>1, Zenon
  <2> QED
    BY <2>1, <2>2, Zenon
<1>6. DOMAIN r = 1..Len(r) /\ DOMAIN s = 1..Len(s)
  BY DEF r
<1>7. Members(r) = Members(s)
  <2>1. \A x : x \in Members(r) <=> \E i \in 1..Len(r) : r[i] = x
    BY <1>6, Zenon DEF Members
  <2>2. \A x : x \in Members(s) <=> \E i \in 1..Len(s) : s[i] = x
    BY <1>6, Zenon DEF Members
  <2>3. \A x : x \in Members(r) <=> x \in Members(s)
    BY <1>4, <1>5, <2>1, <2>2, Zenon
  <2> QED
    BY <2>3, Zenon
<1>8. r[1] \in Members(r)
  BY <1>1, <1>6 DEF Members
<1> QED
  BY <1>7, <1>8, Zenon DEF r

\* The members of a run queue once a task is enqueued.
LEMMA AppendMembers == ASSUME NEW S, NEW s \in Seq(S), NEW c \in S
                       PROVE Members(Append(s, c)) = Members(s) \cup {c}
<1>1. Len(Append(s, c)) = Len(s) + 1 /\ Len(s) \in Nat
  OBVIOUS
<1>2. Append(s, c)[Len(s) + 1] = c /\ \A i \in 1..Len(s) : Append(s, c)[i] = s[i]
  OBVIOUS
<1>3. DOMAIN Append(s, c) = 1..Len(Append(s, c)) /\ DOMAIN s = 1..Len(s)
  OBVIOUS
<1> QED
  BY <1>1, <1>2, <1>3 DEF Members

\* A step inside the kernel changes neither the run queues nor the tasks that
\* other harts run.
LEMMA RunQueuesStay ==
    ASSUME IInv, NEW h \in Harts, NEW t \in Tasks, t = current[h],
           UNCHANGED <<runq, current, next>>,
           pc'[t] \notin {"out", "unborn"},
           \A u \in Tasks : u # t => pc'[u] = pc[u]
    PROVE  RunQueues'
<1>1. RunQueues /\ current \in [Harts -> Tasks]
  BY Zenon DEF IInv, TypeOK
<1>2. \A g \in Harts, u \in Tasks : u \in Members(runq'[g]) <=> u \in Members(runq[g])
  BY Zenon
<1>3. \A g \in Harts : /\ runq'[g] # <<>>
                       /\ current'[g] \in Members(runq'[g])
                       /\ next'[g] \in Members(runq'[g])
                       /\ Idle[g] \in Members(runq'[g])
  BY <1>1, <1>2, Zenon DEF RunQueues
<1>4. \A g \in Harts : pc'[current[g]] \notin {"out", "unborn"}
  BY <1>1, Zenon DEF RunQueues
<1>5. \A g \in Harts, u \in Tasks : u \in Members(runq'[g]) =>
          pc'[u] # "unborn" /\ (u # current[g] => pc'[u] = "out")
  <2> SUFFICES ASSUME NEW g \in Harts, NEW u \in Tasks, u \in Members(runq[g])
               PROVE pc'[u] # "unborn" /\ (u # current[g] => pc'[u] = "out")
    BY <1>2, Zenon
  <2>1. CASE u = t
    BY <1>1, <2>1, Zenon DEF RunQueues
  <2>2. CASE u # t
    BY <1>1, <2>2, Zenon DEF RunQueues
  <2> QED
    BY <2>1, <2>2, Zenon
<1> QED
  BY <1>1, <1>2, <1>3, <1>4, <1>5, Zenon DEF RunQueues

\* Every step keeps the run queues apart.
LEMMA RunQueuesStep == ASSUME IInv, NEW h \in Harts, NEW t \in Tasks, t = current[h], Step(h)
                       PROVE RunQueues'
<1>a. pc \in [Tasks -> Labels] /\ current \in [Harts -> Tasks] /\ runq \in [Harts -> Seq(Tasks)]
  BY Zenon DEF IInv, TypeOK
<1>b. RunQueues
  BY Zenon DEF IInv
<1> USE DEF Goto, At
<1>1. CASE SendLock(h)
  BY <1>1, <1>a, <1>b, RunQueuesStay, Zenon DEF SendLock, schedVars
<1>2. CASE SendNotify(h)
  BY <1>2, <1>a, <1>b, RunQueuesStay, Zenon DEF SendNotify, schedVars
<1>3. CASE NoteLock(h)
  BY <1>3, <1>a, <1>b, RunQueuesStay, Zenon DEF NoteLock, schedVars
<1>4. CASE NotePush(h)
  BY <1>4, <1>a, <1>b, RunQueuesStay, Zenon DEF NotePush, PushBack, schedVars
<1>5. CASE NoteReady(h)
  BY <1>5, <1>a, <1>b, RunQueuesStay, Zenon DEF NoteReady, MakeReady, schedVars
<1>6. CASE Push(h)
  BY <1>6, <1>a, <1>b, RunQueuesStay, ZenonT(30) DEF Push, PushBack, Return, schedVars
<1>7. CASE Ready(h)
  BY <1>7, <1>a, <1>b, RunQueuesStay, Zenon DEF Ready, MakeReady, Return, schedVars
<1>8. CASE RecvPop(h)
  BY <1>8, <1>a, <1>b, RunQueuesStay, Zenon DEF RecvPop, schedVars
<1>9. CASE TryRecvEmpty(h)
  BY <1>9, <1>a, <1>b, RunQueuesStay, Zenon DEF TryRecvEmpty, Return, schedVars
<1>10. CASE RecvEmpty(h)
  BY <1>10, <1>a, <1>b, RunQueuesStay, Zenon DEF RecvEmpty, schedVars
<1>11. CASE WaitLock(h)
  BY <1>11, <1>a, <1>b, RunQueuesStay, Zenon DEF WaitLock, schedVars
<1>12. CASE WaitBlock(h)
  BY <1>12, <1>a, <1>b, RunQueuesStay, Zenon DEF WaitBlock, schedVars
<1>13. ASSUME NEW v \in BOOLEAN, ReadFinish(h, v) PROVE RunQueues'
  BY <1>13, <1>a, <1>b, RunQueuesStay, SMTT(30) DEF ReadFinish, Return, schedVars
<1>14. CASE ReadPutBack(h)
  BY <1>14, <1>a, <1>b, RunQueuesStay, Zenon DEF ReadPutBack, Return, schedVars
<1>15. CASE ScanRound(h)
  <2>1. /\ runq'[h] = Append(Tail(runq[h]), Head(runq[h])) /\ runq[h] \in Seq(Tasks) /\ runq[h] # <<>>
        /\ \A g \in Harts : g # h => runq'[g] = runq[g]
        /\ Rotated(h) = runq'[h]
    BY <1>15, <1>a, <1>b, Zenon DEF ScanRound, Rotated, RunQueues
  <2>2. \A g \in Harts : runq'[g] # <<>>
    BY <1>b, <2>1, SeqPop DEF RunQueues
  <2>3. Members(runq'[h]) = Members(runq[h]) /\ Rotated(h)[1] \in Members(runq[h])
    BY <2>1, RotateMembers, Zenon
  <2>11. \A g \in Harts : Members(runq'[g]) = Members(runq[g])
    BY <2>1, <2>3, Zenon
  <2>4. next \in [Harts -> Tasks] /\ (next'[h] \in {next[h], Rotated(h)[1], Idle[h]})
        /\ \A g \in Harts : g # h => next'[g] = next[g]
    BY <1>15, Zenon DEF ScanRound, IInv, TypeOK
  <2>5. pc'[t] \in {"scan", "switch"} /\ \A u \in Tasks : u # t => pc'[u] = pc[u]
    BY <1>15, <1>a, Zenon DEF ScanRound
  <2>6. current' = current
    BY <1>15, Zenon DEF ScanRound
  <2>7. Rotated(h)[1] \in Tasks /\ Idle \in [Harts -> Tasks]
    BY <2>1, SeqPop, IpcAssumption, ZenonT(30)
  <2>8. \A g \in Harts : current'[g] \in Members(runq'[g]) /\ next'[g] \in Members(runq'[g]) /\ Idle[g] \in Members(runq'[g])
    BY <1>a, <1>b, <2>3, <2>4, <2>6, <2>7, <2>11, Zenon DEF RunQueues
  <2>9. \A g \in Harts : pc'[current'[g]] \notin {"out", "unborn"}
    BY <1>a, <1>b, <2>5, <2>6, Zenon DEF RunQueues
  <2>10. \A g \in Harts, u \in Tasks : u \in Members(runq'[g]) =>
            pc'[u] # "unborn" /\ (u # current'[g] => pc'[u] = "out")
    BY <1>a, <1>b, <2>11, <2>5, <2>6 DEF RunQueues
  <2> QED
    BY <1>b, <2>11, <2>2, <2>8, <2>9, <2>10, Zenon DEF RunQueues
<1>16. CASE Switch(h)
  <2> DEFINE to == next[h]
  <2>1. /\ to \in Tasks /\ to \in Members(runq[h]) /\ runq' = runq /\ next' = next
        /\ current' = [current EXCEPT ![h] = to]
        /\ pc' = [pc EXCEPT ![t] = "out", ![to] = ret[to]]
        /\ ret[to] \in {"user", "recv", "unreachable"}
    BY <1>16, <1>b, Zenon DEF Switch, RunQueues, IInv, TypeOK
  <2> HIDE DEF to
  <2>2. \A g \in Harts, u \in Tasks : u \in Members(runq'[g]) <=> u \in Members(runq[g])
    BY <2>1, Zenon
  <2>3. \A g \in Harts : current'[g] \in Members(runq'[g]) /\ next'[g] \in Members(runq'[g]) /\ Idle[g] \in Members(runq'[g])
    BY <1>a, <1>b, <2>1, Zenon DEF RunQueues
  <2>4. \A g \in Harts : pc'[current'[g]] \notin {"out", "unborn"}
    <3> SUFFICES ASSUME NEW g \in Harts PROVE pc'[current'[g]] \notin {"out", "unborn"}
      BY Zenon
    <3>1. CASE g = h
      BY <1>a, <2>1, <3>1, Zenon
    <3>2. CASE g # h
      <4>1. current[g] # t /\ current[g] # to
        BY <1>a, <1>b, <2>1, <3>2, Zenon DEF RunQueues
      <4> QED
        BY <1>a, <1>b, <2>1, <3>2, <4>1, Zenon DEF RunQueues
    <3> QED
      BY <3>1, <3>2, Zenon
  <2>5. \A g \in Harts, u \in Tasks : u \in Members(runq'[g]) =>
            pc'[u] # "unborn" /\ (u # current'[g] => pc'[u] = "out")
    <3> SUFFICES ASSUME NEW g \in Harts, NEW u \in Tasks, u \in Members(runq[g])
                 PROVE pc'[u] # "unborn" /\ (u # current'[g] => pc'[u] = "out")
      BY <2>2, Zenon
    <3>1. CASE u = to
      BY <1>a, <1>b, <2>1, <3>1, Zenon DEF RunQueues
    <3>2. CASE u = t /\ u # to
      BY <1>a, <2>1, <3>2, Zenon
    <3>3. CASE u # t /\ u # to
      BY <1>a, <1>b, <2>1, <3>3 DEF RunQueues
    <3> QED
      BY <3>1, <3>2, <3>3, Zenon
  <2> QED
    BY <1>b, <2>1, <2>2, <2>3, <2>4, <2>5, Zenon DEF RunQueues
<1>17. CASE Timer(h)
  BY <1>17, <1>a, <1>b, RunQueuesStay, Zenon DEF Timer, schedVars
<1>18. CASE Exit(h)
  BY <1>18, <1>a, <1>b, RunQueuesStay, Zenon DEF Exit, schedVars
<1>19. CASE FaultKill(h)
  BY <1>19, <1>a, <1>b, RunQueuesStay, Zenon DEF FaultKill, schedVars
<1>20. CASE EnableNotifications(h)
  BY <1>20, <1>a, <1>b, RunQueuesStay, Zenon DEF EnableNotifications, schedVars, RunQueues
<1>21. ASSUME NEW q \in UserQueues, NEW n \in CapCounts, SendMessage(h, q, n) PROVE RunQueues'
  BY <1>21, <1>a, <1>b, RunQueuesStay, Zenon DEF SendMessage, schedVars
<1>22. ASSUME NEW q \in Queues, NEW b \in BufLens, NEW nb \in BOOLEAN, ReadMessage(h, q, b, nb) PROVE RunQueues'
  BY <1>22, <1>a, <1>b, RunQueuesStay, Zenon DEF ReadMessage, schedVars
<1>23. ASSUME NEW c \in Tasks, Spawn(h, c) PROVE RunQueues'
  <2>1. /\ runq'[h] = Append(runq[h], c) /\ \A g \in Harts : g # h => runq'[g] = runq[g]
        /\ current' = current /\ next' = next /\ pc[c] = "unborn"
        /\ pc' = [pc EXCEPT ![c] = "out"]
    BY <1>23, <1>a, Zenon DEF Spawn
  <2>2. \A g \in Harts, u \in Tasks : u \in Members(runq'[g]) <=> u \in Members(runq[g]) \/ (g = h /\ u = c)
    <3> SUFFICES ASSUME NEW g \in Harts, NEW u \in Tasks
                 PROVE u \in Members(runq'[g]) <=> u \in Members(runq[g]) \/ (g = h /\ u = c)
      BY Zenon
    <3>1. CASE g = h
      <4>1. runq[h] \in Seq(Tasks)
        BY <1>a, Zenon
      <4>2. Members(runq'[h]) = Members(runq[h]) \cup {c}
        BY <2>1, <4>1, AppendMembers
      <4> QED
        BY <3>1, <4>2, Zenon
    <3>2. CASE g # h
      BY <2>1, <3>2, Zenon
    <3> QED
      BY <3>1, <3>2, Zenon
  <2>3. \A g \in Harts : runq'[g] # <<>>
    BY <1>a, <1>b, <2>1 DEF RunQueues
  <2>4. next \in [Harts -> Tasks] /\ Idle \in [Harts -> Tasks]
    BY IpcAssumption, Zenon DEF IInv, TypeOK
  <2>5. \A g \in Harts : current'[g] \in Members(runq'[g]) /\ next'[g] \in Members(runq'[g]) /\ Idle[g] \in Members(runq'[g])
    <3>1. \A g \in Harts, u \in Tasks : u \in Members(runq[g]) => u \in Members(runq'[g])
      BY <2>2, Zenon
    <3> QED
      BY <1>a, <1>b, <2>1, <2>4, <3>1, Zenon DEF RunQueues
  <2>6. \A g \in Harts : ~ c \in Members(runq[g])
    BY <1>b, <2>1, Zenon DEF RunQueues
  <2>7. \A g \in Harts : pc'[current'[g]] \notin {"out", "unborn"}
    BY <1>a, <1>b, <2>1, <2>6, Zenon DEF RunQueues
  <2>8. \A g \in Harts, u \in Tasks : u \in Members(runq'[g]) =>
            pc'[u] # "unborn" /\ (u # current'[g] => pc'[u] = "out")
    BY <1>a, <1>b, <2>1, <2>2, <2>6 DEF RunQueues
  <2>9. \A f, g \in Harts, u \in Tasks : u \in Members(runq'[f]) /\ u \in Members(runq'[g]) => f = g
    BY <1>b, <2>2, <2>6 DEF RunQueues
  <2> QED
    BY <2>1, <2>3, <2>5, <2>7, <2>8, <2>9, Zenon DEF RunQueues
<1>24. ASSUME NEW c \in Claimants, Interrupt(h, c) PROVE RunQueues'
  BY <1>24, <1>a, <1>b, RunQueuesStay, Zenon DEF Interrupt, schedVars
<1> QED
  BY Zenon, <1>1, <1>2, <1>3, <1>4, <1>5, <1>6, <1>7, <1>8, <1>9, <1>10, <1>11, <1>12,
     <1>13, <1>14, <1>15, <1>16, <1>17, <1>18, <1>19, <1>20, <1>21, <1>22, <1>23, <1>24 DEF Step, KernelStep, Syscall

-----------------------------------------------------------------------------
(* Every step keeps the Locks part of the invariant. *)

\* The queue t holds `inner` of, the queue t holds the wait queue lock of, and
\* the task whose state lock t holds.
HoldsInner(t, q) ==
    \/ pc[t] \in SendHolds \cup WaitHolds /\ op[t].q = q
    \/ pc[t] \in NoteHolds /\ NotifyQueue(t) = q
HoldsWait(t, q) ==
    \/ pc[t] \in {"ready", "block"} /\ op[t].q = q
    \/ pc[t] = "noteready" /\ NotifyQueue(t) = q
HoldsState(t, u) == u = t /\ pc[t] = "putback"

\* A step in which t alone takes or releases locks keeps Locks: a lock changes
\* from free to t, or from free or t to free, as the labels of t do.
LEMMA LocksMove ==
    ASSUME IInv, NEW t \in Tasks,
           \A u \in Tasks : u # t => pc'[u] = pc[u] /\ op'[u] = op[u],
           \A q \in Queues :
               \/ inner'[q] = inner[q] /\ (HoldsInner(t, q)' <=> HoldsInner(t, q))
               \/ inner[q] \in {None, t} /\ inner'[q] = None /\ ~ HoldsInner(t, q)'
               \/ inner[q] = None /\ inner'[q] = t /\ HoldsInner(t, q)',
           \A q \in Queues :
               \/ wqlock'[q] = wqlock[q] /\ (HoldsWait(t, q)' <=> HoldsWait(t, q))
               \/ wqlock[q] \in {None, t} /\ wqlock'[q] = None /\ ~ HoldsWait(t, q)'
               \/ wqlock[q] = None /\ wqlock'[q] = t /\ HoldsWait(t, q)',
           \A u \in Tasks :
               \/ slock'[u] = slock[u] /\ (HoldsState(t, u)' <=> HoldsState(t, u))
               \/ slock[u] \in {None, t} /\ slock'[u] = None /\ ~ HoldsState(t, u)'
               \/ slock[u] = None /\ slock'[u] = t /\ HoldsState(t, u)',
           pc'[t] \in {"notify", "note"} \cup NoteHolds => op'[t].q \in UserQueues
    PROVE  Locks'
<1>1. /\ \A u \in Tasks, q \in Queues : inner[q] = u <=> HoldsInner(u, q)
      /\ \A u \in Tasks, q \in Queues : wqlock[q] = u <=> HoldsWait(u, q)
      /\ \A u, v \in Tasks : slock[v] = u <=> HoldsState(u, v)
      /\ \A u \in Tasks : pc[u] \in {"notify", "note"} \cup NoteHolds => op[u].q \in UserQueues
  BY Zenon DEF IInv, Locks, HoldsInner, HoldsWait, HoldsState
<1>2. \A u \in Tasks : u # t => NotifyQueue(u)' = NotifyQueue(u)
  BY Zenon DEF NotifyQueue
<1>3. /\ \A u \in Tasks, q \in Queues : u # t => (HoldsInner(u, q)' <=> HoldsInner(u, q))
      /\ \A u \in Tasks, q \in Queues : u # t => (HoldsWait(u, q)' <=> HoldsWait(u, q))
      /\ \A u, v \in Tasks : u # t => (HoldsState(u, v)' <=> HoldsState(u, v))
  BY <1>2, Zenon DEF HoldsInner, HoldsWait, HoldsState
<1>4. None \notin Tasks
  BY IpcAssumption, Zenon
<1>5. ASSUME NEW u \in Tasks, NEW q \in Queues PROVE inner'[q] = u <=> HoldsInner(u, q)'
  <2>1. inner[q] = u <=> HoldsInner(u, q)
    BY <1>1, Zenon
  <2>2. u # t => (HoldsInner(u, q)' <=> HoldsInner(u, q))
    BY <1>3, Zenon
  <2> QED
    BY <1>4, <2>1, <2>2, Zenon
<1>6. ASSUME NEW u \in Tasks, NEW q \in Queues PROVE wqlock'[q] = u <=> HoldsWait(u, q)'
  <2>1. wqlock[q] = u <=> HoldsWait(u, q)
    BY <1>1, Zenon
  <2>2. u # t => (HoldsWait(u, q)' <=> HoldsWait(u, q))
    BY <1>3, Zenon
  <2> QED
    BY <1>4, <2>1, <2>2, Zenon
<1>7. ASSUME NEW u \in Tasks, NEW v \in Tasks PROVE slock'[v] = u <=> HoldsState(u, v)'
  <2>1. slock[v] = u <=> HoldsState(u, v)
    BY <1>1, Zenon
  <2>2. u # t => (HoldsState(u, v)' <=> HoldsState(u, v))
    BY <1>3, Zenon
  <2> QED
    BY <1>4, <2>1, <2>2, Zenon
<1>8. \A u \in Tasks : pc'[u] \in {"notify", "note"} \cup NoteHolds => op'[u].q \in UserQueues
  BY <1>1, Zenon
<1> QED
  BY <1>5, <1>6, <1>7, <1>8, Zenon DEF Locks, HoldsInner, HoldsWait, HoldsState

\* A step that touches no lock keeps Locks if the tasks it moves hold none,
\* before and after.
LEMMA LocksStay ==
    ASSUME IInv, UNCHANGED <<inner, wqlock, slock>>,
           \A u \in Tasks :
               \/ pc'[u] = pc[u] /\ op'[u] = op[u]
               \/ /\ pc[u] \notin SendHolds \cup WaitHolds \cup {"putback"}
                  /\ pc'[u] \notin SendHolds \cup WaitHolds \cup {"putback"}
    PROVE  Locks'
<1>1. Locks
  BY Zenon DEF IInv
<1>2. \A u \in Tasks : op'[u] = op[u] => NotifyQueue(u)' = NotifyQueue(u)
  BY Zenon DEF NotifyQueue
<1>3. \A u \in Tasks, q \in Queues : inner[q] = u <=>
          \/ pc'[u] \in SendHolds \cup WaitHolds /\ op'[u].q = q
          \/ pc'[u] \in NoteHolds /\ NotifyQueue(u)' = q
  BY <1>1, <1>2 DEF Locks, NoteHolds, SendHolds, WaitHolds
<1>4. \A u \in Tasks, q \in Queues : wqlock[q] = u <=>
          \/ pc'[u] \in {"ready", "block"} /\ op'[u].q = q
          \/ pc'[u] = "noteready" /\ NotifyQueue(u)' = q
  BY <1>1, <1>2 DEF Locks, SendHolds, WaitHolds
<1>5. \A t, u \in Tasks : slock[u] = t <=> u = t /\ pc'[t] = "putback"
  BY <1>1, Zenon DEF Locks
<1>6. \A u \in Tasks : pc'[u] \in {"notify", "note"} \cup NoteHolds => op'[u].q \in UserQueues
  BY <1>1, Zenon DEF Locks, NoteHolds, SendHolds
<1> QED
  BY <1>3, <1>4, <1>5, <1>6 DEF Locks

\* Every step keeps the locks with the tasks whose labels say so.
LEMMA LocksStep == ASSUME IInv, NEW h \in Harts, NEW t \in Tasks, t = current[h], Step(h)
                   PROVE Locks'
<1>a. /\ pc \in [Tasks -> Labels]
      /\ inner \in [Queues -> Tasks \cup {None}]
      /\ wqlock \in [Queues -> Tasks \cup {None}]
      /\ slock \in [Tasks -> Tasks \cup {None}]
  BY Zenon DEF IInv, TypeOK
<1>b. op[t].q \in Queues /\ DOMAIN op = Tasks
  BY Zenon DEF IInv, TypeOK, Op
<1>c. pc[t] \in {"notify", "note"} \cup NoteHolds =>
          /\ op[t].q \in UserQueues
          /\ NotifyQueue(t) \in Queues
          /\ NotifyQueue(t) # op[t].q
  <2> SUFFICES ASSUME pc[t] \in {"notify", "note"} \cup NoteHolds
               PROVE  /\ op[t].q \in UserQueues
                      /\ NotifyQueue(t) \in Queues
                      /\ NotifyQueue(t) # op[t].q
    BY Zenon
  <2>1. op[t].q \in UserQueues
    BY Zenon DEF IInv, Locks
  <2>2. Owner[op[t].q] \in Tasks
    BY <2>1, IpcAssumption, Zenon DEF UserQueues
  <2> QED
    BY <2>1, <2>2, IpcAssumption, Zenon DEF UserQueues, NotifyQueue
<1>d. /\ pc[t] \in SendHolds \cup WaitHolds => inner[op[t].q] = t
      /\ pc[t] \in NoteHolds => inner[NotifyQueue(t)] = t
      /\ pc[t] \in {"ready", "block"} => wqlock[op[t].q] = t
      /\ pc[t] = "noteready" => wqlock[NotifyQueue(t)] = t
      /\ pc[t] = "putback" => slock[t] = t
  BY <1>b, <1>c DEF IInv, Locks, NoteHolds
<1> USE DEF Goto, At
<1>1. CASE SendLock(h)
  <2>1. /\ pc[t] = "send" /\ pc'[t] = (IF op[t].q \in UserQueues THEN "notify" ELSE "push")
        /\ op'[t] = op[t] /\ NotifyQueue(t)' = NotifyQueue(t)
        /\ \A q \in Queues : inner'[q] = IF q = op[t].q THEN t ELSE inner[q]
        /\ wqlock' = wqlock
        /\ slock' = slock
        /\ inner[op[t].q] = None
    BY <1>1, <1>a, <1>b, <1>c, Zenon DEF SendLock, NoteHolds, NotifyQueue, taskVars, chanVars
  <2>2. \A u \in Tasks : u # t => pc'[u] = pc[u] /\ op'[u] = op[u]
    BY <1>1, <1>a, <1>b, Zenon DEF SendLock, taskVars, chanVars
  <2>3. \A q \in Queues :
            \/ inner'[q] = inner[q] /\ (HoldsInner(t, q)' <=> HoldsInner(t, q))
            \/ inner[q] \in {None, t} /\ inner'[q] = None /\ ~ HoldsInner(t, q)'
            \/ inner[q] = None /\ inner'[q] = t /\ HoldsInner(t, q)'
    BY <1>d, <2>1, Zenon DEF HoldsInner, SendHolds, WaitHolds, NoteHolds
  <2>4. \A q \in Queues :
            \/ wqlock'[q] = wqlock[q] /\ (HoldsWait(t, q)' <=> HoldsWait(t, q))
            \/ wqlock[q] \in {None, t} /\ wqlock'[q] = None /\ ~ HoldsWait(t, q)'
            \/ wqlock[q] = None /\ wqlock'[q] = t /\ HoldsWait(t, q)'
    BY <1>d, <2>1, Zenon DEF HoldsWait
  <2>5. \A u \in Tasks :
            \/ slock'[u] = slock[u] /\ (HoldsState(t, u)' <=> HoldsState(t, u))
            \/ slock[u] \in {None, t} /\ slock'[u] = None /\ ~ HoldsState(t, u)'
            \/ slock[u] = None /\ slock'[u] = t /\ HoldsState(t, u)'
    BY <1>d, <2>1, Zenon DEF HoldsState
  <2>6. pc'[t] \in {"notify", "note"} \cup NoteHolds => op'[t].q \in UserQueues
    BY <1>c, <2>1, Zenon DEF NoteHolds
  <2> QED
    BY <2>2, <2>3, <2>4, <2>5, <2>6, LocksMove, Zenon
<1>2. CASE SendNotify(h)
  <2>1. /\ pc[t] = "notify" /\ pc'[t] \in {"note", "push"}
        /\ op'[t] = op[t] /\ NotifyQueue(t)' = NotifyQueue(t)
        /\ inner' = inner
        /\ wqlock' = wqlock
        /\ slock' = slock
    BY <1>2, <1>a, <1>b, <1>c, Zenon DEF SendNotify, NoteHolds, NotifyQueue, taskVars, chanVars
  <2>2. \A u \in Tasks : u # t => pc'[u] = pc[u] /\ op'[u] = op[u]
    BY <1>2, <1>a, <1>b, Zenon DEF SendNotify, taskVars, chanVars
  <2>3. \A q \in Queues :
            \/ inner'[q] = inner[q] /\ (HoldsInner(t, q)' <=> HoldsInner(t, q))
            \/ inner[q] \in {None, t} /\ inner'[q] = None /\ ~ HoldsInner(t, q)'
            \/ inner[q] = None /\ inner'[q] = t /\ HoldsInner(t, q)'
    BY <1>d, <2>1, Zenon DEF HoldsInner, SendHolds, WaitHolds, NoteHolds
  <2>4. \A q \in Queues :
            \/ wqlock'[q] = wqlock[q] /\ (HoldsWait(t, q)' <=> HoldsWait(t, q))
            \/ wqlock[q] \in {None, t} /\ wqlock'[q] = None /\ ~ HoldsWait(t, q)'
            \/ wqlock[q] = None /\ wqlock'[q] = t /\ HoldsWait(t, q)'
    BY <1>d, <2>1, Zenon DEF HoldsWait
  <2>5. \A u \in Tasks :
            \/ slock'[u] = slock[u] /\ (HoldsState(t, u)' <=> HoldsState(t, u))
            \/ slock[u] \in {None, t} /\ slock'[u] = None /\ ~ HoldsState(t, u)'
            \/ slock[u] = None /\ slock'[u] = t /\ HoldsState(t, u)'
    BY <1>d, <2>1, Zenon DEF HoldsState
  <2>6. pc'[t] \in {"notify", "note"} \cup NoteHolds => op'[t].q \in UserQueues
    BY <1>c, <2>1, Zenon DEF NoteHolds
  <2> QED
    BY <2>2, <2>3, <2>4, <2>5, <2>6, LocksMove, Zenon
<1>3. CASE NoteLock(h)
  <2>1. /\ pc[t] = "note" /\ pc'[t] = "notepush"
        /\ op'[t] = op[t] /\ NotifyQueue(t)' = NotifyQueue(t)
        /\ \A q \in Queues : inner'[q] = IF q = NotifyQueue(t) THEN t ELSE inner[q]
        /\ wqlock' = wqlock
        /\ slock' = slock
        /\ inner[NotifyQueue(t)] = None /\ NotifyQueue(t) # op[t].q
    BY <1>3, <1>a, <1>b, <1>c, Zenon DEF NoteLock, NoteHolds, NotifyQueue, taskVars, chanVars
  <2>2. \A u \in Tasks : u # t => pc'[u] = pc[u] /\ op'[u] = op[u]
    BY <1>3, <1>a, <1>b, Zenon DEF NoteLock, taskVars, chanVars
  <2>3. \A q \in Queues :
            \/ inner'[q] = inner[q] /\ (HoldsInner(t, q)' <=> HoldsInner(t, q))
            \/ inner[q] \in {None, t} /\ inner'[q] = None /\ ~ HoldsInner(t, q)'
            \/ inner[q] = None /\ inner'[q] = t /\ HoldsInner(t, q)'
    BY <1>d, <2>1, Zenon DEF HoldsInner, SendHolds, WaitHolds, NoteHolds
  <2>4. \A q \in Queues :
            \/ wqlock'[q] = wqlock[q] /\ (HoldsWait(t, q)' <=> HoldsWait(t, q))
            \/ wqlock[q] \in {None, t} /\ wqlock'[q] = None /\ ~ HoldsWait(t, q)'
            \/ wqlock[q] = None /\ wqlock'[q] = t /\ HoldsWait(t, q)'
    BY <1>d, <2>1, Zenon DEF HoldsWait
  <2>5. \A u \in Tasks :
            \/ slock'[u] = slock[u] /\ (HoldsState(t, u)' <=> HoldsState(t, u))
            \/ slock[u] \in {None, t} /\ slock'[u] = None /\ ~ HoldsState(t, u)'
            \/ slock[u] = None /\ slock'[u] = t /\ HoldsState(t, u)'
    BY <1>d, <2>1, Zenon DEF HoldsState
  <2>6. pc'[t] \in {"notify", "note"} \cup NoteHolds => op'[t].q \in UserQueues
    BY <1>c, <2>1, Zenon DEF NoteHolds
  <2> QED
    BY <2>2, <2>3, <2>4, <2>5, <2>6, LocksMove, Zenon
<1>4. CASE NotePush(h)
  <2>1. /\ pc[t] = "notepush" /\ slock' = slock
        /\ op'[t] = op[t] /\ NotifyQueue(t)' = NotifyQueue(t)
        /\ wqlock[NotifyQueue(t)] = None /\ NotifyQueue(t) # op[t].q
        /\ \/ /\ pc'[t] = "push" /\ wqlock' = wqlock
              /\ \A q \in Queues : inner'[q] = IF q = NotifyQueue(t) THEN None ELSE inner[q]
           \/ /\ pc'[t] = "noteready" /\ inner' = inner
              /\ \A q \in Queues : wqlock'[q] = IF q = NotifyQueue(t) THEN t ELSE wqlock[q]
    BY <1>4, <1>a, <1>b, <1>c, Zenon DEF NotePush, PushBack, NoteHolds, NotifyQueue, taskVars, chanVars
  <2>2. \A u \in Tasks : u # t => pc'[u] = pc[u] /\ op'[u] = op[u]
    BY <1>4, <1>a, <1>b, Zenon DEF NotePush, PushBack, taskVars, chanVars
  <2>3. \A q \in Queues :
            \/ inner'[q] = inner[q] /\ (HoldsInner(t, q)' <=> HoldsInner(t, q))
            \/ inner[q] \in {None, t} /\ inner'[q] = None /\ ~ HoldsInner(t, q)'
            \/ inner[q] = None /\ inner'[q] = t /\ HoldsInner(t, q)'
    BY <1>d, <2>1, Zenon DEF HoldsInner, SendHolds, WaitHolds, NoteHolds
  <2>4. \A q \in Queues :
            \/ wqlock'[q] = wqlock[q] /\ (HoldsWait(t, q)' <=> HoldsWait(t, q))
            \/ wqlock[q] \in {None, t} /\ wqlock'[q] = None /\ ~ HoldsWait(t, q)'
            \/ wqlock[q] = None /\ wqlock'[q] = t /\ HoldsWait(t, q)'
    BY <1>d, <2>1, Zenon DEF HoldsWait
  <2>5. \A u \in Tasks :
            \/ slock'[u] = slock[u] /\ (HoldsState(t, u)' <=> HoldsState(t, u))
            \/ slock[u] \in {None, t} /\ slock'[u] = None /\ ~ HoldsState(t, u)'
            \/ slock[u] = None /\ slock'[u] = t /\ HoldsState(t, u)'
    BY <1>d, <2>1, Zenon DEF HoldsState
  <2>6. pc'[t] \in {"notify", "note"} \cup NoteHolds => op'[t].q \in UserQueues
    BY <1>c, <2>1, Zenon DEF NoteHolds
  <2> QED
    BY <2>2, <2>3, <2>4, <2>5, <2>6, LocksMove, Zenon
<1>5. CASE NoteReady(h)
  <2>1. /\ pc[t] = "noteready" /\ pc'[t] = "push"
        /\ op'[t] = op[t] /\ NotifyQueue(t)' = NotifyQueue(t)
        /\ \A q \in Queues : inner'[q] = IF q = NotifyQueue(t) THEN None ELSE inner[q]
        /\ \A q \in Queues : wqlock'[q] = IF q = NotifyQueue(t) THEN None ELSE wqlock[q]
        /\ slock' = slock
        /\ NotifyQueue(t) # op[t].q
    BY <1>5, <1>a, <1>b, <1>c, ZenonT(30) DEF NoteReady, MakeReady, NoteHolds, NotifyQueue, taskVars, chanVars
  <2>2. \A u \in Tasks : u # t => pc'[u] = pc[u] /\ op'[u] = op[u]
    BY <1>5, <1>a, <1>b, Zenon DEF NoteReady, MakeReady, taskVars, chanVars
  <2>3. \A q \in Queues :
            \/ inner'[q] = inner[q] /\ (HoldsInner(t, q)' <=> HoldsInner(t, q))
            \/ inner[q] \in {None, t} /\ inner'[q] = None /\ ~ HoldsInner(t, q)'
            \/ inner[q] = None /\ inner'[q] = t /\ HoldsInner(t, q)'
    BY <1>d, <2>1, Zenon DEF HoldsInner, SendHolds, WaitHolds, NoteHolds
  <2>4. \A q \in Queues :
            \/ wqlock'[q] = wqlock[q] /\ (HoldsWait(t, q)' <=> HoldsWait(t, q))
            \/ wqlock[q] \in {None, t} /\ wqlock'[q] = None /\ ~ HoldsWait(t, q)'
            \/ wqlock[q] = None /\ wqlock'[q] = t /\ HoldsWait(t, q)'
    BY <1>d, <2>1, Zenon DEF HoldsWait
  <2>5. \A u \in Tasks :
            \/ slock'[u] = slock[u] /\ (HoldsState(t, u)' <=> HoldsState(t, u))
            \/ slock[u] \in {None, t} /\ slock'[u] = None /\ ~ HoldsState(t, u)'
            \/ slock[u] = None /\ slock'[u] = t /\ HoldsState(t, u)'
    BY <1>d, <2>1, Zenon DEF HoldsState
  <2>6. pc'[t] \in {"notify", "note"} \cup NoteHolds => op'[t].q \in UserQueues
    BY <1>c, <2>1, Zenon DEF NoteHolds
  <2> QED
    BY <2>2, <2>3, <2>4, <2>5, <2>6, LocksMove, Zenon
<1>6. CASE Push(h)
  <2>1. /\ pc[t] = "push" /\ slock' = slock /\ wqlock[op[t].q] = None
        /\ \/ /\ pc'[t] = "user" /\ wqlock' = wqlock
              /\ \A q \in Queues : inner'[q] = IF q = op[t].q THEN None ELSE inner[q]
           \/ /\ pc'[t] = "ready" /\ inner' = inner
              /\ op'[t] = op[t] /\ NotifyQueue(t)' = NotifyQueue(t)
              /\ \A q \in Queues : wqlock'[q] = IF q = op[t].q THEN t ELSE wqlock[q]
    BY <1>6, <1>a, <1>b, <1>c, Zenon DEF Push, PushBack, Return, NoteHolds, NotifyQueue, taskVars, chanVars
  <2>2. \A u \in Tasks : u # t => pc'[u] = pc[u] /\ op'[u] = op[u]
    BY <1>6, <1>a, <1>b, Zenon DEF Push, PushBack, Return, taskVars, chanVars
  <2>3. \A q \in Queues :
            \/ inner'[q] = inner[q] /\ (HoldsInner(t, q)' <=> HoldsInner(t, q))
            \/ inner[q] \in {None, t} /\ inner'[q] = None /\ ~ HoldsInner(t, q)'
            \/ inner[q] = None /\ inner'[q] = t /\ HoldsInner(t, q)'
    BY <1>d, <2>1, Zenon DEF HoldsInner, SendHolds, WaitHolds, NoteHolds
  <2>4. \A q \in Queues :
            \/ wqlock'[q] = wqlock[q] /\ (HoldsWait(t, q)' <=> HoldsWait(t, q))
            \/ wqlock[q] \in {None, t} /\ wqlock'[q] = None /\ ~ HoldsWait(t, q)'
            \/ wqlock[q] = None /\ wqlock'[q] = t /\ HoldsWait(t, q)'
    BY <1>d, <2>1, Zenon DEF HoldsWait
  <2>5. \A u \in Tasks :
            \/ slock'[u] = slock[u] /\ (HoldsState(t, u)' <=> HoldsState(t, u))
            \/ slock[u] \in {None, t} /\ slock'[u] = None /\ ~ HoldsState(t, u)'
            \/ slock[u] = None /\ slock'[u] = t /\ HoldsState(t, u)'
    BY <1>d, <2>1, Zenon DEF HoldsState
  <2>6. pc'[t] \in {"notify", "note"} \cup NoteHolds => op'[t].q \in UserQueues
    BY <1>c, <2>1, Zenon DEF NoteHolds
  <2> QED
    BY <2>2, <2>3, <2>4, <2>5, <2>6, LocksMove, Zenon
<1>7. CASE Ready(h)
  <2>1. /\ pc[t] = "ready" /\ pc'[t] = "user"
        /\ \A q \in Queues : inner'[q] = IF q = op[t].q THEN None ELSE inner[q]
        /\ \A q \in Queues : wqlock'[q] = IF q = op[t].q THEN None ELSE wqlock[q]
        /\ slock' = slock
    BY <1>7, <1>a, <1>b, <1>c, Zenon DEF Ready, MakeReady, Return, NoteHolds, NotifyQueue, taskVars, chanVars
  <2>2. \A u \in Tasks : u # t => pc'[u] = pc[u] /\ op'[u] = op[u]
    BY <1>7, <1>a, <1>b, Zenon DEF Ready, MakeReady, Return, taskVars, chanVars
  <2>3. \A q \in Queues :
            \/ inner'[q] = inner[q] /\ (HoldsInner(t, q)' <=> HoldsInner(t, q))
            \/ inner[q] \in {None, t} /\ inner'[q] = None /\ ~ HoldsInner(t, q)'
            \/ inner[q] = None /\ inner'[q] = t /\ HoldsInner(t, q)'
    BY <1>d, <2>1, Zenon DEF HoldsInner, SendHolds, WaitHolds, NoteHolds
  <2>4. \A q \in Queues :
            \/ wqlock'[q] = wqlock[q] /\ (HoldsWait(t, q)' <=> HoldsWait(t, q))
            \/ wqlock[q] \in {None, t} /\ wqlock'[q] = None /\ ~ HoldsWait(t, q)'
            \/ wqlock[q] = None /\ wqlock'[q] = t /\ HoldsWait(t, q)'
    BY <1>d, <2>1, Zenon DEF HoldsWait
  <2>5. \A u \in Tasks :
            \/ slock'[u] = slock[u] /\ (HoldsState(t, u)' <=> HoldsState(t, u))
            \/ slock[u] \in {None, t} /\ slock'[u] = None /\ ~ HoldsState(t, u)'
            \/ slock[u] = None /\ slock'[u] = t /\ HoldsState(t, u)'
    BY <1>d, <2>1, Zenon DEF HoldsState
  <2>6. pc'[t] \in {"notify", "note"} \cup NoteHolds => op'[t].q \in UserQueues
    BY <1>c, <2>1, Zenon DEF NoteHolds
  <2> QED
    BY <2>2, <2>3, <2>4, <2>5, <2>6, LocksMove, Zenon
<1>8. CASE RecvPop(h)
  <2>1. /\ UNCHANGED <<inner, wqlock, slock>>
        /\ \A u \in Tasks :
               \/ pc'[u] = pc[u] /\ op'[u] = op[u]
               \/ /\ pc[u] \in {"user", "recv", "scan", "unborn"}
                  /\ pc'[u] \in {"user", "recv", "got", "scan", "switch", "send", "out"}
    BY <1>8, <1>a, <1>b, Zenon DEF RecvPop, taskVars, chanVars
  <2> QED
    BY <2>1, LocksStay, Zenon DEF SendHolds, WaitHolds
<1>9. CASE TryRecvEmpty(h)
  <2>1. /\ UNCHANGED <<inner, wqlock, slock>>
        /\ \A u \in Tasks :
               \/ pc'[u] = pc[u] /\ op'[u] = op[u]
               \/ /\ pc[u] \in {"user", "recv", "scan", "unborn"}
                  /\ pc'[u] \in {"user", "recv", "got", "scan", "switch", "send", "out"}
    BY <1>9, <1>a, <1>b, Zenon DEF TryRecvEmpty, Return, taskVars, chanVars
  <2> QED
    BY <2>1, LocksStay, Zenon DEF SendHolds, WaitHolds
<1>10. CASE RecvEmpty(h)
  <2>1. /\ pc[t] = "recv" /\ pc'[t] = "wait"
        /\ op'[t] = op[t] /\ NotifyQueue(t)' = NotifyQueue(t)
        /\ \A q \in Queues : inner'[q] = IF q = op[t].q THEN t ELSE inner[q]
        /\ wqlock' = wqlock
        /\ slock' = slock
        /\ inner[op[t].q] = None
    BY <1>10, <1>a, <1>b, <1>c, Zenon DEF RecvEmpty, NoteHolds, NotifyQueue, taskVars, chanVars
  <2>2. \A u \in Tasks : u # t => pc'[u] = pc[u] /\ op'[u] = op[u]
    BY <1>10, <1>a, <1>b, Zenon DEF RecvEmpty, taskVars, chanVars
  <2>3. \A q \in Queues :
            \/ inner'[q] = inner[q] /\ (HoldsInner(t, q)' <=> HoldsInner(t, q))
            \/ inner[q] \in {None, t} /\ inner'[q] = None /\ ~ HoldsInner(t, q)'
            \/ inner[q] = None /\ inner'[q] = t /\ HoldsInner(t, q)'
    BY <1>d, <2>1, Zenon DEF HoldsInner, SendHolds, WaitHolds, NoteHolds
  <2>4. \A q \in Queues :
            \/ wqlock'[q] = wqlock[q] /\ (HoldsWait(t, q)' <=> HoldsWait(t, q))
            \/ wqlock[q] \in {None, t} /\ wqlock'[q] = None /\ ~ HoldsWait(t, q)'
            \/ wqlock[q] = None /\ wqlock'[q] = t /\ HoldsWait(t, q)'
    BY <1>d, <2>1, Zenon DEF HoldsWait
  <2>5. \A u \in Tasks :
            \/ slock'[u] = slock[u] /\ (HoldsState(t, u)' <=> HoldsState(t, u))
            \/ slock[u] \in {None, t} /\ slock'[u] = None /\ ~ HoldsState(t, u)'
            \/ slock[u] = None /\ slock'[u] = t /\ HoldsState(t, u)'
    BY <1>d, <2>1, Zenon DEF HoldsState
  <2>6. pc'[t] \in {"notify", "note"} \cup NoteHolds => op'[t].q \in UserQueues
    BY <1>c, <2>1, Zenon DEF NoteHolds
  <2> QED
    BY <2>2, <2>3, <2>4, <2>5, <2>6, LocksMove, Zenon
<1>11. CASE WaitLock(h)
  <2>1. /\ pc[t] = "wait" /\ pc'[t] = "block"
        /\ op'[t] = op[t] /\ NotifyQueue(t)' = NotifyQueue(t)
        /\ inner' = inner
        /\ \A q \in Queues : wqlock'[q] = IF q = op[t].q THEN t ELSE wqlock[q]
        /\ slock' = slock
        /\ wqlock[op[t].q] = None
    BY <1>11, <1>a, <1>b, <1>c, Zenon DEF WaitLock, NoteHolds, NotifyQueue, taskVars, chanVars
  <2>2. \A u \in Tasks : u # t => pc'[u] = pc[u] /\ op'[u] = op[u]
    BY <1>11, <1>a, <1>b, Zenon DEF WaitLock, taskVars, chanVars
  <2>3. \A q \in Queues :
            \/ inner'[q] = inner[q] /\ (HoldsInner(t, q)' <=> HoldsInner(t, q))
            \/ inner[q] \in {None, t} /\ inner'[q] = None /\ ~ HoldsInner(t, q)'
            \/ inner[q] = None /\ inner'[q] = t /\ HoldsInner(t, q)'
    BY <1>d, <2>1, Zenon DEF HoldsInner, SendHolds, WaitHolds, NoteHolds
  <2>4. \A q \in Queues :
            \/ wqlock'[q] = wqlock[q] /\ (HoldsWait(t, q)' <=> HoldsWait(t, q))
            \/ wqlock[q] \in {None, t} /\ wqlock'[q] = None /\ ~ HoldsWait(t, q)'
            \/ wqlock[q] = None /\ wqlock'[q] = t /\ HoldsWait(t, q)'
    BY <1>d, <2>1, Zenon DEF HoldsWait
  <2>5. \A u \in Tasks :
            \/ slock'[u] = slock[u] /\ (HoldsState(t, u)' <=> HoldsState(t, u))
            \/ slock[u] \in {None, t} /\ slock'[u] = None /\ ~ HoldsState(t, u)'
            \/ slock[u] = None /\ slock'[u] = t /\ HoldsState(t, u)'
    BY <1>d, <2>1, Zenon DEF HoldsState
  <2>6. pc'[t] \in {"notify", "note"} \cup NoteHolds => op'[t].q \in UserQueues
    BY <1>c, <2>1, Zenon DEF NoteHolds
  <2> QED
    BY <2>2, <2>3, <2>4, <2>5, <2>6, LocksMove, Zenon
<1>12. CASE WaitBlock(h)
  <2>1. /\ pc[t] = "block" /\ pc'[t] = "scan"
        /\ op'[t] = op[t] /\ NotifyQueue(t)' = NotifyQueue(t)
        /\ \A q \in Queues : inner'[q] = IF q = op[t].q THEN None ELSE inner[q]
        /\ \A q \in Queues : wqlock'[q] = IF q = op[t].q THEN None ELSE wqlock[q]
        /\ slock' = slock
    BY <1>12, <1>a, <1>b, <1>c, Zenon DEF WaitBlock, NoteHolds, NotifyQueue, taskVars, chanVars
  <2>2. \A u \in Tasks : u # t => pc'[u] = pc[u] /\ op'[u] = op[u]
    BY <1>12, <1>a, <1>b, Zenon DEF WaitBlock, taskVars, chanVars
  <2>3. \A q \in Queues :
            \/ inner'[q] = inner[q] /\ (HoldsInner(t, q)' <=> HoldsInner(t, q))
            \/ inner[q] \in {None, t} /\ inner'[q] = None /\ ~ HoldsInner(t, q)'
            \/ inner[q] = None /\ inner'[q] = t /\ HoldsInner(t, q)'
    BY <1>d, <2>1, Zenon DEF HoldsInner, SendHolds, WaitHolds, NoteHolds
  <2>4. \A q \in Queues :
            \/ wqlock'[q] = wqlock[q] /\ (HoldsWait(t, q)' <=> HoldsWait(t, q))
            \/ wqlock[q] \in {None, t} /\ wqlock'[q] = None /\ ~ HoldsWait(t, q)'
            \/ wqlock[q] = None /\ wqlock'[q] = t /\ HoldsWait(t, q)'
    BY <1>d, <2>1, Zenon DEF HoldsWait
  <2>5. \A u \in Tasks :
            \/ slock'[u] = slock[u] /\ (HoldsState(t, u)' <=> HoldsState(t, u))
            \/ slock[u] \in {None, t} /\ slock'[u] = None /\ ~ HoldsState(t, u)'
            \/ slock[u] = None /\ slock'[u] = t /\ HoldsState(t, u)'
    BY <1>d, <2>1, Zenon DEF HoldsState
  <2>6. pc'[t] \in {"notify", "note"} \cup NoteHolds => op'[t].q \in UserQueues
    BY <1>c, <2>1, Zenon DEF NoteHolds
  <2> QED
    BY <2>2, <2>3, <2>4, <2>5, <2>6, LocksMove, Zenon
<1>13. ASSUME NEW v \in BOOLEAN, ReadFinish(h, v) PROVE Locks'
  <2>1. /\ pc[t] = "got" /\ inner' = inner /\ wqlock' = wqlock /\ slock[t] = None
        /\ \/ /\ pc'[t] = "putback"
              /\ \A u \in Tasks : slock'[u] = IF u = t THEN t ELSE slock[u]
           \/ pc'[t] = "user" /\ slock' = slock
    BY <1>13, <1>a, <1>b, <1>c, Zenon DEF ReadFinish, Return, NoteHolds, NotifyQueue, taskVars, chanVars
  <2>2. \A u \in Tasks : u # t => pc'[u] = pc[u] /\ op'[u] = op[u]
    BY <1>13, <1>a, <1>b, Zenon DEF ReadFinish, Return, taskVars, chanVars
  <2>3. \A q \in Queues :
            \/ inner'[q] = inner[q] /\ (HoldsInner(t, q)' <=> HoldsInner(t, q))
            \/ inner[q] \in {None, t} /\ inner'[q] = None /\ ~ HoldsInner(t, q)'
            \/ inner[q] = None /\ inner'[q] = t /\ HoldsInner(t, q)'
    BY <1>d, <2>1, Zenon DEF HoldsInner, SendHolds, WaitHolds, NoteHolds
  <2>4. \A q \in Queues :
            \/ wqlock'[q] = wqlock[q] /\ (HoldsWait(t, q)' <=> HoldsWait(t, q))
            \/ wqlock[q] \in {None, t} /\ wqlock'[q] = None /\ ~ HoldsWait(t, q)'
            \/ wqlock[q] = None /\ wqlock'[q] = t /\ HoldsWait(t, q)'
    BY <1>d, <2>1, Zenon DEF HoldsWait
  <2>5. \A u \in Tasks :
            \/ slock'[u] = slock[u] /\ (HoldsState(t, u)' <=> HoldsState(t, u))
            \/ slock[u] \in {None, t} /\ slock'[u] = None /\ ~ HoldsState(t, u)'
            \/ slock[u] = None /\ slock'[u] = t /\ HoldsState(t, u)'
    BY <1>d, <2>1, Zenon DEF HoldsState
  <2>6. pc'[t] \in {"notify", "note"} \cup NoteHolds => op'[t].q \in UserQueues
    BY <1>c, <2>1, Zenon DEF NoteHolds
  <2> QED
    BY <2>2, <2>3, <2>4, <2>5, <2>6, LocksMove, Zenon
<1>14. CASE ReadPutBack(h)
  <2>1. /\ pc[t] = "putback" /\ pc'[t] = "user"
        /\ inner' = inner
        /\ wqlock' = wqlock
        /\ \A q \in Tasks : slock'[q] = IF q = t THEN None ELSE slock[q]
    BY <1>14, <1>a, <1>b, <1>c, Zenon DEF ReadPutBack, Return, NoteHolds, NotifyQueue, taskVars, chanVars
  <2>2. \A u \in Tasks : u # t => pc'[u] = pc[u] /\ op'[u] = op[u]
    BY <1>14, <1>a, <1>b, Zenon DEF ReadPutBack, Return, taskVars, chanVars
  <2>3. \A q \in Queues :
            \/ inner'[q] = inner[q] /\ (HoldsInner(t, q)' <=> HoldsInner(t, q))
            \/ inner[q] \in {None, t} /\ inner'[q] = None /\ ~ HoldsInner(t, q)'
            \/ inner[q] = None /\ inner'[q] = t /\ HoldsInner(t, q)'
    BY <1>d, <2>1, Zenon DEF HoldsInner, SendHolds, WaitHolds, NoteHolds
  <2>4. \A q \in Queues :
            \/ wqlock'[q] = wqlock[q] /\ (HoldsWait(t, q)' <=> HoldsWait(t, q))
            \/ wqlock[q] \in {None, t} /\ wqlock'[q] = None /\ ~ HoldsWait(t, q)'
            \/ wqlock[q] = None /\ wqlock'[q] = t /\ HoldsWait(t, q)'
    BY <1>d, <2>1, Zenon DEF HoldsWait
  <2>5. \A u \in Tasks :
            \/ slock'[u] = slock[u] /\ (HoldsState(t, u)' <=> HoldsState(t, u))
            \/ slock[u] \in {None, t} /\ slock'[u] = None /\ ~ HoldsState(t, u)'
            \/ slock[u] = None /\ slock'[u] = t /\ HoldsState(t, u)'
    BY <1>d, <2>1, Zenon DEF HoldsState
  <2>6. pc'[t] \in {"notify", "note"} \cup NoteHolds => op'[t].q \in UserQueues
    BY <1>c, <2>1, Zenon DEF NoteHolds
  <2> QED
    BY <2>2, <2>3, <2>4, <2>5, <2>6, LocksMove, Zenon
<1>15. CASE ScanRound(h)
  <2>1. /\ UNCHANGED <<inner, wqlock, slock>>
        /\ \A u \in Tasks :
               \/ pc'[u] = pc[u] /\ op'[u] = op[u]
               \/ /\ pc[u] \in {"user", "recv", "scan", "unborn"}
                  /\ pc'[u] \in {"user", "recv", "got", "scan", "switch", "send", "out"}
    BY <1>15, <1>a, <1>b DEF ScanRound, taskVars, chanVars
  <2> QED
    BY <2>1, LocksStay, Zenon DEF SendHolds, WaitHolds
<1>16. CASE Switch(h)
  <2> DEFINE to == next[h]
  <2>1. /\ to \in Tasks
        /\ pc' = [pc EXCEPT ![t] = "out", ![to] = ret[to]]
        /\ ret[to] \in {"user", "recv", "unreachable"}
        /\ pc[t] = "switch"
        /\ UNCHANGED <<op, inner, wqlock, slock>>
    BY <1>16, Zenon DEF Switch, IInv, TypeOK, taskVars, chanVars
  <2>2. to # t => pc[to] = "out"
    BY <2>1, Zenon DEF IInv, RunQueues
  <2> HIDE DEF to
  <2>3. \A u \in Tasks : \/ pc'[u] = pc[u]
                        \/ /\ pc[u] \in {"switch", "out"}
                           /\ pc'[u] \in {"out", "user", "recv", "unreachable"}
    BY <1>a, <2>1, <2>2, Zenon
  <2> QED
    BY <2>1, <2>3, LocksStay, Zenon DEF SendHolds, WaitHolds
<1>17. CASE Timer(h)
  <2>1. /\ UNCHANGED <<inner, wqlock, slock>>
        /\ \A u \in Tasks :
               \/ pc'[u] = pc[u] /\ op'[u] = op[u]
               \/ /\ pc[u] \in {"user", "recv", "scan", "unborn"}
                  /\ pc'[u] \in {"user", "recv", "got", "scan", "switch", "send", "out"}
    BY <1>17, <1>a, <1>b, Zenon DEF Timer, taskVars, chanVars
  <2> QED
    BY <2>1, LocksStay, Zenon DEF SendHolds, WaitHolds
<1>18. CASE Exit(h)
  <2>1. /\ UNCHANGED <<inner, wqlock, slock>>
        /\ \A u \in Tasks :
               \/ pc'[u] = pc[u] /\ op'[u] = op[u]
               \/ /\ pc[u] \in {"user", "recv", "scan", "unborn"}
                  /\ pc'[u] \in {"user", "recv", "got", "scan", "switch", "send", "out"}
    BY <1>18, <1>a, <1>b, Zenon DEF Exit, taskVars, chanVars
  <2> QED
    BY <2>1, LocksStay, Zenon DEF SendHolds, WaitHolds
<1>19. CASE FaultKill(h)
  <2>1. /\ UNCHANGED <<inner, wqlock, slock>>
        /\ \A u \in Tasks :
               \/ pc'[u] = pc[u] /\ op'[u] = op[u]
               \/ /\ pc[u] \in {"user", "recv", "scan", "unborn"}
                  /\ pc'[u] \in {"user", "recv", "got", "scan", "switch", "send", "out"}
    BY <1>19, <1>a, <1>b, Zenon DEF FaultKill, taskVars, chanVars
  <2> QED
    BY <2>1, LocksStay, Zenon DEF SendHolds, WaitHolds
<1>20. CASE EnableNotifications(h)
  <2>1. /\ UNCHANGED <<inner, wqlock, slock>>
        /\ \A u \in Tasks :
               \/ pc'[u] = pc[u] /\ op'[u] = op[u]
               \/ /\ pc[u] \in {"user", "recv", "scan", "unborn"}
                  /\ pc'[u] \in {"user", "recv", "got", "scan", "switch", "send", "out"}
    BY <1>20, <1>a, <1>b, Zenon DEF EnableNotifications, taskVars, chanVars
  <2> QED
    BY <2>1, LocksStay, Zenon DEF SendHolds, WaitHolds
<1>21. ASSUME NEW q \in UserQueues, NEW n \in CapCounts, SendMessage(h, q, n) PROVE Locks'
  <2>1. /\ UNCHANGED <<inner, wqlock, slock>>
        /\ \A u \in Tasks :
               \/ pc'[u] = pc[u] /\ op'[u] = op[u]
               \/ /\ pc[u] \in {"user", "recv", "scan", "unborn"}
                  /\ pc'[u] \in {"user", "recv", "got", "scan", "switch", "send", "out"}
    BY <1>21, <1>a, <1>b, Zenon DEF SendMessage, taskVars, chanVars
  <2> QED
    BY <2>1, LocksStay, Zenon DEF SendHolds, WaitHolds
<1>22. ASSUME NEW q \in Queues, NEW b \in BufLens, NEW nb \in BOOLEAN, ReadMessage(h, q, b, nb) PROVE Locks'
  <2>1. /\ UNCHANGED <<inner, wqlock, slock>>
        /\ \A u \in Tasks :
               \/ pc'[u] = pc[u] /\ op'[u] = op[u]
               \/ /\ pc[u] \in {"user", "recv", "scan", "unborn"}
                  /\ pc'[u] \in {"user", "recv", "got", "scan", "switch", "send", "out"}
    BY <1>22, <1>a, <1>b, Zenon DEF ReadMessage, taskVars, chanVars
  <2> QED
    BY <2>1, LocksStay, Zenon DEF SendHolds, WaitHolds
<1>23. ASSUME NEW c \in Tasks, Spawn(h, c) PROVE Locks'
  <2>1. /\ UNCHANGED <<inner, wqlock, slock>>
        /\ \A u \in Tasks :
               \/ pc'[u] = pc[u] /\ op'[u] = op[u]
               \/ /\ pc[u] \in {"user", "recv", "scan", "unborn"}
                  /\ pc'[u] \in {"user", "recv", "got", "scan", "switch", "send", "out"}
    BY <1>23, <1>a, <1>b, Zenon DEF Spawn, taskVars, chanVars
  <2> QED
    BY <2>1, LocksStay, Zenon DEF SendHolds, WaitHolds
<1>24. ASSUME NEW c \in Claimants, Interrupt(h, c) PROVE Locks'
  <2>1. /\ UNCHANGED <<inner, wqlock, slock>>
        /\ \A u \in Tasks :
               \/ pc'[u] = pc[u] /\ op'[u] = op[u]
               \/ /\ pc[u] \in {"user", "recv", "scan", "unborn"}
                  /\ pc'[u] \in {"user", "recv", "got", "scan", "switch", "send", "out"}
    BY <1>24, <1>a, <1>b, Zenon DEF Interrupt, taskVars, chanVars
  <2> QED
    BY <2>1, LocksStay, Zenon DEF SendHolds, WaitHolds
<1> QED
  BY Zenon, <1>1, <1>2, <1>3, <1>4, <1>5, <1>6, <1>7, <1>8, <1>9, <1>10, <1>11, <1>12,
     <1>13, <1>14, <1>15, <1>16, <1>17, <1>18, <1>19, <1>20, <1>21, <1>22, <1>23, <1>24 DEF Step, KernelStep, Syscall
=============================================================================
