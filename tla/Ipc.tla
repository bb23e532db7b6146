--------------------------------- MODULE Ipc ---------------------------------
(***************************************************************************)
(* Blocking message passing between kernel tasks: the channels of          *)
(* syscall/channel.rs, the wait queues of scheduler/waitqueue.rs, the      *)
(* per-hart round-robin scheduler, and the task life cycle.                *)
(*                                                                         *)
(* A queue is one direction of a UserspaceChannel: the message queue, its  *)
(* `inner` spin lock and its wait queue.  Every task also reads one kernel *)
(* channel, onto which the kernel puts NewChannelMessage notifications.    *)
(*                                                                         *)
(* Kernel code runs with interrupts off, so a hart leaves a task only in   *)
(* schedule(); harts interleave between any two lock operations.  A step   *)
(* that only touches data of a lock it takes and releases is one action;   *)
(* a lock held over several steps is a variable.  The run queue lock and   *)
(* the context locks are only ever taken by the hart that owns them and    *)
(* are left out.                                                           *)
(***************************************************************************)
EXTENDS Naturals, Sequences, FiniteSets

CONSTANTS
    Harts,          \* hart ids
    Tasks,          \* every task, the idle tasks included
    Idle,           \* hart -> its idle task
    BootQueue,      \* hart -> its run queue once begin_scheduling() has run
    Queues,         \* every one-way message queue
    Owner,          \* queue -> the task that holds its Receiver
    KernelChannel,  \* task -> the queue the kernel notifies it on
    Writer,         \* user queue -> the task that holds its Sender
    Claimants,      \* the tasks that have claimed a device's interrupt
    CapCounts,      \* numbers of capabilities a message may carry
    BufLens,        \* lengths of the buffer a reader passes for capabilities
    MaxSends,       \* bound: user queue -> messages sent on it
    MaxInterrupts,  \* bound: a task is interrupted up to this kernel message
    None            \* no lock holder

Members(s) == {s[i] : i \in DOMAIN s}

IdleTasks == {Idle[h] : h \in Harts}
UserTasks == Tasks \ IdleTasks
UserQueues == Queues \ {KernelChannel[t] : t \in Tasks}
BootTasks == UNION {Members(BootQueue[h]) : h \in Harts}

ASSUME IpcAssumption ==
    /\ Idle \in [Harts -> Tasks]
    /\ BootQueue \in [Harts -> Seq(Tasks)]
    /\ \A h \in Harts : BootQueue[h] # <<>> /\ Head(BootQueue[h]) = Idle[h]
    /\ \A g, h \in Harts : g # h => Members(BootQueue[g]) \cap Members(BootQueue[h]) = {}
    /\ Owner \in [Queues -> Tasks]
    /\ KernelChannel \in [Tasks -> Queues]
    /\ \A t \in Tasks : Owner[KernelChannel[t]] = t
    /\ Writer \in [UserQueues -> UserTasks]
    /\ CapCounts \subseteq Nat
    /\ BufLens \subseteq Nat
    /\ Claimants \subseteq UserTasks
    /\ MaxSends \in [UserQueues -> Nat]
    /\ MaxInterrupts \in Nat
    /\ None \notin Tasks

\* Where a task stands in the kernel.  "out" is a task parked in
\* context_switch, "unborn" one that has not been spawned, "unreachable" the
\* macro that ends the Exit syscall.
Labels == {"unborn", "out", "user", "scan", "switch", "unreachable",
           "send", "notify", "note", "notepush", "noteready", "push", "ready",
           "recv", "wait", "block", "got", "putback"}

Message == [seq : Nat, caps : Nat]
Op == [q : Queues, caps : Nat, buf : Nat, nonblocking : BOOLEAN, msg : Message]

VARIABLES
    state,       \* task -> MutableState::state
    subscribed,  \* task -> MutableState::subscribes_to_events
    slock,       \* task -> holder of its mutable_state lock
    queue,       \* queue -> the messages of `inner`
    inner,       \* queue -> holder of the `inner` lock
    waitq,       \* queue -> the tasks of its WaitQueue
    wqlock,      \* queue -> holder of the WaitQueue lock
    runq,        \* hart -> RoundRobinPolicy::tasks
    current,     \* hart -> CURRENT_TASK
    scan,        \* hart -> rotations done by the running policy.next()
    next,        \* hart -> the task policy.next() has returned
    pc,          \* task -> label
    ret,         \* task -> label at which schedule() returns
    op,          \* task -> arguments and locals of its channel syscall
    sent,        \* queue -> messages pushed so far (history)
    notes,       \* queue -> NewChannelMessage notes pushed for it (history)
    taken        \* queue -> sequence number of the last message popped (history)

schedVars == <<runq, current, scan, next>>
chanVars == <<queue, inner, waitq, wqlock, sent, notes, taken>>
taskVars == <<state, subscribed, slock>>
vars == <<state, subscribed, slock, queue, inner, waitq, wqlock,
          runq, current, scan, next, pc, ret, op, sent, notes, taken>>

NoMsg == [seq |-> 0, caps |-> 0]
NoOp(t) == [q |-> KernelChannel[t], caps |-> 0, buf |-> 0,
            nonblocking |-> FALSE, msg |-> NoMsg]

At(h, label) == pc[current[h]] = label
Goto(t, label) == pc' = [pc EXCEPT ![t] = label]

\* Back to user mode with the syscall's locals gone.
Return(t) ==
    /\ Goto(t, "user")
    /\ op' = [op EXCEPT ![t] = NoOp(t)]

-----------------------------------------------------------------------------
(* Sending *)

\* send_message: resolve the channel under the caller's state lock and clone
\* the capabilities; nothing else changes before Sender::send.
SendMessage(h, q, n) ==
    LET t == current[h] IN
    /\ At(h, "user")
    /\ q \in UserQueues
    /\ Writer[q] = t
    /\ pc[Owner[q]] # "unborn"
    /\ sent[q] < MaxSends[q]
    /\ slock[t] = None
    /\ op' = [op EXCEPT ![t] = [NoOp(t) EXCEPT !.q = q, !.caps = n]]
    /\ Goto(t, "send")
    /\ UNCHANGED <<taskVars, chanVars, schedVars, ret>>

\* The ISR that claim_device registers runs on top of whatever user code its
\* hart was running and sends InterruptOccurred on the claimant's kernel
\* channel.  Its line is enabled in the PLIC context of the claimant's hart.
Interrupt(h, c) ==
    LET t == current[h]
        k == KernelChannel[c] IN
    /\ At(h, "user")
    /\ c \in Claimants
    /\ c \in Members(runq[h])
    /\ sent[k] < MaxInterrupts
    /\ slock[c] = None
    /\ op' = [op EXCEPT ![t] = [NoOp(t) EXCEPT !.q = k]]
    /\ Goto(t, "send")
    /\ UNCHANGED <<taskVars, chanVars, schedVars, ret>>

\* Mutant: `inner` is tested and not held over the notification.
SendLock_DropsInner(h) ==
    LET t == current[h]
        q == op[t].q IN
    /\ At(h, "send")
    /\ inner[q] = None
    /\ Goto(t, IF q \in UserQueues THEN "notify" ELSE "push")
    /\ UNCHANGED <<taskVars, chanVars, schedVars, ret, op>>

\* Sender::send takes `inner`.  The kernel's Sender has no other_tid, so a
\* kernel message causes no further notification ...
SendLock(h) ==
    LET t == current[h]
        q == op[t].q IN
    /\ At(h, "send")
    /\ inner[q] = None
    /\ inner' = [inner EXCEPT ![q] = t]
    /\ Goto(t, IF q \in UserQueues THEN "notify" ELSE "push")
    /\ UNCHANGED <<taskVars, queue, waitq, wqlock, sent, notes, taken, schedVars, ret, op>>

\* Mutant: the receiver's state lock is kept while the note is sent.
SendNotify_KeepsState(h) ==
    LET t == current[h]
        r == Owner[op[t].q] IN
    /\ At(h, "notify")
    /\ slock[r] = None
    /\ slock' = IF subscribed[r] THEN [slock EXCEPT ![r] = t] ELSE slock
    /\ Goto(t, IF subscribed[r] THEN "note" ELSE "push")
    /\ UNCHANGED <<state, subscribed, chanVars, schedVars, ret, op>>

\* ... and reads, under the receiver's state lock, whether it subscribes.
SendNotify(h) ==
    LET t == current[h]
        r == Owner[op[t].q] IN
    /\ At(h, "notify")
    /\ slock[r] = None
    /\ Goto(t, IF subscribed[r] THEN "note" ELSE "push")
    /\ UNCHANGED <<taskVars, chanVars, schedVars, ret, op>>

\* The kernel channel's own send: its `inner` lock.
NoteLock(h) ==
    LET t == current[h]
        k == KernelChannel[Owner[op[t].q]] IN
    /\ At(h, "note")
    /\ inner[k] = None
    /\ inner' = [inner EXCEPT ![k] = t]
    /\ Goto(t, "notepush")
    /\ UNCHANGED <<taskVars, queue, waitq, wqlock, sent, notes, taken, schedVars, ret, op>>

\* push_back, then wake_one() takes the wait queue's lock.  With no waiter
\* both locks are dropped at once, otherwise they are kept for MakeReady.
PushBack(t, q, n) ==
    /\ wqlock[q] = None
    /\ sent' = [sent EXCEPT ![q] = @ + 1]
    /\ queue' = [queue EXCEPT ![q] = Append(@, [seq |-> sent[q] + 1, caps |-> n])]
    /\ inner' = IF waitq[q] = <<>> THEN [inner EXCEPT ![q] = None] ELSE inner
    /\ wqlock' = IF waitq[q] = <<>> THEN wqlock ELSE [wqlock EXCEPT ![q] = t]

NotePush(h) ==
    LET t == current[h]
        k == KernelChannel[Owner[op[t].q]] IN
    /\ At(h, "notepush")
    /\ PushBack(t, k, 0)
    /\ notes' = [notes EXCEPT ![op[t].q] = @ + 1]
    /\ Goto(t, IF waitq[k] = <<>> THEN "push" ELSE "noteready")
    /\ UNCHANGED <<taskVars, waitq, taken, schedVars, ret, op>>

Push(h) ==
    LET t == current[h]
        q == op[t].q IN
    /\ At(h, "push")
    /\ PushBack(t, q, op[t].caps)
    /\ IF waitq[q] = <<>>
          THEN Return(t)
          ELSE Goto(t, "ready") /\ UNCHANGED op
    /\ UNCHANGED <<taskVars, waitq, notes, taken, schedVars, ret>>

\* Mutant: the waiter is read and not popped.
MakeReady_KeepsWaiter(q) ==
    LET w == Head(waitq[q]) IN
    /\ slock[w] = None
    /\ state' = [state EXCEPT ![w] = "Ready"]
    /\ UNCHANGED waitq
    /\ wqlock' = [wqlock EXCEPT ![q] = None]
    /\ inner' = [inner EXCEPT ![q] = None]

\* Mutant: the waiter is popped and its state forgotten.
MakeReady_LeavesBlocked(q) ==
    LET w == Head(waitq[q]) IN
    /\ slock[w] = None
    /\ UNCHANGED state
    /\ waitq' = [waitq EXCEPT ![q] = Tail(@)]
    /\ wqlock' = [wqlock EXCEPT ![q] = None]
    /\ inner' = [inner EXCEPT ![q] = None]

\* wake_one: pop the first waiter and make it Ready under its state lock,
\* then drop the wait queue's lock and `inner`.
MakeReady(q) ==
    LET w == Head(waitq[q]) IN
    /\ slock[w] = None
    /\ state' = [state EXCEPT ![w] = "Ready"]
    /\ waitq' = [waitq EXCEPT ![q] = Tail(@)]
    /\ wqlock' = [wqlock EXCEPT ![q] = None]
    /\ inner' = [inner EXCEPT ![q] = None]

NoteReady(h) ==
    LET t == current[h] IN
    /\ At(h, "noteready")
    /\ MakeReady(KernelChannel[Owner[op[t].q]])
    /\ Goto(t, "push")
    /\ UNCHANGED <<subscribed, slock, queue, sent, notes, taken, schedVars, ret, op>>

Ready(h) ==
    LET t == current[h] IN
    /\ At(h, "ready")
    /\ MakeReady(op[t].q)
    /\ Return(t)
    /\ UNCHANGED <<subscribed, slock, queue, sent, notes, taken, schedVars, ret>>

-----------------------------------------------------------------------------
(* Receiving *)

\* read_message: resolve the channel under the caller's state lock.
ReadMessage(h, q, b, nb) ==
    LET t == current[h] IN
    /\ At(h, "user")
    /\ t \in UserTasks
    /\ Owner[q] = t
    /\ slock[t] = None
    /\ op' = [op EXCEPT ![t] = [NoOp(t) EXCEPT !.q = q, !.buf = b, !.nonblocking = nb]]
    /\ Goto(t, "recv")
    /\ UNCHANGED <<taskVars, chanVars, schedVars, ret>>

\* Receiver::recv and try_recv with a message in the queue.
RecvPop(h) ==
    LET t == current[h]
        q == op[t].q IN
    /\ At(h, "recv")
    /\ inner[q] = None
    /\ queue[q] # <<>>
    /\ queue' = [queue EXCEPT ![q] = Tail(@)]
    /\ taken' = [taken EXCEPT ![q] = Head(queue[q]).seq]
    /\ op' = [op EXCEPT ![t].msg = Head(queue[q])]
    /\ Goto(t, "got")
    /\ UNCHANGED <<taskVars, inner, waitq, wqlock, sent, notes, schedVars, ret>>

\* try_recv with an empty queue: WouldBlock.
TryRecvEmpty(h) ==
    LET t == current[h]
        q == op[t].q IN
    /\ At(h, "recv")
    /\ op[t].nonblocking
    /\ inner[q] = None
    /\ queue[q] = <<>>
    /\ Return(t)
    /\ UNCHANGED <<taskVars, chanVars, schedVars, ret>>

\* Mutant: `inner` is dropped before WaitQueue::wait is called.
RecvEmpty_DropsInner(h) ==
    LET t == current[h]
        q == op[t].q IN
    /\ At(h, "recv")
    /\ ~ op[t].nonblocking
    /\ inner[q] = None
    /\ queue[q] = <<>>
    /\ Goto(t, "wait")
    /\ UNCHANGED <<taskVars, chanVars, schedVars, ret, op>>

\* recv with an empty queue keeps `inner` and calls WaitQueue::wait.
RecvEmpty(h) ==
    LET t == current[h]
        q == op[t].q IN
    /\ At(h, "recv")
    /\ ~ op[t].nonblocking
    /\ inner[q] = None
    /\ queue[q] = <<>>
    /\ inner' = [inner EXCEPT ![q] = t]
    /\ Goto(t, "wait")
    /\ UNCHANGED <<taskVars, queue, waitq, wqlock, sent, notes, taken, schedVars, ret, op>>

WaitLock(h) ==
    LET t == current[h]
        q == op[t].q IN
    /\ At(h, "wait")
    /\ wqlock[q] = None
    /\ wqlock' = [wqlock EXCEPT ![q] = t]
    /\ Goto(t, "block")
    /\ UNCHANGED <<taskVars, queue, inner, waitq, sent, notes, taken, schedVars, ret, op>>

\* Mutant: schedule() is entered with `inner` still locked.
WaitBlock_KeepsInner(h) ==
    LET t == current[h]
        q == op[t].q IN
    /\ At(h, "block")
    /\ slock[t] = None
    /\ waitq' = [waitq EXCEPT ![q] = Append(@, t)]
    /\ state' = [state EXCEPT ![t] = "Blocked"]
    /\ wqlock' = [wqlock EXCEPT ![q] = None]
    /\ Goto(t, "scan")
    /\ ret' = [ret EXCEPT ![t] = "recv"]
    /\ UNCHANGED <<subscribed, slock, queue, inner, sent, notes, taken, schedVars, op>>

\* push_back of the task, state = Blocked, f() drops `inner`, then the wait
\* queue's lock is dropped and schedule() is entered.
WaitBlock(h) ==
    LET t == current[h]
        q == op[t].q IN
    /\ At(h, "block")
    /\ slock[t] = None
    /\ waitq' = [waitq EXCEPT ![q] = Append(@, t)]
    /\ state' = [state EXCEPT ![t] = "Blocked"]
    /\ inner' = [inner EXCEPT ![q] = None]
    /\ wqlock' = [wqlock EXCEPT ![q] = None]
    /\ Goto(t, "scan")
    /\ ret' = [ret EXCEPT ![t] = "recv"]
    /\ UNCHANGED <<subscribed, slock, queue, sent, notes, taken, schedVars, op>>

\* Capabilities left once a buffer of b slots is filled.
Remaining(n, b) == IF n > b THEN n - b ELSE 0

\* The rest of read_message, under the reader's state lock.  A buffer of
\* unmapped memory ends the call with InvalidArgument(3) after the message
\* was popped; capabilities that do not fit are put back, lock still held.
\* Installing the capabilities that fit is the subject of another module.
ReadFinish(h, valid) ==
    LET t == current[h]
        left == Remaining(op[t].msg.caps, op[t].buf) IN
    /\ At(h, "got")
    /\ slock[t] = None
    /\ (op[t].buf = 0) => valid
    /\ IF valid /\ left # 0
          THEN /\ slock' = [slock EXCEPT ![t] = t]
               /\ Goto(t, "putback")
               /\ UNCHANGED op
          ELSE /\ Return(t)
               /\ UNCHANGED slock
    /\ UNCHANGED <<state, subscribed, chanVars, schedVars, ret>>

\* Mutant: push_back for push_front.
ReadPutBack_AtBack(h) ==
    LET t == current[h]
        q == op[t].q
        m == op[t].msg IN
    /\ At(h, "putback")
    /\ inner[q] = None
    /\ queue' = [queue EXCEPT ![q] =
                    Append(@, [m EXCEPT !.caps = Remaining(m.caps, op[t].buf)])]
    /\ slock' = [slock EXCEPT ![t] = None]
    /\ Return(t)
    /\ UNCHANGED <<state, subscribed, inner, waitq, wqlock, sent, notes, taken, schedVars, ret>>

ReadPutBack(h) ==
    LET t == current[h]
        q == op[t].q
        m == op[t].msg IN
    /\ At(h, "putback")
    /\ inner[q] = None
    /\ queue' = [queue EXCEPT ![q] =
                    <<[m EXCEPT !.caps = Remaining(m.caps, op[t].buf)]>> \o @]
    /\ slock' = [slock EXCEPT ![t] = None]
    /\ Return(t)
    /\ UNCHANGED <<state, subscribed, inner, waitq, wqlock, sent, notes, taken, schedVars, ret>>

-----------------------------------------------------------------------------
(* The scheduler *)

\* The timer interrupt of user code calls schedule().
Timer(h) ==
    LET t == current[h] IN
    /\ At(h, "user")
    /\ Goto(t, "scan")
    /\ ret' = [ret EXCEPT ![t] = "user"]
    /\ UNCHANGED <<taskVars, chanVars, schedVars, op>>

\* The Exit syscall: schedule() must not come back.
Exit(h) ==
    LET t == current[h] IN
    /\ At(h, "user")
    /\ t \in UserTasks
    /\ slock[t] = None
    /\ state' = [state EXCEPT ![t] = "Dead"]
    /\ Goto(t, "scan")
    /\ ret' = [ret EXCEPT ![t] = "unreachable"]
    /\ UNCHANGED <<subscribed, slock, chanVars, schedVars, op>>

\* Mutant: the killed task returns to user mode.
FaultKill_Returns(h) ==
    LET t == current[h] IN
    /\ At(h, "user")
    /\ t \in UserTasks
    /\ slock[t] = None
    /\ state' = [state EXCEPT ![t] = "Dead"]
    /\ UNCHANGED <<subscribed, slock, chanVars, schedVars, pc, ret, op>>

\* A page fault that no mapping explains kills the task; here the code after
\* schedule() would return to user mode.
FaultKill(h) ==
    LET t == current[h] IN
    /\ At(h, "user")
    /\ t \in UserTasks
    /\ slock[t] = None
    /\ state' = [state EXCEPT ![t] = "Dead"]
    /\ Goto(t, "scan")
    /\ ret' = [ret EXCEPT ![t] = "user"]
    /\ UNCHANGED <<subscribed, slock, chanVars, schedVars, op>>

EnableNotifications(h) ==
    LET t == current[h] IN
    /\ At(h, "user")
    /\ t \in UserTasks
    /\ slock[t] = None
    /\ ~ subscribed[t]
    /\ subscribed' = [subscribed EXCEPT ![t] = TRUE]
    /\ UNCHANGED <<state, slock, chanVars, schedVars, pc, ret, op>>

\* spawn_vmspace: the new task goes to the run queue of the spawner's hart.
Spawn(h, c) ==
    /\ At(h, "user")
    /\ current[h] \in UserTasks
    /\ pc[c] = "unborn"
    /\ runq' = [runq EXCEPT ![h] = Append(@, c)]
    /\ pc' = [pc EXCEPT ![c] = "out"]
    /\ subscribed' = [subscribed EXCEPT ![c] = TRUE]
    /\ UNCHANGED <<state, slock, chanVars, current, scan, next, ret, op>>

\* tasks.rotate_left(1).
Rotated(h) == Append(Tail(runq[h]), Head(runq[h]))

\* Mutant: the queue is not rotated, its first Ready task is taken.
ScanRound_NoRotation(h) ==
    LET t == current[h]
        ready == {i \in DOMAIN runq[h] : state[runq[h][i]] = "Ready"} IN
    /\ At(h, "scan")
    /\ next' = [next EXCEPT ![h] = runq[h][CHOOSE i \in ready : \A j \in ready : i <= j]]
    /\ Goto(t, "switch")
    /\ UNCHANGED <<taskVars, chanVars, runq, current, scan, ret, op>>

\* One round of the loop of RoundRobinPolicy::next: rotate, then look at the
\* front task's state under its lock.  With no Ready task, the idle task.
ScanRound(h) ==
    LET t == current[h]
        front == Rotated(h)[1] IN
    /\ At(h, "scan")
    /\ slock[front] = None
    /\ runq' = [runq EXCEPT ![h] = Rotated(h)]
    /\ IF state[front] = "Ready"
          THEN /\ scan' = [scan EXCEPT ![h] = 0]
               /\ next' = [next EXCEPT ![h] = front]
               /\ Goto(t, "switch")
          ELSE IF scan[h] + 1 = Len(runq[h])
          THEN /\ scan' = [scan EXCEPT ![h] = 0]
               /\ next' = [next EXCEPT ![h] = Idle[h]]
               /\ Goto(t, "switch")
          ELSE /\ scan' = [scan EXCEPT ![h] = @ + 1]
               /\ UNCHANGED <<next, pc>>
    /\ UNCHANGED <<taskVars, chanVars, current, ret, op>>

\* The rest of schedule(): read the incoming task's root page table under its
\* state lock and switch contexts, or keep running the same task.
Switch(h) ==
    LET t == current[h]
        to == next[h] IN
    /\ At(h, "switch")
    /\ (to # t) => slock[to] = None
    /\ current' = [current EXCEPT ![h] = to]
    /\ pc' = [pc EXCEPT ![t] = "out", ![to] = ret[to]]
    /\ UNCHANGED <<taskVars, chanVars, runq, scan, next, ret, op>>

-----------------------------------------------------------------------------
Init ==
    /\ state = [t \in Tasks |-> "Ready"]
    /\ subscribed = [t \in Tasks |-> FALSE]
    /\ slock = [t \in Tasks |-> None]
    /\ queue = [q \in Queues |-> <<>>]
    /\ inner = [q \in Queues |-> None]
    /\ waitq = [q \in Queues |-> <<>>]
    /\ wqlock = [q \in Queues |-> None]
    /\ runq = BootQueue
    /\ current = Idle
    /\ scan = [h \in Harts |-> 0]
    /\ next = Idle
    /\ pc = [t \in Tasks |-> IF t \in IdleTasks THEN "user"
                             ELSE IF t \in BootTasks THEN "out" ELSE "unborn"]
    /\ ret = [t \in Tasks |-> "user"]
    /\ op = [t \in Tasks |-> NoOp(t)]
    /\ sent = [q \in Queues |-> 0]
    /\ notes = [q \in Queues |-> 0]
    /\ taken = [q \in Queues |-> 0]

\* What a hart does on its own once it is in the kernel.
KernelStep(h) ==
    \/ SendLock(h) \/ SendNotify(h) \/ NoteLock(h) \/ NotePush(h)
    \/ NoteReady(h) \/ Push(h) \/ Ready(h)
    \/ RecvPop(h) \/ TryRecvEmpty(h) \/ RecvEmpty(h) \/ WaitLock(h)
    \/ WaitBlock(h) \/ (\E v \in BOOLEAN : ReadFinish(h, v)) \/ ReadPutBack(h)
    \/ ScanRound(h) \/ Switch(h)

\* What user code may ask for.
Syscall(h) ==
    \/ \E q \in UserQueues, n \in CapCounts : SendMessage(h, q, n)
    \/ \E q \in Queues, b \in BufLens, nb \in BOOLEAN : ReadMessage(h, q, b, nb)
    \/ Exit(h) \/ FaultKill(h) \/ EnableNotifications(h)
    \/ \E c \in Tasks : Spawn(h, c)

Next == \E h \in Harts :
    \/ KernelStep(h)
    \/ Syscall(h)
    \/ Timer(h)
    \/ \E c \in Claimants : Interrupt(h, c)

Spec == Init /\ [][Next]_vars

\* A hart in the kernel keeps executing, and user code that stays in user mode
\* is interrupted by the timer.  Every trap re-arms the timer, so a task that
\* keeps making system calls may keep the timer from ever firing: WF, not SF.
Fairness == \A h \in Harts : WF_vars(KernelStep(h)) /\ WF_vars(Timer(h))

FairSpec == Spec /\ Fairness

-----------------------------------------------------------------------------
(* Correctness *)

\* Labels at which a task holds `inner` of the queue it sends on, of the
\* kernel channel it notifies, and of the queue it is about to wait on.
SendHolds == {"notify", "note", "notepush", "noteready", "push", "ready"}
NoteHolds == {"notepush", "noteready"}
WaitHolds == {"wait", "block"}
Parked == {"scan", "switch", "out"}

Waiting(t, q) == t \in Members(waitq[q])
NotifyQueue(t) == KernelChannel[Owner[op[t].q]]

\* The values of every variable.
TypeOK ==
    /\ state \in [Tasks -> {"Ready", "Blocked", "Dead"}]
    /\ subscribed \in [Tasks -> BOOLEAN]
    /\ slock \in [Tasks -> Tasks \cup {None}]
    /\ queue \in [Queues -> Seq(Message)]
    /\ inner \in [Queues -> Tasks \cup {None}]
    /\ waitq \in [Queues -> Seq(Tasks)]
    /\ wqlock \in [Queues -> Tasks \cup {None}]
    /\ runq \in [Harts -> Seq(Tasks)]
    /\ current \in [Harts -> Tasks]
    /\ scan \in [Harts -> Nat]
    /\ next \in [Harts -> Tasks]
    /\ pc \in [Tasks -> Labels]
    /\ ret \in [Tasks -> {"user", "recv", "unreachable"}]
    /\ op \in [Tasks -> Op]
    /\ sent \in [Queues -> Nat]
    /\ notes \in [Queues -> Nat]
    /\ taken \in [Queues -> Nat]

\* A message sent between recv()'s empty check and the moment the receiver is
\* in the wait queue is not lost: with `inner` free, a queue somebody waits on
\* is empty.  recv() hands its lock to WaitQueue::wait, send() wakes before
\* it drops its own.
NoLostWakeup ==
    \A q \in Queues : inner[q] = None /\ waitq[q] # <<>> => queue[q] = <<>>

\* A task is Blocked exactly while one wait queue holds it, once: wake_one()
\* never wakes the wrong task, and nobody sleeps where no sender looks.
BlockedIffWaiting ==
    \A t \in Tasks :
        state[t] = "Blocked" <=>
            /\ \E q \in Queues : Waiting(t, q)
            /\ \A p, q \in Queues : Waiting(t, p) /\ Waiting(t, q) => p = q
            /\ \A q \in Queues : Waiting(t, q) => waitq[q] = <<t>> /\ Owner[q] = t

\* Only Ready tasks execute, and the unreachable!() that follows schedule() in
\* the Exit syscall ("Dead task rescheduled?") is never reached.
RunsOnlyReady ==
    \A t \in Tasks :
        /\ pc[t] # "unreachable"
        /\ pc[t] \notin Parked \cup {"unborn"} => state[t] = "Ready"

\* A task that leaves its hart holds no spin lock, so no task of the same hart
\* can find one taken by a task that is not running.
SwitchHoldsNoLock ==
    \A t \in Tasks : pc[t] \in Parked \cup {"user"} =>
        /\ \A q \in Queues : inner[q] # t /\ wqlock[q] # t
        /\ \A u \in Tasks : slock[u] # t

\* Messages leave a queue in the order they were sent, none lost inside it and
\* none duplicated, even when the reader puts back the capabilities that did
\* not fit while senders keep pushing.  The head may be such a remainder.
InOrder ==
    \A q \in Queues :
        /\ \A i \in DOMAIN queue[q] : queue[q][i].seq + Len(queue[q]) = sent[q] + i
        /\ taken[q] + Len(queue[q]) \in {sent[q], sent[q] + 1}

\* A NewChannelMessage note is pushed before its message, but whoever then
\* takes `inner` finds the message: outside send() there are no more notes
\* than messages, and exactly as many for a task spawned subscribed.
NotesMatchMessages ==
    \A q \in UserQueues : inner[q] = None =>
        /\ notes[q] <= sent[q]
        /\ Owner[q] \notin BootTasks => notes[q] = sent[q]

\* Messages come out of a channel in the order they went in, each once, also
\* when read_message puts the rest of one back, and every one that waits has
\* its NewChannelMessage note.
MessagesAccounted == InOrder /\ NotesMatchMessages

\* The holder of the lock a task spins on, None when it does not spin.
WaitsFor(t) ==
    LET q == op[t].q
        k == NotifyQueue(t) IN
    CASE pc[t] \in {"send", "recv", "putback"} -> inner[q]
      [] pc[t] = "notify" -> slock[Owner[q]]
      [] pc[t] = "note" -> inner[k]
      [] pc[t] = "notepush" -> wqlock[k]
      [] pc[t] = "noteready" -> slock[Head(waitq[k])]
      [] pc[t] \in {"push", "wait"} -> wqlock[q]
      [] pc[t] = "ready" -> slock[Head(waitq[q])]
      [] pc[t] \in {"block", "got"} -> slock[t]
      [] OTHER -> None

\* acquire_lock never panics: no hart spins on a lock it holds itself
\* ("Deadlock detected") and no two harts on each other's ("Likely deadlock
\* detected").
NoSpinDeadlock ==
    \A t, u \in Tasks : ~ (WaitsFor(t) = u /\ (t = u \/ WaitsFor(u) = t))

\* Dead is final: no waker, scheduler pass or late message revives a task.
DeadStaysDead ==
    [][\A t \in Tasks : state[t] = "Dead" => state'[t] = "Dead" /\ pc'[t] \in Parked]_vars

\* Round robin starves nobody: on a hart that keeps entering the scheduler,
\* every Ready task of its run queue gets to run.
ReadyRuns ==
    \A h \in Harts, t \in Tasks :
        ([]<> At(h, "scan")) =>
            (state[t] = "Ready" /\ pc[t] = "out" /\ t \in Members(runq[h])
                ~> current[h] = t)

\* A receiver asleep on a queue that gets a message runs again with the
\* message still to be popped, on a hart that keeps entering the scheduler.
MessageResumesReceiver ==
    \A h \in Harts, q \in Queues :
        ([]<> At(h, "scan")) =>
            (queue[q] # <<>> /\ Waiting(Owner[q], q)
                 /\ Owner[q] \in Members(runq[h])
                ~> pc[Owner[q]] = "recv" /\ queue[q] # <<>>)
=============================================================================
