------------------------------- MODULE Present --------------------------------
(***************************************************************************)
(* The asynchronous runtime of userspace, libs/present: the executor and   *)
(* its run queue, the reactor that turns kernel messages into wake-ups,    *)
(* and the futures tasks await.  A process has one thread: a task runs     *)
(* from one await to the next by itself, but the kernel adds messages at   *)
(* any time.                                                               *)
(*                                                                         *)
(* A task is a sequence of instructions:                                   *)
(*   [op |-> "await", on |-> <<e>>]     recv(), join(), read(), Interrupt  *)
(*   [op |-> "await", on |-> <<e, f>>]  next() of two streams merged       *)
(*   [op |-> "send", on |-> <<e>>]      send() on a oneshot or an mpsc     *)
(*   [op |-> "spawn", on |-> <<t>>]                                        *)
(*   [op |-> "open", on |-> <<e>>]      IpcChannel::new(), Interrupt::new()*)
(*   [op |-> "close", on |-> <<e>>]     drop of an IpcChannel              *)
(* An event is <<kind, name>>, kind one of "chan", "join", "irq", "ipc",   *)
(* "new".                                                                  *)
(***************************************************************************)
EXTENDS Integers, Sequences, FiniteSets, SequencesExt

CONSTANTS
    Tasks, Main, None,
    Programs,   \* the programs a process may have: functions from Tasks
    Sources,    \* the interrupts and channels of the kernel
    MaxEvents,  \* how often each source fires
    BlockOn     \* TRUE for block_on(Main), FALSE for run()

\* What the constants of an instance satisfy.
PresentAssumption == Main \in Tasks /\ MaxEvents \in Nat /\ BlockOn \in BOOLEAN

VARIABLES
    program, pc,
    started,       \* tasks that were pushed
    ready,         \* ready_tasks
    waiting,       \* waiting_tasks
    running,       \* the task being polled, or None
    order,         \* AlternatingPollOrder::order
    wakers,        \* waiting_for_event: task to wake for each event, or None
    avail,         \* what each event source holds: values, counted interrupts, messages
    interest,      \* events registered with register_interest()
    seen,          \* SEEN_IPC_CHANNELS
    kernelQueue,   \* messages read_kernel_message() will return
    fired,         \* how often each source of the kernel fired
    panic, stopped

vars == <<program, pc, started, ready, waiting, running, order, wakers, avail, interest, seen, kernelQueue, fired, panic, stopped>>

NewIpcChannel == <<"new", "new">>
Events == Sources \cup {NewIpcChannel} \cup {<<"join", t>> : t \in Tasks} \cup {<<"chan", t>> : t \in Tasks}

Init ==
    /\ program \in Programs
    /\ pc = [t \in Tasks |-> 1]
    /\ started = {Main} /\ ready = <<Main>> /\ waiting = {} /\ running = None
    /\ order = [t \in Tasks |-> TRUE]
    /\ wakers = [e \in Events |-> None]
    /\ avail = [e \in Events |-> 0]
    /\ interest = {} /\ seen = {} /\ kernelQueue = <<>>
    /\ fired = [e \in Sources |-> 0]
    /\ panic = FALSE /\ stopped = FALSE

Ended(t) == pc[t] > Len(program[t])
Instruction(t) == program[t][pc[t]]

kernelVars == <<kernelQueue, fired>>
taskVars == <<program, started, order, interest>>

-----------------------------------------------------------------------------
(* The kernel.  A device is started after its Interrupt was made. *)

Fires(e) == fired[e] < MaxEvents /\ fired' = [fired EXCEPT ![e] = @ + 1] /\ kernelQueue' = Append(kernelQueue, e)

Interrupts(e) ==
    /\ e[1] = "irq" /\ e \in interest /\ Fires(e)
    /\ UNCHANGED <<program, pc, started, ready, waiting, running, order, wakers, avail, interest, seen, panic, stopped>>

Message(e) ==
    /\ e[1] = "ipc" /\ Fires(e)
    /\ avail' = [avail EXCEPT ![e] = @ + 1]
    /\ UNCHANGED <<program, pc, started, ready, waiting, running, order, wakers, interest, seen, panic, stopped>>

-----------------------------------------------------------------------------
(* Wake-ups *)

\* Mutant: a task is made ready whether or not it waits.
Awaken_Always(ts) == ready' = ready \o SetToSeq(ts) /\ waiting' = waiting \ ts

\* awaken(): a task that does not wait is left where it is.
Awaken(ts) ==
    /\ ready' = ready \o SetToSeq(ts \cap waiting)
    /\ waiting' = waiting \ ts

\* unregister() the wakers of the events and wake them.
Wake(es) ==
    /\ Awaken({wakers[e] : e \in es} \ {None})
    /\ wakers' = [e \in Events |-> IF e \in es THEN None ELSE wakers[e]]

\* The events one message of the kernel stands for.
Woken(e) == IF e[1] = "ipc" /\ e \notin seen THEN {NewIpcChannel, e} ELSE {e}

\* Reactor::wait(), when the executor has nothing to run.
Wait ==
    /\ running = None /\ ready = <<>> /\ ~ stopped /\ ~ panic
    /\ waiting # {} \/ BlockOn
    /\ kernelQueue # <<>>
    /\ LET e == Head(kernelQueue) IN
       /\ avail' = [avail EXCEPT
                       ![e] = IF e[1] = "irq" /\ e \in interest THEN @ + 1 ELSE @,
                       ![NewIpcChannel] = IF e[1] = "ipc" /\ e \notin seen THEN @ + 1 ELSE @]
       /\ seen' = IF e[1] = "ipc" THEN seen \cup {e} ELSE seen
       /\ Wake(Woken(e))
    /\ kernelQueue' = Tail(kernelQueue)
    /\ UNCHANGED <<program, pc, started, running, order, interest, fired, panic, stopped>>

-----------------------------------------------------------------------------
(* The executor *)

\* Mutant: the task stays in the queue.
PollNext_Stays ==
    /\ running = None /\ ready # <<>> /\ ~ stopped /\ ~ panic
    /\ running' = Head(ready) /\ ready' = ready
    /\ UNCHANGED <<pc, waiting, wakers, avail, seen, panic, stopped>>
    /\ UNCHANGED taskVars /\ UNCHANGED kernelVars

\* run() and run_with() take the next task and poll it.
PollNext ==
    /\ running = None /\ ready # <<>> /\ ~ stopped /\ ~ panic
    /\ running' = Head(ready) /\ ready' = Tail(ready)
    /\ UNCHANGED <<pc, waiting, wakers, avail, seen, panic, stopped>>
    /\ UNCHANGED taskVars /\ UNCHANGED kernelVars

\* run() returns when there are no tasks.
Return ==
    /\ ~ BlockOn /\ running = None /\ ready = <<>> /\ waiting = {} /\ ~ stopped /\ ~ panic
    /\ stopped' = TRUE
    /\ UNCHANGED <<pc, ready, waiting, running, wakers, avail, seen, panic>>
    /\ UNCHANGED taskVars /\ UNCHANGED kernelVars

Advance(t) == pc' = [pc EXCEPT ![t] = @ + 1]

\* The sources of an await in the order they are polled.
Polled(t) ==
    LET on == Instruction(t).on IN
    IF Len(on) = 1 \/ order[t] THEN on ELSE Reverse(on)

\* The waker of t is registered for every event polled in vain.
Registered(t, es) == [e \in Events |-> IF e \in es THEN t ELSE wakers[e]]

\* Mutant: of two streams merged only the first one registers its waker.
AwaitPending_FirstOnly(t) ==
    /\ wakers' = Registered(t, {Polled(t)[1]})
    /\ waiting' = waiting \cup {t}
    /\ running' = None
    /\ panic' = (t \in waiting)
    /\ UNCHANGED <<pc, avail, ready>>

\* Every source is Pending: push_blocked(), which panics if the task waits.
AwaitPending(t) ==
    /\ wakers' = Registered(t, Range(Polled(t)))
    /\ waiting' = waiting \cup {t}
    /\ running' = None
    /\ panic' = (t \in waiting)
    /\ UNCHANGED <<pc, avail, ready>>

\* The first source that has something is consumed; those before it have
\* registered the waker.
AwaitReady(t, i) ==
    /\ avail' = [avail EXCEPT ![Polled(t)[i]] = @ - 1]
    /\ wakers' = Registered(t, {Polled(t)[j] : j \in 1 .. i - 1})
    /\ Advance(t)
    /\ UNCHANGED <<waiting, running, panic, ready>>

\* What the future or stream of each kind of event looks at first.
ReceiverReady(e) == e[1] = "chan" /\ avail[e] > 0
OneshotReady(e) == e[1] = "join" /\ avail[e] > 0
InterruptReady(e) == e[1] = "irq" /\ avail[e] > 0
ChannelReady(e) == e[1] = "ipc" /\ avail[e] > 0
ListenerReady(e) == e[1] = "new" /\ avail[e] > 0
Ready(e) == ReceiverReady(e) \/ OneshotReady(e) \/ InterruptReady(e) \/ ChannelReady(e) \/ ListenerReady(e)

Await(t) ==
    LET has == {i \in DOMAIN Polled(t) : Ready(Polled(t)[i])} IN
    /\ Instruction(t).op = "await"
    /\ order' = [order EXCEPT ![t] = IF Len(Polled(t)) = 2 THEN ~ @ ELSE @]
    /\ IF has = {} THEN AwaitPending(t) ELSE AwaitReady(t, IF 1 \in has THEN 1 ELSE 2)
    /\ UNCHANGED <<started, interest, stopped>>

\* Mutant: nobody is told.
Sends_Silently(e) == avail' = [avail EXCEPT ![e] = @ + 1] /\ UNCHANGED <<ready, waiting, wakers>>

Sends(e) == avail' = [avail EXCEPT ![e] = @ + 1] /\ Wake({e})

\* OneshotTx::send(), Sender::send()
Send(t) ==
    /\ Instruction(t).op = "send"
    /\ Sends(Instruction(t).on[1])
    /\ Advance(t)
    /\ UNCHANGED <<started, order, interest, running, panic, stopped>>

Spawn(t) ==
    LET new == Instruction(t).on[1] IN
    /\ Instruction(t).op = "spawn"
    /\ started' = started \cup {new}
    /\ ready' = Append(ready, new)
    /\ Advance(t)
    /\ UNCHANGED <<order, interest, running, panic, stopped, avail, wakers, waiting>>

\* register_interest() asserts that there was none.
Open(t) ==
    LET e == Instruction(t).on[1] IN
    /\ Instruction(t).op = "open"
    /\ interest' = interest \cup {e}
    /\ panic' = (e \in interest)
    /\ Advance(t)
    /\ UNCHANGED <<started, ready, order, running, stopped, avail, wakers, waiting>>

\* unregister_interest() asserts that there was none, too.
Close(t) ==
    LET e == Instruction(t).on[1] IN
    /\ Instruction(t).op = "close"
    /\ interest' = interest \ {e}
    /\ panic' = (e \in interest)
    /\ Advance(t)
    /\ UNCHANGED <<started, ready, order, running, stopped, avail, wakers, waiting>>

\* The future of a spawned task sends its result to the JoinHandle; the end of
\* the one block_on() waits for ends the loop.
End(t) ==
    /\ Ended(t)
    /\ running' = None
    /\ stopped' = (BlockOn /\ t = Main)
    /\ IF t = Main THEN UNCHANGED <<avail, wakers, ready, waiting>> ELSE Sends(<<"join", t>>)
    /\ UNCHANGED <<pc, started, order, interest, panic>>

Runs(t) ==
    /\ running = t /\ ~ panic
    /\ \/ End(t)
       \/ ~ Ended(t) /\ (Await(t) \/ Send(t) \/ Spawn(t) \/ Open(t) \/ Close(t))
    /\ UNCHANGED <<program, seen, kernelQueue, fired>>

Step == Wait \/ PollNext \/ Return \/ \E t \in Tasks : Runs(t)
Next == Step \/ \E e \in Sources : Interrupts(e) \/ Message(e)

\* The thread goes on, and the sources fire as often as they may.
Fairness == WF_vars(Step) /\ \A e \in Sources : WF_vars(Interrupts(e) \/ Message(e))
Spec == Init /\ [][Next]_vars /\ Fairness

-----------------------------------------------------------------------------
(* Correctness *)

\* The values of the variables; nothing is taken from a source that is empty.
TypeOK ==
    /\ started \subseteq Tasks /\ waiting \subseteq started
    /\ Range(ready) \subseteq started
    /\ running \in started \cup {None}
    /\ wakers \in [Events -> Tasks \cup {None}]
    /\ avail \in [Events -> Nat]
    /\ seen \cup interest \subseteq Sources

\* A task that was started is in one place: in one of the two queues, once, or
\* being polled, or at its end.  push_blocked() never meets it waiting.
OnePlace ==
    \A t \in started :
        LET times == Len(SelectSeq(ready, LAMBDA x : x = t)) + (IF t \in waiting THEN 1 ELSE 0)
                     + (IF running = t THEN 1 ELSE 0) IN
        times = 1 \/ (times = 0 /\ Ended(t))

\* A task never waits for an event that has something for it, unless the
\* message that will wake it is still in the kernel's queue.
NoLostWakeup ==
    \A t \in waiting : \A i \in DOMAIN Polled(t) :
        avail[Polled(t)[i]] > 0 => Polled(t)[i] \in Range(kernelQueue)

\* No assertion of the runtime fails.
NoPanic == ~ panic

===============================================================================
