-------------------------------- MODULE FsServer -------------------------------
(***************************************************************************)
(* The filesystem server's main task (servers/filesystem/src/main.rs) and  *)
(* the streams it is made of (present: Merge, Then, FromIter).  A probe is *)
(* spawned per block device; until all have been joined the task handles   *)
(* interrupts and results, and from then on interrupts and new channels.   *)
(* A probe reads a number of sectors and finds filesystems, or fails; a    *)
(* client reads sectors too.                                               *)
(***************************************************************************)
EXTENDS Integers, Sequences, FiniteSets, SequencesExt

CONSTANTS
    NDevices,    \* block devices
    Outcomes,    \* what probes can end with: sequences of filesystems, or Error
    Error,
    ReadsOfProbe,\* sectors a probe reads
    Clients,
    ReadsOfClient

Devices == 1..NDevices

VARIABLES
    stage,        \* of the main task: "init" or "serve"
    order,        \* of the merged stream: TRUE polls interrupts first
    joining,      \* Then: the handle whose future is current, 0 if none
    handles,      \* FromIter: the handles not yet taken
    filesystems, collected,
    reader,       \* of a probe or client: reads left, and where it is
    onDevice,     \* of a device: those whose request it has done
    irq,          \* of a device: "none" or "pending"
    outcome,      \* of a device: what its probe will return
    channels      \* clients whose channel waits to be listened to

vars == <<stage, order, joining, handles, filesystems, collected, reader, onDevice, irq, outcome, channels>>

Probes == {<<"probe", d>> : d \in Devices}
Readers == Probes \cup {<<"client", c>> : c \in Clients}
DeviceOf(r) == IF r \in Probes THEN r[2] ELSE 1

Init ==
    /\ stage = "init" /\ order = TRUE /\ joining = 0
    /\ handles = [d \in Devices |-> d] /\ filesystems = <<>> /\ collected = 0
    /\ reader = [r \in Readers |->
                   IF r \in Probes THEN [left |-> ReadsOfProbe, at |-> "ready"] ELSE [left |-> ReadsOfClient, at |-> "away"]]
    /\ onDevice = [d \in Devices |-> {}] /\ irq = [d \in Devices |-> "none"]
    /\ outcome \in [Devices -> Outcomes]
    /\ channels = {}

main == <<stage, order, joining, handles, filesystems, collected>>

\* A probe or client asks for a sector, or is done.
Read(r) ==
    /\ reader[r].at = "ready"
    /\ reader' = [reader EXCEPT ![r] = IF @.left = 0 THEN [@ EXCEPT !.at = "done"]
                                       ELSE [left |-> @.left - 1, at |-> "reading"]]
    /\ UNCHANGED <<main, onDevice, irq, outcome, channels>>

\* The device answers, and interrupts unless an interrupt is outstanding.
Answer(r) ==
    LET d == DeviceOf(r) IN
    /\ reader[r].at = "reading"
    /\ reader' = [reader EXCEPT ![r].at = "answered"]
    /\ onDevice' = [onDevice EXCEPT ![d] = @ \cup {r}]
    /\ irq' = [irq EXCEPT ![d] = IF @ = "none" THEN "pending" ELSE @]
    /\ UNCHANGED <<main, outcome, channels>>

\* A client makes a channel to the server.
NewChannel(c) ==
    /\ reader[<<"client", c>>].at = "away"
    /\ channels' = channels \cup {c}
    /\ reader' = [reader EXCEPT ![<<"client", c>>].at = "waiting"]
    /\ UNCHANGED <<main, onDevice, irq, outcome>>

Done(d) == reader[<<"probe", d>>].at = "done"

\* What Then is waiting for, and whether polling it gives something.
Current == IF joining # 0 THEN joining ELSE IF handles = <<>> THEN 0 ELSE Head(handles)
JoinReady == Current # 0 /\ Done(Current)
InterruptReady(d) == irq[d] = "pending"

\* Mutant: the interrupt is completed, and what the device did forgotten.
HandleInterrupt_Unread(d) ==
    /\ irq' = [irq EXCEPT ![d] = "none"]
    /\ UNCHANGED <<onDevice, reader>>

\* handle_interrupt() takes everything the device has done, and the interrupt
\* is completed.
HandleInterrupt(d) ==
    /\ onDevice' = [onDevice EXCEPT ![d] = {}]
    /\ reader' = [r \in Readers |-> IF r \in onDevice[d] THEN [reader[r] EXCEPT !.at = "ready"] ELSE reader[r]]
    /\ irq' = [irq EXCEPT ![d] = "none"]

\* Polling Then takes the next handle when it has no current future, whether
\* that one is done or not.
Polls ==
    /\ joining' = Current
    /\ handles' = IF joining = 0 /\ handles # <<>> THEN Tail(handles) ELSE handles

\* One event of the first loop that is an interrupt: the joins were polled
\* before if it was their turn.
InitInterrupt(d) ==
    /\ stage = "init" /\ InterruptReady(d)
    /\ order \/ ~ JoinReady
    /\ order' = ~ order
    /\ IF order THEN UNCHANGED <<joining, handles>> ELSE Polls
    /\ HandleInterrupt(d)
    /\ UNCHANGED <<stage, filesystems, collected, outcome, channels>>

\* Mutant: the first probe that is done is joined.
InitFilesystem_AnyOrder ==
    /\ stage = "init"
    /\ \E d \in Devices :
         /\ Done(d) /\ d \in {joining} \cup {handles[k] : k \in DOMAIN handles}
         /\ joining' = 0 /\ handles' = SelectSeq(handles, LAMBDA h : h # d)
         /\ collected' = collected + 1
         /\ filesystems' = IF outcome[d] = Error THEN filesystems ELSE filesystems \o outcome[d]
         /\ stage' = IF collected' = NDevices THEN "serve" ELSE "init"
    /\ order' = ~ order
    /\ UNCHANGED <<reader, onDevice, irq, outcome, channels>>

\* Mutant: the loop ends with the first result.
InitFilesystem_BreaksEarly ==
    /\ stage = "init" /\ JoinReady
    /\ order => \A d \in Devices : ~ InterruptReady(d)
    /\ order' = ~ order
    /\ joining' = 0 /\ handles' = IF joining = 0 THEN Tail(handles) ELSE handles
    /\ collected' = collected + 1
    /\ filesystems' = IF outcome[Current] = Error THEN filesystems ELSE filesystems \o outcome[Current]
    /\ stage' = "serve"
    /\ UNCHANGED <<reader, onDevice, irq, outcome, channels>>

\* One that is the result of a probe; the last one ends the loop.
InitFilesystem ==
    /\ stage = "init" /\ JoinReady
    /\ order => \A d \in Devices : ~ InterruptReady(d)
    /\ order' = ~ order
    /\ joining' = 0 /\ handles' = IF joining = 0 THEN Tail(handles) ELSE handles
    /\ collected' = collected + 1
    /\ filesystems' = IF outcome[Current] = Error THEN filesystems ELSE filesystems \o outcome[Current]
    /\ stage' = IF collected' = NDevices THEN "serve" ELSE "init"
    /\ UNCHANGED <<reader, onDevice, irq, outcome, channels>>

\* Nothing is ready, but Then takes its handle.
InitPending ==
    /\ stage = "init" /\ joining = 0 /\ handles # <<>> /\ ~ JoinReady
    /\ \A d \in Devices : ~ InterruptReady(d)
    /\ order' = ~ order /\ Polls
    /\ UNCHANGED <<stage, filesystems, collected, reader, onDevice, irq, outcome, channels>>

\* Mutant: the streams of the second loop do not hold the interrupts.
ServeInterrupt_Dropped(d) ==
    /\ stage = "serve" /\ InterruptReady(d) /\ d = 0
    /\ UNCHANGED <<main, outcome, channels>> /\ HandleInterrupt(d)

\* The second loop: an interrupt.
ServeInterrupt(d) ==
    /\ stage = "serve" /\ InterruptReady(d)
    /\ HandleInterrupt(d)
    /\ UNCHANGED <<main, outcome, channels>>

\* And a new channel: a task is spawned that serves the client.  It opens its
\* file on the first filesystem, and the server ends with a panic if there is
\* none.
ServeClient(c) ==
    /\ stage = "serve" /\ c \in channels
    /\ channels' = channels \ {c}
    /\ IF filesystems = <<>> THEN stage' = "panic" ELSE UNCHANGED stage
    /\ reader' = [reader EXCEPT ![<<"client", c>>].at = "ready"]
    /\ UNCHANGED <<order, joining, handles, filesystems, collected, onDevice, irq, outcome>>

MainTask ==
    \/ \E d \in Devices : InitInterrupt(d) \/ ServeInterrupt(d)
    \/ InitFilesystem \/ InitPending
    \/ \E c \in Clients : ServeClient(c)

Next ==
    /\ stage # "panic"
    /\ MainTask \/ (\E r \in Readers : Read(r) \/ Answer(r)) \/ (\E c \in Clients : NewChannel(c))

\* The executor runs tasks that are ready and the device answers; a stream
\* that is merged is polled first every other time.
Fairness ==
    /\ \A d \in Devices : SF_vars(stage # "panic" /\ InitInterrupt(d)) /\ SF_vars(stage # "panic" /\ ServeInterrupt(d))
    /\ WF_vars(InitFilesystem) /\ WF_vars(InitPending)
    /\ \A c \in Clients : SF_vars(ServeClient(c))
    /\ \A r \in Readers : WF_vars(stage # "panic" /\ Read(r)) /\ WF_vars(stage # "panic" /\ Answer(r))

Spec == Init /\ [][Next]_vars /\ Fairness

-----------------------------------------------------------------------------
(* Properties *)

\* The filesystems are in the order of the devices, whichever probe ends
\* first, and those of a device that fails are left out.
InDeviceOrder ==
    stage \in {"serve", "panic"} =>
        filesystems = FlattenSeq([d \in Devices |-> IF outcome[d] = Error THEN <<>> ELSE outcome[d]])

\* The server panics only when no filesystem was found.
PanicsOnlyWithout == stage = "panic" => \A d \in Devices : outcome[d] \in {Error, <<>>}
===============================================================================
