----------------------------- MODULE VirtioBlock ------------------------------
(***************************************************************************)
(* The block device driver of the filesystem server                       *)
(* (servers/filesystem/src/block_devices): tasks read and write sectors    *)
(* through data blocks the driver owns.  The driver's state is borrowed    *)
(* for the length of a call, so calls do not interleave with each other;   *)
(* they interleave with the device, which completes the chains it holds in *)
(* any order, also while an interrupt is being handled.                    *)
(***************************************************************************)
EXTENDS Integers, Sequences, FiniteSets, SequencesExt

CONSTANTS
    Tasks,
    NDescriptors, NCommands, NData,  \* 64, 512 and 512 in the code
    MaxRequests,                     \* bound: calls of read(), write() and alloc_data_block()
    Status,                          \* what the device may report, of 0 .. 2
    None

Descriptors == 0 .. NDescriptors - 1
Commands == 0 .. NCommands - 1
Data == 0 .. NData - 1

\* What the constants of an instance satisfy.
VirtioBlockAssumption ==
    /\ NDescriptors \in Nat \ {0} /\ NCommands \in Nat \ {0} /\ NData \in Nat \ {0}
    /\ Status \subseteq 0 .. 2 /\ None \notin Data \cup Commands \cup Descriptors

VARIABLES
    freelist, table,          \* of the SplitVirtqueue
    available, device, used,  \* its two queues and the device: module Virtqueue
    commands, freeCommands,   \* CommandBuffer: the commands and free_indices
    freeData,                 \* DataBuffer::free_indices
    queued,                   \* queued_commands: head -> QueuedCommand, or None
    waiting,                  \* waiting_requests
    drops,                    \* data blocks dropped, on their way to the task that frees them
    isr,                      \* the device's interrupt status
    irq,                      \* where handle_interrupt() is, and the chain it popped
    task,
    requests,
    lost                      \* data blocks of failed reads

driver == <<freelist, table, commands, freeCommands, freeData, queued, waiting, drops>>
queue == <<available, device, used>>
vars == <<driver, queue, isr, irq, task, requests, lost>>

Queue == INSTANCE Virtqueue WITH Heads <- Descriptors

Entry(address, write, next) == [address |-> address, write |-> write, next |-> next]
Idle == [at |-> "idle", block |-> None, answer |-> "none"]
UpTo(n) == [i \in 1 .. n |-> i - 1]

Init ==
    /\ freelist = UpTo(NDescriptors)
    /\ table = [d \in Descriptors |-> Entry(<<>>, FALSE, 0)]
    /\ Queue!Init
    /\ commands = [c \in Commands |-> [kind |-> "read", status |-> 0]]
    /\ freeCommands = UpTo(NCommands)
    /\ freeData = UpTo(NData)
    /\ queued = [d \in Descriptors |-> None]
    /\ waiting = <<>> /\ drops = <<>>
    /\ isr = FALSE /\ irq = <<"idle", None>>
    /\ task = [t \in Tasks |-> Idle]
    /\ requests = 0
    /\ lost = {}

-----------------------------------------------------------------------------
(* Calls of the tasks *)

\* get_descriptor_chain() gives back what it took, in the order it took it,
\* when there are fewer than three.
Last3 == [i \in 1 .. 3 |-> freelist[Len(freelist) + 1 - i]]
HasChain == Len(freelist) >= 3
ChainTaken == SubSeq(freelist, 1, Len(freelist) - 3)
\* Mutant: the descriptors are not given back.
ChainRefused_Drops == <<>>
ChainRefused == Reverse(freelist)

\* The future of a request that cannot be submitted waits for waiting_requests.
Waits(t, kind, block) ==
    /\ waiting' = Append(waiting, [kind |-> kind, task |-> t, block |-> block])
    /\ task' = [task EXCEPT ![t] = [at |-> "waiting", block |-> None, answer |-> "none"]]
    /\ UNCHANGED <<table, commands, queued, drops, queue, isr, irq, lost>>

\* Mutant: the status descriptor of a chain is the one of the data.
Submit_StatusInData(t, kind, data) ==
    LET d == Last3
        c == Head(freeCommands) IN
    /\ freelist' = ChainTaken
    /\ freeCommands' = Tail(freeCommands)
    /\ commands' = [commands EXCEPT ![c] = [kind |-> kind, status |-> 0]]
    /\ table' = [table EXCEPT ![d[1]] = Entry(<<"command", c>>, FALSE, d[2]),
                              ![d[2]] = Entry(<<"data", data>>, kind = "read", d[3]),
                              ![d[3]] = Entry(<<"data", data>>, TRUE, 0)]
    /\ queued' = [queued EXCEPT ![d[1]] = [command |-> c, data |-> data, kind |-> kind, task |-> t]]
    /\ Queue!Offer(d[1])
    /\ task' = [task EXCEPT ![t] = [at |-> "submitted", block |-> None, answer |-> "none"]]
    /\ UNCHANGED <<waiting, drops, isr, irq, lost>>

\* The end of read() and of write(): a command, a chain of three descriptors
\* for it, its data and its status byte, and the device is notified.
Submit(t, kind, data) ==
    LET d == Last3
        c == Head(freeCommands) IN
    /\ freelist' = ChainTaken
    /\ freeCommands' = Tail(freeCommands)
    /\ commands' = [commands EXCEPT ![c] = [kind |-> kind, status |-> 0]]
    /\ table' = [table EXCEPT ![d[1]] = Entry(<<"command", c>>, FALSE, d[2]),
                              ![d[2]] = Entry(<<"data", data>>, kind = "read", d[3]),
                              ![d[3]] = Entry(<<"status", c>>, TRUE, 0)]
    /\ queued' = [queued EXCEPT ![d[1]] = [command |-> c, data |-> data, kind |-> kind, task |-> t]]
    /\ Queue!Offer(d[1])
    /\ task' = [task EXCEPT ![t] = [at |-> "submitted", block |-> None, answer |-> "none"]]
    /\ UNCHANGED <<waiting, drops, isr, irq, lost>>

Requests(t, at) ==
    /\ task[t].at = at
    /\ requests < MaxRequests /\ requests' = requests + 1

\* Mutant: read() does not give the descriptors back when no data block is free.
Read_KeepsChain(t) ==
    /\ Requests(t, "idle")
    /\ \/ /\ HasChain /\ freeCommands # <<>> /\ freeData # <<>>
          /\ Submit(t, "read", Head(freeData))
          /\ freeData' = Tail(freeData)
       \/ /\ ~ HasChain
          /\ freelist' = ChainRefused
          /\ UNCHANGED <<freeCommands, freeData>>
          /\ Waits(t, "read", None)
       \/ /\ HasChain /\ (freeCommands = <<>> \/ freeData = <<>>)
          /\ freelist' = IF freeCommands = <<>> THEN ChainTaken \o Last3 ELSE ChainTaken
          /\ freeCommands' = IF freeCommands = <<>> THEN <<>>
                             ELSE Append(Tail(freeCommands), Head(freeCommands))
          /\ UNCHANGED freeData
          /\ Waits(t, "read", None)

\* read(): a chain, a command and a data block, or all of them given back.
\* The block cache is looked up and the result not used.
Read(t) ==
    /\ Requests(t, "idle")
    /\ \/ /\ HasChain /\ freeCommands # <<>> /\ freeData # <<>>
          /\ Submit(t, "read", Head(freeData))
          /\ freeData' = Tail(freeData)
       \/ /\ ~ HasChain
          /\ freelist' = ChainRefused
          /\ UNCHANGED <<freeCommands, freeData>>
          /\ Waits(t, "read", None)
       \/ /\ HasChain /\ (freeCommands = <<>> \/ freeData = <<>>)
          /\ freelist' = ChainTaken \o Last3
          /\ freeCommands' = IF freeCommands = <<>> THEN <<>>
                             ELSE Append(Tail(freeCommands), Head(freeCommands))
          /\ UNCHANGED freeData
          /\ Waits(t, "read", None)

\* alloc_data_block()
AllocDataBlock(t) ==
    /\ Requests(t, "idle")
    /\ \/ /\ freeData # <<>>
          /\ freeData' = Tail(freeData)
          /\ task' = [task EXCEPT ![t] = [at |-> "holding", block |-> Head(freeData), answer |-> "none"]]
          /\ UNCHANGED <<freelist, table, commands, freeCommands, queued, waiting, drops, queue, isr, irq, lost>>
       \/ /\ freeData = <<>>
          /\ UNCHANGED <<freelist, freeCommands, freeData>>
          /\ Waits(t, "block", None)

\* Mutant: a write that has to wait loses its block.
Write_ForgetsBlock(t) ==
    /\ Requests(t, "holding")
    /\ UNCHANGED freeData
    /\ \/ /\ HasChain /\ freeCommands # <<>>
          /\ Submit(t, "write", task[t].block)
       \/ /\ ~ HasChain \/ freeCommands = <<>>
          /\ freelist' = IF HasChain THEN ChainTaken \o Last3 ELSE ChainRefused
          /\ UNCHANGED freeCommands
          /\ Waits(t, "write", None)

\* write(): takes the block out of the task's hands (DataBlock::leak()); a
\* request that has to wait keeps it.
Write(t) ==
    /\ Requests(t, "holding")
    /\ UNCHANGED freeData
    /\ \/ /\ HasChain /\ freeCommands # <<>>
          /\ Submit(t, "write", task[t].block)
       \/ /\ ~ HasChain \/ freeCommands = <<>>
          /\ freelist' = IF HasChain THEN ChainTaken \o Last3 ELSE ChainRefused
          /\ UNCHANGED freeCommands
          /\ Waits(t, "write", task[t].block)

\* A task lets go of its block: Drop sends its index to the task below, ...
DropBlock(t) ==
    /\ task[t].at = "holding"
    /\ drops' = Append(drops, task[t].block)
    /\ task' = [task EXCEPT ![t] = Idle]
    /\ UNCHANGED <<freelist, table, commands, freeCommands, freeData, queued, waiting, queue, isr, irq, requests, lost>>

\* ... which new() spawned, and which frees it.
Dealloc ==
    /\ drops # <<>>
    /\ freeData' = Append(freeData, Head(drops))
    /\ drops' = Tail(drops)
    /\ UNCHANGED <<freelist, table, commands, freeCommands, queued, waiting, queue, isr, irq, task, requests, lost>>

-----------------------------------------------------------------------------
(* Interrupts *)

\* The server's event loop calls handle_interrupt().
Interrupt ==
    /\ isr /\ irq[1] = "idle"
    /\ irq' = <<"pop", None>>
    /\ UNCHANGED <<driver, queue, isr, task, requests, lost>>

Pop ==
    /\ irq[1] = "pop" /\ used # <<>>
    /\ Queue!Collect
    /\ irq' = <<"ack", Head(used)>>
    /\ UNCHANGED <<driver, isr, task, requests, lost>>

\* Nothing more is used; complete_interrupt() ends the handling.
PopNone ==
    /\ irq[1] = "pop" /\ used = <<>>
    /\ irq' = <<"idle", None>>
    /\ UNCHANGED <<driver, queue, isr, task, requests, lost>>

Answer(q, status) ==
    [at |-> IF q.kind = "read" /\ status = 0 THEN "holding" ELSE "idle",
     block |-> IF q.kind = "read" /\ status = 0 THEN q.data ELSE None,
     answer |-> IF status = 0 THEN "ok" ELSE "ReadError"]

\* The chain, the command and the data block that are free again.
Frees(head, q, status) ==
    LET d2 == table[head].next IN
    /\ freelist' = freelist \o <<head, d2, table[d2].next>>
    /\ freeCommands' = Append(freeCommands, q.command)
    /\ freeData' = IF q.kind = "write" THEN Append(freeData, q.data) ELSE freeData
    /\ lost' = IF q.kind = "read" /\ status # 0 THEN lost \cup {q.data} ELSE lost

\* Mutant: one used chain is taken for each interrupt.
Reclaim_One ==
    LET head == irq[2]
        q == queued[head] IN
    /\ irq[1] = "ack" /\ q # None
    /\ isr' = FALSE
    /\ queued' = [queued EXCEPT ![head] = None]
    /\ task' = [task EXCEPT ![q.task] = Answer(q, commands[q.command].status)]
    /\ Frees(head, q, commands[q.command].status)
    /\ irq' = <<"idle", None>>
    /\ UNCHANGED <<table, commands, waiting, drops, queue, requests>>

\* Mutant: the block of a write is freed only when it succeeded.
Reclaim_WriteKeeps ==
    LET head == irq[2]
        q == queued[head]
        d2 == table[head].next IN
    /\ irq[1] = "ack" /\ q # None
    /\ isr' = FALSE
    /\ queued' = [queued EXCEPT ![head] = None]
    /\ task' = [task EXCEPT ![q.task] = Answer(q, commands[q.command].status)]
    /\ freelist' = freelist \o <<head, d2, table[d2].next>>
    /\ freeCommands' = Append(freeCommands, q.command)
    /\ freeData' = IF q.kind = "write" /\ commands[q.command].status = 0
                   THEN Append(freeData, q.data) ELSE freeData
    /\ lost' = IF q.kind = "read" /\ commands[q.command].status # 0 THEN lost \cup {q.data} ELSE lost
    /\ irq' = <<"pop", None>>
    /\ UNCHANGED <<table, commands, waiting, drops, queue, requests>>

\* One turn of the loop in handle_interrupt() after pop().  The block of a
\* failed read is neither handed out nor freed; waiting requests are not
\* looked at.  The `else { break }' of a chain that is not in queued_commands
\* is left out: by ChainsIntact there is none.
Reclaim ==
    LET head == irq[2]
        q == queued[head] IN
    /\ irq[1] = "ack" /\ q # None
    /\ isr' = FALSE
    /\ queued' = [queued EXCEPT ![head] = None]
    /\ task' = [task EXCEPT ![q.task] = Answer(q, commands[q.command].status)]
    /\ Frees(head, q, commands[q.command].status)
    /\ irq' = <<"pop", None>>
    /\ UNCHANGED <<table, commands, waiting, drops, queue, requests>>

-----------------------------------------------------------------------------
(* The device (external) *)

DeviceTakes ==
    /\ Queue!Take
    /\ UNCHANGED <<driver, isr, irq, task, requests, lost>>

\* It finds the status byte through the last descriptor of the chain.
DeviceCompletes(head, status) ==
    LET c == table[table[table[head].next].next].address[2] IN
    /\ Queue!Return(head)
    /\ commands' = [commands EXCEPT ![c].status = status]
    /\ isr' = TRUE
    /\ UNCHANGED <<freelist, table, freeCommands, freeData, queued, waiting, drops, irq, task, requests, lost>>

Next ==
    \/ \E t \in Tasks : Read(t) \/ AllocDataBlock(t) \/ Write(t) \/ DropBlock(t)
    \/ Dealloc \/ Interrupt \/ Pop \/ PopNone \/ Reclaim
    \/ DeviceTakes
    \/ \E h \in Descriptors, s \in Status : DeviceCompletes(h, s)

\* The device works on what it is given; the kernel delivers its interrupts
\* and the executor polls the tasks they wake (module Present).
Fairness ==
    /\ WF_vars(Interrupt) /\ WF_vars(Pop) /\ WF_vars(PopNone) /\ WF_vars(Reclaim)
    /\ WF_vars(Dealloc)
    /\ WF_vars(DeviceTakes)
    /\ \A h \in Descriptors : WF_vars(\E s \in Status : DeviceCompletes(h, s))
    /\ \A t \in Tasks : WF_vars(DropBlock(t))

Spec == Init /\ [][Next]_vars /\ Fairness

-----------------------------------------------------------------------------
(* Properties *)

TypeOK ==
    /\ freelist \in Seq(Descriptors) /\ freeCommands \in Seq(Commands) /\ freeData \in Seq(Data)
    /\ \A d \in Descriptors : table[d].next \in Descriptors /\ table[d].write \in BOOLEAN
    /\ commands \in [Commands -> [kind : {"read", "write"}, status : 0 .. 2]]
    /\ isr \in BOOLEAN
    /\ irq \in {"idle", "pop", "ack"} \X (Descriptors \cup {None})
    /\ \A t \in Tasks : task[t].at \in {"idle", "holding", "submitted", "waiting"}

InFlight == {d \in Descriptors : queued[d] # None}

\* What a chain at the device or on its way back refers to stays what the
\* driver wrote and remembers for it: its own three descriptors, the command,
\* the data block, writable by the device for a read only, and the status.
ChainsIntact ==
    /\ InFlight = ToSet(available) \cup device \cup ToSet(used) \cup ({irq[2]} \ {None})
    /\ \A h \in InFlight :
          LET q == queued[h]
              d2 == table[h].next
              d3 == table[d2].next IN
          /\ table[h] = Entry(<<"command", q.command>>, FALSE, d2)
          /\ table[d2] = Entry(<<"data", q.data>>, q.kind = "read", d3)
          /\ table[d3] = Entry(<<"status", q.command>>, TRUE, 0)
          /\ commands[q.command].kind = q.kind

ChainOf(h) == <<h, table[h].next, table[table[h].next].next>>

\* Every descriptor and every command is free or of exactly one request.
QueueConserved ==
    LET flight == SetToSeq(InFlight)
        descriptors == freelist \o FlattenSeq([i \in DOMAIN flight |-> ChainOf(flight[i])])
        cmds == freeCommands \o [i \in DOMAIN flight |-> queued[flight[i]].command] IN
    /\ Len(descriptors) = NDescriptors /\ ToSet(descriptors) = Descriptors
    /\ Len(cmds) = NCommands /\ ToSet(cmds) = Commands

\* Every data block has exactly one owner: the free list, a request, a task,
\* a request that waits, or the channel to the task that frees it.  The blocks
\* of failed reads are the only ones without.
DataConserved ==
    LET flight == SetToSeq(InFlight)
        holders == SetToSeq({t \in Tasks : task[t].block # None})
        owned == freeData \o drops \o SetToSeq(lost)
                 \o [i \in DOMAIN flight |-> queued[flight[i]].data]
                 \o [i \in DOMAIN holders |-> task[holders[i]].block]
                 \o SelectSeq([i \in DOMAIN waiting |-> waiting[i].block], LAMBDA b : b # None) IN
    Len(owned) = NData /\ ToSet(owned) = Data

\* A request that has to wait is answered once there is room.
WaitingAnswered ==
    \A t \in Tasks : task[t].at = "waiting" ~> task[t].at # "waiting"

\* A write that fails is answered with the error of writes.
WriteErrors ==
    [][\A t \in Tasks : irq[1] = "ack" /\ task'[t].answer = "ReadError" /\ task[t].answer = "none"
          => queued[irq[2]].kind = "read"]_vars
===============================================================================
