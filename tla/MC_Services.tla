------------------------------ MODULE MC_Services ------------------------------
(***************************************************************************)
(* The runtime of userspace and three programs written for it, for TLC:    *)
(* processes of a few tasks under run() and under block_on(), the          *)
(* filesystem server, the waiters of a sector, and the network server.  A  *)
(* behaviour is about one of them; the variables it does not use are 0.    *)
(***************************************************************************)
EXTENDS Integers, Sequences, FiniteSets, TLC

CONSTANT None

VARIABLES
    part,
    \* Present
    program, pc, started, ready, waiting, running, wakers, avail, interest, seen, kernelQueue, fired, panic, stopped,
    \* FsServer
    stage, joining, handles, filesystems, collected, reader, onDevice, irq, outcome, channels,
    order,       \* of merged streams, in both
    \* WaitList
    map, task, rounds, dropped, arrived,
    \* Network
    dhcp, dhcpIn, dhcpOut, lookups, arpOut, arpIn, resolving, lookupSender, cached, resolvers, answers,
    control, packets, interfaceIps, gateway, ports, client, inbox, wire, panicked,
    sent         \* in both

-----------------------------------------------------------------------------
(* Processes *)

Chan(c) == <<"chan", c>>
Join(t) == <<"join", t>>
Irq == <<"irq", "i">>
Ipc(c) == <<"ipc", c>>
I(op, e) == [op |-> op, on |-> <<e>>]
Merged(e, f) == [op |-> "await", on |-> <<e, f>>]
Process(m, t, u) == "m" :> m @@ "t" :> t @@ "u" :> u

\* A server: a main task m that joins the others, a driver task t that counts
\* interrupts or commands, and a client task u for a channel.
JoinsBoth == <<I("spawn", "t"), I("spawn", "u"), I("await", Join("t")), I("await", Join("u"))>>
JoinsEither == <<I("spawn", "t"), I("spawn", "u"), Merged(Join("t"), Join("u")), Merged(Join("u"), Join("t"))>>
Listens == <<I("spawn", "t"), I("await", <<"new", "new">>), I("spawn", "u"), I("await", Join("u"))>>
Counts == <<I("open", Irq), I("await", Irq), I("await", Irq)>>
Drives == <<I("open", Irq), Merged(Irq, Chan("u")), Merged(Irq, Chan("u")), I("send", Chan("t"))>>
Starts == <<I("await", Chan("u")), I("open", Irq), Merged(Chan("u"), Irq)>>
Echoes == <<I("open", Ipc("x")), I("await", Ipc("x")), I("send", Chan("u")), I("await", Ipc("x"))>>
Mixes == <<I("send", Chan("u")), Merged(Ipc("x"), Ipc("y")), Merged(Ipc("y"), Ipc("x")), I("send", Chan("u"))>>
Asks == <<I("send", Chan("u")), I("send", Chan("u")), I("await", Ipc("y"))>>
\* A channel that is dropped after a message was read from it.
Closes == <<I("open", Ipc("x")), I("await", Ipc("x")), I("close", Ipc("x"))>>

Processes == {Process(JoinsBoth, Counts, Echoes), Process(JoinsBoth, Drives, Mixes), Process(JoinsEither, Starts, Asks),
              Process(Listens, Drives, Asks), Process(Listens, Starts, Echoes)}
Blocking == {Process(Closes, <<>>, <<>>), Process(Listens, Counts, Mixes), Process(Listens, Drives, Echoes)}

Run == INSTANCE Present WITH
    Tasks <- {"m", "t", "u"}, Main <- "m", Sources <- {Irq, Ipc("x"), Ipc("y")}, MaxEvents <- 2,
    Programs <- Processes, BlockOn <- FALSE
\* The main task does not wait for the driver.
Block == INSTANCE Present WITH
    Tasks <- {"m", "t", "u"}, Main <- "m", Sources <- {Irq, Ipc("x"), Ipc("y")}, MaxEvents <- 2,
    Programs <- Blocking, BlockOn <- TRUE

-----------------------------------------------------------------------------
(* Servers *)

\* Probes that fail, find none, one or two filesystems.
Failed == <<"error">>
Probed == {Failed, <<>>, <<"a">>, <<"a", "b">>}

Probing == INSTANCE FsServer WITH
    NDevices <- 3, Outcomes <- Probed, Error <- Failed, ReadsOfProbe <- 1, Clients <- {"c1"}, ReadsOfClient <- 0
Serving == INSTANCE FsServer WITH
    NDevices <- 2, Outcomes <- {<<>>, <<"a">>}, Error <- Failed, ReadsOfProbe <- 2, Clients <- {"c1", "c2"}, ReadsOfClient <- 1

Waiters == {"t1", "t2", "t3"}
Kept == INSTANCE WaitList WITH Tasks <- Waiters, Keys <- {"s1", "s2"}, Rounds <- 2, MaxDropped <- 0
\* A future that waits is dropped.
Forgotten == INSTANCE WaitList WITH Tasks <- Waiters, Keys <- {"s1", "s2"}, Rounds <- 2, MaxDropped <- 1

\* A broadcast ARP request of another machine, and data for a port.
Noise == {[kind |-> "arpOther", mac |-> "them", from |-> "them"], [kind |-> "udp", mac |-> "us", from |-> "p1"]}
Net == INSTANCE Network WITH
    Clients <- {"c1", "c2"}, Ports <- {"p1"}, Servers <- {"s1"}, Packets <- 1, Sizes <- {"small"},
    Foreign <- Noise, DhcpPort <- "p68"

ASSUME Run!PresentAssumption /\ Block!PresentAssumption /\ Net!NetworkAssumption

-----------------------------------------------------------------------------

processVars == <<program, pc, started, ready, waiting, running, wakers, avail, interest, seen, kernelQueue, fired, panic, stopped>>
filesystemVars == <<stage, joining, handles, filesystems, collected, reader, onDevice, irq, outcome, channels>>
waitVars == <<map, task, rounds, dropped, arrived>>
networkVars == <<dhcp, dhcpIn, dhcpOut, lookups, arpOut, arpIn, resolving, lookupSender, cached, resolvers, answers,
                 control, packets, interfaceIps, gateway, ports, client, inbox, wire, panicked>>
vars == <<part, processVars, filesystemVars, order, waitVars, networkVars, sent>>

NoProcess ==
    /\ program = 0 /\ pc = 0 /\ started = 0 /\ ready = 0 /\ waiting = 0 /\ running = 0 /\ wakers = 0
    /\ avail = 0 /\ interest = 0 /\ seen = 0 /\ kernelQueue = 0 /\ fired = 0 /\ panic = 0 /\ stopped = 0
NoFilesystem ==
    /\ stage = 0 /\ joining = 0 /\ handles = 0 /\ filesystems = 0 /\ collected = 0
    /\ reader = 0 /\ onDevice = 0 /\ irq = 0 /\ outcome = 0 /\ channels = 0
NoWaiters == map = 0 /\ task = 0 /\ rounds = 0 /\ dropped = 0 /\ arrived = 0
NoNetwork ==
    /\ dhcp = 0 /\ dhcpIn = 0 /\ dhcpOut = 0 /\ lookups = 0 /\ arpOut = 0 /\ arpIn = 0 /\ resolving = 0
    /\ lookupSender = 0 /\ cached = 0 /\ resolvers = 0 /\ answers = 0 /\ control = 0 /\ packets = 0
    /\ interfaceIps = 0 /\ gateway = 0 /\ ports = 0 /\ client = 0 /\ inbox = 0 /\ wire = 0 /\ panicked = 0

Init ==
    \/ /\ NoFilesystem /\ NoWaiters /\ NoNetwork /\ sent = 0
       /\ \/ part = "run" /\ Run!Init
          \/ part = "block" /\ Block!Init
    \/ /\ NoProcess /\ NoWaiters /\ NoNetwork /\ sent = 0
       /\ \/ part = "probing" /\ Probing!Init
          \/ part = "serving" /\ Serving!Init
    \/ /\ NoProcess /\ NoFilesystem /\ NoNetwork /\ order = 0
       /\ \/ part = "kept" /\ Kept!Init
          \/ part = "forgotten" /\ Forgotten!Init
    \/ part = "network" /\ Net!Init /\ NoProcess /\ NoFilesystem /\ NoWaiters /\ order = 0

Next ==
    /\ UNCHANGED part
    /\ \/ /\ UNCHANGED <<filesystemVars, waitVars, networkVars, sent>>
          /\ \/ part = "run" /\ Run!Next
             \/ part = "block" /\ Block!Next
       \/ /\ UNCHANGED <<processVars, waitVars, networkVars, sent>>
          /\ \/ part = "probing" /\ Probing!Next
             \/ part = "serving" /\ Serving!Next
       \/ /\ UNCHANGED <<processVars, filesystemVars, order, networkVars>>
          /\ \/ part = "kept" /\ Kept!Next
             \/ part = "forgotten" /\ Forgotten!Next
       \/ part = "network" /\ Net!Next /\ UNCHANGED <<processVars, filesystemVars, order, waitVars>>

\* The fairness of the modules, each for its part.
procVars == <<processVars, order>>
fsVars == <<filesystemVars, order>>
wlVars == <<waitVars, sent>>
netVars == <<networkVars, sent>>
ProcessFairness ==
    /\ WF_procVars(part = "run" /\ Run!Step) /\ WF_procVars(part = "block" /\ Block!Step)
    /\ \A e \in {Irq, Ipc("x"), Ipc("y")} :
        WF_procVars(part \in {"run", "block"} /\ (Run!Interrupts(e) \/ Run!Message(e)))
FilesystemFairness ==
    /\ \A d \in {1, 2} :
        /\ SF_fsVars(part = "serving" /\ stage # "panic" /\ Serving!InitInterrupt(d))
        /\ SF_fsVars(part = "serving" /\ stage # "panic" /\ Serving!ServeInterrupt(d))
    /\ WF_fsVars(part = "serving" /\ Serving!InitFilesystem) /\ WF_fsVars(part = "serving" /\ Serving!InitPending)
    /\ \A c \in {"c1", "c2"} : SF_fsVars(part = "serving" /\ Serving!ServeClient(c))
    /\ \A r \in Serving!Readers :
        /\ WF_fsVars(part = "serving" /\ stage # "panic" /\ Serving!Read(r))
        /\ WF_fsVars(part = "serving" /\ stage # "panic" /\ Serving!Answer(r))
WaiterFairness ==
    \A t \in Waiters : WF_wlVars(part = "kept" /\ Kept!Receive(t)) /\ WF_wlVars(part = "kept" /\ Kept!DropToken(t))
NetworkFairness ==
    /\ WF_netVars(part = "network" /\ Net!Discover) /\ WF_netVars(part = "network" /\ Net!TakeOffer)
    /\ WF_netVars(part = "network" /\ Net!TakeAck) /\ WF_netVars(part = "network" /\ Net!Lookup)
    /\ WF_netVars(part = "network" /\ Net!Reply)
    /\ WF_netVars(part = "network" /\ \E who \in answers : Net!Resolved(who))
    /\ WF_netVars(part = "network" /\ \E f \in DOMAIN wire : Net!Interrupt(f))
    /\ WF_netVars(part = "network" /\ Net!PacketToSend) /\ WF_netVars(part = "network" /\ Net!ArpRequest)
    /\ WF_netVars(part = "network" /\ Net!DhcpResponse) /\ WF_netVars(part = "network" /\ Net!Control)
    /\ \A c \in {"c1", "c2"} : WF_netVars(part = "network" /\ Net!BindAnswered(c))

Spec == Init /\ [][Next]_vars /\ ProcessFairness /\ FilesystemFairness /\ WaiterFairness /\ NetworkFairness

-----------------------------------------------------------------------------

\* A task of the runtime (executor/mod.rs, reactor.rs) is in one place: in one of
\* the two queues, once, or being polled, or at its end; it never waits for an
\* event that has something for it, unless the message that will wake it is
\* still in the kernel's queue; and no assertion of the runtime fails.
NoLostWakeup ==
    /\ part = "run" => Run!TypeOK /\ Run!OnePlace /\ Run!NoLostWakeup /\ Run!NoPanic
    /\ part = "block" => Block!NoLostWakeup

\* What only one may have has one owner: a sector is acquired by one task at a
\* time and in the order it was asked for (waitlist.rs), also when a future
\* that waits is dropped; two clients that bind a port at the same time are not
\* both told it is theirs, and none finds an answer it does not expect on its
\* channel (network/src/main.rs).
OneOwner ==
    /\ part = "kept" => Kept!OneHolder /\ Kept!FirstCome
    /\ part = "forgotten" => Forgotten!OneHolder /\ Forgotten!FirstCome
    /\ part = "network" => Net!OneOwner /\ Net!NoPanic /\ Net!SentWhenConfigured

\* The filesystems are in the order of the devices whichever probe ends first,
\* those of a device that fails are left out, and the server panics only when
\* no filesystem was found (filesystem/src/main.rs).
InDeviceOrder ==
    part = "probing" => Probing!InDeviceOrder /\ Probing!PanicsOnlyWithout

\* A packet the network server's loop is given once it has an address goes
\* out, although its resolver waits for the gateway's answer (of the clients,
\* which are alike, the first).
PacketsGoOut ==
    LET q == [client |-> "c1", n |-> 1, port |-> "p1", size |-> "small"] IN
    (part = "network" /\ interfaceIps # <<>> /\ gateway # None /\ \E i \in 1..Len(packets) : packets[i] = q)
        ~> (part = "network" /\ q \in sent)

\* Nobody waits for ever: a process whose events come ends (executor/mod.rs); a
\* client reads its file to the end in whichever loop of the filesystem server
\* its requests and the interrupts for them fall; a task that waits for a
\* sector gets it; the network server gets its address, and its packets go out.
\* All but the packets do so finitely often in an instance.
EveryoneServed ==
    /\ <>[](/\ part \in {"run", "block"} => stopped \/ panic
            /\ part = "serving" =>
                   \/ stage = "panic"
                   \/ stage = "serve" /\ \A r \in Serving!Readers : reader[r].at \in {"away", "done"}
            /\ part = "kept" => \A t \in Waiters : task[t].at # "waiting"
            /\ part = "network" => interfaceIps # <<>> /\ gateway # None /\ cached)
    /\ PacketsGoOut
================================================================================
