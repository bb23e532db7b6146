------------------------------- MODULE Network --------------------------------
(***************************************************************************)
(* The network server (servers/network): one event loop that owns the      *)
(* device, and the tasks it talks to over channels: the DHCP task, which   *)
(* gets an address and then starts the ARP task, a resolver for every      *)
(* packet that has to wait for the gateway's hardware address, and the     *)
(* clients' tasks.  The loop takes the events that are ready in any order  *)
(* (the merged streams of module Present); every channel is first in,      *)
(* first out.  The wire and the hosts on it are external.                  *)
(***************************************************************************)
EXTENDS Integers, Sequences, FiniteSets, Bags

CONSTANTS
    Clients, Ports,
    Servers,     \* DHCP servers on the wire
    Packets,     \* bound: packets each client sends
    Sizes,       \* of packets: "small", or "large" for one that does not fit
    Foreign,     \* frames on the wire that answer nothing of ours
    DhcpPort, None

\* What the constants of an instance satisfy.
NetworkAssumption == DhcpPort \notin Ports /\ None \notin Clients

Gateway == "router"
GatewayMac == "routerMac"
Frame(kind, mac, from) == [kind |-> kind, mac |-> mac, from |-> from]
\* A packet of a client, the n-th; lookups are made for packets, and by the
\* DHCP task.
NoPacket == [client |-> None, n |-> 0, port |-> 0, size |-> "small"]

VARIABLES
    dhcp,         \* the DHCP task: where it is, the server it asked
    dhcpIn, dhcpOut,
    lookups, arpOut, arpIn,  \* of the ARP task; it runs once `lookupSender' is set
    resolving,    \* resolving_map for the gateway: who is waiting, or None
    lookupSender, \* ARP_CACHE: whether the sender was set
    cached,       \* ARP_CACHE: the gateway's address is known
    resolvers,    \* packets in resolve_and_cache()
    answers,      \* oneshot answers sent and not yet received
    control, packets,        \* the channels of ControlMessages and of packets to send
    interfaceIps, gateway,
    ports,        \* who is bound to each port: a client, "dhcp" or None
    client, inbox,           \* the clients' tasks and their channels
    wire,         \* frames on their way to the device
    sent,         \* frames given to the device
    panicked

dhcpVars == <<dhcp, dhcpIn, dhcpOut>>
arpVars == <<lookups, arpOut, arpIn, resolving, lookupSender, cached, resolvers, answers>>
loopVars == <<control, packets, interfaceIps, gateway, ports>>
clientVars == <<client, inbox>>
vars == <<dhcpVars, arpVars, loopVars, clientVars, wire, sent, panicked>>

Init ==
    /\ dhcp = [at |-> "discover", server |-> None]
    /\ dhcpIn = <<>> /\ dhcpOut = <<>>
    /\ lookups = <<>> /\ arpOut = <<>> /\ arpIn = <<>>
    /\ resolving = None /\ lookupSender = FALSE /\ cached = FALSE
    /\ resolvers = {} /\ answers = {}
    /\ control = <<>> /\ packets = <<>>
    /\ interfaceIps = <<>> /\ gateway = None
    /\ ports = [p \in Ports \cup {DhcpPort} |-> IF p = DhcpPort THEN "dhcp" ELSE None]
    /\ client = [c \in Clients |-> [at |-> "idle", port |-> None, n |-> 0]]
    /\ inbox = [c \in Clients |-> <<>>]
    /\ wire = SetToBag(Foreign) /\ sent = {} /\ panicked = FALSE

-----------------------------------------------------------------------------
(* The DHCP task *)

Discover ==
    /\ dhcp.at = "discover"
    /\ dhcpOut' = Append(dhcpOut, [kind |-> "discover", server |-> None])
    /\ dhcp' = [dhcp EXCEPT !.at = "offer"]
    /\ UNCHANGED <<dhcpIn, arpVars, loopVars, clientVars, wire, sent, panicked>>

\* Waiting for an offer: one to us that names its server and a router is
\* answered with a request, anything else is skipped.
TakeOffer ==
    LET f == Head(dhcpIn) IN
    /\ dhcp.at = "offer" /\ dhcpIn # <<>>
    /\ dhcpIn' = Tail(dhcpIn)
    /\ \/ /\ f.kind = "offer" /\ f.mac = "us"
          /\ dhcpOut' = Append(dhcpOut, [kind |-> "request", server |-> f.from])
          /\ dhcp' = [at |-> "ack", server |-> f.from]
       \/ /\ ~ (f.kind = "offer" /\ f.mac = "us")
          /\ UNCHANGED <<dhcpOut, dhcp>>
    /\ UNCHANGED <<arpVars, loopVars, clientVars, wire, sent, panicked>>

\* Mutant: the ARP task is started once the control messages are answered.
TakeAck_NoSender ==
    LET f == Head(dhcpIn) IN
    /\ dhcp.at = "ack" /\ dhcpIn # <<>>
    /\ dhcpIn' = Tail(dhcpIn)
    /\ \/ /\ f.kind = "ack" /\ f.mac = "us"
          /\ control' = control \o <<[kind |-> "ip", client |-> None, port |-> 0],
                                     [kind |-> "gateway", client |-> None, port |-> 0]>>
          /\ dhcp' = [dhcp EXCEPT !.at = "done"]
          /\ UNCHANGED <<lookups, lookupSender>>
       \/ /\ ~ (f.kind = "ack" /\ f.mac = "us")
          /\ dhcp' = [at |-> "offer", server |-> None]
          /\ UNCHANGED <<control, lookupSender, lookups>>
    /\ UNCHANGED <<dhcpOut, arpOut, arpIn, resolving, cached, resolvers, answers, packets, interfaceIps,
                   gateway, ports, clientVars, wire, sent, panicked>>

\* Waiting for the acknowledgement: with it the loop is told the address and
\* the gateway, the ARP task is started and the gateway looked up; with any
\* other message the task waits for an offer again.
TakeAck ==
    LET f == Head(dhcpIn) IN
    /\ dhcp.at = "ack" /\ dhcpIn # <<>>
    /\ dhcpIn' = Tail(dhcpIn)
    /\ \/ /\ f.kind = "ack" /\ f.mac = "us"
          /\ control' = control \o <<[kind |-> "ip", client |-> None, port |-> 0],
                                     [kind |-> "gateway", client |-> None, port |-> 0]>>
          /\ lookupSender' = TRUE
          /\ lookups' = Append(lookups, NoPacket)
          /\ dhcp' = [dhcp EXCEPT !.at = "resolve"]
       \/ /\ ~ (f.kind = "ack" /\ f.mac = "us")
          /\ dhcp' = [at |-> "offer", server |-> None]
          /\ UNCHANGED <<control, lookupSender, lookups>>
    /\ UNCHANGED <<dhcpOut, arpOut, arpIn, resolving, cached, resolvers, answers, packets, interfaceIps,
                   gateway, ports, clientVars, wire, sent, panicked>>

-----------------------------------------------------------------------------
(* The ARP task, and who waits for it *)

\* A lookup: a request is sent and the sender remembered, in the place of any
\* that waited for the same address.
Lookup ==
    /\ lookupSender /\ lookups # <<>>
    /\ lookups' = Tail(lookups)
    /\ arpOut' = Append(arpOut, "request")
    /\ resolving' = Head(lookups)
    /\ UNCHANGED <<dhcpVars, arpIn, lookupSender, cached, resolvers, answers, loopVars, clientVars, wire, sent, panicked>>

\* A reply to an address somebody waits for answers them.
Reply ==
    /\ lookupSender /\ arpIn # <<>>
    /\ arpIn' = Tail(arpIn)
    /\ IF Head(arpIn).kind = "arpReply" /\ Head(arpIn).from = Gateway /\ resolving # None
       THEN answers' = answers \cup {resolving} /\ resolving' = None
       ELSE UNCHANGED <<answers, resolving>>
    /\ UNCHANGED <<dhcpVars, lookups, arpOut, lookupSender, cached, resolvers, loopVars, clientVars, wire, sent, panicked>>

\* Mutant: the resolver sends the packet on without caching the address.
Resolved_NotCached(who) ==
    /\ who \in answers
    /\ answers' = answers \ {who}
    /\ resolvers' = resolvers \ {who}
    /\ packets' = IF who = NoPacket THEN packets ELSE Append(packets, who)
    /\ dhcp' = IF who = NoPacket THEN [dhcp EXCEPT !.at = "done"] ELSE dhcp
    /\ UNCHANGED <<dhcpIn, dhcpOut, lookups, arpOut, arpIn, resolving, lookupSender, cached, control, interfaceIps,
                   gateway, ports, clientVars, wire, sent, panicked>>

\* resolve_and_cache() returns: to the DHCP task, which ends, or to the task
\* of a packet, which hands it to the loop again.
Resolved(who) ==
    /\ who \in answers
    /\ answers' = answers \ {who}
    /\ resolvers' = resolvers \ {who}
    /\ cached' = TRUE
    /\ packets' = IF who = NoPacket THEN packets ELSE Append(packets, who)
    /\ dhcp' = IF who = NoPacket THEN [dhcp EXCEPT !.at = "done"] ELSE dhcp
    /\ UNCHANGED <<dhcpIn, dhcpOut, lookups, arpOut, arpIn, resolving, lookupSender, control, interfaceIps,
                   gateway, ports, clientVars, wire, sent, panicked>>

-----------------------------------------------------------------------------
(* The event loop *)

\* An interrupt: the frame goes to the ARP task, or to whoever is bound to the
\* port it is for.
Interrupt(f) ==
    /\ BagIn(f, wire) /\ wire' = wire (-) SetToBag({f})
    /\ CASE f.kind \in {"arpReply", "arpOther"} ->
              /\ arpIn' = Append(arpIn, f)
              /\ UNCHANGED <<dhcpIn, inbox>>
         [] f.kind \in {"offer", "ack"} ->
              /\ dhcpIn' = Append(dhcpIn, f)
              /\ UNCHANGED <<arpIn, inbox>>
         [] f.kind = "udp" ->
              /\ inbox' = IF ports[f.from] \in Clients
                          THEN [inbox EXCEPT ![ports[f.from]] = Append(@, "Received")] ELSE inbox
              /\ UNCHANGED <<dhcpIn, arpIn>>
    /\ UNCHANGED <<dhcp, dhcpOut, lookups, arpOut, resolving, lookupSender, cached, resolvers, answers,
                   loopVars, client, sent, panicked>>

\* Mutant: the addresses are not asked for.
PacketToSend_Unconfigured ==
    LET p == Head(packets) IN
    /\ packets # <<>>
    /\ packets' = Tail(packets)
    /\ sent' = IF cached /\ p.size = "small" THEN sent \cup {p} ELSE sent
    /\ panicked' = (cached /\ p.size = "large")
    /\ UNCHANGED <<dhcpVars, arpVars, control, interfaceIps, gateway, ports, clientVars, wire>>

\* Event::PacketToSend: sent to the gateway if its address is known, else a
\* task is spawned that resolves it first.  A packet that does not fit is a
\* panic; with no address yet the packet is dropped.
PacketToSend ==
    LET p == Head(packets) IN
    /\ packets # <<>>
    /\ packets' = Tail(packets)
    /\ IF interfaceIps # <<>> /\ gateway # None
       THEN IF cached
            THEN /\ sent' = IF p.size = "small" THEN sent \cup {p} ELSE sent
                 /\ panicked' = (p.size = "large")
                 /\ UNCHANGED <<resolvers, lookups>>
            ELSE /\ resolvers' = resolvers \cup {p}
                 /\ lookups' = Append(lookups, p)
                 /\ panicked' = ~ lookupSender   \* expect("ARP lookup task started")
                 /\ UNCHANGED sent
       ELSE UNCHANGED <<resolvers, lookups, sent, panicked>>
    /\ UNCHANGED <<dhcpVars, arpOut, arpIn, resolving, lookupSender, cached, answers, control, interfaceIps,
                   gateway, ports, clientVars, wire>>

ArpRequest ==
    /\ arpOut # <<>>
    /\ arpOut' = Tail(arpOut)
    /\ wire' = wire (+) SetToBag({Frame("arpReply", GatewayMac, Gateway)})
    /\ UNCHANGED <<dhcpVars, lookups, arpIn, resolving, lookupSender, cached, resolvers, answers, loopVars,
                   clientVars, sent, panicked>>

\* The DHCP message goes out; the servers it reaches answer it (external).
DhcpResponse ==
    LET m == Head(dhcpOut) IN
    /\ dhcpOut # <<>>
    /\ dhcpOut' = Tail(dhcpOut)
    /\ wire' = wire (+) SetToBag(IF m.kind = "discover" THEN {Frame("offer", "us", s) : s \in Servers}
                                ELSE {Frame("ack", "us", m.server)})
    /\ UNCHANGED <<dhcp, dhcpIn, arpVars, loopVars, clientVars, sent, panicked>>

\* Mutant: the port is bound before it is looked at.
Control_BindsFirst ==
    LET m == Head(control) IN
    /\ control # <<>>
    /\ control' = Tail(control)
    /\ interfaceIps' = IF m.kind = "ip" THEN Append(interfaceIps, "ip") ELSE interfaceIps
    /\ gateway' = IF m.kind = "gateway" THEN Gateway ELSE gateway
    /\ IF m.kind = "new"
       THEN /\ ports' = [ports EXCEPT ![m.port] = m.client]
            /\ inbox' = [inbox EXCEPT ![m.client] =
                            Append(@, IF ports[m.port] # None THEN "PortInUse" ELSE "PortBound")]
       ELSE UNCHANGED <<ports, inbox>>
    /\ UNCHANGED <<dhcpVars, arpVars, packets, client, wire, sent, panicked>>

\* Event::ControlMessage.  ClientDisconnect is left out: nothing sends it.
Control ==
    LET m == Head(control) IN
    /\ control # <<>>
    /\ control' = Tail(control)
    /\ interfaceIps' = IF m.kind = "ip" THEN Append(interfaceIps, "ip") ELSE interfaceIps
    /\ gateway' = IF m.kind = "gateway" THEN Gateway ELSE gateway
    /\ IF m.kind = "new"
       THEN /\ ports' = [ports EXCEPT ![m.port] = IF @ = None THEN m.client ELSE @]
            /\ inbox' = [inbox EXCEPT ![m.client] =
                            Append(@, IF ports[m.port] # None THEN "PortInUse" ELSE "PortBound")]
       ELSE UNCHANGED <<ports, inbox>>
    /\ UNCHANGED <<dhcpVars, arpVars, packets, client, wire, sent, panicked>>

-----------------------------------------------------------------------------
(* The clients *)

\* bind_udp() asks the loop, ...
Bind(c, p) ==
    /\ client[c].at = "idle" /\ client[c].port = None
    /\ control' = Append(control, [kind |-> "new", client |-> c, port |-> p])
    /\ client' = [client EXCEPT ![c] = [@ EXCEPT !.at = "binding", !.port = p]]
    /\ UNCHANGED <<dhcpVars, arpVars, packets, interfaceIps, gateway, ports, inbox, wire, sent, panicked>>

\* ... and waits for its answer, which anything but PortInUse and PortBound
\* would make unreachable!().
BindAnswered(c) ==
    /\ client[c].at = "binding" /\ inbox[c] # <<>>
    /\ inbox' = [inbox EXCEPT ![c] = Tail(@)]
    /\ panicked' = (panicked \/ Head(inbox[c]) = "Received")
    /\ client' = [client EXCEPT ![c] =
                     [@ EXCEPT !.at = IF Head(inbox[c]) = "PortBound" THEN "bound" ELSE "refused"]]
    /\ UNCHANGED <<dhcpVars, arpVars, loopVars, wire, sent>>

\* send()
Send(c, size) ==
    /\ client[c].at = "bound" /\ client[c].n < Packets
    /\ packets' = Append(packets, [client |-> c, n |-> client[c].n + 1, port |-> client[c].port, size |-> size])
    /\ client' = [client EXCEPT ![c].n = @ + 1]
    /\ UNCHANGED <<dhcpVars, arpVars, control, interfaceIps, gateway, ports, inbox, wire, sent, panicked>>

\* recv(): unreachable!() for anything but data.
Recv(c) ==
    /\ client[c].at = "bound" /\ inbox[c] # <<>>
    /\ inbox' = [inbox EXCEPT ![c] = Tail(@)]
    /\ panicked' = (panicked \/ Head(inbox[c]) # "Received")
    /\ UNCHANGED <<dhcpVars, arpVars, loopVars, client, wire, sent>>

Step ==
    \/ Discover \/ TakeOffer \/ TakeAck
    \/ Lookup \/ Reply \/ \E who \in answers : Resolved(who)
    \/ \E f \in BagToSet(wire) : Interrupt(f)
    \/ PacketToSend \/ ArpRequest \/ DhcpResponse \/ Control
    \/ \E c \in Clients : \/ \E p \in Ports : Bind(c, p)
                          \/ BindAnswered(c) \/ Recv(c)
                          \/ \E s \in Sizes : Send(c, s)

\* A panic ends the server with all its tasks.
Next == ~ panicked /\ Step

\* The executor polls every task that is woken, the loop takes each of its
\* streams in turn, and frames that are on the wire arrive.
Fairness ==
    /\ WF_vars(Discover) /\ WF_vars(TakeOffer) /\ WF_vars(TakeAck)
    /\ WF_vars(Lookup) /\ WF_vars(Reply) /\ WF_vars(\E who \in answers : Resolved(who))
    /\ WF_vars(\E f \in BagToSet(wire) : Interrupt(f))
    /\ WF_vars(PacketToSend) /\ WF_vars(ArpRequest) /\ WF_vars(DhcpResponse) /\ WF_vars(Control)
    /\ \A c \in Clients : WF_vars(BindAnswered(c))

Spec == Init /\ [][Next]_vars /\ Fairness

-----------------------------------------------------------------------------
(* Properties *)

\* No expect(), unwrap() or unreachable!() of the server is reached: the ARP
\* task is there before anything is looked up, the first message on a client's
\* channel is the answer to its bind, and the ones after it are data.
NoPanic == ~ panicked

Owns(c, p) == client[c].at = "bound" /\ client[c].port = p

\* A port has one owner: two clients that bind it at the same time are not
\* both told it is theirs, and its packets go to the one that was.
OneOwner ==
    \A p \in Ports :
        /\ \A c, d \in Clients : Owns(c, p) /\ Owns(d, p) => c = d
        /\ \A c \in Clients : Owns(c, p) => ports[p] = c

\* A packet goes out only after the server has its address and the gateway's.
SentWhenConfigured == sent # {} => cached /\ interfaceIps # <<>> /\ gateway # None

\* A packet the loop is given once the server has an address goes out, when no
\* other packet is looking the gateway up: a second lookup of the same address
\* takes the first one's place in resolving_map, and its packet is lost.
PacketsGoOut ==
    \A c \in Clients, p \in Ports :
        LET q == [client |-> c, n |-> 1, port |-> p, size |-> "small"] IN
        (interfaceIps # <<>> /\ gateway # None /\ \E i \in 1..Len(packets) : packets[i] = q) ~> q \in sent
===============================================================================
