------------------------------ MODULE VirtioNet -------------------------------
(***************************************************************************)
(* The network driver (servers/network/src/drivers/virtio.rs) between the  *)
(* server's event loop and the device: a transmit queue and a receive      *)
(* queue, each with its buffers.  The event loop calls tx_raw() and        *)
(* process_interrupt() one at a time; the device works beside them.        *)
(* A descriptor of the transmit queue is never freed and one of the        *)
(* receive queue never offered again, as in the code.                      *)
(***************************************************************************)
EXTENDS Integers, Sequences, FiniteSets, SequencesExt

CONSTANTS
    NDescriptors,   \* 64 in the code, in each queue; half of them receive at first
    NBuffers,       \* 64 in the code, in each direction
    MaxSends,       \* bound: packets the server sends
    MaxPackets,     \* bound: packets that arrive
    TooLong,        \* whether the server may send a packet that does not fit
    None

Descriptors == 0 .. NDescriptors - 1
Buffers == 0 .. NBuffers - 1
UpTo(n) == [i \in 1 .. n |-> i - 1]

\* What the constants of an instance satisfy.
VirtioNetAssumption ==
    /\ NDescriptors \in Nat \ {0} /\ NBuffers \in Nat /\ NDescriptors \div 2 =< NBuffers
    /\ None \notin Buffers

VARIABLES
    txFree, txFreeBuffers, txMap,  \* free descriptors and buffers; tx_buffer_map
    txAvailable, txDevice, txUsed,
    rxFree, rxFreeBuffers, rxMap,
    rxAvailable, rxDevice, rxUsed,
    received,   \* what the device put in each receive buffer
    isr, irq,   \* the device's interrupt status; whether the server handles it
    sent, sending, arrived,  \* packets sent, put on the wire; packets that arrived
    handled,    \* the packets process_interrupt() returned, in order
    panicked

tx == <<txFree, txFreeBuffers, txMap, txAvailable, txDevice, txUsed>>
rx == <<rxFree, rxFreeBuffers, rxMap, rxAvailable, rxDevice, rxUsed, received>>
vars == <<tx, rx, isr, irq, sent, sending, arrived, handled, panicked>>

Tx == INSTANCE Virtqueue WITH Heads <- Descriptors, available <- txAvailable, device <- txDevice, used <- txUsed
Rx == INSTANCE Virtqueue WITH Heads <- Descriptors, available <- rxAvailable, device <- rxDevice, used <- rxUsed

\* new(): half of the receive queue's descriptors, from the back of the free
\* list, offered with the first buffers.
Half == NDescriptors \div 2
Offered == [i \in 1 .. Half |-> NDescriptors - i]

Init ==
    /\ txFree = UpTo(NDescriptors) /\ txFreeBuffers = UpTo(NBuffers)
    /\ txMap = [d \in Descriptors |-> None]
    /\ txAvailable = <<>> /\ txDevice = {} /\ txUsed = <<>>
    /\ rxFree = UpTo(NDescriptors - Half)
    /\ rxFreeBuffers = [i \in 1 .. NBuffers - Half |-> Half + i - 1]
    /\ rxMap = [d \in Descriptors |-> IF d >= NDescriptors - Half THEN NDescriptors - 1 - d ELSE None]
    /\ rxAvailable = Offered /\ rxDevice = {} /\ rxUsed = <<>>
    /\ received = [b \in Buffers |-> 0]
    /\ isr = FALSE /\ irq = "idle"
    /\ sent = 0 /\ sending = <<>> /\ arrived = 0
    /\ handled = <<>>
    /\ panicked = FALSE

-----------------------------------------------------------------------------
(* The driver *)

\* Mutant: a descriptor for the header and one for the data.
TxRaw_TwoDescriptors ==
    /\ ~ panicked /\ irq = "idle"
    /\ sent < MaxSends /\ sent' = sent + 1
    /\ UNCHANGED <<rx, isr, irq, sending, arrived, handled>>
    /\ IF txFreeBuffers # <<>> /\ Len(txFree) > 1
       THEN /\ txMap' = [txMap EXCEPT ![Last(txFree)] = Head(txFreeBuffers)]
            /\ Tx!Offer(Last(txFree))
            /\ txFree' = Front(Front(txFree))
            /\ txFreeBuffers' = Tail(txFreeBuffers)
            /\ UNCHANGED panicked
       ELSE panicked' = TRUE /\ UNCHANGED tx

\* tx_raw(): a buffer, the packet written to it, a descriptor.  There being
\* none is a panic; the buffer of a packet that does not fit is not given back.
TxRaw ==
    /\ ~ panicked /\ irq = "idle"
    /\ sent < MaxSends /\ sent' = sent + 1
    /\ UNCHANGED <<rx, isr, irq, sending, arrived, handled>>
    /\ \/ /\ txFreeBuffers # <<>> /\ txFree # <<>>
          /\ txMap' = [txMap EXCEPT ![Last(txFree)] = Head(txFreeBuffers)]
          /\ Tx!Offer(Last(txFree))
          /\ txFree' = Front(txFree)
          /\ txFreeBuffers' = Tail(txFreeBuffers)
          /\ UNCHANGED panicked
       \/ /\ txFreeBuffers # <<>> /\ TooLong
          /\ txFreeBuffers' = Tail(txFreeBuffers)
          /\ UNCHANGED <<txFree, txMap, txAvailable, txDevice, txUsed, panicked>>
       \/ /\ txFreeBuffers = <<>> \/ txFree = <<>>
          /\ panicked' = TRUE
          /\ UNCHANGED tx

\* The event loop calls process_interrupt(), which acknowledges, ...
Acknowledge ==
    /\ ~ panicked /\ isr /\ irq = "idle"
    /\ isr' = FALSE /\ irq' = "tx"
    /\ UNCHANGED <<tx, rx, sent, sending, arrived, handled, panicked>>

\* Mutant: the buffer is freed and stays in the map.
ProcessTx_Remembers ==
    /\ irq = "tx" /\ irq' = "rx"
    /\ IF txUsed = <<>> THEN UNCHANGED tx
       ELSE /\ Tx!Collect
            /\ txFreeBuffers' = Append(txFreeBuffers, txMap[Head(txUsed)])
            /\ UNCHANGED <<txMap, txFree>>
    /\ UNCHANGED <<rx, isr, sent, sending, arrived, handled, panicked>>

\* ... takes at most one transmitted packet and frees its buffer, ...
ProcessTx ==
    /\ irq = "tx" /\ irq' = "rx"
    /\ IF txUsed = <<>> THEN UNCHANGED tx
       ELSE /\ Tx!Collect
            /\ txFreeBuffers' = Append(txFreeBuffers, txMap[Head(txUsed)])
            /\ txMap' = [txMap EXCEPT ![Head(txUsed)] = None]
            /\ UNCHANGED txFree
    /\ UNCHANGED <<rx, isr, sent, sending, arrived, handled, panicked>>

\* Mutant: the freed receive buffer and its descriptor are offered to the
\* device at once, while the caller still reads the packet.
ProcessRx_Offers ==
    /\ irq = "rx" /\ irq' = "idle"
    /\ IF rxUsed = <<>> THEN UNCHANGED <<rx, handled>>
       ELSE LET d == Head(rxUsed) IN
            /\ rxUsed' = Tail(rxUsed) /\ rxAvailable' = Append(rxAvailable, d)
            /\ handled' = Append(handled, received[rxMap[d]])
            /\ rxFreeBuffers' = Append(rxFreeBuffers, rxMap[d])
            /\ UNCHANGED <<rxMap, rxFree, rxDevice, received>>
    /\ UNCHANGED <<tx, isr, sent, sending, arrived, panicked>>

\* Mutant: the packet that came last is taken.
ProcessRx_Latest ==
    /\ irq = "rx" /\ irq' = "idle"
    /\ IF rxUsed = <<>> THEN UNCHANGED <<rx, handled>>
       ELSE LET d == Last(rxUsed) IN
            /\ rxUsed' = Front(rxUsed)
            /\ handled' = Append(handled, received[rxMap[d]])
            /\ rxFreeBuffers' = Append(rxFreeBuffers, rxMap[d])
            /\ rxMap' = [rxMap EXCEPT ![d] = None]
            /\ UNCHANGED <<rxFree, rxAvailable, rxDevice, received>>
    /\ UNCHANGED <<tx, isr, sent, sending, arrived, panicked>>

\* ... and at most one received packet, which the caller gets.
ProcessRx ==
    /\ irq = "rx" /\ irq' = "idle"
    /\ IF rxUsed = <<>> THEN UNCHANGED <<rx, handled>>
       ELSE LET d == Head(rxUsed) IN
            /\ Rx!Collect
            /\ handled' = Append(handled, received[rxMap[d]])
            /\ rxFreeBuffers' = Append(rxFreeBuffers, rxMap[d])
            /\ rxMap' = [rxMap EXCEPT ![d] = None]
            /\ UNCHANGED <<rxFree, received>>
    /\ UNCHANGED <<tx, isr, sent, sending, arrived, panicked>>

-----------------------------------------------------------------------------
(* The device (external) *)

DeviceSends ==
    \/ Tx!Take /\ UNCHANGED <<isr, sending>>
    \/ \E d \in txDevice : Tx!Return(d) /\ isr' = TRUE /\ sending' = Append(sending, txMap[d])

Sends ==
    /\ DeviceSends
    /\ UNCHANGED <<txFree, txFreeBuffers, txMap, rx, irq, sent, arrived, handled, panicked>>

\* Packet number arrived + 1 comes in; it is lost when nothing is offered.
Receives ==
    /\ arrived < MaxPackets /\ rxAvailable # <<>>
    /\ LET d == Head(rxAvailable) IN
       /\ rxAvailable' = Tail(rxAvailable)
       /\ rxUsed' = Append(rxUsed, d)
       /\ received' = [received EXCEPT ![rxMap[d]] = arrived + 1]
    /\ arrived' = arrived + 1
    /\ isr' = TRUE
    /\ UNCHANGED <<tx, rxFree, rxFreeBuffers, rxMap, rxDevice, irq, sent, sending, handled, panicked>>

Next == TxRaw \/ Acknowledge \/ ProcessTx \/ ProcessRx \/ Sends \/ Receives

\* The device sends what it is given; interrupts reach the event loop.
Fairness ==
    /\ WF_vars(Acknowledge) /\ WF_vars(ProcessTx) /\ WF_vars(ProcessRx)
    /\ WF_vars(Sends)

Spec == Init /\ [][Next]_vars /\ Fairness

-----------------------------------------------------------------------------
(* Properties *)

TypeOK ==
    /\ txFree \in Seq(Descriptors) /\ txFreeBuffers \in Seq(Buffers)
    /\ rxFree \in Seq(Descriptors) /\ rxFreeBuffers \in Seq(Buffers)
    /\ txMap \in [Descriptors -> Buffers \cup {None}]
    /\ rxMap \in [Descriptors -> Buffers \cup {None}]
    /\ isr \in BOOLEAN /\ irq \in {"idle", "tx", "rx"}

Mapped(map) == {d \in Descriptors : map[d] # None}
Sole(s) == Cardinality(ToSet(s)) = Len(s)

\* A buffer the device may touch is not free, and no two descriptors share
\* one: the maps hold exactly the descriptors that are out with the device,
\* the ones process_interrupt() unwraps.
BuffersOwned ==
    /\ Mapped(txMap) = ToSet(txAvailable) \cup txDevice \cup ToSet(txUsed)
    /\ Mapped(rxMap) = ToSet(rxAvailable) \cup rxDevice \cup ToSet(rxUsed)
    /\ \A map \in {txMap, rxMap} : \A c, d \in Mapped(map) : map[c] = map[d] => c = d
    /\ Sole(txFreeBuffers) /\ Sole(rxFreeBuffers)
    /\ \A d \in Mapped(txMap) : txMap[d] \notin ToSet(txFreeBuffers)
    /\ \A d \in Mapped(rxMap) : rxMap[d] \notin ToSet(rxFreeBuffers)

\* The packets come out of the driver in the order they came in, each once.
InOrder == handled = [i \in DOMAIN handled |-> i]

\* The driver does not panic over a full queue: DriverError::TxQueueFull is
\* there to say so.
NoPanic == ~ panicked

\* The driver gives a buffer it got back to the device again.
BuffersOfferedAgain == Len(handled) = MaxPackets ~> Len(rxAvailable) + Len(rxUsed) = Half
===============================================================================
