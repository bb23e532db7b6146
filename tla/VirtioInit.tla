------------------------------ MODULE VirtioInit ------------------------------
(***************************************************************************)
(* How the block driver and the network driver bring up their device: the  *)
(* accesses of VirtIoBlockDevice::new() and VirtIoNetDevice::new() to the  *)
(* registers of libs/virtio (lib.rs), one at a time, and a device that     *)
(* offers some features, may refuse the ones that are chosen, and may      *)
(* report that it failed.  The device is external.                         *)
(***************************************************************************)
EXTENDS Integers, Sequences, FiniteSets

CONSTANTS
    Half,      \* 2^32 in the code: addresses are written in two halves
    Addresses, \* where the driver's queues may be
    None

\* What the constants of an instance satisfy.
VirtioInitAssumption ==
    /\ Half \in Nat \ {0} /\ Addresses \subseteq 0 .. Half * Half - 1
    /\ Addresses # {} /\ None \notin Addresses

Features == {"MAC_ADDRESS", "STATUS", "MAX_MTU"}
Parts == {"descriptor", "available", "used"}
Queues == {0, 1}
Blank == [size |-> None, ready |-> FALSE, low |-> [p \in Parts |-> 0], high |-> [p \in Parts |-> 0]]

VARIABLES
    which,     \* "block" or "net"
    pc,        \* accesses done
    address,   \* of every part of every queue of the driver
    selected,  \* features the driver asks for
    result,    \* of new(): "none", "ok" or an error
    (* the device *)
    offers, picky,       \* its features; whether it refuses the choice
    status, accepted, queueSelect, queues, notified

driver == <<which, pc, address, selected, result>>
device == <<offers, picky, status, accepted, queueSelect, queues, notified>>
vars == <<driver, device>>

\* What new() does to the registers, in order.
SetUp(q, order) ==
    <<<<"select", q>>, <<"size">>>> \o [i \in 1 .. 3 |-> <<"address", order[i]>>] \o <<<<"ready">>>>

BlockProgram ==
    << <<"reset">>, <<"flag", "Acknowledge">>, <<"flag", "Driver">>,
       <<"accept">>, <<"flag", "FeaturesOk">>, <<"check">> >>
    \o SetUp(0, <<"descriptor", "available", "used">>)
    \o << <<"flag", "DriverOk">>, <<"failed">>, <<"return">> >>

\* Mutant: the link status is used without asking for it.
NetProgram_NoStatus ==
    << <<"reset">>, <<"flag", "Acknowledge">>, <<"flag", "Driver">>,
       <<"require", "MAC_ADDRESS">>,
       <<"accept">>, <<"flag", "FeaturesOk">>, <<"check">> >>
    \o SetUp(0, <<"available", "descriptor", "used">>)
    \o SetUp(1, <<"available", "descriptor", "used">>)
    \o << <<"flag", "DriverOk">>, <<"failed">>, <<"notify", 0>>, <<"return">> >>

NetProgram ==
    << <<"reset">>, <<"flag", "Acknowledge">>, <<"flag", "Driver">>,
       <<"require", "MAC_ADDRESS">>, <<"require", "STATUS">>,
       <<"accept">>, <<"flag", "FeaturesOk">>, <<"check">> >>
    \o SetUp(0, <<"available", "descriptor", "used">>)
    \o SetUp(1, <<"available", "descriptor", "used">>)
    \o << <<"flag", "DriverOk">>, <<"failed">>, <<"notify", 0>>, <<"return">> >>

Program == IF which = "block" THEN BlockProgram ELSE NetProgram
Uses == IF which = "block" THEN {0} ELSE Queues
Op == Program[pc + 1]
At(op) == result = "none" /\ Op[1] = op /\ pc' = pc + 1
Fails(error) == result = "none" /\ result' = error

Init ==
    /\ which \in {"block", "net"}
    /\ pc = 0
    /\ address \in [Queues \X Parts -> Addresses]
    /\ selected = {}
    /\ result = "none"
    /\ offers \in SUBSET Features /\ picky \in BOOLEAN
    /\ status \in {{}, {"Acknowledge", "Driver", "DriverOk"}}   \* it may have been in use
    /\ accepted = {}
    /\ queueSelect \in Queues
    /\ queues = [q \in Queues |-> Blank]
    /\ notified = FALSE

-----------------------------------------------------------------------------
(* Accesses *)

\* Status::reset()
Reset ==
    /\ At("reset")
    /\ status' = {} /\ accepted' = {} /\ queues' = [q \in Queues |-> Blank]
    /\ UNCHANGED <<which, address, selected, result, offers, picky, queueSelect, notified>>

\* Status::set_flag() adds a flag to the ones that are set; a device that does
\* not go along with the features does not keep FeaturesOk.
SetFlag ==
    /\ At("flag")
    /\ status' = IF Op[2] = "FeaturesOk" /\ (picky \/ ~ accepted \subseteq offers)
                 THEN status ELSE status \cup {Op[2]}
    /\ UNCHANGED <<which, address, selected, result, offers, picky, accepted, queueSelect, queues, notified>>

\* A feature the network driver insists on.
Require ==
    /\ \/ At("require") /\ Op[2] \in offers /\ UNCHANGED result
       \/ Fails("FeaturesNotRecognized") /\ Op[1] = "require" /\ Op[2] \notin offers /\ UNCHANGED pc
    /\ selected' = selected \cup {Op[2]}
    /\ UNCHANGED <<which, address, device>>

\* The two halves of NetDeviceFeatures, or the zero of the block driver.
Accept ==
    /\ At("accept")
    /\ accepted' = selected
    /\ UNCHANGED <<which, address, selected, result, offers, picky, status, queueSelect, queues, notified>>

\* Mutant: the driver does not look whether the device kept the flag.
CheckFeatures_Not ==
    /\ At("check")
    /\ UNCHANGED <<which, address, selected, result, device>>

CheckFeatures ==
    /\ \/ At("check") /\ "FeaturesOk" \in status /\ UNCHANGED result
       \/ Fails("FeaturesNotRecognized") /\ Op[1] = "check" /\ "FeaturesOk" \notin status /\ UNCHANGED pc
    /\ UNCHANGED <<which, address, selected, device>>

\* Mutant: the second queue is set up without being selected.
Select_Stays ==
    /\ At("select")
    /\ UNCHANGED <<which, address, selected, result, device>>

Select ==
    /\ At("select")
    /\ queueSelect' = Op[2]
    /\ UNCHANGED <<which, address, selected, result, offers, picky, status, accepted, queues, notified>>

SetSize ==
    /\ At("size")
    /\ queues' = [queues EXCEPT ![queueSelect].size = 64]
    /\ UNCHANGED <<which, address, selected, result, offers, picky, status, accepted, queueSelect, notified>>

\* QueueDescriptor, QueueAvailable and QueueUsed: the low half, then the high.
SetAddress ==
    LET q == CHOOSE x \in Queues : \E i \in 1 .. pc : Program[i] = <<"select", x>>
                                    /\ \A j \in i + 1 .. pc : Program[j][1] # "select"
        a == address[<<q, Op[2]>>] IN
    /\ At("address")
    /\ queues' = [queues EXCEPT ![queueSelect].low[Op[2]] = a % Half,
                                ![queueSelect].high[Op[2]] = a \div Half]
    /\ UNCHANGED <<which, address, selected, result, offers, picky, status, accepted, queueSelect, notified>>

Ready ==
    /\ At("ready")
    /\ queues' = [queues EXCEPT ![queueSelect].ready = TRUE]
    /\ UNCHANGED <<which, address, selected, result, offers, picky, status, accepted, queueSelect, notified>>

CheckFailed ==
    /\ \/ At("failed") /\ "Failed" \notin status /\ UNCHANGED result
       \/ Fails("DeviceError") /\ Op[1] = "failed" /\ "Failed" \in status /\ UNCHANGED pc
    /\ UNCHANGED <<which, address, selected, device>>

Notify ==
    /\ At("notify")
    /\ notified' = TRUE
    /\ UNCHANGED <<which, address, selected, result, offers, picky, status, accepted, queueSelect, queues>>

Return ==
    /\ result = "none" /\ Op[1] = "return"
    /\ result' = "ok"
    /\ UNCHANGED <<which, pc, address, selected, device>>

\* The device gives up (external).
DeviceFails ==
    /\ result = "none" /\ "DriverOk" \in status /\ "Failed" \notin status
    /\ status' = status \cup {"Failed"}
    /\ UNCHANGED <<driver, offers, picky, accepted, queueSelect, queues, notified>>

Next ==
    \/ Reset \/ SetFlag \/ Require \/ Accept \/ CheckFeatures \/ Select \/ SetSize
    \/ SetAddress \/ Ready \/ CheckFailed \/ Notify \/ Return \/ DeviceFails

Spec == Init /\ [][Next]_vars

-----------------------------------------------------------------------------
(* Properties *)

\* The address the device would use for a part of a queue.
Seen(q, p) == queues[q].low[p] + Half * queues[q].high[p]

\* Once a queue is ready, the device finds the driver's queue of that number
\* there, and its size: ready() comes after the rest, on the right queue.
ReadyQueues ==
    \A q \in Queues : queues[q].ready =>
        /\ queues[q].size # None
        /\ \A p \in Parts : Seen(q, p) = address[<<q, p>>]

\* After the reset the device is told to go only when both have agreed on the
\* features and every queue the driver uses is ready.
GoesWhenReady ==
    pc > 0 /\ "DriverOk" \in status =>
        /\ {"Acknowledge", "Driver", "FeaturesOk"} \subseteq status
        /\ \A q \in Uses : queues[q].ready

\* The driver works with features the device has, and with the ones it needs.
OffersWhatIsUsed ==
    result = "ok" =>
        /\ accepted \subseteq offers
        /\ which = "net" => {"MAC_ADDRESS", "STATUS"} \subseteq offers

\* The device is notified of buffers only once it was told to go.
NotifiedWhenGoing == [][notified' # notified => "DriverOk" \in status]_vars
===============================================================================
