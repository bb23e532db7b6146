------------------------------- MODULE Virtqueue ------------------------------
(***************************************************************************)
(* What a virtqueue promises a driver and its device: the buffers the      *)
(* driver offers reach the device in that order and once each, the device  *)
(* returns the ones it holds in any order, and the driver collects each    *)
(* once.  Module SplitVirtqueue implements it with rings and indices;      *)
(* VirtioBlock and VirtioNet use it as it stands here.                     *)
(***************************************************************************)
EXTENDS Sequences, SequencesExt

CONSTANT Heads   \* the descriptors a chain may begin with

VARIABLES
    available,  \* offered by the driver, not yet taken by the device
    device,     \* held by the device
    used        \* returned by the device, not yet collected

queueVars == <<available, device, used>>
InUse == ToSet(available) \cup device \cup ToSet(used)

Init == available = <<>> /\ device = {} /\ used = <<>>

Offer(h) ==
    /\ h \notin InUse
    /\ available' = Append(available, h)
    /\ UNCHANGED <<device, used>>

Take ==
    /\ available # <<>>
    /\ device' = device \cup {Head(available)}
    /\ available' = Tail(available)
    /\ UNCHANGED used

Return(h) ==
    /\ h \in device
    /\ device' = device \ {h}
    /\ used' = Append(used, h)
    /\ UNCHANGED available

Collect ==
    /\ used # <<>>
    /\ used' = Tail(used)
    /\ UNCHANGED <<available, device>>

Next ==
    \/ \E h \in Heads : Offer(h) \/ Return(h)
    \/ Take
    \/ Collect

Spec == Init /\ [][Next]_queueVars
===============================================================================
