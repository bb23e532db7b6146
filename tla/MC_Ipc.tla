------------------------------- MODULE MC_Ipc -------------------------------
(* Two instances: the machine as it boots, init and the child it may spawn  *)
(* sharing the boot hart (the other harts only ever run their idle tasks and *)
(* touch none of this state), and the two tasks on a hart each.              *)
EXTENDS Ipc, TLC

CONSTANTS boot, other, idle0, idle1, init, child,
          kIdle0, kIdle1, kInit, kChild, up, down

MCIdle == [h \in Harts |-> IF h = boot THEN idle0 ELSE idle1]
MCBootQueue == [h \in Harts |-> IF h = boot THEN <<idle0, init>> ELSE <<idle1>>]
MCTwoHarts == [h \in Harts |-> IF h = boot THEN <<idle0, init>> ELSE <<idle1, child>>]
MCOwner == [q \in Queues |-> CASE q = kIdle0 -> idle0 [] q = kIdle1 -> idle1
                               [] q \in {kInit, up} -> init
                               [] q \in {kChild, down} -> child]
MCKernelChannel == [t \in Tasks |-> CASE t = idle0 -> kIdle0 [] t = idle1 -> kIdle1
                                      [] t = init -> kInit [] t = child -> kChild]
MCWriter == up :> child @@ down :> init
MCMaxSends == up :> 1 @@ down :> 2
MCOneSend == up :> 1 @@ down :> 1
=============================================================================
