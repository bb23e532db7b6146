------------------------------- MODULE Devices -------------------------------
(***************************************************************************)
(* Devices and their interrupts: claim_device and complete_interrupt of    *)
(* syscall/io.rs, the MMIO capabilities that read_message passes on and    *)
(* delete gives up, the ISR registry, the external interrupt branch of     *)
(* trap_handler and the PLIC it drives.  All user tasks and all enabled    *)
(* contexts are those of the boot hart (Ipc), and the kernel runs with     *)
(* interrupts off, so a handler is one step; delete, which can wait for    *)
(* itself, is one step per lock.  A device has one interrupt and the same  *)
(* name as it.  A driver that was told of an interrupt quiets the device   *)
(* and completes the interrupt.  The context threshold is left out: only   *)
(* delete raises it, and the hart is not heard of after that.              *)
(***************************************************************************)
EXTENDS Naturals, Sequences, Functions, TLAPS

CONSTANTS
    Tasks,
    Deleters,  \* the tasks that give an MMIO capability up
    Devices,   \* device-tree nodes, and the interrupt of each
    Uart,      \* the device that serves as the kernel's console
    Early,     \* the devices kmain enables before they have an owner: number 8
    Console,   \* console_interrupt, as an entry of the registry
    NoIsr      \* IsrEntry::f is None

\* What the constants of an instance satisfy.
DevicesAssumption ==
    Uart \in Devices /\ Early \subseteq Devices /\ Console \notin Tasks /\ NoIsr \notin Tasks

VARIABLES
    claimed,     \* device -> task or NoIsr: CLAIMED_DEVICES
    mmio,        \* task -> the devices it has an MMIO capability for
    isr,         \* interrupt -> ISR_REGISTRY entry: the task its closure holds
    interrupts,  \* task -> MutableState::claimed_interrupts
    notes,       \* task -> InterruptOccurred messages in its kernel channel
    driving,     \* task -> the interrupt its driver is at work on, or none
    quieted,     \* the tasks whose driver has quieted that device
    enabled,     \* interrupts enabled for the context
    priority,    \* interrupt -> source priority
    line,        \* devices that ask for service
    inService,   \* interrupts claimed and not completed: the gateway is shut
    deleting     \* the delete under way: [at, dev], at = "no" when none is

vars == <<claimed, mmio, isr, interrupts, notes, driving, quieted, enabled,
          priority, line, inService, deleting>>
taskVars == <<claimed, mmio, interrupts, notes, driving, quieted>>
plicVars == <<enabled, priority, inService>>

NoDelete == [at |-> "no", dev |-> Uart]

-----------------------------------------------------------------------------
(* The PLIC *)

\* What the gateway has passed on; a source of priority 0 never interrupts.
Pending == {i \in line \ inService : i \in enabled /\ priority[i] > 0}

\* The claim register reads the pending source of the highest priority.
Highest(i) == i \in Pending /\ \A j \in Pending : priority[j] <= priority[i]

\* User code runs only while the hart has no interrupt to take.
UserMode == Pending = {} /\ deleting.at = "no"

\* A device nobody has claimed was given nothing to do and asks for nothing, so
\* invoke_isr always finds an entry.
Raise(i) ==
    /\ i \notin line /\ isr[i] # NoIsr
    /\ line' = line \cup {i}
    /\ UNCHANGED <<taskVars, isr, plicVars, deleting>>

-----------------------------------------------------------------------------
(* trap_handler, invoke_isr and the ISRs *)

\* console_interrupt reads the character and completes.
ConsoleInterrupt(i) ==
    /\ deleting.at = "no" /\ Highest(i) /\ isr[i] = Console
    /\ line' = line \ {i}
    /\ UNCHANGED <<taskVars, isr, plicVars, deleting>>

\* The closure of claim_device and of read_message.
TaskInterrupt(i) ==
    LET t == isr[i]
    IN  /\ deleting.at = "no" /\ Highest(i) /\ t \in Tasks
        /\ inService' = inService \cup {i}
        /\ enabled' = enabled \ {i}
        /\ interrupts' = [interrupts EXCEPT ![t] = @ \cup {i}]
        /\ notes' = [notes EXCEPT ![t] = Append(@, i)]
        /\ UNCHANGED <<claimed, mmio, driving, quieted, isr, priority, line, deleting>>

Trap == \E i \in Devices : ConsoleInterrupt(i) \/ TaskInterrupt(i)

-----------------------------------------------------------------------------
(* claim_device, and the MMIO branch of read_message *)

\* What both do for the interrupt of d.
GiveInterrupt(t, d) ==
    /\ enabled' = enabled \cup {d}
    /\ priority' = [priority EXCEPT ![d] = 7]
    /\ isr' = [isr EXCEPT ![d] = t]
    /\ mmio' = [mmio EXCEPT ![t] = @ \cup {d}]

ClaimDevice(t, d) ==
    /\ UserMode
    /\ claimed[d] = NoIsr
    /\ claimed' = [claimed EXCEPT ![d] = t]
    /\ GiveInterrupt(t, d)
    /\ UNCHANGED <<interrupts, notes, driving, quieted, line, inService, deleting>>

\* Mutant: the new owner is also given the interrupt in progress.
ReceiveMmio_TakesClaim(o, t, d) ==
    /\ UserMode /\ d \in mmio[o]
    /\ GiveInterrupt(t, d)
    /\ interrupts' = [interrupts EXCEPT ![t] = @ \cup (inService \cap {d})]
    /\ UNCHANGED <<claimed, notes, driving, quieted, line, inService, deleting>>

\* t reads a message with the capability of o for d, which o keeps.
ReceiveMmio(o, t, d) ==
    /\ UserMode /\ d \in mmio[o]
    /\ GiveInterrupt(t, d)
    /\ UNCHANGED <<claimed, interrupts, notes, driving, quieted, line, inService, deleting>>

-----------------------------------------------------------------------------
(* A driver: read_kernel_message, service, complete_interrupt *)

ReadNote(t) ==
    /\ UserMode /\ driving[t] = <<>> /\ notes[t] # <<>>
    /\ driving' = [driving EXCEPT ![t] = <<Head(notes[t])>>]
    /\ notes' = [notes EXCEPT ![t] = Tail(@)]
    /\ UNCHANGED <<claimed, mmio, interrupts, quieted, isr, plicVars, line, deleting>>

Service(t) ==
    /\ UserMode /\ driving[t] # <<>> /\ t \notin quieted
    /\ line' = line \ {Head(driving[t])}
    /\ quieted' = quieted \cup {t}
    /\ UNCHANGED <<claimed, mmio, interrupts, notes, driving, isr, plicVars, deleting>>

\* Mutant: the claim is completed but the interrupt is not enabled again.
CompleteInterrupt_StaysMasked(t) ==
    LET i == Head(driving[t])
    IN  /\ UserMode /\ driving[t] # <<>>
        /\ i \in interrupts[t]
        /\ interrupts' = [interrupts EXCEPT ![t] = @ \ {i}]
        /\ inService' = inService \ {i}
        /\ driving' = [driving EXCEPT ![t] = <<>>]
        /\ quieted' = quieted \ {t}
        /\ UNCHANGED <<claimed, mmio, notes, isr, enabled, priority, line, deleting>>

\* An interrupt the task has not claimed is refused and changes nothing.  The
\* PLIC opens the gateway on the completion, although the source is masked.
CompleteInterrupt(t) ==
    LET i == Head(driving[t])
    IN  /\ UserMode /\ driving[t] # <<>>
        /\ i \in interrupts[t]
        /\ interrupts' = [interrupts EXCEPT ![t] = @ \ {i}]
        /\ inService' = inService \ {i}
        /\ enabled' = enabled \cup {i}
        /\ driving' = [driving EXCEPT ![t] = <<>>]
        /\ quieted' = quieted \ {t}
        /\ UNCHANGED <<claimed, mmio, notes, isr, priority, line, deleting>>

-----------------------------------------------------------------------------
(* delete of an MMIO capability *)

\* Removes the capability and silences the interrupt, up to unregister_isr.
Delete(t, d) ==
    /\ UserMode /\ d \in mmio[t]
    /\ mmio' = [mmio EXCEPT ![t] = @ \ {d}]
    /\ enabled' = enabled \ {d}
    /\ priority' = [priority EXCEPT ![d] = 0]
    /\ deleting' = [at |-> "read", dev |-> d]
    /\ UNCHANGED <<claimed, interrupts, notes, driving, quieted, isr, line, inService>>

\* unregister_isr: the read guard in the scrutinee of the match lives to the end
\* of the match, and the write guard in its arm waits until no read guard is left.
UnregisterIsr ==
    /\ deleting.at = "read"
    /\ deleting' = IF isr[deleting.dev] = NoIsr THEN NoDelete
                   ELSE [deleting EXCEPT !.at = "spin"]
    /\ UNCHANGED <<taskVars, isr, plicVars, line>>

-----------------------------------------------------------------------------

\* kmain: every interrupt is masked but that of the console and the early ones.
Init ==
    /\ claimed = [d \in Devices |-> NoIsr]
    /\ mmio = [t \in Tasks |-> {}]
    /\ isr = [d \in Devices |-> IF d = Uart THEN Console ELSE NoIsr]
    /\ interrupts = [t \in Tasks |-> {}]
    /\ notes = [t \in Tasks |-> <<>>]
    /\ driving = [t \in Tasks |-> <<>>]
    /\ quieted = {}
    /\ enabled = {Uart} \cup Early
    /\ priority = [d \in Devices |-> IF d = Uart THEN 1 ELSE IF d \in Early THEN 7 ELSE 0]
    /\ line = {}
    /\ inService = {}
    /\ deleting = NoDelete

\* A driver does not complete before it has quieted the device.
Drive(t) ==
    \/ ReadNote(t)
    \/ Service(t)
    \/ t \in quieted /\ CompleteInterrupt(t)

Next ==
    \/ \E i \in Devices : Raise(i)
    \/ Trap
    \/ \E t \in Tasks, d \in Devices : ClaimDevice(t, d)
    \/ \E o \in Tasks, t \in Tasks, d \in Devices : ReceiveMmio(o, t, d)
    \/ \E t \in Tasks : Drive(t)
    \/ \E t \in Deleters, d \in Devices : Delete(t, d)
    \/ UnregisterIsr

Spec == Init /\ [][Next]_vars

\* The hart takes the interrupts it is shown, the kernel goes on with a delete it
\* has begun, and a driver gets to run and does its work.
Fairness ==
    /\ WF_vars(Trap)
    /\ WF_vars(UnregisterIsr)
    /\ \A t \in Tasks : SF_vars(Drive(t))

FairSpec == Spec /\ Fairness

-----------------------------------------------------------------------------
(* Properties *)

\* What a task was told of and has not completed, oldest first.
Told(t) == driving[t] \o notes[t]

\* An interrupt in service has one servant: one task has it in its
\* claimed_interrupts, and that task, and no other, has been told of it once.  A
\* second holder could complete it early; with none it would stay masked.
OneServant ==
    /\ inService = UNION {interrupts[t] : t \in Tasks}
    /\ \A t, u \in Tasks : t # u => interrupts[t] \cap interrupts[u] = {}
    /\ \A t \in Tasks : IsInjective(Told(t)) /\ Range(Told(t)) = interrupts[t]

\* A device with an owner is served whenever it asks for it, again and again, also
\* while its capability is passed from task to task.
Served == \A i \in Devices : (i \in line /\ isr[i] # NoIsr) ~> i \notin line

\* delete, which is to "Delete a capability from a task", comes back.
DeleteReturns == deleting.at # "no" ~> deleting.at = "no"

-----------------------------------------------------------------------------
(* OneServant is inductive, given the types of what it is about: whichever    *)
(* tasks pass which devices on, and whoever deletes a capability meanwhile.   *)

TypeOK ==
    /\ inService \subseteq Devices
    /\ interrupts \in [Tasks -> SUBSET Devices]
    /\ notes \in [Tasks -> Seq(Devices)]
    /\ driving \in [Tasks -> {<<>>} \cup {<<d>> : d \in Devices}]

IInv == TypeOK /\ OneServant

\* send() of InterruptOccurred tells a task of one more interrupt.
LEMMA ToldAppend ==
    ASSUME NEW s \in Seq(Devices), NEW i \in Devices, IsInjective(s), i \notin Range(s)
    PROVE  IsInjective(Append(s, i)) /\ Range(Append(s, i)) = Range(s) \cup {i}
<1> DEFINE r == Append(s, i)
<1>1. Len(s) \in Nat /\ DOMAIN s = 1 .. Len(s) /\ DOMAIN r = 1 .. Len(s) + 1
  OBVIOUS
<1>2. r[Len(s) + 1] = i /\ \A k \in 1 .. Len(s) : r[k] = s[k]
  OBVIOUS
<1>3. \A k \in 1 .. Len(s) : s[k] # i
  BY <1>1 DEF Range
<1> HIDE DEF r
<1>4. IsInjective(r)
  BY <1>1, <1>2, <1>3 DEF IsInjective
<1>5. \A x : x \in Range(r) <=> x = i \/ x \in Range(s)
  BY <1>1, <1>2 DEF Range
<1> QED
  BY <1>4, <1>5 DEF r

\* The first interrupt a task was told of is the one its driver completes.
LEMMA ToldTail ==
    ASSUME NEW s \in Seq(Devices), NEW i \in Devices, IsInjective(<<i>> \o s)
    PROVE  IsInjective(s) /\ Range(s) = Range(<<i>> \o s) \ {i}
<1> DEFINE r == <<i>> \o s
<1>1. Len(s) \in Nat /\ DOMAIN s = 1 .. Len(s) /\ DOMAIN r = 1 .. Len(s) + 1
  OBVIOUS
<1>2. r[1] = i /\ \A k \in 1 .. Len(s) : r[k + 1] = s[k]
  OBVIOUS
<1> HIDE DEF r
<1>3. \A k \in 2 .. Len(s) + 1 : k - 1 \in 1 .. Len(s) /\ r[k] = s[k - 1]
  BY <1>1, <1>2
<1>4. \A k \in 1 .. Len(s) : k + 1 \in DOMAIN r /\ k + 1 # 1 /\ r[k + 1] = s[k]
  BY <1>1, <1>2
<1>5. IsInjective(r)
  BY DEF r
<1>6. IsInjective(s)
  <2> SUFFICES ASSUME NEW k \in 1 .. Len(s), NEW l \in 1 .. Len(s), s[k] = s[l] PROVE k = l
    BY <1>1 DEF IsInjective
  <2>1. k + 1 = l + 1
    BY <1>4, <1>5 DEF IsInjective
  <2> QED
    BY <1>1, <2>1
<1>7. \A k \in 1 .. Len(s) : s[k] # i
  BY <1>1, <1>2, <1>4, <1>5 DEF IsInjective
<1>8. \A x : x \in Range(s) => x \in Range(r) /\ x # i
  BY <1>1, <1>4, <1>7 DEF Range
<1>9. ASSUME NEW x, x \in Range(r), x # i PROVE x \in Range(s)
  <2>1. PICK k \in 1 .. Len(s) + 1 : r[k] = x
    BY <1>1, <1>9 DEF Range
  <2>2. k \in 2 .. Len(s) + 1
    BY <1>1, <1>2, <1>9, <2>1
  <2> QED
    BY <1>1, <1>3, <2>1, <2>2 DEF Range
<1> QED
  BY <1>6, <1>8, <1>9 DEF r

\* Every step keeps one servant for each interrupt in service.
LEMMA ServantStep == IInv /\ [Next]_vars => IInv'
<1> SUFFICES ASSUME IInv, [Next]_vars PROVE IInv'
  OBVIOUS
<1>a. \A t \in Tasks : /\ notes[t] \in Seq(Devices) /\ interrupts[t] \subseteq Devices
                       /\ driving[t] = <<>> \/ \E d \in Devices : driving[t] = <<d>>
  BY DEF IInv, TypeOK
<1>b. ASSUME UNCHANGED <<interrupts, notes, driving, inService>> PROVE IInv'
  BY <1>b DEF IInv, TypeOK, OneServant, Told
<1>1. CASE UNCHANGED vars
  BY <1>1, <1>b DEF vars
<1>2. ASSUME NEW i \in Devices, Raise(i) \/ ConsoleInterrupt(i) PROVE IInv'
  BY <1>2, <1>b DEF Raise, ConsoleInterrupt, taskVars, plicVars
<1>3. ASSUME NEW i \in Devices, TaskInterrupt(i) PROVE IInv'
  <2>1. PICK t \in Tasks :
        /\ i \notin inService
        /\ inService' = inService \cup {i}
        /\ interrupts' = [interrupts EXCEPT ![t] = interrupts[t] \cup {i}]
        /\ notes' = [notes EXCEPT ![t] = Append(notes[t], i)]
        /\ driving' = driving
    BY <1>3, Zenon DEF TaskInterrupt, Highest, Pending
  <2>2. TypeOK'
    BY <1>a, <2>1 DEF IInv, TypeOK
  <2>3. \A u \in Tasks : i \notin interrupts[u] /\ i \notin Range(Told(u))
    BY <2>1 DEF IInv, OneServant
  <2>4. /\ interrupts'[t] = interrupts[t] \cup {i}
        /\ \A u \in Tasks : u # t => interrupts'[u] = interrupts[u] /\ Told(u)' = Told(u)
    BY <2>1 DEF IInv, TypeOK, Told
  <2>5. Told(t) \in Seq(Devices) /\ Told(t)' = Append(Told(t), i)
    <3>1. driving'[t] = driving[t] /\ notes'[t] = Append(notes[t], i)
      BY <2>1 DEF IInv, TypeOK
    <3>2. driving[t] \in Seq(Devices)
      <4>1. CASE driving[t] = <<>>
        BY <4>1
      <4>2. ASSUME NEW d \in Devices, driving[t] = <<d>> PROVE driving[t] \in Seq(Devices)
        BY <4>2
      <4> QED
        BY <1>a, <4>1, <4>2
    <3>3. driving[t] \o Append(notes[t], i) = Append(driving[t] \o notes[t], i)
      <4> DEFINE a == driving[t]
                 b == notes[t]
      <4>1. a \in Seq(Devices) /\ b \in Seq(Devices)
        BY <1>a, <2>1, <3>2
      <4> HIDE DEF a, b
      <4>2. a \o Append(b, i) = Append(a \o b, i)
        BY <4>1
      <4> QED
        BY <4>2 DEF a, b
    <3>4. driving[t] \o notes[t] \in Seq(Devices)
      BY <1>a, <3>2
    <3> QED
      BY <3>1, <3>3, <3>4, Zenon DEF Told
  <2>6. IsInjective(Told(t)') /\ Range(Told(t)') = interrupts'[t]
    BY <2>1, <2>3, <2>4, <2>5, ToldAppend DEF IInv, OneServant
  <2>7. inService' = UNION {interrupts'[u] : u \in Tasks}
    BY <2>1, <2>4 DEF IInv, OneServant
  <2>8. \A u, v \in Tasks : u # v => interrupts'[u] \cap interrupts'[v] = {}
    BY <2>1, <2>3, <2>4 DEF IInv, OneServant
  <2>9. ASSUME NEW u \in Tasks PROVE IsInjective(Told(u)') /\ Range(Told(u)') = interrupts'[u]
    <3>1. CASE u = t
      BY <2>6, <3>1
    <3>2. CASE u # t
      BY <2>4, <3>2 DEF IInv, OneServant
    <3> QED
      BY <3>1, <3>2
  <2> QED
    BY <2>2, <2>7, <2>8, <2>9 DEF IInv, OneServant
<1>4. ASSUME NEW t \in Tasks, NEW d \in Devices, ClaimDevice(t, d) PROVE IInv'
  BY <1>4, <1>b DEF ClaimDevice
<1>5. ASSUME NEW o \in Tasks, NEW t \in Tasks, NEW d \in Devices, ReceiveMmio(o, t, d) PROVE IInv'
  BY <1>5, <1>b DEF ReceiveMmio
<1>6. ASSUME NEW t \in Tasks, ReadNote(t) PROVE IInv'
  <2>1. /\ driving[t] = <<>> /\ notes[t] # <<>>
        /\ driving' = [driving EXCEPT ![t] = <<Head(notes[t])>>]
        /\ notes' = [notes EXCEPT ![t] = Tail(notes[t])]
        /\ UNCHANGED <<interrupts, inService>>
    BY <1>6 DEF ReadNote, plicVars
  <2>2. Head(notes[t]) \in Devices /\ Tail(notes[t]) \in Seq(Devices)
    BY <1>a, <2>1
  <2>3. TypeOK'
    BY <2>1, <2>2 DEF IInv, TypeOK
  <2>4. \A u \in Tasks : u # t => Told(u)' = Told(u)
    BY <2>1 DEF IInv, TypeOK, Told
  <2>5. Told(t)' = Told(t)
    <3>1. driving'[t] = <<Head(notes[t])>> /\ notes'[t] = Tail(notes[t])
      BY <2>1 DEF IInv, TypeOK
    <3>2. <<Head(notes[t])>> \o Tail(notes[t]) = notes[t] /\ <<>> \o notes[t] = notes[t]
      BY <1>a, <2>1
    <3> QED
      BY <2>1, <3>1, <3>2, Zenon DEF Told
  <2> QED
    BY <2>1, <2>3, <2>4, <2>5 DEF IInv, OneServant
<1>7. ASSUME NEW t \in Tasks, Service(t) PROVE IInv'
  BY <1>7, <1>b DEF Service, plicVars
<1>8. ASSUME NEW t \in Tasks, CompleteInterrupt(t) PROVE IInv'
  <2> DEFINE i == Head(driving[t])
  <2>1. /\ driving[t] # <<>> /\ i \in interrupts[t]
        /\ interrupts' = [interrupts EXCEPT ![t] = interrupts[t] \ {i}]
        /\ inService' = inService \ {i}
        /\ driving' = [driving EXCEPT ![t] = <<>>]
        /\ notes' = notes
    BY <1>8 DEF CompleteInterrupt
  <2>2. i \in Devices /\ driving[t] = <<i>>
    BY <1>a, <2>1
  <2> HIDE DEF i
  <2>3. TypeOK'
    BY <1>a, <2>1 DEF IInv, TypeOK
  <2>4. /\ interrupts'[t] = interrupts[t] \ {i}
        /\ \A u \in Tasks : u # t => interrupts'[u] = interrupts[u] /\ Told(u)' = Told(u)
    BY <2>1 DEF IInv, TypeOK, Told
  <2>5. Told(t) = <<i>> \o notes[t] /\ Told(t)' = notes[t]
    <3>1. driving'[t] = <<>> /\ notes'[t] = notes[t]
      BY <2>1 DEF IInv, TypeOK
    <3>2. <<>> \o notes[t] = notes[t]
      BY <1>a
    <3> QED
      BY <2>2, <3>1, <3>2 DEF Told
  <2>6. IsInjective(Told(t)') /\ Range(Told(t)') = interrupts'[t]
    <3>1. IsInjective(<<i>> \o notes[t]) /\ Range(<<i>> \o notes[t]) = interrupts[t]
      BY <2>5, Zenon DEF IInv, OneServant
    <3>2. IsInjective(notes[t]) /\ Range(notes[t]) = interrupts[t] \ {i}
      BY <1>a, <2>2, <3>1, ToldTail
    <3> QED
      BY <2>4, <2>5, <3>2
  <2>7. \A u \in Tasks : u # t => i \notin interrupts[u]
    BY <2>1 DEF IInv, OneServant
  <2>8. inService' = UNION {interrupts'[u] : u \in Tasks}
    BY <2>1, <2>4, <2>7 DEF IInv, OneServant
  <2>9. \A u, v \in Tasks : u # v => interrupts'[u] \cap interrupts'[v] = {}
    BY <2>4 DEF IInv, OneServant
  <2>10. ASSUME NEW u \in Tasks PROVE IsInjective(Told(u)') /\ Range(Told(u)') = interrupts'[u]
    <3>1. CASE u = t
      BY <2>6, <3>1
    <3>2. CASE u # t
      BY <2>4, <3>2 DEF IInv, OneServant
    <3> QED
      BY <3>1, <3>2
  <2> QED
    BY <2>3, <2>8, <2>9, <2>10 DEF IInv, OneServant
<1>9. ASSUME NEW t \in Deleters, NEW d \in Devices, Delete(t, d) PROVE IInv'
  BY <1>9, <1>b DEF Delete
<1>10. CASE UnregisterIsr
  BY <1>10, <1>b DEF UnregisterIsr, taskVars, plicVars
<1> QED
  BY <1>1, <1>2, <1>3, <1>4, <1>5, <1>6, <1>7, <1>8, <1>9, <1>10 DEF Next, Trap, Drive

\* The ISR closures of claim_device and read_message, the kernel channel and
\* complete_interrupt keep one servant for every interrupt in service, for any
\* number of tasks and devices.
THEOREM OneServantEach == Spec => []OneServant
<1>1. Init => IInv
  <2> SUFFICES ASSUME Init PROVE IInv
    OBVIOUS
  <2>1. TypeOK /\ inService = UNION {interrupts[t] : t \in Tasks}
    BY DEF Init, TypeOK
  <2>2. \A t \in Tasks : Told(t) = <<>> /\ interrupts[t] = {}
    BY DEF Init, Told
  <2>3. IsInjective(<<>>) /\ Range(<<>>) = {}
    BY DEF IsInjective, Range
  <2> QED
    BY <2>1, <2>2, <2>3, Zenon DEF IInv, OneServant
<1>2. IInv => OneServant
  BY DEF IInv
<1> QED
  BY <1>1, <1>2, ServantStep, PTL DEF Spec
=============================================================================
