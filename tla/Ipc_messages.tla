---------------------------- MODULE Ipc_messages ----------------------------
(***************************************************************************)
(* What the invariant of module Ipc gives for messages and locks: every    *)
(* message is delivered once, in order, and announced, and no two tasks    *)
(* spin on each other's locks.                                             *)
(***************************************************************************)
EXTENDS Ipc_proofs

-----------------------------------------------------------------------------
(* Every message is delivered once, in order, and announced. *)

\* The message a reader has in hand is the last one it took, and the rest of
\* its queue follows it.
InHand ==
    \A t \in Tasks : pc[t] \in {"got", "putback"} =>
        /\ op[t].msg.seq = taken[op[t].q]
        /\ taken[op[t].q] + Len(queue[op[t].q]) = sent[op[t].q]

\* The messages of one queue, as the steps below see them.
Numbered(s, last, n) ==
    /\ \A i \in DOMAIN s : s[i].seq + Len(s) = n + i
    /\ last + Len(s) \in {n, n + 1}

\* Every message carries a number.
LEMMA SeqNumber ==
    ASSUME NEW s \in Seq(Message), NEW i \in 1 .. Len(s)
    PROVE  s[i] \in Message /\ s[i].seq \in Nat
<1>1. s[i] \in Message
  OBVIOUS
<1> QED
  BY <1>1, Zenon DEF Message

\* push_back() of the next message keeps a queue numbered.
LEMMA PushNumbered ==
    ASSUME NEW s \in Seq(Message), NEW last \in Nat, NEW n \in Nat, NEW c \in Nat,
           Numbered(s, last, n)
    PROVE  /\ Numbered(Append(s, [seq |-> n + 1, caps |-> c]), last, n + 1)
           /\ Len(Append(s, [seq |-> n + 1, caps |-> c])) = Len(s) + 1
<1> DEFINE m == [seq |-> n + 1, caps |-> c]
           r == Append(s, m)
<1>1. m \in Message /\ m.seq = n + 1
  BY DEF Message
<1>2. Len(r) = Len(s) + 1 /\ Len(s) \in Nat /\ DOMAIN r = 1 .. Len(s) + 1 /\ DOMAIN s = 1 .. Len(s)
  BY <1>1
<1>3. r[Len(s) + 1] = m /\ \A i \in 1 .. Len(s) : r[i] = s[i]
  BY <1>1
<1>4. \A i \in 1 .. Len(s) : s[i].seq \in Nat
  BY SeqNumber, Zenon
<1> HIDE DEF r, m
<1>5. ASSUME NEW i \in DOMAIN r PROVE r[i].seq + Len(r) = n + 1 + i
  <2>1. CASE i = Len(s) + 1
    BY <1>1, <1>2, <1>3, <2>1, Zenon
  <2>2. CASE i \in 1 .. Len(s)
    <3>1. r[i] = s[i] /\ s[i].seq + Len(s) = n + i /\ s[i].seq \in Nat
      BY <1>2, <1>3, <1>4, <2>2, Zenon DEF Numbered
    <3> QED
      BY <1>2, <2>2, <3>1
  <2> QED
    BY <1>2, <2>1, <2>2
<1>6. last + Len(r) \in {n + 1, n + 1 + 1}
  BY <1>2 DEF Numbered
<1> QED
  BY <1>2, <1>5, <1>6, Zenon DEF Numbered, r, m

\* pop_front() takes the message after the last one taken.
LEMMA PopNumbered ==
    ASSUME NEW s \in Seq(Message), NEW last \in Nat, NEW n \in Nat, Numbered(s, last, n), s # <<>>
    PROVE  /\ Numbered(Tail(s), Head(s).seq, n)
           /\ Head(s).seq + Len(Tail(s)) = n
<1>1. Len(s) \in Nat /\ Len(s) >= 1 /\ Len(Tail(s)) = Len(s) - 1 /\ Head(s) = s[1]
  OBVIOUS
<1>2. DOMAIN s = 1 .. Len(s) /\ DOMAIN Tail(s) = 1 .. Len(s) - 1
  OBVIOUS
<1>3. \A i \in 1 .. Len(s) : s[i].seq \in Nat /\ s[i].seq + Len(s) = n + i
  BY <1>2, SeqNumber, Zenon DEF Numbered
<1>4. \A i \in 1 .. Len(s) - 1 : Tail(s)[i] = s[i + 1]
  OBVIOUS
<1>5. s[1].seq + Len(s) = n + 1 /\ s[1].seq \in Nat
  BY <1>1, <1>3
<1>6. ASSUME NEW i \in DOMAIN Tail(s) PROVE Tail(s)[i].seq + Len(Tail(s)) = n + i
  <2>1. i \in 1 .. Len(s) - 1 /\ i + 1 \in 1 .. Len(s)
    BY <1>1, <1>2
  <2>2. Tail(s)[i] = s[i + 1] /\ s[i + 1].seq \in Nat /\ s[i + 1].seq + Len(s) = n + (i + 1)
    BY <1>3, <1>4, <2>1, Zenon
  <2> QED
    BY <1>1, <2>1, <2>2
<1>7. Head(s).seq + Len(Tail(s)) = n
  BY <1>1, <1>5
<1> QED
  BY <1>6, <1>7, Zenon DEF Numbered

\* push_front() of what is left of the message taken last.
LEMMA PutBackNumbered ==
    ASSUME NEW s \in Seq(Message), NEW last \in Nat, NEW n \in Nat, NEW m \in Message,
           Numbered(s, last, n), m.seq = last, last + Len(s) = n
    PROVE  Numbered(<<m>> \o s, last, n)
<1> DEFINE r == <<m>> \o s
<1>1. Len(s) \in Nat /\ Len(r) = Len(s) + 1 /\ DOMAIN r = 1 .. Len(s) + 1 /\ DOMAIN s = 1 .. Len(s)
  OBVIOUS
<1>2. r[1] = m /\ \A i \in 2 .. Len(s) + 1 : r[i] = s[i - 1]
  OBVIOUS
<1>3. \A i \in 1 .. Len(s) : s[i].seq \in Nat /\ s[i].seq + Len(s) = n + i
  BY <1>1, SeqNumber, Zenon DEF Numbered
<1> HIDE DEF r
<1>4. ASSUME NEW i \in DOMAIN r PROVE r[i].seq + Len(r) = n + i
  <2>1. CASE i = 1
    BY <1>1, <1>2, <2>1
  <2>2. CASE i \in 2 .. Len(s) + 1
    <3>1. i - 1 \in 1 .. Len(s) /\ r[i] = s[i - 1]
      BY <1>1, <1>2, <2>2
    <3>2. s[i - 1].seq \in Nat /\ s[i - 1].seq + Len(s) = n + (i - 1)
      BY <1>3, <3>1, Zenon
    <3> QED
      BY <1>1, <2>2, <3>1, <3>2, SMTT(30)
  <2> QED
    BY <1>1, <2>1, <2>2
<1>5. last + Len(r) \in {n, n + 1}
  BY <1>1
<1> QED
  BY <1>4, <1>5, Zenon DEF Numbered, r

\* Nobody comes to hold a message but by popping one.
InHandStays == \A u \in Tasks : pc'[u] \in {"got", "putback"} => pc[u] \in {"got", "putback"} /\ op'[u] = op[u]

\* A queue is numbered from the last message taken from it.
LEMMA OrderNumbered == InOrder <=> \A q \in Queues : Numbered(queue[q], taken[q], sent[q])
  BY Zenon DEF InOrder, Numbered

\* send() of either kind keeps the order, and every reader's message in hand.
LEMMA PushOrder ==
    ASSUME IInv, InOrder, InHand, NEW t \in Tasks, NEW q \in Queues, NEW n \in Nat,
           PushBack(t, q, n), taken' = taken, InHandStays
    PROVE  InOrder' /\ InHand'
<1>1. /\ queue \in [Queues -> Seq(Message)] /\ sent \in [Queues -> Nat] /\ taken \in [Queues -> Nat]
      /\ \A u \in Tasks : op[u].q \in Queues
  BY Zenon DEF IInv, TypeOK, Op
<1>2. /\ sent' = [sent EXCEPT ![q] = sent[q] + 1]
      /\ queue' = [queue EXCEPT ![q] = Append(queue[q], [seq |-> sent[q] + 1, caps |-> n])]
  BY Zenon DEF PushBack
<1>3. \A p \in Queues : Numbered(queue[p], taken[p], sent[p])
  BY OrderNumbered, Zenon
<1>4. Numbered(queue'[q], taken[q], sent'[q]) /\ Len(queue'[q]) = Len(queue[q]) + 1 /\ sent'[q] = sent[q] + 1
  BY <1>1, <1>2, <1>3, PushNumbered
<1>5. \A p \in Queues : p # q => queue'[p] = queue[p] /\ sent'[p] = sent[p]
  BY <1>1, <1>2, Zenon
<1>6. \A p \in Queues : Numbered(queue'[p], taken'[p], sent'[p])
  BY <1>3, <1>4, <1>5, Zenon
<1>7. InOrder'
  BY <1>6, Zenon DEF InOrder, Numbered
<1>8. ASSUME NEW u \in Tasks, pc'[u] \in {"got", "putback"}
      PROVE  /\ op'[u].msg.seq = taken'[op'[u].q]
             /\ taken'[op'[u].q] + Len(queue'[op'[u].q]) = sent'[op'[u].q]
  <2>1. op'[u] = op[u] /\ op[u].msg.seq = taken[op[u].q] /\ taken[op[u].q] + Len(queue[op[u].q]) = sent[op[u].q]
    BY <1>8, Zenon DEF InHand, InHandStays
  <2>2. CASE op[u].q = q
    <3>1. Len(queue[q]) \in Nat /\ sent[q] \in Nat /\ taken[q] \in Nat
      BY <1>1
    <3> QED
      BY <1>4, <2>1, <2>2, <3>1
  <2>3. CASE op[u].q # q
    BY <1>1, <1>5, <2>1, <2>3, Zenon
  <2> QED
    BY <2>2, <2>3, Zenon
<1> QED
  BY <1>7, <1>8, Zenon DEF InHand

\* Every step keeps the order of the messages and what the readers hold.
LEMMA OrderStep == ASSUME IInv, InOrder, InHand, NEW h \in Harts, NEW t \in Tasks, t = current[h], Step(h)
                   PROVE InOrder' /\ InHand'
<1>a. /\ pc \in [Tasks -> Labels] /\ op \in [Tasks -> Op] /\ ret \in [Tasks -> {"user", "recv", "unreachable"}]
      /\ queue \in [Queues -> Seq(Message)] /\ sent \in [Queues -> Nat] /\ taken \in [Queues -> Nat]
      /\ next \in [Harts -> Tasks]
  BY Zenon DEF IInv, TypeOK
<1>b. \A u \in Tasks : op[u].q \in Queues /\ op[u].caps \in Nat /\ op[u].buf \in Nat /\ op[u].msg \in Message
  BY <1>a, SMTT(30) DEF Op
<1>c. \A p \in Queues : Numbered(queue[p], taken[p], sent[p])
  BY OrderNumbered, Zenon
<1>d. \A u \in Tasks : u # t /\ pc[u] \in {"got", "putback"} /\ pc[t] \in Reading => op[u].q # op[t].q
  BY DEF IInv, Waits, Reading
<1> USE DEF Goto, At
<1>1. CASE NotePush(h)
  <2>1. PushBack(t, NotifyQueue(t), 0) /\ taken' = taken /\ pc[t] = "notepush"
    BY <1>1, SMTT(30) DEF NotePush, NotifyQueue
  <2>2. InHandStays
    BY <1>1, <1>a, Zenon DEF NotePush, InHandStays
  <2>3. NotifyQueue(t) \in Queues
    BY <2>1, NotifyType, Zenon DEF NoteHolds
  <2> QED
    BY <2>1, <2>2, <2>3, PushOrder, Zenon
<1>2. CASE Push(h)
  <2>1. PushBack(t, op[t].q, op[t].caps) /\ taken' = taken
    BY <1>2, Zenon DEF Push
  <2>2. InHandStays
    BY <1>2, <1>a, Zenon DEF Push, Return, InHandStays
  <2> QED
    BY <1>b, <2>1, <2>2, PushOrder, Zenon
<1>3. CASE RecvPop(h)
  <2> DEFINE q == op[t].q
  <2>1. /\ queue[q] # <<>> /\ pc[t] = "recv" /\ sent' = sent
        /\ queue' = [queue EXCEPT ![q] = Tail(queue[q])]
        /\ taken' = [taken EXCEPT ![q] = Head(queue[q]).seq]
        /\ op' = [op EXCEPT ![t].msg = Head(queue[q])]
        /\ pc' = [pc EXCEPT ![t] = "got"]
    BY <1>3, SMTT(30) DEF RecvPop
  <2>2. /\ Numbered(Tail(queue[q]), Head(queue[q]).seq, sent[q])
        /\ Head(queue[q]).seq + Len(Tail(queue[q])) = sent[q]
    BY <1>a, <1>b, <1>c, <2>1, PopNumbered, SMTT(30)
  <2>3. \A p \in Queues : Numbered(queue'[p], taken'[p], sent'[p])
    BY <1>a, <1>b, <1>c, <2>1, <2>2, Zenon
  <2>4. op'[t].q = q /\ op'[t].msg = Head(queue[q])
    BY <1>a, <2>1, SMTT(30) DEF Op
  <2>5. taken'[q] = Head(queue[q]).seq /\ queue'[q] = Tail(queue[q])
    BY <1>a, <1>b, <2>1, Zenon
  <2>6. ASSUME NEW u \in Tasks, pc'[u] \in {"got", "putback"}
        PROVE  /\ op'[u].msg.seq = taken'[op'[u].q]
               /\ taken'[op'[u].q] + Len(queue'[op'[u].q]) = sent'[op'[u].q]
    <3>1. CASE u = t
      BY <2>1, <2>2, <2>4, <2>5, <3>1, ZenonT(30)
    <3>2. CASE u # t
      <4>1. op'[u] = op[u] /\ pc'[u] = pc[u]
        BY <1>a, <2>1, <3>2, Zenon
      <4>2. op[u].q # q /\ op[u].q \in Queues
        BY <1>b, <1>d, <2>1, <2>6, <3>2, <4>1, Zenon DEF Reading
      <4>3. taken'[op[u].q] = taken[op[u].q] /\ queue'[op[u].q] = queue[op[u].q]
        BY <1>a, <2>1, <4>2, Zenon
      <4>4. op[u].msg.seq = taken[op[u].q] /\ taken[op[u].q] + Len(queue[op[u].q]) = sent[op[u].q]
        BY <2>6, <4>1, SMTT(30) DEF InHand
      <4> QED
        BY <2>1, <4>1, <4>3, <4>4, Zenon
    <3> QED
      BY <3>1, <3>2, SMTT(30)
  <2> QED
    BY <2>3, <2>6, Zenon DEF InOrder, Numbered, InHand
<1>4. CASE ReadPutBack(h)
  <2> DEFINE q == op[t].q
             m == [op[t].msg EXCEPT !.caps = Remaining(op[t].msg.caps, op[t].buf)]
  <2>1. /\ pc[t] = "putback" /\ sent' = sent /\ taken' = taken
        /\ queue' = [queue EXCEPT ![q] = <<m>> \o queue[q]]
        /\ pc' = [pc EXCEPT ![t] = "user"] /\ op' = [op EXCEPT ![t] = NoOp(t)]
    BY <1>4, Zenon DEF ReadPutBack, Return
  <2>2. m.seq = taken[q] /\ taken[q] + Len(queue[q]) = sent[q]
    BY <1>b, <2>1, Zenon DEF InHand, Message
  <2>3. m \in Message
    BY <1>b DEF Message, Remaining
  <2>4. Numbered(<<m>> \o queue[q], taken[q], sent[q])
    <3> HIDE DEF m
    <3> QED
      BY <1>a, <1>b, <1>c, <2>2, <2>3, PutBackNumbered, SMTT(30)
  <2>5. \A p \in Queues : Numbered(queue'[p], taken'[p], sent'[p])
    <3> HIDE DEF m
    <3> QED
      BY <1>a, <1>b, <1>c, <2>1, <2>4, SMTT(30)
  <2>6. ASSUME NEW u \in Tasks, pc'[u] \in {"got", "putback"}
        PROVE  /\ op'[u].msg.seq = taken'[op'[u].q]
               /\ taken'[op'[u].q] + Len(queue'[op'[u].q]) = sent'[op'[u].q]
    <3>1. u # t /\ op'[u] = op[u] /\ pc'[u] = pc[u]
      BY <1>a, <2>1, <2>6, Zenon
    <3>2. op[u].q # q /\ op[u].q \in Queues
      BY <1>b, <1>d, <2>1, <2>6, <3>1, Zenon DEF Reading
    <3>3. queue'[op[u].q] = queue[op[u].q]
      <4> HIDE DEF m
      <4> QED
        BY <1>a, <2>1, <3>2, Zenon
    <3> QED
      BY <2>1, <2>6, <3>1, <3>3, ZenonT(30) DEF InHand
  <2> QED
    BY <2>5, <2>6, Zenon DEF InOrder, Numbered, InHand
<1>5. ASSUME UNCHANGED <<queue, sent, taken>>, InHandStays PROVE InOrder' /\ InHand'
  BY <1>5, Zenon DEF InOrder, InHand, InHandStays
<1>6. CASE SendLock(h) \/ SendNotify(h) \/ NoteLock(h) \/ NoteReady(h) \/ RecvEmpty(h) \/ WaitLock(h) \/ WaitBlock(h)
  BY <1>5, <1>6, <1>a, ZenonT(30) DEF SendLock, SendNotify, NoteLock, NoteReady, RecvEmpty, WaitLock, WaitBlock, InHandStays, chanVars
<1>7. CASE Ready(h) \/ TryRecvEmpty(h)
  BY <1>5, <1>7, <1>a, Zenon DEF Ready, TryRecvEmpty, Return, InHandStays, chanVars
<1>8. ASSUME NEW v \in BOOLEAN, ReadFinish(h, v) PROVE InOrder' /\ InHand'
  BY <1>5, <1>8, <1>a, SMTT(30) DEF ReadFinish, Return, InHandStays, chanVars
<1>9. CASE ScanRound(h) \/ Timer(h) \/ Exit(h) \/ FaultKill(h) \/ EnableNotifications(h)
  BY <1>5, <1>9, <1>a, Zenon DEF ScanRound, Timer, Exit, FaultKill, EnableNotifications, InHandStays, chanVars
<1>10. CASE Switch(h)
  BY <1>5, <1>10, <1>a, Zenon DEF Switch, InHandStays, chanVars
<1>11. ASSUME NEW q \in UserQueues, NEW n \in CapCounts, SendMessage(h, q, n) PROVE InOrder' /\ InHand'
  BY <1>5, <1>11, <1>a, Zenon DEF SendMessage, InHandStays, chanVars
<1>12. ASSUME NEW q \in Queues, NEW b \in BufLens, NEW nb \in BOOLEAN, ReadMessage(h, q, b, nb) PROVE InOrder' /\ InHand'
  BY <1>5, <1>12, <1>a, Zenon DEF ReadMessage, InHandStays, chanVars
<1>13. ASSUME NEW c \in Tasks, Spawn(h, c) PROVE InOrder' /\ InHand'
  BY <1>5, <1>13, <1>a, Zenon DEF Spawn, InHandStays, chanVars
<1>14. ASSUME NEW c \in Claimants, Interrupt(h, c) PROVE InOrder' /\ InHand'
  BY <1>5, <1>14, <1>a, Zenon DEF Interrupt, InHandStays, chanVars
<1> QED
  BY <1>1, <1>2, <1>3, <1>4, <1>6, <1>7, <1>8, <1>9, <1>10, <1>11, <1>12, <1>13, <1>14, Zenon
     DEF Step, KernelStep, Syscall

-----------------------------------------------------------------------------
(* The notes of NewChannelMessage *)

\* A task that was spawned subscribes, and nobody sends to a task that is not
\* there yet.
Sending == {"send"} \cup SendHolds
Informed ==
    /\ \A t \in Tasks : pc[t] # "unborn" /\ t \notin BootTasks => subscribed[t]
    /\ \A t \in Tasks : pc[t] \in Sending /\ op[t].q \in UserQueues => pc[Owner[op[t].q]] # "unborn"

\* A sender is past the note for its message and has not pushed the message.
Ahead(t) == pc[t] \in {"noteready", "push"}
Announced ==
    \A q \in UserQueues :
        LET n == IF \E t \in Tasks : Ahead(t) /\ op[t].q = q THEN 1 ELSE 0 IN
        /\ notes[q] <= sent[q] + n
        /\ Owner[q] \notin BootTasks => notes[q] = sent[q] + n

\* What a step must respect for its receivers to stay informed.
LEMMA InformedStays ==
    ASSUME IInv, Informed,
           \A u \in Tasks : subscribed[u] => subscribed'[u],
           \A u \in Tasks : pc[u] # "unborn" => pc'[u] # "unborn",
           \A u \in Tasks : pc[u] = "unborn" => pc'[u] = "unborn" \/ subscribed'[u],
           \A u \in Tasks : pc'[u] \in Sending /\ op'[u].q \in UserQueues =>
               (pc[u] \in Sending /\ op'[u].q = op[u].q) \/ pc[Owner[op'[u].q]] # "unborn"
    PROVE  Informed'
<1>1. \A q \in UserQueues : Owner[q] \in Tasks
  BY IpcAssumption, Zenon DEF UserQueues
<1> QED
  BY <1>1, Zenon DEF Informed

\* Every step keeps the receivers informed.
LEMMA InformedStep == ASSUME IInv, Informed, NEW h \in Harts, NEW t \in Tasks, t = current[h], Step(h)
                      PROVE Informed'
<1>a. /\ pc \in [Tasks -> Labels] /\ op \in [Tasks -> Op] /\ ret \in [Tasks -> {"user", "recv", "unreachable"}]
      /\ subscribed \in [Tasks -> BOOLEAN] /\ next[h] \in Tasks
  BY Zenon DEF IInv, TypeOK
<1>b. pc[t] # "unborn" /\ pc[next[h]] # "unborn"
  BY <1>a, SMTT(30) DEF IInv, RunQueues
<1> USE DEF Goto, At, Sending, SendHolds
<1>1. CASE SendLock(h) \/ SendNotify(h) \/ NoteLock(h) \/ NotePush(h) \/ NoteReady(h)
  <2>1. CASE SendLock(h)
    BY <2>1, <1>a, <1>b, InformedStays, ZenonT(30) DEF SendLock, taskVars
  <2>2. CASE SendNotify(h)
    BY <2>2, <1>a, <1>b, InformedStays, ZenonT(30) DEF SendNotify, taskVars
  <2>3. CASE NoteLock(h)
    BY <2>3, <1>a, <1>b, InformedStays, ZenonT(30) DEF NoteLock, taskVars
  <2>4. CASE NotePush(h)
    BY <2>4, <1>a, <1>b, InformedStays, ZenonT(30) DEF NotePush, taskVars
  <2>5. CASE NoteReady(h)
    BY <2>5, <1>a, <1>b, InformedStays, ZenonT(30) DEF NoteReady, taskVars
  <2> QED
    BY <1>1, <2>1, <2>2, <2>3, <2>4, <2>5, Zenon
<1>2. CASE Push(h) \/ Ready(h) \/ TryRecvEmpty(h) \/ ReadPutBack(h)
  BY <1>2, <1>a, <1>b, InformedStays, ZenonT(30) DEF Push, Ready, TryRecvEmpty, ReadPutBack, Return, taskVars
<1>3. CASE RecvPop(h) \/ RecvEmpty(h) \/ WaitLock(h) \/ WaitBlock(h)
  <2>1. CASE RecvPop(h)
    BY <2>1, <1>a, <1>b, InformedStays, ZenonT(30) DEF RecvPop, taskVars
  <2>2. CASE RecvEmpty(h)
    BY <2>2, <1>a, <1>b, InformedStays, ZenonT(30) DEF RecvEmpty, taskVars
  <2>3. CASE WaitLock(h)
    BY <2>3, <1>a, <1>b, InformedStays, ZenonT(30) DEF WaitLock, taskVars
  <2>4. CASE WaitBlock(h)
    BY <2>4, <1>a, <1>b, InformedStays, ZenonT(30) DEF WaitBlock, taskVars
  <2> QED
    BY <1>3, <2>1, <2>2, <2>3, <2>4, Zenon
<1>4. ASSUME NEW v \in BOOLEAN, ReadFinish(h, v) PROVE Informed'
  BY <1>4, <1>a, <1>b, InformedStays, SMTT(30) DEF ReadFinish, Return
<1>5. CASE ScanRound(h) \/ Timer(h) \/ Exit(h) \/ FaultKill(h) \/ EnableNotifications(h)
  BY <1>5, <1>a, <1>b, InformedStays, ZenonT(30) DEF ScanRound, Timer, Exit, FaultKill, EnableNotifications, taskVars
<1>6. CASE Switch(h)
  BY <1>6, <1>a, <1>b, InformedStays, Zenon DEF Switch, taskVars
<1>7. ASSUME NEW q \in UserQueues, NEW n \in CapCounts, SendMessage(h, q, n) PROVE Informed'
  <2>1. op'[t].q = q /\ \A u \in Tasks : u # t => op'[u] = op[u]
    BY <1>7, <1>a, Zenon DEF SendMessage, NoOp
  <2> QED
    BY <1>7, <1>a, <1>b, <2>1, InformedStays, Zenon DEF SendMessage, taskVars
<1>8. ASSUME NEW q \in Queues, NEW b \in BufLens, NEW nb \in BOOLEAN, ReadMessage(h, q, b, nb) PROVE Informed'
  BY <1>8, <1>a, <1>b, InformedStays, Zenon DEF ReadMessage, taskVars
<1>9. ASSUME NEW c \in Tasks, Spawn(h, c) PROVE Informed'
  BY <1>9, <1>a, <1>b, InformedStays, Zenon DEF Spawn
<1>10. ASSUME NEW c \in Claimants, Interrupt(h, c) PROVE Informed'
  <2>1. op'[t].q = KernelChannel[c] /\ \A u \in Tasks : u # t => op'[u] = op[u]
    BY <1>10, <1>a, Zenon DEF Interrupt, NoOp
  <2>2. KernelChannel[c] \notin UserQueues
    BY IpcAssumption, Zenon DEF UserQueues, UserTasks
  <2> QED
    BY <1>10, <1>a, <1>b, <2>1, <2>2, InformedStays, Zenon DEF Interrupt, taskVars
<1> QED
  BY <1>1, <1>2, <1>3, <1>4, <1>5, <1>6, <1>7, <1>8, <1>9, <1>10, Zenon DEF Step, KernelStep, Syscall

\* A step that moves no sender past its note or its push.
AheadStays ==
    \A u \in Tasks : /\ Ahead(u)' /\ op'[u].q \in UserQueues => Ahead(u)
                     /\ Ahead(u) /\ op[u].q \in UserQueues => Ahead(u)'
                     /\ Ahead(u) => op'[u].q = op[u].q

\* A step that sends nothing and announces nothing keeps every message announced.
LEMMA AnnouncedStays == ASSUME Announced, UNCHANGED <<sent, notes>>, AheadStays
                        PROVE  Announced'
<1>1. \A q \in UserQueues : (\E u \in Tasks : Ahead(u)' /\ op'[u].q = q) <=> (\E u \in Tasks : Ahead(u) /\ op[u].q = q)
  BY Zenon DEF AheadStays
<1> QED
  BY <1>1, Zenon DEF Announced

\* Only the task that holds `inner` is between its note and its message.
LEMMA OneAhead == ASSUME IInv, NEW t \in Tasks, NEW u \in Tasks, pc[t] \in SendHolds, Ahead(u), op[u].q = op[t].q
                  PROVE  u = t
<1>1. op[t].q \in Queues
  BY Zenon DEF IInv, TypeOK, Op
<1>2. inner[op[t].q] = t /\ inner[op[t].q] = u
  BY <1>1 DEF IInv, Locks, Ahead, SendHolds
<1> QED
  BY <1>2, Zenon

\* Every step keeps the count of notes right.
LEMMA AnnouncedStep == ASSUME IInv, Informed, Announced, NEW h \in Harts, NEW t \in Tasks, t = current[h], Step(h)
                       PROVE Announced'
<1>a. /\ pc \in [Tasks -> Labels] /\ op \in [Tasks -> Op] /\ ret \in [Tasks -> {"user", "recv", "unreachable"}]
      /\ sent \in [Queues -> Nat] /\ notes \in [Queues -> Nat] /\ next[h] \in Tasks
  BY Zenon DEF IInv, TypeOK
<1>b. \A u \in Tasks : op[u].q \in Queues
  BY <1>a, Zenon DEF Op
<1>c. UserQueues \subseteq Queues /\ \A u \in Tasks : KernelChannel[u] \in Queues \ UserQueues
  BY IpcAssumption, SMTT(30) DEF UserQueues
<1> USE DEF Goto, At
<1>1. CASE SendLock(h) \/ NoteLock(h) \/ NoteReady(h)
  <2>1. AheadStays
    BY <1>1, <1>a, Zenon DEF SendLock, NoteLock, NoteReady, AheadStays, Ahead
  <2> QED
    BY <1>1, <2>1, AnnouncedStays, ZenonT(30) DEF SendLock, NoteLock, NoteReady
<1>2. CASE SendNotify(h)
  <2> DEFINE q == op[t].q
  <2>1. /\ UNCHANGED <<sent, notes, op>> /\ pc[t] = "notify"
        /\ pc' = [pc EXCEPT ![t] = IF subscribed[Owner[q]] THEN "note" ELSE "push"]
    BY <1>2, Zenon DEF SendNotify, chanVars
  <2>2. CASE subscribed[Owner[q]]
    <3>1. AheadStays
      BY <1>a, <2>1, <2>2, SMTT(30) DEF AheadStays, Ahead
    <3> QED
      BY <2>1, <3>1, AnnouncedStays, Zenon
  <2>3. CASE ~ subscribed[Owner[q]]
    <3>1. q \in UserQueues /\ Owner[q] \in Tasks
      BY <1>c, <2>1, IpcAssumption, SMTT(30) DEF IInv, Locks
    <3>2. Owner[q] \in BootTasks
      BY <2>1, <2>3, <3>1, Zenon DEF Informed, Sending, SendHolds
    <3>3. ~ \E u \in Tasks : Ahead(u) /\ op[u].q = q
      BY <2>1, OneAhead, Zenon DEF SendHolds, Ahead
    <3>4. notes[q] <= sent[q] /\ notes[q] \in Nat /\ sent[q] \in Nat
      BY <1>a, <1>c, <3>1, <3>3 DEF Announced
    <3>5. \A u \in Tasks : u # t => (Ahead(u)' <=> Ahead(u))
      BY <1>a, <2>1, Zenon DEF Ahead
    <3>6. ASSUME NEW p \in UserQueues, p # q
          PROVE (\E u \in Tasks : Ahead(u)' /\ op'[u].q = p) <=> (\E u \in Tasks : Ahead(u) /\ op[u].q = p)
      BY <2>1, <3>5, <3>6, SMTT(30)
    <3> QED
      BY <2>1, <3>2, <3>4, <3>6, SMTT(30) DEF Announced
  <2> QED
    BY <2>2, <2>3, Zenon
<1>3. CASE NotePush(h)
  <2> DEFINE q == op[t].q
             k == KernelChannel[Owner[q]]
  <2>1. /\ pc[t] = "notepush" /\ op' = op
        /\ notes' = [notes EXCEPT ![q] = notes[q] + 1]
        /\ sent' = [sent EXCEPT ![k] = sent[k] + 1]
        /\ pc' = [pc EXCEPT ![t] = IF waitq[k] = <<>> THEN "push" ELSE "noteready"]
    BY <1>3, ZenonT(30) DEF NotePush, PushBack
  <2>2. q \in UserQueues /\ k \in Queues \ UserQueues
    BY <1>c, <2>1, IpcAssumption, ZenonT(30) DEF IInv, Locks, NoteHolds
  <2>3. ~ \E u \in Tasks : Ahead(u) /\ op[u].q = q
    BY <2>1, OneAhead, Zenon DEF SendHolds, Ahead
  <2>4. Ahead(t)' /\ \A u \in Tasks : u # t => (Ahead(u)' <=> Ahead(u))
    BY <1>a, <2>1, Zenon DEF Ahead
  <2>5. ASSUME NEW p \in UserQueues, p # q
        PROVE (\E u \in Tasks : Ahead(u)' /\ op'[u].q = p) <=> (\E u \in Tasks : Ahead(u) /\ op[u].q = p)
    BY <2>1, <2>4, <2>5, ZenonT(30)
  <2>6. \E u \in Tasks : Ahead(u)' /\ op'[u].q = q
    BY <2>1, <2>4, ZenonT(30)
  <2>7. \A p \in UserQueues : sent'[p] = sent[p] /\ sent[p] \in Nat /\ notes[p] \in Nat
    BY <1>a, <1>c, <2>1, <2>2, Zenon
  <2>8. notes'[q] = notes[q] + 1 /\ \A p \in UserQueues : p # q => notes'[p] = notes[p]
    BY <1>a, <1>b, <1>c, <2>1, ZenonT(30)
  <2>9. notes[q] <= sent[q] /\ (Owner[q] \notin BootTasks => notes[q] = sent[q])
    BY <2>2, <2>3, <2>7, SMTT(30) DEF Announced
  <2>10. notes'[q] <= sent'[q] + 1 /\ (Owner[q] \notin BootTasks => notes'[q] = sent'[q] + 1)
    BY <2>2, <2>7, <2>8, <2>9
  <2> HIDE DEF q, k
  <2> QED
    BY <2>5, <2>6, <2>7, <2>8, <2>10, SMTT(30) DEF Announced
<1>4. CASE Push(h)
  <2> DEFINE q == op[t].q
  <2>1. /\ pc[t] = "push" /\ notes' = notes
        /\ sent' = [sent EXCEPT ![q] = sent[q] + 1]
        /\ pc'[t] \in {"user", "ready"}
        /\ \A u \in Tasks : u # t => pc'[u] = pc[u] /\ op'[u] = op[u]
    BY <1>4, <1>a, Zenon DEF Push, PushBack, Return
  <2>2. ~ Ahead(t)' /\ Ahead(t) /\ \A u \in Tasks : u # t => (Ahead(u)' <=> Ahead(u))
    BY <2>1, SMTT(30) DEF Ahead
  <2>3. \A u \in Tasks : Ahead(u) /\ op[u].q = q => u = t
    BY <2>1, OneAhead, SMTT(30) DEF SendHolds
  <2>4. ASSUME NEW p \in UserQueues, p # q
        PROVE (\E u \in Tasks : Ahead(u)' /\ op'[u].q = p) <=> (\E u \in Tasks : Ahead(u) /\ op[u].q = p)
    BY <2>1, <2>2, <2>4, SMTT(30)
  <2>5. ~ \E u \in Tasks : Ahead(u)' /\ op'[u].q = q
    BY <2>1, <2>2, <2>3, SMTT(30)
  <2>6. \A p \in UserQueues : sent[p] \in Nat /\ notes[p] \in Nat
    BY <1>a, <1>c, SMTT(30)
  <2>7. sent'[q] = sent[q] + 1 /\ \A p \in UserQueues : p # q => sent'[p] = sent[p]
    BY <1>a, <1>b, <1>c, <2>1, Zenon
  <2>8. q \in UserQueues =>
           /\ notes[q] <= sent[q] + 1
           /\ Owner[q] \notin BootTasks => notes[q] = sent[q] + 1
    BY <2>2, Zenon DEF Announced
  <2>9. q \in UserQueues => sent'[q] + 0 = sent[q] + 1
    BY <2>6, <2>7
  <2> HIDE DEF q
  <2> QED
    BY <2>1, <2>4, <2>5, <2>7, <2>8, <2>9, SMTT(30) DEF Announced
<1>5. ASSUME UNCHANGED <<sent, notes>>,
             \A u \in Tasks : \/ pc'[u] = pc[u] /\ op'[u] = op[u]
                              \/ ~ Ahead(u) /\ ~ Ahead(u)'
      PROVE  Announced'
  <2>1. AheadStays
    BY <1>5, SMTT(30) DEF AheadStays, Ahead
  <2> QED
    BY <1>5, <2>1, AnnouncedStays, SMTT(30)
<1> USE DEF Ahead
<1>6. CASE Ready(h) \/ TryRecvEmpty(h) \/ ReadPutBack(h)
  BY <1>5, <1>6, <1>a, ZenonT(30) DEF Ready, TryRecvEmpty, ReadPutBack, Return, chanVars
<1>7. CASE RecvPop(h) \/ RecvEmpty(h) \/ WaitLock(h) \/ WaitBlock(h)
  BY <1>5, <1>7, <1>a, ZenonT(30) DEF RecvPop, RecvEmpty, WaitLock, WaitBlock, chanVars
<1>8. ASSUME NEW v \in BOOLEAN, ReadFinish(h, v) PROVE Announced'
  BY <1>5, <1>8, <1>a, ZenonT(30) DEF ReadFinish, Return, chanVars
<1>9. CASE ScanRound(h) \/ Timer(h) \/ Exit(h) \/ FaultKill(h) \/ EnableNotifications(h)
  BY <1>5, <1>9, <1>a, ZenonT(30) DEF ScanRound, Timer, Exit, FaultKill, EnableNotifications, chanVars
<1>10. CASE Switch(h)
  <2>1. pc[next[h]] \notin {"noteready", "push"}
    BY <1>10, <1>a, Zenon DEF Switch, IInv, RunQueues
  <2> QED
    BY <1>5, <1>10, <1>a, <2>1, Zenon DEF Switch, chanVars
<1>11. ASSUME NEW q \in UserQueues, NEW n \in CapCounts, SendMessage(h, q, n) PROVE Announced'
  BY <1>5, <1>11, <1>a, Zenon DEF SendMessage, chanVars
<1>12. ASSUME NEW q \in Queues, NEW b \in BufLens, NEW nb \in BOOLEAN, ReadMessage(h, q, b, nb) PROVE Announced'
  BY <1>5, <1>12, <1>a, SMTT(30) DEF ReadMessage, chanVars
<1>13. ASSUME NEW c \in Tasks, Spawn(h, c) PROVE Announced'
  BY <1>5, <1>13, <1>a, Zenon DEF Spawn, chanVars
<1>14. ASSUME NEW c \in Claimants, Interrupt(h, c) PROVE Announced'
  BY <1>5, <1>14, <1>a, Zenon DEF Interrupt, chanVars
<1> QED
  BY <1>1, <1>2, <1>3, <1>4, <1>6, <1>7, <1>8, <1>9, <1>10, <1>11, <1>12, <1>13, <1>14, SMTT(30)
     DEF Step, KernelStep, Syscall

\* The inductive invariant of the messages.
MInv == InOrder /\ InHand /\ Informed /\ Announced

\* Every channel starts empty, and nobody has sent or been told of anything.
LEMMA InitMessages == Init => MInv
<1> SUFFICES ASSUME Init PROVE MInv
  BY Zenon
<1>1. \A t \in Tasks : pc[t] \in {"user", "out", "unborn"} /\ (pc[t] # "unborn" => t \in IdleTasks \/ t \in BootTasks)
  BY Zenon DEF Init
<1>2. \A t \in IdleTasks : t \in BootTasks
  <2> SUFFICES ASSUME NEW h \in Harts PROVE Idle[h] \in Members(BootQueue[h])
    BY Zenon DEF IdleTasks, BootTasks
  <2>1. BootQueue[h] \in Seq(Tasks) /\ BootQueue[h] # <<>> /\ Head(BootQueue[h]) = Idle[h]
    BY IpcAssumption, Zenon
  <2>2. 1 \in DOMAIN BootQueue[h] /\ BootQueue[h][1] = Idle[h]
    BY <2>1
  <2> QED
    BY <2>2, Zenon DEF Members
<1>3. InOrder
  <2>1. \A q \in Queues : queue[q] = <<>> /\ taken[q] = 0 /\ sent[q] = 0
    BY Zenon DEF Init
  <2> QED
    BY <2>1 DEF InOrder
<1>4. InHand /\ Informed
  BY <1>1, <1>2, Zenon DEF InHand, Informed, Sending, SendHolds
<1>5. Announced
  <2>1. \A q \in UserQueues : notes[q] = 0 /\ sent[q] = 0
    BY Zenon DEF Init, UserQueues
  <2>2. \A t \in Tasks : ~ Ahead(t)
    BY <1>1, Zenon DEF Ahead
  <2> QED
    BY <2>1, <2>2 DEF Announced
<1> QED
  BY <1>3, <1>4, <1>5, Zenon DEF MInv

\* A step of any hart keeps the messages accounted for.
LEMMA NextMessages == IInv /\ MInv /\ [Next]_vars => MInv'
<1>1. ASSUME IInv, MInv, Next PROVE MInv'
  <2>1. PICK h \in Harts : Step(h)
    BY <1>1, Zenon DEF Next, Step
  <2>2. current[h] \in Tasks
    BY <1>1, Zenon DEF IInv, TypeOK
  <2> QED
    BY <1>1, <2>1, <2>2, OrderStep, InformedStep, AnnouncedStep, Zenon DEF MInv
<1>2. ASSUME MInv, UNCHANGED vars PROVE MInv'
  <2>1. InOrder' /\ InHand'
    BY <1>2, SMTT(30) DEF MInv, vars, InOrder, InHand
  <2>2. Informed'
    BY <1>2, Zenon DEF MInv, vars, Informed
  <2>3. Announced'
    BY <1>2, AnnouncedStays, Zenon DEF MInv, vars, AheadStays, Ahead
  <2> QED
    BY <2>1, <2>2, <2>3, SMTT(30) DEF MInv
<1> QED
  BY <1>1, <1>2, Zenon

\* Whatever the harts interleave, a channel hands out its messages in the order
\* they were sent, each once, the remainder that read_message puts back
\* included, and whoever finds `inner` free finds a message for every note.
THEOREM EveryMessageAccounted == Spec => []MessagesAccounted
<1>1. IInv /\ MInv => MessagesAccounted
  <2> SUFFICES ASSUME IInv, MInv PROVE MessagesAccounted
    BY Zenon
  <2>1. ASSUME NEW q \in UserQueues, inner[q] = None PROVE ~ \E t \in Tasks : Ahead(t) /\ op[t].q = q
    BY <2>1, IpcAssumption, SMTT(30) DEF IInv, Locks, Ahead, SendHolds, UserQueues
  <2>2. \A q \in UserQueues : sent[q] \in Nat
    BY Zenon DEF IInv, TypeOK, UserQueues
  <2>3. NotesMatchMessages
    BY <2>1, <2>2 DEF MInv, Announced, NotesMatchMessages
  <2> QED
    BY <2>3, Zenon DEF MInv, MessagesAccounted
<1> QED
  BY <1>1, Invariant, InitMessages, NextMessages, PTL DEF Spec

\* In particular a channel whose `inner` is free has no more NewChannelMessage notes
\* than messages, and exactly as many when its owner was spawned, so subscribed.
THEOREM EveryMessageAnnounced == Spec => []NotesMatchMessages
<1>1. MessagesAccounted => NotesMatchMessages
  BY Zenon DEF MessagesAccounted
<1> QED
  BY <1>1, EveryMessageAccounted, PTL

-----------------------------------------------------------------------------
(* acquire_lock never finds a deadlock *)

\* Whoever spins stands in a system call, and so does whoever is waited for.
Busy == {"send", "recv", "got"} \cup SendHolds \cup WaitHolds \cup {"putback"}

\* acquire_lock waits for a task that is inside a system call, and not for itself.
LEMMA SpinsBusy ==
    ASSUME IInv, NEW t \in Tasks, NEW u \in Tasks, WaitsFor(t) = u
    PROVE  pc[t] \in Busy /\ pc[u] \in Busy \ {"send", "recv", "got"} /\ t # u
<1>a. op[t].q \in Queues /\ Owner[op[t].q] \in Tasks /\ None \notin Tasks /\ Locks
  BY IpcAssumption, Zenon DEF IInv, TypeOK, Op
<1>b. pc[t] \in NoteHolds \cup {"note"} =>
         NotifyQueue(t) \in Queues /\ NotifyQueue(t) \notin UserQueues /\ op[t].q \in UserQueues
  BY <1>a, IpcAssumption DEF Locks, NoteHolds, NotifyQueue, UserQueues
<1>c. pc[t] = "ready" => Head(waitq[op[t].q]) = Owner[op[t].q]
  BY <1>a DEF IInv, Waits
<1>d. pc[t] = "noteready" => Head(waitq[NotifyQueue(t)]) = Owner[NotifyQueue(t)] /\ Owner[NotifyQueue(t)] \in Tasks
  BY <1>a, <1>b, IpcAssumption DEF IInv, Waits, NoteHolds
<1>1. CASE pc[t] \in {"send", "recv", "putback"}
  <2>1. inner[op[t].q] = u
    BY <1>1, Zenon DEF WaitsFor
  <2> QED
    BY <1>1, <1>a, <2>1 DEF Locks, Busy, SendHolds, WaitHolds, NoteHolds
<1>2. CASE pc[t] = "notify"
  <2>1. slock[Owner[op[t].q]] = u
    BY <1>2, Zenon DEF WaitsFor
  <2> QED
    BY <1>2, <1>a, <2>1 DEF Locks, Busy, SendHolds
<1>3. CASE pc[t] = "note"
  <2>1. inner[NotifyQueue(t)] = u
    BY <1>3, Zenon DEF WaitsFor
  <2> QED
    BY <1>3, <1>a, <1>b, <2>1 DEF Locks, Busy, SendHolds, WaitHolds, NoteHolds
<1>4. CASE pc[t] = "notepush"
  <2>1. wqlock[NotifyQueue(t)] = u
    BY <1>4, Zenon DEF WaitsFor
  <2> QED
    BY <1>4, <1>a, <1>b, <2>1 DEF Locks, Busy, SendHolds, WaitHolds, NoteHolds
<1>5. CASE pc[t] = "noteready"
  <2>1. slock[Owner[NotifyQueue(t)]] = u
    BY <1>5, <1>d, Zenon DEF WaitsFor
  <2> QED
    BY <1>5, <1>a, <1>d, <2>1 DEF Locks, Busy, SendHolds
<1>6. CASE pc[t] \in {"push", "wait"}
  <2>1. wqlock[op[t].q] = u
    BY <1>6, Zenon DEF WaitsFor
  <2> QED
    BY <1>6, <1>a, <2>1 DEF Locks, Busy, SendHolds, WaitHolds
<1>7. CASE pc[t] = "ready"
  <2>1. slock[Owner[op[t].q]] = u
    BY <1>7, <1>c, Zenon DEF WaitsFor
  <2> QED
    BY <1>7, <1>a, <2>1 DEF Locks, Busy, SendHolds
<1>8. CASE pc[t] \in {"block", "got"}
  <2>1. slock[t] = u
    BY <1>8, Zenon DEF WaitsFor
  <2> QED
    BY <1>8, <1>a, <2>1, Zenon DEF Locks, Busy, WaitHolds
<1>9. CASE pc[t] \in Labels \ Busy
  <2>1. WaitsFor(t) = None
    BY <1>9, Zenon DEF WaitsFor, Busy, SendHolds, WaitHolds, Labels
  <2> QED
    BY <1>a, <2>1, Zenon
<1> QED
  BY <1>1, <1>2, <1>3, <1>4, <1>5, <1>6, <1>7, <1>8, <1>9, Zenon
     DEF IInv, TypeOK, Labels, Busy, SendHolds, WaitHolds

\* A task in a system call runs on some hart, and every hart but b only ever
\* runs its idle task, which makes no system call.
Running == \A t \in Tasks : pc[t] \notin {"out", "unborn"} => \E h \in Harts : current[h] = t
OthersIdle(b) == \A h \in Harts \ {b} : Members(runq[h]) = {Idle[h]} /\ pc[Idle[h]] \in {"user", "scan", "switch"}

\* A step that starts no task and switches to none keeps every hart's task.
LEMMA HartsStay ==
    ASSUME IInv, NEW b \in Harts, Running, OthersIdle(b),
           NEW h \in Harts, NEW t \in Tasks, t = current[h], UNCHANGED current,
           \A g \in Harts : Members(runq'[g]) = Members(runq[g]),
           \A u \in Tasks : u # t => pc'[u] = pc[u],
           pc[t] \in {"user", "scan", "switch"} /\ t \in IdleTasks => pc'[t] \in {"user", "scan", "switch"}
    PROVE  Running' /\ OthersIdle(b)'
<1>1. pc[t] \notin {"out", "unborn"}
  BY Zenon DEF IInv, RunQueues
<1>2. Running'
  BY <1>1, Zenon DEF Running
<1>3. \A g \in Harts : Idle[g] \in Tasks /\ Idle[g] \in IdleTasks
  BY IpcAssumption, Zenon DEF IdleTasks
<1>4. OthersIdle(b)'
  BY <1>3, Zenon DEF OthersIdle
<1> QED
  BY <1>2, <1>4, Zenon

\* Every step keeps the other harts idle.
LEMMA HartsStep == ASSUME IInv, NEW b \in Harts, Running, OthersIdle(b),
                          NEW h \in Harts, NEW t \in Tasks, t = current[h], Step(h)
                   PROVE  Running' /\ OthersIdle(b)'
<1>a. /\ pc \in [Tasks -> Labels] /\ ret \in [Tasks -> {"user", "recv", "unreachable"}]
      /\ next \in [Harts -> Tasks] /\ current \in [Harts -> Tasks] /\ runq \in [Harts -> Seq(Tasks)]
  BY Zenon DEF IInv, TypeOK
<1>b. \A g \in Harts : Idle[g] \in Tasks /\ Idle[g] \in IdleTasks
  BY IpcAssumption, Zenon DEF IdleTasks
<1>c. ASSUME UNCHANGED <<runq, current>>, \A u \in Tasks : u # t => pc'[u] = pc[u],
             \/ pc'[t] \in {"user", "scan", "switch"}
             \/ pc[t] \notin {"user", "scan", "switch"}
             \/ t \notin IdleTasks
      PROVE  Running' /\ OthersIdle(b)'
  BY <1>c, HartsStay, SMTT(30)
<1> USE DEF Goto, At
<1>1. CASE SendLock(h) \/ SendNotify(h) \/ NoteLock(h) \/ NotePush(h) \/ NoteReady(h)
  BY <1>1, <1>a, <1>c, ZenonT(30) DEF SendLock, SendNotify, NoteLock, NotePush, NoteReady, schedVars
<1>2. CASE Push(h) \/ Ready(h) \/ TryRecvEmpty(h) \/ ReadPutBack(h)
  BY <1>2, <1>a, <1>c, ZenonT(30) DEF Push, Ready, TryRecvEmpty, ReadPutBack, Return, schedVars
<1>3. CASE RecvPop(h) \/ RecvEmpty(h) \/ WaitLock(h) \/ WaitBlock(h)
  BY <1>3, <1>a, <1>c, Zenon DEF RecvPop, RecvEmpty, WaitLock, WaitBlock, schedVars
<1>4. ASSUME NEW v \in BOOLEAN, ReadFinish(h, v) PROVE Running' /\ OthersIdle(b)'
  BY <1>4, <1>a, <1>c, Zenon DEF ReadFinish, Return, schedVars
<1>5. CASE ScanRound(h)
  <2>1. \A g \in Harts : Members(runq'[g]) = Members(runq[g])
    <3>1. Members(Rotated(h)) = Members(runq[h])
      BY <1>a, RotateMembers, Zenon DEF Rotated, IInv, RunQueues
    <3> QED
      BY <1>5, <1>a, <3>1, Zenon DEF ScanRound
  <2>2. pc'[t] \in {"scan", "switch"} /\ UNCHANGED current /\ \A u \in Tasks : u # t => pc'[u] = pc[u]
    BY <1>5, <1>a, Zenon DEF ScanRound
  <2> QED
    BY <2>1, <2>2, HartsStay, Zenon
<1>6. CASE Timer(h) \/ Exit(h) \/ FaultKill(h) \/ EnableNotifications(h)
  BY <1>6, <1>a, <1>c, Zenon DEF Timer, Exit, FaultKill, EnableNotifications, schedVars
<1>7. CASE Switch(h)
  <2> DEFINE to == next[h]
  <2>1. /\ current' = [current EXCEPT ![h] = to] /\ runq' = runq
        /\ pc' = [pc EXCEPT ![t] = "out", ![to] = ret[to]]
    BY <1>7, Zenon DEF Switch
  <2>2. to \in Tasks /\ pc'[to] = ret[to] /\ \A u \in Tasks : u # to => pc'[u] = IF u = t THEN "out" ELSE pc[u]
    BY <1>a, <2>1, Zenon
  <2>3. current'[h] = to /\ \A g \in Harts : g # h => current'[g] = current[g]
    BY <1>a, <2>1, Zenon
  <2>4. Running'
    BY <2>2, <2>3 DEF Running
  <2>5. \A g \in Harts : g # h => Idle[g] # t /\ Idle[g] # to
    BY <1>a, <1>b, Zenon DEF IInv, RunQueues
  <2>6. h # b => t = Idle[h] /\ to = Idle[h] /\ ret[to] = "user"
    BY <1>b DEF IInv, RunQueues, LifeCycle, OthersIdle
  <2>7. OthersIdle(b)'
    BY <1>b, <2>1, <2>2, <2>5, <2>6, ZenonT(30) DEF OthersIdle
  <2> QED
    BY <2>4, <2>7, Zenon
<1>8. ASSUME NEW q \in UserQueues, NEW n \in CapCounts, SendMessage(h, q, n) PROVE Running' /\ OthersIdle(b)'
  <2>1. t \notin IdleTasks
    BY <1>8, IpcAssumption, Zenon DEF SendMessage, UserTasks
  <2> QED
    BY <1>8, <1>a, <2>1, <1>c, Zenon DEF SendMessage, schedVars
<1>9. ASSUME NEW q \in Queues, NEW n \in BufLens, NEW nb \in BOOLEAN, ReadMessage(h, q, n, nb) PROVE Running' /\ OthersIdle(b)'
  <2>1. t \notin IdleTasks
    BY <1>9, Zenon DEF ReadMessage, UserTasks
  <2> QED
    BY <1>9, <1>a, <2>1, <1>c, Zenon DEF ReadMessage, schedVars
<1>10. ASSUME NEW c \in Tasks, Spawn(h, c) PROVE Running' /\ OthersIdle(b)'
  <2>1. /\ pc[c] = "unborn" /\ pc' = [pc EXCEPT ![c] = "out"] /\ current' = current
        /\ runq' = [runq EXCEPT ![h] = Append(runq[h], c)] /\ t \notin IdleTasks
    BY <1>10, Zenon DEF Spawn, UserTasks
  <2>2. Running'
    BY <1>a, <2>1, Zenon DEF Running
  <2>3. h = b
    BY <1>b, <2>1, Zenon DEF OthersIdle, IInv, RunQueues
  <2>4. \A g \in Harts \ {b} : c # Idle[g]
    BY <2>1, Zenon DEF OthersIdle
  <2>5. OthersIdle(b)'
    BY <1>a, <1>b, <2>1, <2>3, <2>4, Zenon DEF OthersIdle
  <2> QED
    BY <2>2, <2>5, Zenon
<1>11. ASSUME NEW c \in Claimants, Interrupt(h, c) PROVE Running' /\ OthersIdle(b)'
  <2>1. /\ c \in Members(runq[h]) /\ c \notin IdleTasks /\ UNCHANGED <<runq, current>>
        /\ pc' = [pc EXCEPT ![t] = "send"] /\ pc[t] = "user"
    BY <1>11, IpcAssumption, Zenon DEF Interrupt, UserTasks, schedVars
  <2>2. h = b
    BY <1>b, <2>1, Zenon DEF OthersIdle
  <2>3. \A g \in Harts \ {b} : Idle[g] # t
    BY <1>a, <1>b, <2>2, Zenon DEF IInv, RunQueues
  <2>4. OthersIdle(b)'
    BY <1>a, <1>b, <2>1, <2>3, Zenon DEF OthersIdle
  <2>5. Running'
    BY <1>a, <2>1, Zenon DEF Running
  <2> QED
    BY <2>4, <2>5, Zenon
<1> QED
  BY <1>1, <1>2, <1>3, <1>4, <1>5, <1>6, <1>7, <1>8, <1>9, <1>10, <1>11, Zenon DEF Step, KernelStep, Syscall

\* On the machine as it boots, where every hart but the boot hart has only its
\* idle task, acquire_lock reports no deadlock: no hart finds a lock taken by
\* itself, and no two harts wait for each other.
THEOREM BootHartSpinsAlone ==
    ASSUME NEW b \in Harts, \A h \in Harts \ {b} : BootQueue[h] = <<Idle[h]>>
    PROVE  Spec => []NoSpinDeadlock
<1>1. Init => Running /\ OthersIdle(b)
  <2> SUFFICES ASSUME Init PROVE Running /\ OthersIdle(b)
    BY Zenon
  <2>1. \A t \in Tasks : pc[t] \notin {"out", "unborn"} => t \in IdleTasks
    BY Zenon DEF Init
  <2>2. \A h \in Harts : Idle[h] \in Tasks /\ pc[Idle[h]] = "user" /\ current[h] = Idle[h] /\ runq[h] = BootQueue[h]
    BY IpcAssumption, Zenon DEF Init, IdleTasks
  <2>3. \A h \in Harts \ {b} : Members(runq[h]) = {Idle[h]}
    BY <2>2 DEF Members
  <2> QED
    BY <2>1, <2>2, <2>3 DEF Running, OthersIdle, IdleTasks
<1>2. IInv /\ Running /\ OthersIdle(b) /\ [Next]_vars => Running' /\ OthersIdle(b)'
  <2>1. ASSUME IInv, Running, OthersIdle(b), Next PROVE Running' /\ OthersIdle(b)'
    <3>1. PICK h \in Harts : Step(h)
      BY <2>1, Zenon DEF Next, Step
    <3>2. current[h] \in Tasks
      BY <2>1, Zenon DEF IInv, TypeOK
    <3> QED
      BY <2>1, <3>1, <3>2, HartsStep, Zenon
  <2>2. ASSUME Running, OthersIdle(b), UNCHANGED vars PROVE Running' /\ OthersIdle(b)'
    BY <2>2, Zenon DEF vars, Running, OthersIdle
  <2> QED
    BY <2>1, <2>2, Zenon
<1>3. IInv /\ Running /\ OthersIdle(b) => NoSpinDeadlock
  <2> SUFFICES ASSUME IInv, Running, OthersIdle(b), NEW t \in Tasks, NEW u \in Tasks,
                      WaitsFor(t) = u, t = u \/ WaitsFor(u) = t
               PROVE  FALSE
    BY Zenon DEF NoSpinDeadlock
  <2>1. pc[t] \in Busy /\ pc[u] \in Busy /\ t # u
    BY SpinsBusy, Zenon
  <2>2. ASSUME NEW v \in Tasks, pc[v] \in Busy PROVE v = current[b]
    <3>1. PICK h \in Harts : current[h] = v
      BY <2>2, Zenon DEF Running, Busy, SendHolds, WaitHolds
    <3>2. h = b \/ v = Idle[h]
      BY <3>1 DEF OthersIdle, IInv, RunQueues
    <3> QED
      BY <2>2, <3>1, <3>2, Zenon DEF OthersIdle, Busy, SendHolds, WaitHolds
  <2> QED
    BY <2>1, <2>2, Zenon
<1> QED
  BY <1>1, <1>2, <1>3, Invariant, PTL DEF Spec

\* No message carries a capability, so read_message puts nothing back.
BareMessage == [seq : Nat, caps : {0}]
Capless ==
    /\ queue \in [Queues -> Seq(BareMessage)]
    /\ \A t \in Tasks : op[t].caps = 0 /\ op[t].msg \in BareMessage /\ pc[t] # "putback"

\* A push of a message without capabilities.
LEMMA PushCapless == ASSUME TypeOK, Capless, NEW t \in Tasks, NEW q \in Queues, PushBack(t, q, 0)
                     PROVE  queue' \in [Queues -> Seq(BareMessage)]
<1>1. [seq |-> sent[q] + 1, caps |-> 0] \in BareMessage
  BY DEF TypeOK, BareMessage
<1>2. Append(queue[q], [seq |-> sent[q] + 1, caps |-> 0]) \in Seq(BareMessage)
  BY <1>1, SeqPush, Zenon DEF Capless
<1> QED
  BY <1>2, Zenon DEF PushBack, Capless

\* As long as send_message passes no capability, no step makes one appear.
LEMMA CaplessStep == ASSUME IInv, Capless, CapCounts \subseteq {0},
                            NEW h \in Harts, NEW t \in Tasks, t = current[h], Step(h)
                     PROVE  Capless'
<1>a. /\ pc \in [Tasks -> Labels] /\ op \in [Tasks -> Op] /\ ret \in [Tasks -> {"user", "recv", "unreachable"}]
      /\ next \in [Harts -> Tasks] /\ TypeOK
  BY Zenon DEF IInv, TypeOK
<1>b. op[t].q \in Queues /\ op[t].buf \in Nat
  BY <1>a, SMTT(30) DEF Op
<1>c. \A u \in Tasks : NoOp(u).caps = 0 /\ NoOp(u).msg \in BareMessage
  BY Zenon DEF NoOp, NoMsg, BareMessage
<1>d. ASSUME queue' \in [Queues -> Seq(BareMessage)],
             \A u \in Tasks : u # t => op'[u] = op[u] /\ pc'[u] = pc[u],
             op'[t] \in {op[t], NoOp(t)}, pc'[t] # "putback"
      PROVE  Capless'
  BY <1>c, <1>d DEF Capless
<1>e. queue \in [Queues -> Seq(BareMessage)] /\ op[t].caps = 0 /\ op[t].msg \in BareMessage /\ pc[t] # "putback"
  BY Zenon DEF Capless
<1> USE DEF Goto, At
<1>1. CASE NotePush(h)
  <2>1. PushBack(t, NotifyQueue(t), 0) /\ pc[t] = "notepush"
    BY <1>1, Zenon DEF NotePush, NotifyQueue
  <2>2. queue' \in [Queues -> Seq(BareMessage)]
    BY <1>a, <2>1, PushCapless, NotifyType, Zenon DEF NoteHolds
  <2> QED
    BY <1>1, <1>a, <1>d, <2>2, SMTT(30) DEF NotePush
<1>2. CASE Push(h)
  <2>1. PushBack(t, op[t].q, 0)
    BY <1>2, <1>e, Zenon DEF Push
  <2>2. queue' \in [Queues -> Seq(BareMessage)]
    BY <1>a, <1>b, <2>1, PushCapless, SMTT(30)
  <2> QED
    BY <1>2, <1>a, <1>d, <2>2, SMTT(30) DEF Push, Return
<1>3. CASE RecvPop(h)
  <2> DEFINE q == op[t].q
  <2>1. /\ queue[q] # <<>> /\ queue' = [queue EXCEPT ![q] = Tail(queue[q])]
        /\ op' = [op EXCEPT ![t].msg = Head(queue[q])] /\ pc' = [pc EXCEPT ![t] = "got"]
    BY <1>3, Zenon DEF RecvPop
  <2>2. Head(queue[q]) \in BareMessage /\ Tail(queue[q]) \in Seq(BareMessage)
    BY <1>b, <1>e, <2>1, SeqPop, Zenon
  <2>3. op'[t].caps = op[t].caps /\ op'[t].msg = Head(queue[q]) /\ \A u \in Tasks : u # t => op'[u] = op[u]
    BY <1>a, <2>1 DEF Op
  <2>4. queue' \in [Queues -> Seq(BareMessage)]
    BY <1>b, <1>e, <2>1, <2>2, Zenon
  <2> QED
    BY <1>a, <1>e, <2>1, <2>2, <2>3, <2>4 DEF Capless
<1>4. ASSUME NEW v \in BOOLEAN, ReadFinish(h, v) PROVE Capless'
  <2>1. Remaining(op[t].msg.caps, op[t].buf) = 0
    BY <1>b, <1>e, SMTT(30) DEF Remaining, BareMessage
  <2> QED
    BY <1>4, <1>a, <1>d, <1>e, <2>1, Zenon DEF ReadFinish, Return, chanVars
<1>5. CASE ReadPutBack(h)
  BY <1>5, <1>e, ZenonT(30) DEF ReadPutBack
<1>6. CASE SendLock(h) \/ SendNotify(h) \/ NoteLock(h) \/ NoteReady(h)
  BY <1>6, <1>a, <1>d, <1>e, ZenonT(30) DEF SendLock, SendNotify, NoteLock, NoteReady, chanVars
<1>7. CASE Ready(h) \/ TryRecvEmpty(h)
  BY <1>7, <1>a, <1>d, <1>e, SMTT(30) DEF Ready, TryRecvEmpty, Return, chanVars
<1>8. CASE RecvEmpty(h) \/ WaitLock(h) \/ WaitBlock(h)
  BY <1>8, <1>a, <1>d, <1>e, ZenonT(30) DEF RecvEmpty, WaitLock, WaitBlock, chanVars
<1>9. CASE ScanRound(h) \/ Timer(h) \/ Exit(h) \/ FaultKill(h) \/ EnableNotifications(h)
  BY <1>9, <1>a, <1>d, <1>e, Zenon DEF ScanRound, Timer, Exit, FaultKill, EnableNotifications, chanVars
<1>10. CASE Switch(h)
  BY <1>10, <1>a, Zenon DEF Switch, chanVars, Capless
<1>11. ASSUME NEW q \in UserQueues, NEW n \in CapCounts, SendMessage(h, q, n) PROVE Capless'
  <2>1. n = 0
    BY Zenon
  <2>2. /\ op' = [op EXCEPT ![t] = [NoOp(t) EXCEPT !.q = q, !.caps = n]]
        /\ queue' = queue /\ pc' = [pc EXCEPT ![t] = "send"]
    BY <1>11, Zenon DEF SendMessage, chanVars
  <2>3. op'[t].caps = 0 /\ op'[t].msg = NoOp(t).msg /\ \A u \in Tasks : u # t => op'[u] = op[u]
    BY <1>a, <2>1, <2>2, Zenon DEF NoOp
  <2> QED
    BY <1>a, <1>c, <1>e, <2>2, <2>3, Zenon DEF Capless
<1>12. ASSUME NEW q \in Queues, NEW b \in BufLens, NEW nb \in BOOLEAN, ReadMessage(h, q, b, nb) PROVE Capless'
  <2>1. /\ op' = [op EXCEPT ![t] = [NoOp(t) EXCEPT !.q = q, !.buf = b, !.nonblocking = nb]]
        /\ queue' = queue /\ pc' = [pc EXCEPT ![t] = "recv"]
    BY <1>12, Zenon DEF ReadMessage, chanVars
  <2>2. op'[t].caps = 0 /\ op'[t].msg = NoOp(t).msg /\ \A u \in Tasks : u # t => op'[u] = op[u]
    BY <1>a, <2>1, Zenon DEF NoOp
  <2> QED
    BY <1>a, <1>c, <1>e, <2>1, <2>2, Zenon DEF Capless
<1>13. ASSUME NEW c \in Tasks, Spawn(h, c) PROVE Capless'
  BY <1>13, <1>a, Zenon DEF Spawn, chanVars, Capless
<1>14. ASSUME NEW c \in Claimants, Interrupt(h, c) PROVE Capless'
  <2>1. /\ op' = [op EXCEPT ![t] = [NoOp(t) EXCEPT !.q = KernelChannel[c]]]
        /\ queue' = queue /\ pc' = [pc EXCEPT ![t] = "send"]
    BY <1>14, Zenon DEF Interrupt, chanVars
  <2>2. op'[t].caps = 0 /\ op'[t].msg = NoOp(t).msg /\ \A u \in Tasks : u # t => op'[u] = op[u]
    BY <1>a, <2>1, Zenon DEF NoOp
  <2> QED
    BY <1>a, <1>c, <1>e, <2>1, <2>2, Zenon DEF Capless
<1> QED
  BY <1>1, <1>2, <1>3, <1>4, <1>5, <1>6, <1>7, <1>8, <1>9, <1>10, <1>11, <1>12, <1>13, <1>14, SMTT(30)
     DEF Step, KernelStep, Syscall

\* Wherever the tasks run, harts that exchange messages without capabilities
\* never wait for each other: read_message holds its task's state lock over
\* another lock only to put capabilities back, a sender that notifies holds a
\* user channel and waits for a kernel channel, and a wait queue's lock is
\* only taken under `inner`.
THEOREM BareMessagesNeverDeadlock ==
    ASSUME CapCounts \subseteq {0}
    PROVE  Spec => []NoSpinDeadlock
<1>1. Init => Capless
  <2> SUFFICES ASSUME Init PROVE Capless
    BY Zenon
  <2>1. \A t \in Tasks : op[t] = NoOp(t) /\ pc[t] # "putback"
    BY Zenon DEF Init
  <2>2. \A t \in Tasks : NoOp(t).caps = 0 /\ NoOp(t).msg \in BareMessage
    BY Zenon DEF NoOp, NoMsg, BareMessage
  <2>3. queue \in [Queues -> Seq(BareMessage)]
    BY DEF Init
  <2> QED
    BY <2>1, <2>2, <2>3, Zenon DEF Capless
<1>2. IInv /\ Capless /\ [Next]_vars => Capless'
  <2>1. ASSUME IInv, Capless, Next PROVE Capless'
    <3>1. PICK h \in Harts : Step(h)
      BY <2>1, Zenon DEF Next, Step
    <3>2. current[h] \in Tasks
      BY <2>1, Zenon DEF IInv, TypeOK
    <3> QED
      BY <2>1, <3>1, <3>2, CaplessStep, Zenon
  <2>2. ASSUME Capless, UNCHANGED vars PROVE Capless'
    BY <2>2, Zenon DEF vars, Capless
  <2> QED
    BY <2>1, <2>2, Zenon
<1>3. IInv /\ Capless => NoSpinDeadlock
  <2> SUFFICES ASSUME IInv, Capless, NEW t \in Tasks, NEW u \in Tasks,
                      WaitsFor(t) = u, t = u \/ WaitsFor(u) = t
               PROVE  FALSE
    BY Zenon DEF NoSpinDeadlock
  <2>1. t # u /\ WaitsFor(u) = t
    BY SpinsBusy, SMTT(30)
  <2>2. ASSUME NEW v \in Tasks, NEW w \in Tasks, v # w, WaitsFor(v) = w, WaitsFor(w) = v
        PROVE  pc[v] = "note" /\ inner[NotifyQueue(v)] = w
    <3>1. pc[v] \in SendHolds \cup WaitHolds
      BY <2>2, SpinsBusy, Zenon DEF Busy, Capless
    <3>2. \A x \in Tasks : slock[x] # w
      BY DEF IInv, Locks, Capless
    <3>3. op[v].q \in Queues /\ Owner[op[v].q] \in Tasks /\ Locks
      BY IpcAssumption, ZenonT(30) DEF IInv, TypeOK, Op
    <3>4. pc[v] \in NoteHolds \cup {"note"} => NotifyQueue(v) \in Queues
      BY <3>3, NotifyType, Zenon DEF NoteHolds
    <3>5. pc[v] = "ready" => Head(waitq[op[v].q]) = Owner[op[v].q]
      BY <3>3 DEF IInv, Waits
    <3>6. pc[v] = "noteready" => Head(waitq[NotifyQueue(v)]) = Owner[NotifyQueue(v)] /\ Owner[NotifyQueue(v)] \in Tasks
      BY <3>4, IpcAssumption DEF IInv, Waits, NoteHolds
    <3>7. pc[v] \notin {"notify", "noteready", "ready", "block"}
      <4>1. pc[v] = "notify" => WaitsFor(v) = slock[Owner[op[v].q]]
        BY Zenon DEF WaitsFor
      <4>2. pc[v] = "noteready" => WaitsFor(v) = slock[Owner[NotifyQueue(v)]]
        BY <3>6, Zenon DEF WaitsFor
      <4>3. pc[v] = "ready" => WaitsFor(v) = slock[Owner[op[v].q]]
        BY <3>5, Zenon DEF WaitsFor
      <4>4. pc[v] = "block" => WaitsFor(v) = slock[v]
        BY Zenon DEF WaitsFor
      <4> QED
        BY <2>2, <3>2, <3>3, <3>6, <4>1, <4>2, <4>3, <4>4, Zenon
    <3>8. pc[v] # "notepush"
      <4>1. pc[v] = "notepush" => wqlock[NotifyQueue(v)] = w /\ inner[NotifyQueue(v)] = v
        BY <2>2, <3>3, <3>4 DEF WaitsFor, Locks, NoteHolds
      <4>2. pc[v] = "notepush" => inner[NotifyQueue(v)] = w
        BY <3>3, <3>4, <4>1 DEF Locks, SendHolds, WaitHolds, NoteHolds
      <4> QED
        BY <2>2, <4>1, <4>2, SMTT(30)
    <3>9. pc[v] \notin {"push", "wait"}
      <4>1. pc[v] \in {"push", "wait"} => wqlock[op[v].q] = w /\ inner[op[v].q] = v
        BY <2>2, <3>3 DEF WaitsFor, Locks, SendHolds, WaitHolds
      <4>2. pc[v] \in {"push", "wait"} => inner[op[v].q] = w
        BY <3>3, <4>1 DEF Locks, SendHolds, WaitHolds, NoteHolds
      <4> QED
        BY <2>2, <4>1, <4>2, SMTT(30)
    <3>10. pc[v] = "note"
      BY <3>1, <3>7, <3>8, <3>9, Zenon DEF SendHolds, WaitHolds
    <3> QED
      BY <2>2, <3>10, Zenon DEF WaitsFor
  <2>3. pc[t] = "note" /\ pc[u] = "note" /\ inner[NotifyQueue(t)] = u
    BY <2>1, <2>2, Zenon
  <2>4. op[u].q \in UserQueues /\ NotifyQueue(t) \in Queues /\ NotifyQueue(t) \notin UserQueues
    <3>1. op[u].q \in UserQueues /\ op[t].q \in UserQueues /\ NotifyQueue(t) \in Queues
      BY <2>3, NotifyType, Zenon DEF IInv, Locks
    <3>2. Owner[op[t].q] \in Tasks
      BY <3>1, IpcAssumption, Zenon DEF UserQueues
    <3> QED
      BY <3>1, <3>2, Zenon DEF NotifyQueue, UserQueues
  <2>5. op[u].q = NotifyQueue(t)
    BY <2>3, <2>4 DEF IInv, Locks, NoteHolds
  <2> QED
    BY <2>4, <2>5, Zenon
<1> QED
  BY <1>1, <1>2, <1>3, Invariant, PTL DEF Spec
=============================================================================
