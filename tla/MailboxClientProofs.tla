------------------------ MODULE MailboxClientProofs ------------------------
(***************************************************************************)
(* Proofs about the waiting lists of mailboxes with slots, for clients     *)
(* that keep to a discipline: nobody releases a mailbox, no call names a   *)
(* mailbox without slots, at most one process waits in MboxRecv at each    *)
(* mailbox, buffers are as large as the slots, and the arrays of blocked   *)
(* pids have room for all who send.  The run bad_receivers shows what      *)
(* happens to those who do not.                                            *)
(***************************************************************************)
EXTENDS MailboxProofs, FiniteSetTheorems

(* The calls of p that may sleep in MboxRecv at b. *)
ReceivesAt(p, b) ==
    \/ b \in Targets /\ "recv" \in Calls[p]
    \/ b = clockMailbox /\ "waitDevice" \in Calls[p]

(* The processes that may sleep in MboxSend. *)
Senders == {p \in Procs : Calls[p] \cap {"send", "tick"} # {}}

Discipline ==
    /\ \A p \in Procs : "release" \notin Calls[p]
    /\ 0 \notin SlotCounts /\ \A b \in Targets : b >= Reserved
    /\ \A p, q \in Procs, b \in Mailboxes : ReceivesAt(p, b) /\ ReceivesAt(q, b) => p = q
    /\ \A max \in BufSizes, size \in SlotSizes \cup {IntSize} : max < 0 \/ max >= size
    /\ IsFiniteSet(Senders) /\ Cardinality(Senders) <= MAX_BLOCKED /\ MAX_BLOCKED > 0

(* The places for messages that the mailboxes can ever have. *)
Places == {<<clockMailbox, 1>>} \cup
          {x \in Mailboxes \X (1..MAXSLOTS) :
             x[1] > clockMailbox /\ \E n \in SlotCounts : x[2] <= n}
EnoughSlots == Cardinality(Places) <= MAXSLOTS

-----------------------------------------------------------------------------
(* Nobody is on its way through an operation that the discipline excludes. *)
Control ==
    \A p \in Procs :
        /\ pc[p] \in {"idle", "full", "empty"}
        /\ pc[p] = "idle" => status[p] = "ready"
        /\ pc[p] # "idle" => isActive[call[p].mbox] /\ call[p].mbox >= Reserved
        /\ pc[p] = "full" => p \in Senders /\ call[p].msg.len <= slotSize[call[p].mbox]
        /\ pc[p] = "empty" => /\ ReceivesAt(p, call[p].mbox)
                              /\ call[p].max >= slotSize[call[p].mbox]

Created ==
    \A b \in Mailboxes :
        /\ b <= clockMailbox => isActive[b]
        /\ ~isActive[b] => slotQueue[b] = <<>>
        /\ isActive[b] /\ b >= Reserved =>
             /\ hasQueue[b] /\ numSlots[b] > 0 /\ slotSize[b] \in SlotSizes \cup {IntSize}
             /\ \A i \in 1..numSlots[b] : <<b, i>> \in Places
        /\ b < Reserved => slotQueue[b] = <<>>
        /\ b = clockMailbox => slotSize[b] = IntSize

MessagesFit ==
    \A b \in Mailboxes : \A i \in 1..Len(slotQueue[b]) :
        mailSlots[slotQueue[b][i]].message.len <= slotSize[b]

(* A receiver that sleeps is the one that consumers points at, and sleeps  *)
(* at an empty mailbox.                                                    *)
ConsumersKnown ==
    \A b \in Mailboxes : blockedConsumers[b] # <<>> => consumers[b] # NULL /\ slotQueue[b] = <<>>

ProducersCovered ==
    \A b \in Mailboxes : blockedProducers[b] # <<>> =>
        numSlots[b] - Len(slotQueue[b]) <= Cardinality(WokenSenders(b))

(* Every slot is free or queued: none is lost. *)
NoSlotLost ==
    \A s \in Slots :
        \/ \E i \in 1..Len(freeSlots) : freeSlots[i] = s
        \/ \E b \in Mailboxes : \E i \in 1..Len(slotQueue[b]) : slotQueue[b][i] = s

ClientInv ==
    /\ TypeOK /\ SlotIntegrity /\ machine # "halted"
    /\ Control /\ Created /\ MessagesFit
    /\ ListedIffAsleep /\ ConsumersKnown /\ ProducersCovered /\ NoSlotLost

-----------------------------------------------------------------------------
(* Lists without repetition: the head taken off, an element appended.      *)
LEMMA HeadTaken ==
    ASSUME NEW S, NEW s \in Seq(S), s # <<>>, Injective(s)
    PROVE  /\ Injective(Tail(s)) /\ Tail(s) \in Seq(S) /\ Head(s) \in S
           /\ \A e : Contains(Tail(s), e) <=> Contains(s, e) /\ e # Head(s)
           /\ Contains(s, Head(s))
  <1>1. /\ Tail(s) \in Seq(S) /\ Head(s) \in S /\ Len(s) \in Nat /\ Len(s) > 0
        /\ Len(Tail(s)) = Len(s) - 1
        /\ \A i \in 1..(Len(s) - 1) : Tail(s)[i] = s[i + 1]
        /\ Head(s) = s[1]
    BY HeadTail
  <1>2. Injective(Tail(s)) /\ \A i \in 1..Len(Tail(s)) : Tail(s)[i] # Head(s)
    BY InjectiveEnds
  <1> DEFINE n == Len(s)
             u == Tail(s)
             h == Head(s)
  <1>3. /\ n \in Nat /\ n > 0 /\ Len(u) = n - 1 /\ h = s[1]
        /\ \A i \in 1..(n - 1) : u[i] = s[i + 1] /\ u[i] # h
    BY <1>1, <1>2
  <1> HIDE DEF n, u, h
  <1>4. ASSUME NEW e, \E i \in 1..(n - 1) : u[i] = e
        PROVE  (\E i \in 1..n : s[i] = e) /\ e # h
    <2>1. PICK i \in 1..(n - 1) : u[i] = e BY <1>4
    <2>2. i + 1 \in 1..n /\ s[i + 1] = e BY <1>3, <2>1
    <2> QED BY <1>3, <2>1, <2>2
  <1>5. ASSUME NEW e, \E i \in 1..n : s[i] = e, e # h
        PROVE  \E i \in 1..(n - 1) : u[i] = e
    <2>1. PICK i \in 1..n : s[i] = e BY <1>5
    <2>2. i # 1 BY <1>3, <1>5, <2>1
    <2>3. i - 1 \in 1..(n - 1) /\ u[i - 1] = s[(i - 1) + 1] /\ (i - 1) + 1 = i BY <1>3, <2>2
    <2> QED BY <2>1, <2>3
  <1>6. \A e : Contains(u, e) <=> Contains(s, e) /\ e # h
    BY <1>3, <1>4, <1>5 DEF Contains, n
  <1>7. Contains(s, h) BY <1>3 DEF Contains, n
  <1> QED BY <1>1, <1>2, <1>6, <1>7 DEF u, h

LEMMA OneAppended ==
    ASSUME NEW S, NEW s \in Seq(S), NEW x \in S, Injective(s), ~Contains(s, x)
    PROVE  /\ Injective(Append(s, x)) /\ Append(s, x) \in Seq(S) /\ Append(s, x) # <<>>
           /\ \A e : Contains(Append(s, x), e) <=> Contains(s, e) \/ e = x
  <1> DEFINE n == Len(s)
             u == Append(s, x)
  <1>1. /\ n \in Nat /\ u \in Seq(S) /\ Len(u) = n + 1 /\ u[n + 1] = x
        /\ \A i \in 1..n : u[i] = s[i]
    OBVIOUS
  <1>2. Injective(u) BY InjectiveEnds DEF Contains
  <1> HIDE DEF n, u
  <1>3. \A e : Contains(u, e) <=> Contains(s, e) \/ e = x
    BY <1>1 DEF Contains, n
  <1>4. u # <<>> BY <1>1, EmptySeq
  <1> QED BY <1>1, <1>2, <1>3, <1>4 DEF u

(* A list without repetition that misses somebody has room for him. *)
LEMMA RoomLeft ==
    ASSUME NEW T, IsFiniteSet(T), NEW S, NEW s \in Seq(S), Injective(s),
           \A e : Contains(s, e) => e \in T, NEW x \in T, ~Contains(s, x)
    PROVE  Len(s) < Cardinality(T)
  <1> DEFINE n == Len(s)
             f == [i \in 1..n |-> s[i]]
             U == T \ {x}
  <1>1. n \in Nat OBVIOUS
  <1>2. \A i \in 1..n : s[i] \in U BY DEF Contains
  <1>3. f \in Injection(1..n, U)
    <2>1. f \in [1..n -> U] BY <1>2
    <2>2. \A i, j \in 1..n : f[i] = f[j] => i = j BY DEF Injective
    <2> QED BY <2>1, <2>2 DEF Injection, IsInjective
  <1>4. /\ IsFiniteSet(U) /\ Cardinality(U) = Cardinality(T) - 1 /\ Cardinality(T) \in Nat
    BY FS_RemoveElement, FS_CardinalityType
  <1>5. Cardinality(1..n) <= Cardinality(U)
    <2> HIDE DEF f, U, n
    <2> QED BY <1>3, <1>4, FS_Injection
  <1>6. Cardinality(1..n) = n
    <2> HIDE DEF n
    <2> QED BY <1>1, FS_Interval
  <1> QED BY <1>1, <1>4, <1>5, <1>6

LEMMA MailboxNumbers ==
    /\ clockMailbox \in Mailboxes /\ clockMailbox = Reserved /\ Reserved \in Nat
    /\ Mailboxes \subseteq Nat
  BY SizesAssumption DEF clockMailbox, Mailboxes

LEMMA ListsType ==
    ASSUME TypeOK, NEW b \in Mailboxes
    PROVE  /\ blockedProducers[b] \in Seq(Procs) /\ blockedConsumers[b] \in Seq(Procs)
           /\ slotQueue[b] \in Seq(Slots) /\ Len(slotQueue[b]) \in Nat
           /\ numSlots[b] \in Nat /\ slotSize[b] \in Nat
  BY SizesAssumption DEF TypeOK

LEMMA NobodyListed ==
    ASSUME NEW S, NEW s \in Seq(S)
    PROVE  s = <<>> <=> \A e : ~Contains(s, e)
  <1>1. Len(s) \in Nat OBVIOUS
  <1>2. s = <<>> <=> Len(s) = 0 BY EmptySeq
  <1>3. s # <<>> => Contains(s, s[1]) BY <1>1, <1>2 DEF Contains
  <1>4. s = <<>> => \A e : ~Contains(s, e) BY <1>1, <1>2 DEF Contains
  <1> QED BY <1>3, <1>4

(* Who sleeps in MboxRecv at a mailbox sleeps there alone. *)
LEMMA AloneAtMailbox ==
    ASSUME Discipline, ClientInv, NEW b \in Mailboxes, NEW p \in Procs, ReceivesAt(p, b)
    PROVE  \A q : Contains(blockedConsumers[b], q) => q = p
  <1> SUFFICES ASSUME NEW q, Contains(blockedConsumers[b], q) PROVE q = p OBVIOUS
  <1>1. q \in Procs
    <2>1. blockedConsumers[b] \in Seq(Procs) BY ListsType DEF ClientInv
    <2> QED BY <2>1 DEF Contains
  <1>2. pc[q] = "empty" /\ call[q].mbox = b BY <1>1 DEF ClientInv, ListedIffAsleep, Asleep
  <1>3. ReceivesAt(q, b) BY <1>1, <1>2 DEF ClientInv, Control
  <1> QED BY <1>1, <1>3 DEF Discipline

-----------------------------------------------------------------------------
(* What the pieces of the actions do, process by process and mailbox by    *)
(* mailbox.                                                                *)
LEMMA ReturnEach ==
    ASSUME TypeOK, NEW p \in Procs, NEW rc, NEW m, Return(p, rc, m)
    PROVE  /\ \A r \in Procs : pc'[r] = IF r = p THEN "idle" ELSE pc[r]
           /\ \A r \in Procs : r # p => call'[r] = call[r]
  BY DEF Return, TypeOK

LEMMA BlockEach ==
    ASSUME TypeOK, NEW p \in Procs, NEW seg, NEW c, BlockMe(p, seg, c)
    PROVE  /\ \A r \in Procs : pc'[r] = IF r = p THEN seg ELSE pc[r]
           /\ \A r \in Procs : call'[r] = IF r = p THEN c ELSE call[r]
           /\ \A r \in Procs : status'[r] = IF r = p THEN "blocked" ELSE status[r]
           /\ machine' = machine
  BY DEF BlockMe, TypeOK

LEMMA UnblockEach ==
    ASSUME TypeOK, NEW p \in Procs, NEW q \in Procs, q # p, status[q] = "blocked", Unblock(p, q)
    PROVE  /\ \A r \in Procs : status'[r] = IF r = q THEN "ready" ELSE status[r]
           /\ machine' = machine
  BY DEF Unblock, TypeOK

(* A list is changed at one mailbox only. *)
LEMMA OneListChanged ==
    ASSUME NEW S, NEW lists \in [Mailboxes -> S], NEW b \in Mailboxes, NEW new, NEW lists2,
           lists2 = [lists EXCEPT ![b] = new]
    PROVE  lists2[b] = new /\ \A c \in Mailboxes : c # b => lists2[c] = lists[c]
  OBVIOUS

(* wakeupConsumer wakes nobody, or the head of the list, who was asleep. *)
LEMMA ConsumerWoken ==
    ASSUME ClientInv, NEW p \in Procs, status[p] = "ready", NEW b \in Mailboxes,
           wakeupConsumer(p, b)
    PROVE  /\ machine' = machine
           /\ \/ blockedConsumers[b] = <<>> /\ UNCHANGED <<blockedConsumers, status>>
              \/ \E q \in Procs :
                   /\ q # p /\ Contains(blockedConsumers[b], q)
                   /\ \A r \in Procs : status'[r] = IF r = q THEN "ready" ELSE status[r]
                   /\ \A c \in Mailboxes : c # b => blockedConsumers'[c] = blockedConsumers[c]
                   /\ Injective(blockedConsumers'[b])
                   /\ \A e : Contains(blockedConsumers'[b], e)
                               <=> Contains(blockedConsumers[b], e) /\ e # q
  <1>1. CASE blockedConsumers[b] = <<>> /\ UNCHANGED <<blockedConsumers, running>>
    BY <1>1 DEF running
  <1>2. CASE /\ blockedConsumers[b] # <<>>
             /\ blockedConsumers' = [blockedConsumers EXCEPT ![b] = Tail(@)]
             /\ Unblock(p, Head(blockedConsumers[b]))
    <2> DEFINE q == Head(blockedConsumers[b])
    <2>1. TypeOK /\ blockedConsumers[b] \in Seq(Procs) /\ Injective(blockedConsumers[b])
      BY ListsType DEF ClientInv, ListedIffAsleep
    <2>2. /\ Injective(Tail(blockedConsumers[b])) /\ q \in Procs
          /\ \A e : Contains(Tail(blockedConsumers[b]), e)
                      <=> Contains(blockedConsumers[b], e) /\ e # q
          /\ Contains(blockedConsumers[b], q)
      BY <1>2, <2>1, HeadTaken
    <2>3. q # p /\ status[q] = "blocked"
      BY <2>2 DEF ClientInv, ListedIffAsleep, Asleep
    <2>4. /\ \A r \in Procs : status'[r] = IF r = q THEN "ready" ELSE status[r]
          /\ machine' = machine
      BY <1>2, <2>1, <2>2, <2>3, UnblockEach
    <2>5. /\ blockedConsumers'[b] = Tail(blockedConsumers[b])
          /\ \A c \in Mailboxes : c # b => blockedConsumers'[c] = blockedConsumers[c]
      BY <1>2, <2>1, OneListChanged DEF TypeOK
    <2> HIDE DEF q
    <2> QED BY <2>2, <2>3, <2>4, <2>5
  <1> QED BY <1>1, <1>2 DEF wakeupConsumer

LEMMA ProducerWoken ==
    ASSUME ClientInv, NEW p \in Procs, status[p] = "ready", NEW b \in Mailboxes,
           wakeupProducer(p, b)
    PROVE  /\ machine' = machine
           /\ \/ blockedProducers[b] = <<>> /\ UNCHANGED <<blockedProducers, status>>
              \/ \E q \in Procs :
                   /\ q # p /\ Contains(blockedProducers[b], q)
                   /\ \A r \in Procs : status'[r] = IF r = q THEN "ready" ELSE status[r]
                   /\ \A c \in Mailboxes : c # b => blockedProducers'[c] = blockedProducers[c]
                   /\ Injective(blockedProducers'[b])
                   /\ \A e : Contains(blockedProducers'[b], e)
                               <=> Contains(blockedProducers[b], e) /\ e # q
  <1>1. CASE blockedProducers[b] = <<>> /\ UNCHANGED <<blockedProducers, running>>
    BY <1>1 DEF running
  <1>2. CASE /\ blockedProducers[b] # <<>>
             /\ blockedProducers' = [blockedProducers EXCEPT ![b] = Tail(@)]
             /\ Unblock(p, Head(blockedProducers[b]))
    <2> DEFINE q == Head(blockedProducers[b])
    <2>1. TypeOK /\ blockedProducers[b] \in Seq(Procs) /\ Injective(blockedProducers[b])
      BY ListsType DEF ClientInv, ListedIffAsleep
    <2>2. /\ Injective(Tail(blockedProducers[b])) /\ q \in Procs
          /\ \A e : Contains(Tail(blockedProducers[b]), e)
                      <=> Contains(blockedProducers[b], e) /\ e # q
          /\ Contains(blockedProducers[b], q)
      BY <1>2, <2>1, HeadTaken
    <2>3. q # p /\ status[q] = "blocked"
      BY <2>2 DEF ClientInv, ListedIffAsleep, Asleep
    <2>4. /\ \A r \in Procs : status'[r] = IF r = q THEN "ready" ELSE status[r]
          /\ machine' = machine
      BY <1>2, <2>1, <2>2, <2>3, UnblockEach
    <2>5. /\ blockedProducers'[b] = Tail(blockedProducers[b])
          /\ \A c \in Mailboxes : c # b => blockedProducers'[c] = blockedProducers[c]
      BY <1>2, <2>1, OneListChanged DEF TypeOK
    <2> HIDE DEF q
    <2> QED BY <2>2, <2>3, <2>4, <2>5
  <1> QED BY <1>1, <1>2 DEF wakeupProducer

(* The senders on their way to a mailbox can be counted. *)
LEMMA SendersCounted ==
    ASSUME Discipline, ClientInv, NEW b \in Mailboxes
    PROVE  IsFiniteSet(WokenSenders(b)) /\ Cardinality(WokenSenders(b)) \in Nat
  <1>1. WokenSenders(b) \subseteq Senders BY DEF WokenSenders, ClientInv, Control
  <1> QED BY <1>1, FS_Subset, FS_CardinalityType DEF Discipline

(* Who sends at a mailbox is not listed there while it runs, and there is  *)
(* room for it.                                                            *)
LEMMA RoomToSend ==
    ASSUME Discipline, ClientInv, NEW b \in Mailboxes, NEW p \in Senders, status[p] = "ready"
    PROVE  ~Contains(blockedProducers[b], p) /\ Len(blockedProducers[b]) < MAX_BLOCKED
  <1>1. p \in Procs BY DEF Senders
  <1>2. ~Contains(blockedProducers[b], p) BY <1>1 DEF ClientInv, ListedIffAsleep, Asleep
  <1>3. blockedProducers[b] \in Seq(Procs) /\ Injective(blockedProducers[b])
    BY ListsType DEF ClientInv, ListedIffAsleep
  <1>4. \A e : Contains(blockedProducers[b], e) => e \in Senders
    <2>1. ASSUME NEW e, Contains(blockedProducers[b], e) PROVE e \in Senders
      <3>1. e \in Procs BY <1>3, <2>1 DEF Contains
      <3> QED BY <2>1, <3>1 DEF ClientInv, ListedIffAsleep, Asleep, Control
    <2> QED BY <2>1
  <1>5. Len(blockedProducers[b]) < Cardinality(Senders)
    BY <1>2, <1>3, <1>4, RoomLeft DEF Discipline
  <1>6. Cardinality(Senders) \in Nat /\ MAX_BLOCKED \in Nat /\ Len(blockedProducers[b]) \in Nat
    BY <1>3, SizesAssumption, FS_CardinalityType DEF Discipline
  <1> QED BY <1>2, <1>5, <1>6 DEF Discipline

-----------------------------------------------------------------------------
(* The messages: each kind of step keeps Stored.                           *)
Stored == Created /\ MessagesFit /\ NoSlotLost

LEMMA StoredFrame ==
    ASSUME Stored, UNCHANGED <<boxes, queues, slots>>
    PROVE  Stored'
  BY DEF Stored, Created, MessagesFit, NoSlotLost, boxes, queues, slots

LEMMA StoredDeposit ==
    ASSUME TypeOK, SlotIntegrity, Stored, NEW p \in Procs, NEW b \in Mailboxes,
           NEW m \in Messages, Deposit(p, b, m),
           isActive[b], b >= Reserved, m.len <= slotSize[b]
    PROVE  Stored'
  <1>1. CASE CannotStore(b)
    BY <1>1, StoredFrame DEF Deposit, boxes, queues, slots
  <1>2. CASE ~CannotStore(b)
    <2> DEFINE s == Last(freeSlots)
               sq == slotQueue[b]
               n == Len(sq)
    <2>1. /\ freeSlots' = Front(freeSlots)
          /\ mailSlots' = [mailSlots EXCEPT ![s] =
                             [inUse |-> TRUE, mailboxID |-> b, message |-> m]]
          /\ slotQueue' = [slotQueue EXCEPT ![b] = Append(sq, s)]
          /\ UNCHANGED <<isActive, numSlots, slotSize, hasQueue>>
      BY <1>2 DEF Deposit, boxes
    <2>2. /\ Len(freeSlots) \in Nat /\ Len(freeSlots) > 0 /\ s \in Slots
          /\ Len(freeSlots') = Len(freeSlots) - 1
          /\ \A i \in 1..(Len(freeSlots) - 1) : freeSlots'[i] = freeSlots[i]
          /\ s = freeSlots[Len(freeSlots)]
      <3>1. freeSlots \in Seq(Slots) /\ freeSlots # <<>> BY <1>2 DEF CannotStore, TypeOK
      <3>2. freeSlots' = Front(freeSlots) BY <2>1
      <3> QED BY <3>1, <3>2, FrontLast
    <2>3. \A c \in Mailboxes : /\ slotQueue[c] \in Seq(Slots) /\ Len(slotQueue[c]) \in Nat
                               /\ \A i \in 1..Len(slotQueue[c]) : slotQueue[c][i] \in Slots
      BY SlotQueueType
    <2>4. /\ slotQueue'[b] = Append(sq, s)
          /\ \A c \in Mailboxes : c # b => slotQueue'[c] = slotQueue[c]
      <3>1. slotQueue \in [Mailboxes -> Seq(Slots)] BY DEF TypeOK
      <3> HIDE DEF sq, s
      <3> QED BY <2>1, <3>1, OneListChanged
    <2>5. /\ n \in Nat /\ Len(slotQueue'[b]) = n + 1 /\ slotQueue'[b][n + 1] = s
          /\ \A i \in 1..n : slotQueue'[b][i] = sq[i]
      BY <2>2, <2>3, <2>4
    <2>6. /\ mailSlots'[s].message = m
          /\ \A x \in Slots : x # s => mailSlots'[x] = mailSlots[x]
      BY <2>1, <2>2 DEF TypeOK
    <2>7. \A c \in Mailboxes : \A i \in 1..Len(slotQueue[c]) : slotQueue[c][i] # s
      BY <2>2 DEF SlotIntegrity, FreeSlotsDistinct, QueuedSlotsOwned
    <2> HIDE DEF s, sq, n
    <2>8. Created'
      <3> SUFFICES ASSUME NEW c \in Mailboxes
                   PROVE  /\ c <= clockMailbox => isActive[c]
                          /\ ~isActive[c] => slotQueue'[c] = <<>>
                          /\ isActive[c] /\ c >= Reserved =>
                               /\ hasQueue[c] /\ numSlots[c] > 0 /\ slotSize[c] \in SlotSizes \cup {IntSize}
                               /\ \A i \in 1..numSlots[c] : <<c, i>> \in Places
                          /\ c < Reserved => slotQueue'[c] = <<>>
                          /\ c = clockMailbox => slotSize[c] = IntSize
        BY <2>1 DEF Created
      <3>1. CASE c # b BY <2>4, <3>1 DEF Stored, Created
      <3>2. CASE c = b
        <4>1. c \in Nat /\ Reserved \in Nat BY MailboxNumbers
        <4> QED BY <3>2, <4>1 DEF Stored, Created
      <3> QED BY <3>1, <3>2
    <2>9. MessagesFit'
      <3>1. ASSUME NEW c \in Mailboxes, c # b, NEW i \in 1..Len(slotQueue'[c])
            PROVE  mailSlots'[slotQueue'[c][i]].message.len <= slotSize[c]
        BY <2>3, <2>4, <2>6, <2>7, <3>1 DEF Stored, MessagesFit
      <3>2. ASSUME NEW i \in 1..Len(slotQueue'[b])
            PROVE  mailSlots'[slotQueue'[b][i]].message.len <= slotSize[b]
        <4>1. i = n + 1 \/ i \in 1..n BY <2>5
        <4>2. CASE i = n + 1 BY <2>5, <2>6, <4>2
        <4>3. CASE i \in 1..n
          <5>1. slotQueue'[b][i] = slotQueue[b][i] /\ i \in 1..Len(slotQueue[b])
            BY <2>5, <4>3 DEF sq, n
          <5> QED BY <2>3, <2>6, <2>7, <5>1 DEF Stored, MessagesFit
        <4> QED BY <4>1, <4>2, <4>3
      <3> QED BY <2>1, <3>1, <3>2 DEF MessagesFit
    <2>10. NoSlotLost'
      <3> SUFFICES ASSUME NEW x \in Slots
                   PROVE  \/ \E i \in 1..Len(freeSlots') : freeSlots'[i] = x
                          \/ \E c \in Mailboxes : \E i \in 1..Len(slotQueue'[c]) : slotQueue'[c][i] = x
        BY DEF NoSlotLost
      <3>1. CASE x = s
        <4>1. n + 1 \in 1..Len(slotQueue'[b]) BY <2>5
        <4> QED BY <2>5, <3>1, <4>1
      <3>2. ASSUME x # s, NEW i \in 1..Len(freeSlots), freeSlots[i] = x
            PROVE  \E k \in 1..Len(freeSlots') : freeSlots'[k] = x
        <4>1. i # Len(freeSlots) BY <2>2, <3>2
        <4>2. i \in 1..Len(freeSlots') BY <2>2, <4>1
        <4> QED BY <2>2, <3>2, <4>2
      <3>3. ASSUME NEW c \in Mailboxes, NEW i \in 1..Len(slotQueue[c]), slotQueue[c][i] = x
            PROVE  \E k \in 1..Len(slotQueue'[c]) : slotQueue'[c][k] = x
        <4>1. CASE c # b BY <2>4, <3>3, <4>1
        <4>2. CASE c = b
          <5>1. i \in 1..n /\ sq[i] = x BY <3>3, <4>2 DEF sq, n
          <5>2. i \in 1..Len(slotQueue'[b]) BY <2>5, <5>1
          <5> QED BY <2>5, <4>2, <5>1, <5>2
        <4> QED BY <4>1, <4>2
      <3> QED BY <3>1, <3>2, <3>3 DEF Stored, NoSlotLost
    <2> QED BY <2>8, <2>9, <2>10 DEF Stored
  <1> QED BY <1>1, <1>2

(* A buffer as large as the slots never loses a message. *)
LEMMA NothingLost ==
    ASSUME TypeOK, Stored, NEW p \in Procs, NEW b \in Mailboxes, NEW max \in Int,
           max >= slotSize[b], slotQueue[b] # <<>>, Take(p, b, max)
    PROVE  /\ Head(slotQueue[b]) \in Slots
           /\ slotQueue' = [slotQueue EXCEPT ![b] = Tail(@)]
           /\ mailSlots' = [mailSlots EXCEPT ![Head(slotQueue[b])].inUse = FALSE]
           /\ freeSlots' = Append(freeSlots, Head(slotQueue[b]))
           /\ wakeupProducer(p, b)
           /\ Return(p, mailSlots[Head(slotQueue[b])].message.len,
                        mailSlots[Head(slotQueue[b])].message)
           /\ UNCHANGED <<boxes, hasQueue, blockedConsumers>>
  <1> DEFINE s == Head(slotQueue[b])
             m == mailSlots[s].message
  <1>1. /\ s \in Slots /\ s = slotQueue[b][1]
        /\ Len(slotQueue[b]) \in Nat /\ Len(slotQueue[b]) > 0
    BY SlotQueueType, HeadTail
  <1>2. m.len <= slotSize[b] BY <1>1 DEF Stored, MessagesFit
  <1>3. m \in Messages BY <1>1 DEF TypeOK
  <1>4. m.len \in Int /\ slotSize[b] \in Nat BY <1>3, MessageLength, ListsType
  <1>5. ~(max < m.len) BY <1>2, <1>4
  <1> QED BY <1>1, <1>5 DEF Take

LEMMA StoredTake ==
    ASSUME TypeOK, SlotIntegrity, Stored, NEW p \in Procs, NEW b \in Mailboxes, NEW max \in Int,
           max >= slotSize[b], slotQueue[b] # <<>>, Take(p, b, max)
    PROVE  Stored'
  <1> DEFINE s == Head(slotQueue[b])
             u == Tail(slotQueue[b])
             n == Len(slotQueue[b])
  <1>1. /\ s \in Slots
        /\ slotQueue' = [slotQueue EXCEPT ![b] = u]
        /\ mailSlots' = [mailSlots EXCEPT ![s].inUse = FALSE]
        /\ freeSlots' = Append(freeSlots, s)
        /\ UNCHANGED <<isActive, numSlots, slotSize, hasQueue>>
    BY NothingLost DEF boxes
  <1>2. \A c \in Mailboxes : /\ slotQueue[c] \in Seq(Slots) /\ Len(slotQueue[c]) \in Nat
                             /\ \A i \in 1..Len(slotQueue[c]) : slotQueue[c][i] \in Slots
    BY SlotQueueType
  <1>3. /\ n \in Nat /\ n > 0 /\ Len(u) = n - 1 /\ s = slotQueue[b][1]
        /\ \A i \in 1..(n - 1) : u[i] = slotQueue[b][i + 1]
    BY <1>2, HeadTail
  <1>4. slotQueue'[b] = u /\ \A c \in Mailboxes : c # b => slotQueue'[c] = slotQueue[c]
    <2>1. slotQueue \in [Mailboxes -> Seq(Slots)] BY DEF TypeOK
    <2> HIDE DEF u
    <2> QED BY <1>1, <2>1, OneListChanged
  <1>5. \A x \in Slots : mailSlots'[x].message = mailSlots[x].message
    <2>1. mailSlots \in [Slots -> [inUse : BOOLEAN, mailboxID : Mailboxes, message : Messages]]
      BY DEF TypeOK
    <2> HIDE DEF s
    <2> QED BY <1>1, <2>1
  <1>6. /\ Len(freeSlots) \in Nat /\ Len(freeSlots') = Len(freeSlots) + 1
        /\ freeSlots'[Len(freeSlots) + 1] = s
        /\ \A i \in 1..Len(freeSlots) : freeSlots'[i] = freeSlots[i]
    <2>1. freeSlots \in Seq(Slots) BY DEF TypeOK
    <2> HIDE DEF s
    <2> QED BY <1>1, <2>1
  <1> HIDE DEF s, u, n
  <1>7. Created'
    <2> SUFFICES ASSUME NEW c \in Mailboxes
                 PROVE  /\ c <= clockMailbox => isActive[c]
                        /\ ~isActive[c] => slotQueue'[c] = <<>>
                        /\ isActive[c] /\ c >= Reserved =>
                             /\ hasQueue[c] /\ numSlots[c] > 0 /\ slotSize[c] \in SlotSizes \cup {IntSize}
                             /\ \A i \in 1..numSlots[c] : <<c, i>> \in Places
                        /\ c < Reserved => slotQueue'[c] = <<>>
                        /\ c = clockMailbox => slotSize[c] = IntSize
      BY <1>1 DEF Created
    <2>1. CASE c # b BY <1>4, <2>1 DEF Stored, Created
    <2>2. CASE c = b BY <2>2 DEF Stored, Created
    <2> QED BY <2>1, <2>2
  <1>8. MessagesFit'
    <2>1. ASSUME NEW c \in Mailboxes, c # b, NEW i \in 1..Len(slotQueue'[c])
          PROVE  mailSlots'[slotQueue'[c][i]].message.len <= slotSize[c]
      BY <1>2, <1>4, <1>5, <2>1 DEF Stored, MessagesFit
    <2>2. ASSUME NEW i \in 1..Len(slotQueue'[b])
          PROVE  mailSlots'[slotQueue'[b][i]].message.len <= slotSize[b]
      <3>1. i + 1 \in 1..Len(slotQueue[b]) /\ slotQueue'[b][i] = slotQueue[b][i + 1]
        BY <1>3, <1>4 DEF n
      <3> QED BY <1>2, <1>5, <3>1 DEF Stored, MessagesFit
    <2> QED BY <1>1, <2>1, <2>2 DEF MessagesFit
  <1>9. NoSlotLost'
    <2> SUFFICES ASSUME NEW x \in Slots
                 PROVE  \/ \E i \in 1..Len(freeSlots') : freeSlots'[i] = x
                        \/ \E c \in Mailboxes : \E i \in 1..Len(slotQueue'[c]) : slotQueue'[c][i] = x
      BY DEF NoSlotLost
    <2>1. CASE x = s
      <3>1. Len(freeSlots) + 1 \in 1..Len(freeSlots') BY <1>6
      <3> QED BY <1>6, <2>1, <3>1
    <2>2. ASSUME NEW i \in 1..Len(freeSlots), freeSlots[i] = x
          PROVE  \E k \in 1..Len(freeSlots') : freeSlots'[k] = x
      <3>1. i \in 1..Len(freeSlots') BY <1>6
      <3> QED BY <1>6, <2>2, <3>1
    <2>3. ASSUME x # s, NEW c \in Mailboxes, NEW i \in 1..Len(slotQueue[c]), slotQueue[c][i] = x
          PROVE  \E k \in 1..Len(slotQueue'[c]) : slotQueue'[c][k] = x
      <3>1. CASE c # b BY <1>4, <2>3, <3>1
      <3>2. CASE c = b
        <4>1. i # 1 /\ i \in 1..n BY <1>3, <2>3, <3>2 DEF n
        <4>2. i - 1 \in 1..(n - 1) /\ (i - 1) + 1 = i BY <1>3, <4>1
        <4>3. i - 1 \in 1..Len(slotQueue'[b]) /\ slotQueue'[b][i - 1] = slotQueue[b][i]
          BY <1>3, <1>4, <4>2
        <4> QED BY <2>3, <3>2, <4>3
      <3> QED BY <3>1, <3>2
    <2> QED BY <2>1, <2>2, <2>3 DEF Stored, NoSlotLost
  <1> QED BY <1>7, <1>8, <1>9 DEF Stored

LEMMA StoredCreate ==
    ASSUME Discipline, TypeOK, Stored, NEW p \in Procs, NEW n \in SlotCounts, NEW size \in SlotSizes,
           CreateValid(n, size), Inactive # {},
           isActive' = [isActive EXCEPT ![Lowest] = TRUE],
           numSlots' = [numSlots EXCEPT ![Lowest] = n],
           slotSize' = [slotSize EXCEPT ![Lowest] = size],
           hasQueue' = [hasQueue EXCEPT ![Lowest] = TRUE],
           slotQueue' = [slotQueue EXCEPT ![Lowest] = <<>>],
           UNCHANGED slots
    PROVE  /\ Stored'
           /\ Lowest \in Mailboxes /\ ~isActive[Lowest]
           /\ \A c \in Mailboxes : slotQueue'[c] = slotQueue[c]
           /\ \A c \in Mailboxes : c # Lowest => /\ isActive'[c] = isActive[c]
                                                 /\ numSlots'[c] = numSlots[c]
                                                 /\ slotSize'[c] = slotSize[c]
  <1>1. PICK b \in Mailboxes : b = Lowest /\ ~isActive[b]
    BY LowestInactive DEF Inactive
  <1>2. /\ isActive'[b] = TRUE /\ numSlots'[b] = n /\ slotSize'[b] = size /\ hasQueue'[b] = TRUE
        /\ \A c \in Mailboxes : c # b => /\ isActive'[c] = isActive[c]
                                         /\ numSlots'[c] = numSlots[c]
                                         /\ slotSize'[c] = slotSize[c]
                                         /\ hasQueue'[c] = hasQueue[c]
    BY <1>1 DEF TypeOK
  <1>3. \A c \in Mailboxes : slotQueue'[c] = slotQueue[c]
    <2>1. slotQueue[b] = <<>> BY <1>1 DEF Stored, Created
    <2> QED BY <1>1, <2>1 DEF TypeOK
  <1>4. b \in Nat /\ clockMailbox = Reserved /\ Reserved \in Nat /\ b > clockMailbox
    <2>1. ~(b <= clockMailbox) BY <1>1 DEF Stored, Created
    <2> QED BY <2>1, MailboxNumbers
  <1>5. n \in Nat /\ n > 0 /\ n <= MAXSLOTS
    <2>1. n \in 0..MAXSLOTS /\ n # 0 BY DEF CreateValid, Discipline
    <2> QED BY <2>1, SizesAssumption
  <1>6. \A i \in 1..n : <<b, i>> \in Places
    <2> SUFFICES ASSUME NEW i \in 1..n PROVE <<b, i>> \in Places OBVIOUS
    <2>1. i \in 1..MAXSLOTS /\ i <= n BY <1>5, SizesAssumption
    <2> QED BY <1>4, <2>1 DEF Places
  <1>7. Created'
    <2> SUFFICES ASSUME NEW c \in Mailboxes
                 PROVE  /\ c <= clockMailbox => isActive'[c]
                        /\ ~isActive'[c] => slotQueue'[c] = <<>>
                        /\ isActive'[c] /\ c >= Reserved =>
                             /\ hasQueue'[c] /\ numSlots'[c] > 0 /\ slotSize'[c] \in SlotSizes \cup {IntSize}
                             /\ \A i \in 1..numSlots'[c] : <<c, i>> \in Places
                        /\ c < Reserved => slotQueue'[c] = <<>>
                        /\ c = clockMailbox => slotSize'[c] = IntSize
      BY DEF Created
    <2>1. CASE c # b BY <1>2, <1>3, <2>1 DEF Stored, Created
    <2>2. CASE c = b BY <1>2, <1>4, <1>5, <1>6, <2>2 DEF Stored, Created
    <2> QED BY <2>1, <2>2
  <1>8. MessagesFit'
    <2>1. ASSUME NEW c \in Mailboxes, NEW i \in 1..Len(slotQueue'[c])
          PROVE  mailSlots[slotQueue'[c][i]].message.len <= slotSize'[c]
      <3>1. CASE c # b BY <1>2, <1>3, <2>1, <3>1 DEF Stored, MessagesFit
      <3>2. CASE c = b
        <4>1. slotQueue'[c] = <<>> BY <1>1, <1>3, <3>2 DEF Stored, Created
        <4>2. Len(slotQueue'[c]) = 0 BY <4>1, EmptySeq
        <4> QED BY <2>1, <4>2
      <3> QED BY <3>1, <3>2
    <2> QED BY <2>1 DEF MessagesFit, slots
  <1>9. NoSlotLost' BY <1>3 DEF Stored, NoSlotLost, slots
  <1> QED BY <1>1, <1>2, <1>3, <1>7, <1>8, <1>9 DEF Stored

-----------------------------------------------------------------------------
(* The waiting lists: each kind of step keeps Waits.                       *)
Waits == /\ machine # "halted"
         /\ Control /\ ListedIffAsleep /\ ConsumersKnown /\ ProducersCovered

LEMMA InvParts == ClientInv <=> TypeOK /\ SlotIntegrity /\ Stored /\ Waits
  BY DEF ClientInv, Stored, Waits

LEMMA WaitsFail ==
    ASSUME ClientInv, NEW p \in Procs, pc[p] = "idle", NEW rc, Fail(p, rc)
    PROVE  Waits'
  <1>1. /\ \A r \in Procs : pc'[r] = pc[r]
        /\ \A r \in Procs : pc[r] # "idle" => call'[r] = call[r]
    BY ReturnEach DEF Fail, ClientInv
  <1>2. UNCHANGED <<boxes, queues, slots, waiting, running>> BY DEF Fail
  <1>3. Control'
    BY <1>1, <1>2 DEF ClientInv, Control, boxes, running
  <1>4. ListedIffAsleep'
    BY <1>1, <1>2 DEF ClientInv, ListedIffAsleep, Asleep, waiting, running
  <1>5. ConsumersKnown' BY <1>2 DEF ClientInv, ConsumersKnown, waiting, queues
  <1>6. ProducersCovered'
    <2>1. ASSUME NEW c \in Mailboxes PROVE WokenSenders(c)' = WokenSenders(c)
      BY <1>1, <1>2 DEF WokenSenders, running
    <2> QED BY <1>2, <2>1 DEF ClientInv, ProducersCovered, waiting, queues, boxes
  <1> QED BY <1>2, <1>3, <1>4, <1>5, <1>6 DEF Waits, ClientInv, running

LEMMA WaitsForSpace ==
    ASSUME Discipline, ClientInv, NEW p \in Senders, status[p] = "ready", NEW b \in Mailboxes,
           NEW m, pc[p] = "idle" \/ (pc[p] = "full" /\ call[p].mbox = b),
           isActive[b], b >= Reserved, m.len <= slotSize[b], Full(b), WaitForSpace(p, b, m)
    PROVE  Waits'
  <1>0. p \in Procs /\ TypeOK BY DEF Senders, ClientInv
  <1> DEFINE list == blockedProducers[b]
             arg == Args(b, m, 0)
  <1>1. ~Contains(list, p) /\ Len(list) < MAX_BLOCKED BY RoomToSend
  <1>2. /\ blockedProducers' = [blockedProducers EXCEPT ![b] = Append(list, p)]
        /\ BlockMe(p, "full", arg)
        /\ UNCHANGED <<boxes, queues, slots, consumers, blockedConsumers>>
    <2>1. (IF Contains(list, p) THEN list ELSE ListBlocked(list, p)) = Append(list, p)
      BY <1>1 DEF ListBlocked
    <2> QED BY <2>1 DEF WaitForSpace
  <1>3. list \in Seq(Procs) /\ Injective(list)
    BY <1>0, ListsType DEF ClientInv, ListedIffAsleep
  <1>4. /\ Injective(Append(list, p))
        /\ \A e : Contains(Append(list, p), e) <=> Contains(list, e) \/ e = p
    BY <1>0, <1>1, <1>3, OneAppended
  <1>5. /\ blockedProducers'[b] = Append(list, p)
        /\ \A c \in Mailboxes : c # b => blockedProducers'[c] = blockedProducers[c]
    <2>1. blockedProducers \in [Mailboxes -> Seq(Procs)] BY <1>0 DEF TypeOK
    <2> HIDE DEF list
    <2> QED BY <1>2, <2>1, OneListChanged
  <1>6. /\ \A r \in Procs : pc'[r] = IF r = p THEN "full" ELSE pc[r]
        /\ \A r \in Procs : call'[r] = IF r = p THEN arg ELSE call[r]
        /\ \A r \in Procs : status'[r] = IF r = p THEN "blocked" ELSE status[r]
        /\ machine' = machine
    <2> HIDE DEF arg
    <2> QED BY <1>0, <1>2, BlockEach
  <1>7. arg.mbox = b /\ arg.msg = m BY DEF Args
  <1> HIDE DEF arg
  <1>8. Control'
    <2> SUFFICES ASSUME NEW r \in Procs
                 PROVE  /\ pc'[r] \in {"idle", "full", "empty"}
                        /\ pc'[r] = "idle" => status'[r] = "ready"
                        /\ pc'[r] # "idle" => isActive[call'[r].mbox] /\ call'[r].mbox >= Reserved
                        /\ pc'[r] = "full" => r \in Senders /\ call'[r].msg.len <= slotSize[call'[r].mbox]
                        /\ pc'[r] = "empty" => /\ ReceivesAt(r, call'[r].mbox)
                                               /\ call'[r].max >= slotSize[call'[r].mbox]
      BY <1>2 DEF Control, boxes, ReceivesAt
    <2>1. CASE r = p BY <1>6, <1>7, <2>1
    <2>2. CASE r # p BY <1>6, <2>2 DEF ClientInv, Control
    <2> QED BY <2>1, <2>2
  <1>9. ListedIffAsleep'
    <2>1. \A c \in Mailboxes : Injective(blockedProducers'[c]) /\ Injective(blockedConsumers[c])
      <3> HIDE DEF list
      <3> QED BY <1>4, <1>5 DEF ClientInv, ListedIffAsleep
    <2>2. ASSUME NEW r \in Procs, NEW c \in Mailboxes
          PROVE  /\ Contains(blockedProducers'[c], r)
                      <=> status'[r] = "blocked" /\ pc'[r] = "full" /\ call'[r].mbox = c
                 /\ Contains(blockedConsumers[c], r)
                      <=> status'[r] = "blocked" /\ pc'[r] = "empty" /\ call'[r].mbox = c
      <3>1. /\ Contains(blockedProducers[c], r)
                 <=> status[r] = "blocked" /\ pc[r] = "full" /\ call[r].mbox = c
            /\ Contains(blockedConsumers[c], r)
                 <=> status[r] = "blocked" /\ pc[r] = "empty" /\ call[r].mbox = c
        BY DEF ClientInv, ListedIffAsleep, Asleep
      <3>2. CASE r = p
        <4>1. ~Contains(blockedProducers[c], r) /\ ~Contains(blockedConsumers[c], r)
          BY <3>1, <3>2
        <4>2. status'[r] = "blocked" /\ pc'[r] = "full" /\ call'[r].mbox = b
          BY <1>6, <1>7, <3>2
        <4>3. Contains(blockedProducers'[c], r) <=> b = c
          <5>1. CASE c = b
            <6>1. Contains(Append(list, p), p) BY <1>4
            <6> QED BY <1>5, <3>2, <5>1, <6>1
          <5>2. CASE c # b BY <1>5, <4>1, <5>2
          <5> QED BY <5>1, <5>2
        <4> QED BY <4>1, <4>2, <4>3
      <3>3. CASE r # p BY <1>4, <1>5, <1>6, <3>1, <3>3
      <3> QED BY <3>2, <3>3
    <2> QED BY <1>2, <2>1, <2>2 DEF ListedIffAsleep, Asleep
  <1>10. ConsumersKnown' BY <1>2 DEF ClientInv, ConsumersKnown, queues
  <1>11. ProducersCovered'
    <2>1. ASSUME NEW c \in Mailboxes, c # b PROVE WokenSenders(c)' = WokenSenders(c)
      BY <1>6, <1>7, <2>1 DEF WokenSenders
    <2>2. Cardinality(WokenSenders(b)') \in Nat
      <3>1. WokenSenders(b)' \subseteq Senders BY <1>8 DEF WokenSenders, Control
      <3> QED BY <3>1, FS_Subset, FS_CardinalityType DEF Discipline
    <2>3. numSlots[b] - Len(slotQueue[b]) <= 0
      BY <1>0, ListsType DEF Full
    <2>4. numSlots[b] - Len(slotQueue[b]) <= Cardinality(WokenSenders(b)')
      BY <1>0, <2>2, <2>3, ListsType
    <2>5. ASSUME NEW c \in Mailboxes, blockedProducers'[c] # <<>>
          PROVE  numSlots[c] - Len(slotQueue[c]) <= Cardinality(WokenSenders(c)')
      BY <1>5, <2>1, <2>4, <2>5 DEF ClientInv, ProducersCovered
    <2> QED BY <1>2, <2>5 DEF ProducersCovered, queues, boxes
  <1> QED BY <1>6, <1>8, <1>9, <1>10, <1>11 DEF Waits, ClientInv

(* Nobody is listed where a process that may wait there is running. *)
LEMMA NoOtherReceiver ==
    ASSUME Discipline, ClientInv, NEW b \in Mailboxes, NEW p \in Procs, ReceivesAt(p, b),
           status[p] = "ready"
    PROVE  blockedConsumers[b] = <<>>
  <1>1. ~Contains(blockedConsumers[b], p) BY DEF ClientInv, ListedIffAsleep, Asleep
  <1>2. \A q : ~Contains(blockedConsumers[b], q) BY <1>1, AloneAtMailbox
  <1>3. blockedConsumers[b] \in Seq(Procs) BY ListsType DEF ClientInv
  <1> QED BY <1>2, <1>3, NobodyListed

LEMMA WaitsForMessage ==
    ASSUME Discipline, ClientInv, NEW p \in Procs, status[p] = "ready", pc[p] = "idle",
           NEW b \in Mailboxes, NEW max, ReceivesAt(p, b),
           isActive[b], b >= Reserved, max >= slotSize[b], slotQueue[b] = <<>>,
           WaitForMessage(p, b, max)
    PROVE  Waits'
  <1> DEFINE arg == Args(b, NoMessage, max)
             one == Append(<<>>, p)
  <1>0. TypeOK BY DEF ClientInv
  <1>1. blockedConsumers[b] = <<>> BY NoOtherReceiver
  <1>2. /\ blockedConsumers' = [blockedConsumers EXCEPT ![b] = one]
        /\ consumers' = [consumers EXCEPT ![b] = p]
        /\ BlockMe(p, "empty", arg)
        /\ UNCHANGED <<boxes, queues, slots, blockedProducers>>
    <2>1. ListBlocked(blockedConsumers[b], p) = one
      BY <1>1, EmptySeq DEF ListBlocked, Discipline
    <2> QED BY <2>1 DEF WaitForMessage
  <1>3. Injective(one) /\ \A e : Contains(one, e) <=> e = p
    <2>1. <<>> \in Seq(Procs) /\ Len(<<>>) = 0 BY EmptySeq
    <2>2. Injective(<<>>) /\ \A e : ~Contains(<<>>, e) BY <2>1 DEF Injective, Contains
    <2> QED BY <2>1, <2>2, OneAppended
  <1>4. /\ blockedConsumers'[b] = one
        /\ \A c \in Mailboxes : c # b => blockedConsumers'[c] = blockedConsumers[c]
    <2>1. blockedConsumers \in [Mailboxes -> Seq(Procs)] BY <1>0 DEF TypeOK
    <2> HIDE DEF one
    <2> QED BY <1>2, <2>1, OneListChanged
  <1>5. consumers'[b] = p /\ \A c \in Mailboxes : c # b => consumers'[c] = consumers[c]
    <2>1. consumers \in [Mailboxes -> Procs \cup {NULL}] BY <1>0 DEF TypeOK
    <2> QED BY <1>2, <2>1, OneListChanged
  <1>6. /\ \A r \in Procs : pc'[r] = IF r = p THEN "empty" ELSE pc[r]
        /\ \A r \in Procs : call'[r] = IF r = p THEN arg ELSE call[r]
        /\ \A r \in Procs : status'[r] = IF r = p THEN "blocked" ELSE status[r]
        /\ machine' = machine
    <2> HIDE DEF arg
    <2> QED BY <1>0, <1>2, BlockEach
  <1>7. arg.mbox = b /\ arg.max = max BY DEF Args
  <1> HIDE DEF arg, one
  <1>8. Control'
    <2> SUFFICES ASSUME NEW r \in Procs
                 PROVE  /\ pc'[r] \in {"idle", "full", "empty"}
                        /\ pc'[r] = "idle" => status'[r] = "ready"
                        /\ pc'[r] # "idle" => isActive[call'[r].mbox] /\ call'[r].mbox >= Reserved
                        /\ pc'[r] = "full" => r \in Senders /\ call'[r].msg.len <= slotSize[call'[r].mbox]
                        /\ pc'[r] = "empty" => /\ ReceivesAt(r, call'[r].mbox)
                                               /\ call'[r].max >= slotSize[call'[r].mbox]
      BY <1>2 DEF Control, boxes, ReceivesAt
    <2>1. CASE r = p BY <1>6, <1>7, <2>1
    <2>2. CASE r # p BY <1>6, <2>2 DEF ClientInv, Control
    <2> QED BY <2>1, <2>2
  <1>9. ListedIffAsleep'
    <2>1. \A c \in Mailboxes : Injective(blockedProducers[c]) /\ Injective(blockedConsumers'[c])
      BY <1>3, <1>4 DEF ClientInv, ListedIffAsleep
    <2>2. ASSUME NEW r \in Procs, NEW c \in Mailboxes
          PROVE  /\ Contains(blockedProducers[c], r)
                      <=> status'[r] = "blocked" /\ pc'[r] = "full" /\ call'[r].mbox = c
                 /\ Contains(blockedConsumers'[c], r)
                      <=> status'[r] = "blocked" /\ pc'[r] = "empty" /\ call'[r].mbox = c
      <3>1. /\ Contains(blockedProducers[c], r)
                 <=> status[r] = "blocked" /\ pc[r] = "full" /\ call[r].mbox = c
            /\ Contains(blockedConsumers[c], r)
                 <=> status[r] = "blocked" /\ pc[r] = "empty" /\ call[r].mbox = c
        BY DEF ClientInv, ListedIffAsleep, Asleep
      <3>2. CASE r = p
        <4>1. ~Contains(blockedProducers[c], r) /\ ~Contains(blockedConsumers[c], r)
          BY <3>1, <3>2
        <4>2. status'[r] = "blocked" /\ pc'[r] = "empty" /\ call'[r].mbox = b
          BY <1>6, <1>7, <3>2
        <4>3. Contains(blockedConsumers'[c], r) <=> b = c
          <5>1. CASE c = b BY <1>3, <1>4, <3>2, <5>1
          <5>2. CASE c # b BY <1>4, <4>1, <5>2
          <5> QED BY <5>1, <5>2
        <4> QED BY <4>1, <4>2, <4>3
      <3>3. CASE r # p
        <4>1. status'[r] = status[r] /\ pc'[r] = pc[r] /\ call'[r] = call[r] BY <1>6, <3>3
        <4>2. ~Contains(blockedConsumers[b], r)
          <5>1. blockedConsumers[b] \in Seq(Procs) BY <1>0, ListsType
          <5> QED BY <1>1, <5>1, NobodyListed
        <4>3. Contains(blockedConsumers'[c], r) <=> Contains(blockedConsumers[c], r)
          BY <1>3, <1>4, <3>3, <4>2
        <4> QED BY <3>1, <4>1, <4>3
      <3> QED BY <3>2, <3>3
    <2> QED BY <1>2, <2>1, <2>2 DEF ListedIffAsleep, Asleep
  <1>10. ConsumersKnown'
    <2>1. p # NULL BY ProcsAssumption
    <2>2. ASSUME NEW c \in Mailboxes, blockedConsumers'[c] # <<>>
          PROVE  consumers'[c] # NULL /\ slotQueue[c] = <<>>
      <3>1. CASE c = b BY <1>5, <2>1, <3>1
      <3>2. CASE c # b BY <1>4, <1>5, <2>2, <3>2 DEF ClientInv, ConsumersKnown
      <3> QED BY <3>1, <3>2
    <2> QED BY <1>2, <2>2 DEF ConsumersKnown, queues
  <1>11. ProducersCovered'
    <2>1. ASSUME NEW c \in Mailboxes PROVE WokenSenders(c)' = WokenSenders(c)
      BY <1>6 DEF WokenSenders
    <2> QED BY <1>2, <2>1 DEF ClientInv, ProducersCovered, queues, boxes
  <1> QED BY <1>6, <1>8, <1>9, <1>10, <1>11 DEF Waits, ClientInv

(* A woken receiver that finds nothing. *)
LEMMA WaitsFoundNothing ==
    ASSUME Discipline, ClientInv, NEW p \in Procs, status[p] = "ready", pc[p] = "empty",
           NEW b \in Mailboxes, call[p].mbox = b,
           consumers' = [consumers EXCEPT ![b] = NULL], Return(p, -1, NoMessage),
           UNCHANGED <<boxes, queues, slots, blockedProducers, blockedConsumers, running>>
    PROVE  Waits'
  <1>0. TypeOK BY DEF ClientInv
  <1>1. blockedConsumers[b] = <<>>
    <2>1. ReceivesAt(p, b) BY DEF ClientInv, Control
    <2> QED BY <2>1, NoOtherReceiver
  <1>2. /\ \A r \in Procs : pc'[r] = IF r = p THEN "idle" ELSE pc[r]
        /\ \A r \in Procs : r # p => call'[r] = call[r]
    BY <1>0, ReturnEach
  <1>3. \A c \in Mailboxes : c # b => consumers'[c] = consumers[c]
    <2>1. consumers \in [Mailboxes -> Procs \cup {NULL}] BY <1>0 DEF TypeOK
    <2> QED BY <2>1, OneListChanged
  <1>4. Control' BY <1>2 DEF ClientInv, Control, boxes, running
  <1>5. ListedIffAsleep'
    <2>1. ASSUME NEW r \in Procs, NEW c \in Mailboxes
          PROVE  /\ Contains(blockedProducers[c], r)
                      <=> status[r] = "blocked" /\ pc'[r] = "full" /\ call'[r].mbox = c
                 /\ Contains(blockedConsumers[c], r)
                      <=> status[r] = "blocked" /\ pc'[r] = "empty" /\ call'[r].mbox = c
      BY <1>2 DEF ClientInv, ListedIffAsleep, Asleep
    <2> QED BY <2>1 DEF ClientInv, ListedIffAsleep, Asleep, running
  <1>6. ConsumersKnown' BY <1>1, <1>3 DEF ClientInv, ConsumersKnown, queues
  <1>7. ProducersCovered'
    <2>1. ASSUME NEW c \in Mailboxes PROVE WokenSenders(c)' = WokenSenders(c)
      BY <1>2 DEF WokenSenders, running
    <2> QED BY <2>1 DEF ClientInv, ProducersCovered, queues, boxes
  <1> QED BY <1>4, <1>5, <1>6, <1>7 DEF Waits, ClientInv, running

(* p returns and at most one sleeper q, whose segment is seg, is made      *)
(* ready and leaves the list of b.                                         *)
LEMMA ListsAfterWaking ==
    ASSUME ClientInv, NEW p \in Procs, status[p] = "ready",
           \A r \in Procs : pc'[r] = IF r = p THEN "idle" ELSE pc[r],
           \A r \in Procs : r # p => call'[r] = call[r],
           NEW q \in Procs, q # p, NEW b \in Mailboxes,
           \A r \in Procs : status'[r] = IF r = q THEN "ready" ELSE status[r],
           \/ /\ Contains(blockedConsumers[b], q) /\ UNCHANGED blockedProducers
              /\ \A c \in Mailboxes : c # b => blockedConsumers'[c] = blockedConsumers[c]
              /\ Injective(blockedConsumers'[b])
              /\ \A e : Contains(blockedConsumers'[b], e)
                          <=> Contains(blockedConsumers[b], e) /\ e # q
           \/ /\ Contains(blockedProducers[b], q) /\ UNCHANGED blockedConsumers
              /\ \A c \in Mailboxes : c # b => blockedProducers'[c] = blockedProducers[c]
              /\ Injective(blockedProducers'[b])
              /\ \A e : Contains(blockedProducers'[b], e)
                          <=> Contains(blockedProducers[b], e) /\ e # q
    PROVE  ListedIffAsleep'
  <1>1. \A c \in Mailboxes : Injective(blockedProducers'[c]) /\ Injective(blockedConsumers'[c])
    BY DEF ClientInv, ListedIffAsleep
  <1>2. ASSUME NEW r \in Procs, NEW c \in Mailboxes
        PROVE  /\ Contains(blockedProducers'[c], r)
                    <=> status'[r] = "blocked" /\ pc'[r] = "full" /\ call'[r].mbox = c
               /\ Contains(blockedConsumers'[c], r)
                    <=> status'[r] = "blocked" /\ pc'[r] = "empty" /\ call'[r].mbox = c
    <2>1. /\ Contains(blockedProducers[c], r)
               <=> status[r] = "blocked" /\ pc[r] = "full" /\ call[r].mbox = c
          /\ Contains(blockedConsumers[c], r)
               <=> status[r] = "blocked" /\ pc[r] = "empty" /\ call[r].mbox = c
      BY DEF ClientInv, ListedIffAsleep, Asleep
    <2>2. /\ Contains(blockedProducers[b], q)
               <=> status[q] = "blocked" /\ pc[q] = "full" /\ call[q].mbox = b
          /\ Contains(blockedConsumers[b], q)
               <=> status[q] = "blocked" /\ pc[q] = "empty" /\ call[q].mbox = b
      BY DEF ClientInv, ListedIffAsleep, Asleep
    <2>3. CASE r = q
      <3>1. status'[r] = "ready" BY <2>3
      <3>2. ~Contains(blockedProducers'[c], r) /\ ~Contains(blockedConsumers'[c], r)
        <4>1. CASE c = b BY <2>1, <2>2, <2>3, <4>1
        <4>2. CASE c # b BY <2>1, <2>2, <2>3, <4>2
        <4> QED BY <4>1, <4>2
      <3> QED BY <3>1, <3>2
    <2>4. CASE r # q
      <3>1. /\ Contains(blockedProducers'[c], r) <=> Contains(blockedProducers[c], r)
            /\ Contains(blockedConsumers'[c], r) <=> Contains(blockedConsumers[c], r)
        <4>1. CASE c = b BY <2>4, <4>1
        <4>2. CASE c # b BY <4>2
        <4> QED BY <4>1, <4>2
      <3>2. status'[r] = status[r] BY <2>4
      <3>3. CASE r = p BY <2>1, <3>1, <3>2, <3>3
      <3>4. CASE r # p BY <2>1, <3>1, <3>2, <3>4
      <3> QED BY <3>3, <3>4
    <2> QED BY <2>3, <2>4
  <1> QED BY <1>1, <1>2 DEF ListedIffAsleep, Asleep

(* The same when nobody is woken. *)
LEMMA ListsAfterReturn ==
    ASSUME ClientInv, NEW p \in Procs, status[p] = "ready",
           \A r \in Procs : pc'[r] = IF r = p THEN "idle" ELSE pc[r],
           \A r \in Procs : r # p => call'[r] = call[r],
           UNCHANGED <<status, blockedProducers, blockedConsumers>>
    PROVE  ListedIffAsleep'
  <1>1. ASSUME NEW r \in Procs, NEW c \in Mailboxes
        PROVE  /\ Contains(blockedProducers[c], r)
                    <=> status[r] = "blocked" /\ pc'[r] = "full" /\ call'[r].mbox = c
               /\ Contains(blockedConsumers[c], r)
                    <=> status[r] = "blocked" /\ pc'[r] = "empty" /\ call'[r].mbox = c
    BY DEF ClientInv, ListedIffAsleep, Asleep
  <1> QED BY <1>1 DEF ClientInv, ListedIffAsleep, Asleep

LEMMA WaitsDeposit ==
    ASSUME Discipline, ClientInv, NEW p \in Procs, status[p] = "ready", NEW b \in Mailboxes,
           NEW m \in Messages, pc[p] = "idle" \/ (pc[p] = "full" /\ call[p].mbox = b),
           isActive[b], b >= Reserved, Deposit(p, b, m)
    PROVE  Waits'
  <1>0. TypeOK BY DEF ClientInv
  <1>1. CASE CannotStore(b)
    <2>1. machine' = "fault" /\ UNCHANGED <<boxes, queues, slots, waiting, status, control>>
      BY <1>1 DEF Deposit
    <2>2. UNCHANGED <<isActive, numSlots, slotSize, slotQueue, consumers, blockedProducers,
                      blockedConsumers, status, pc, call>>
      BY <2>1 DEF boxes, queues, waiting, control
    <2>3. Control' BY <2>2 DEF ClientInv, Control
    <2>4. ListedIffAsleep' BY <2>2 DEF ClientInv, ListedIffAsleep, Asleep
    <2>5. ConsumersKnown' BY <2>2 DEF ClientInv, ConsumersKnown
    <2>6. ProducersCovered' BY <2>2 DEF ClientInv, ProducersCovered, WokenSenders
    <2> QED BY <2>1, <2>3, <2>4, <2>5, <2>6 DEF Waits
  <1>2. CASE ~CannotStore(b)
    <2>1. /\ slotQueue' = [slotQueue EXCEPT ![b] = Append(@, Last(freeSlots))]
          /\ Return(p, 0, NoMessage)
          /\ UNCHANGED <<isActive, numSlots, slotSize, consumers, blockedProducers>>
          /\ IF consumers[b] # NULL
               THEN wakeupConsumer(p, b)
               ELSE UNCHANGED <<blockedConsumers, running>>
      BY <1>2 DEF Deposit, boxes
    <2>2. wakeupConsumer(p, b)
      <3>1. consumers[b] = NULL => blockedConsumers[b] = <<>>
        BY DEF ClientInv, ConsumersKnown
      <3> QED BY <2>1, <3>1 DEF wakeupConsumer
    <2>3. /\ \A r \in Procs : pc'[r] = IF r = p THEN "idle" ELSE pc[r]
          /\ \A r \in Procs : r # p => call'[r] = call[r]
      BY <1>0, <2>1, ReturnEach
    <2>4. /\ Len(slotQueue'[b]) = Len(slotQueue[b]) + 1
          /\ \A c \in Mailboxes : c # b => slotQueue'[c] = slotQueue[c]
      <3>1. slotQueue \in [Mailboxes -> Seq(Slots)] /\ slotQueue[b] \in Seq(Slots)
        BY <1>0 DEF TypeOK
      <3>2. Last(freeSlots) \in Slots
        BY <1>0, <1>2, FrontLast DEF CannotStore, TypeOK
      <3>3. slotQueue'[b] = Append(slotQueue[b], Last(freeSlots))
        BY <2>1, <3>1
      <3> QED BY <2>1, <3>1, <3>2, <3>3
    <2>5. \A r \in Procs : status'[r] = "ready" \/ status'[r] = status[r]
      BY <2>2, ConsumerWoken
    <2>6. Control'
      <3> SUFFICES ASSUME NEW r \in Procs
                   PROVE  /\ pc'[r] \in {"idle", "full", "empty"}
                          /\ pc'[r] = "idle" => status'[r] = "ready"
                          /\ pc'[r] # "idle" => isActive[call'[r].mbox] /\ call'[r].mbox >= Reserved
                          /\ pc'[r] = "full" => r \in Senders /\ call'[r].msg.len <= slotSize[call'[r].mbox]
                          /\ pc'[r] = "empty" => /\ ReceivesAt(r, call'[r].mbox)
                                                 /\ call'[r].max >= slotSize[call'[r].mbox]
        BY <2>1 DEF Control, ReceivesAt
      <3>1. CASE r = p BY <2>3, <2>5, <3>1
      <3>2. CASE r # p BY <2>3, <2>5, <3>2 DEF ClientInv, Control
      <3> QED BY <3>1, <3>2
    <2>7. ListedIffAsleep'
      BY <2>1, <2>2, <2>3, ConsumerWoken, ListsAfterWaking, ListsAfterReturn
    <2>8. ConsumersKnown'
      <3>1. \A c \in Mailboxes : c # b => blockedConsumers'[c] = blockedConsumers[c]
        BY <2>2, ConsumerWoken
      <3>2. blockedConsumers'[b] = <<>>
        <4>1. CASE blockedConsumers[b] = <<>> /\ UNCHANGED <<blockedConsumers, status>>
          BY <4>1
        <4>2. ASSUME NEW q \in Procs, Contains(blockedConsumers[b], q),
                     \A e : Contains(blockedConsumers'[b], e)
                              <=> Contains(blockedConsumers[b], e) /\ e # q
              PROVE  blockedConsumers'[b] = <<>>
          <5>1. pc[q] = "empty" /\ call[q].mbox = b
            BY <4>2 DEF ClientInv, ListedIffAsleep, Asleep
          <5>2. ReceivesAt(q, b) BY <5>1 DEF ClientInv, Control
          <5>3. \A e : ~Contains(blockedConsumers'[b], e) BY <4>2, <5>2, AloneAtMailbox
          <5>4. blockedConsumers'[b] \in Seq(Procs)
            <6>1. blockedConsumers' \in [Mailboxes -> Seq(Procs)]
              BY <1>0, <2>2, WakeType
            <6> QED BY <6>1
          <5> QED BY <5>3, <5>4, NobodyListed
        <4> QED BY <2>2, <4>1, <4>2, ConsumerWoken
      <3> QED BY <2>1, <2>4, <3>1, <3>2 DEF ClientInv, ConsumersKnown
    <2>9. ProducersCovered'
      <3>1. \A r \in Procs : pc[r] = "full" => status'[r] = status[r]
        <4>1. \A r \in Procs : Contains(blockedConsumers[b], r) => pc[r] # "full"
          BY DEF ClientInv, ListedIffAsleep, Asleep
        <4> QED BY <2>2, <4>1, ConsumerWoken
      <3>2. ASSUME NEW c \in Mailboxes, c # b PROVE WokenSenders(c)' = WokenSenders(c)
        BY <2>3, <3>1, <3>2 DEF WokenSenders
      <3>3. \/ WokenSenders(b)' = WokenSenders(b)
            \/ p \in WokenSenders(b) /\ WokenSenders(b)' = WokenSenders(b) \ {p}
        BY <2>3, <3>1 DEF WokenSenders
      <3>4. IsFiniteSet(WokenSenders(b)) /\ Cardinality(WokenSenders(b)) \in Nat
        BY SendersCounted
      <3>5. Cardinality(WokenSenders(b)') >= Cardinality(WokenSenders(b)) - 1
        <4>1. CASE WokenSenders(b)' = WokenSenders(b) BY <3>4, <4>1
        <4>2. CASE p \in WokenSenders(b) /\ WokenSenders(b)' = WokenSenders(b) \ {p}
          <5>1. Cardinality(WokenSenders(b) \ {p}) = Cardinality(WokenSenders(b)) - 1
            BY <3>4, <4>2, FS_RemoveElement
          <5>2. Cardinality(WokenSenders(b)') = Cardinality(WokenSenders(b)) - 1
            BY <4>2, <5>1
          <5> QED BY <3>4, <5>2
        <4> QED BY <3>3, <4>1, <4>2
      <3>6. Cardinality(WokenSenders(b)') \in Nat
        BY <3>3, <3>4, FS_RemoveElement, FS_CardinalityType
      <3>7. numSlots[b] \in Nat /\ Len(slotQueue[b]) \in Nat BY <1>0, ListsType
      <3>8. ASSUME blockedProducers[b] # <<>>
            PROVE  numSlots[b] - Len(slotQueue'[b]) <= Cardinality(WokenSenders(b)')
        <4>1. numSlots[b] - Len(slotQueue[b]) <= Cardinality(WokenSenders(b))
          BY <3>8 DEF ClientInv, ProducersCovered
        <4> QED BY <2>4, <3>4, <3>5, <3>6, <3>7, <4>1
      <3>9. ASSUME NEW c \in Mailboxes, blockedProducers[c] # <<>>
            PROVE  numSlots[c] - Len(slotQueue'[c]) <= Cardinality(WokenSenders(c)')
        BY <2>4, <3>2, <3>8, <3>9 DEF ClientInv, ProducersCovered
      <3> QED BY <2>1, <3>9 DEF ProducersCovered
    <2>10. machine' # "halted" BY <2>2, ConsumerWoken DEF ClientInv
    <2> QED BY <2>6, <2>7, <2>8, <2>9, <2>10 DEF Waits
  <1> QED BY <1>1, <1>2

LEMMA WaitsTake ==
    ASSUME Discipline, ClientInv, NEW p \in Procs, status[p] = "ready", NEW b \in Mailboxes,
           NEW max \in Int, max >= slotSize[b], pc[p] \in {"idle", "empty"},
           slotQueue[b] # <<>>, Take(p, b, max),
           \A c \in Mailboxes : c # b => consumers'[c] = consumers[c]
    PROVE  Waits'
  <1>0. TypeOK /\ Stored BY InvParts
  <1>1. /\ slotQueue' = [slotQueue EXCEPT ![b] = Tail(@)]
        /\ wakeupProducer(p, b)
        /\ UNCHANGED <<isActive, numSlots, slotSize, blockedConsumers>>
    BY <1>0, NothingLost DEF boxes
  <1>2. /\ \A r \in Procs : pc'[r] = IF r = p THEN "idle" ELSE pc[r]
        /\ \A r \in Procs : r # p => call'[r] = call[r]
    <2>1. \E rc, m : Return(p, rc, m) BY DEF Take
    <2> QED BY <1>0, <2>1, ReturnEach
  <1>3. /\ Len(slotQueue'[b]) = Len(slotQueue[b]) - 1
        /\ \A c \in Mailboxes : c # b => slotQueue'[c] = slotQueue[c]
    <2>1. slotQueue \in [Mailboxes -> Seq(Slots)] /\ slotQueue[b] \in Seq(Slots)
      BY <1>0 DEF TypeOK
    <2>2. slotQueue'[b] = Tail(slotQueue[b]) BY <1>1, <2>1
    <2>3. Len(slotQueue'[b]) = Len(slotQueue[b]) - 1 BY <2>1, <2>2, HeadTail
    <2> QED BY <1>1, <2>1, <2>3
  <1>4. \A r \in Procs : status'[r] = "ready" \/ status'[r] = status[r]
    BY <1>1, ProducerWoken
  <1>5. blockedConsumers[b] = <<>> BY DEF ClientInv, ConsumersKnown
  <1>6. Control'
    <2> SUFFICES ASSUME NEW r \in Procs
                 PROVE  /\ pc'[r] \in {"idle", "full", "empty"}
                        /\ pc'[r] = "idle" => status'[r] = "ready"
                        /\ pc'[r] # "idle" => isActive[call'[r].mbox] /\ call'[r].mbox >= Reserved
                        /\ pc'[r] = "full" => r \in Senders /\ call'[r].msg.len <= slotSize[call'[r].mbox]
                        /\ pc'[r] = "empty" => /\ ReceivesAt(r, call'[r].mbox)
                                               /\ call'[r].max >= slotSize[call'[r].mbox]
      BY <1>1 DEF Control, ReceivesAt
    <2>1. CASE r = p BY <1>2, <1>4, <2>1
    <2>2. CASE r # p BY <1>2, <1>4, <2>2 DEF ClientInv, Control
    <2> QED BY <2>1, <2>2
  <1>7. ListedIffAsleep'
    BY <1>1, <1>2, ProducerWoken, ListsAfterWaking, ListsAfterReturn
  <1>8. ConsumersKnown'
    BY <1>1, <1>3, <1>5 DEF ClientInv, ConsumersKnown
  <1>9. ASSUME NEW c \in Mailboxes, blockedProducers'[c] # <<>>
        PROVE  numSlots[c] - Len(slotQueue'[c]) <= Cardinality(WokenSenders(c)')
    <2>1. CASE blockedProducers[b] = <<>> /\ UNCHANGED <<blockedProducers, status>>
      <3>1. WokenSenders(c)' = WokenSenders(c) BY <1>2, <2>1 DEF WokenSenders
      <3>2. c # b BY <1>9, <2>1
      <3> QED BY <1>3, <1>9, <2>1, <3>1, <3>2 DEF ClientInv, ProducersCovered
    <2>2. ASSUME NEW q \in Procs, q # p, Contains(blockedProducers[b], q),
                 \A r \in Procs : status'[r] = IF r = q THEN "ready" ELSE status[r],
                 \A d \in Mailboxes : d # b => blockedProducers'[d] = blockedProducers[d]
          PROVE  numSlots[c] - Len(slotQueue'[c]) <= Cardinality(WokenSenders(c)')
      <3>1. status[q] = "blocked" /\ pc[q] = "full" /\ call[q].mbox = b
        BY <2>2 DEF ClientInv, ListedIffAsleep, Asleep
      <3>2. CASE c # b
        <4>1. WokenSenders(c)' = WokenSenders(c) BY <1>2, <2>2, <3>1, <3>2 DEF WokenSenders
        <4> QED BY <1>3, <1>9, <2>2, <3>2, <4>1 DEF ClientInv, ProducersCovered
      <3>3. CASE c = b
        <4>1. WokenSenders(c)' = WokenSenders(c) \cup {q} /\ q \notin WokenSenders(c)
          BY <1>2, <2>2, <3>1, <3>3 DEF WokenSenders
        <4>2. IsFiniteSet(WokenSenders(c)) /\ Cardinality(WokenSenders(c)) \in Nat
          BY SendersCounted
        <4>3. Cardinality(WokenSenders(c) \cup {q}) = Cardinality(WokenSenders(c)) + 1
          BY <4>1, <4>2, FS_AddElement
        <4>4. Cardinality(WokenSenders(c)') = Cardinality(WokenSenders(c)) + 1
          BY <4>1, <4>3
        <4>5. blockedProducers[b] # <<>>
          <5>1. blockedProducers[b] \in Seq(Procs) BY <1>0, ListsType
          <5> QED BY <2>2, <5>1, NobodyListed
        <4>6. numSlots[c] - Len(slotQueue[c]) <= Cardinality(WokenSenders(c))
          BY <3>3, <4>5 DEF ClientInv, ProducersCovered
        <4>7. numSlots[c] \in Nat /\ Len(slotQueue[c]) \in Nat BY <1>0, ListsType
        <4> QED BY <1>3, <3>3, <4>2, <4>4, <4>6, <4>7
      <3> QED BY <3>2, <3>3
    <2> QED BY <1>1, <2>1, <2>2, ProducerWoken
  <1>10. ProducersCovered' BY <1>1, <1>9 DEF ProducersCovered
  <1>11. machine' # "halted" BY <1>1, ProducerWoken DEF ClientInv
  <1> QED BY <1>6, <1>7, <1>8, <1>10, <1>11 DEF Waits

(* A mailbox that is not active has nobody waiting at it. *)
LEMMA WaitsCreate ==
    ASSUME Discipline, ClientInv, NEW p \in Procs, pc[p] = "idle", NEW b \in Mailboxes,
           ~isActive[b], isActive' = [isActive EXCEPT ![b] = TRUE],
           consumers' = [consumers EXCEPT ![b] = NULL],
           \A c \in Mailboxes : slotQueue'[c] = slotQueue[c],
           \A c \in Mailboxes : c # b => numSlots'[c] = numSlots[c] /\ slotSize'[c] = slotSize[c],
           NEW rc, Return(p, rc, NoMessage),
           UNCHANGED <<blockedProducers, blockedConsumers, running>>
    PROVE  Waits'
  <1>0. TypeOK BY DEF ClientInv
  <1>1. /\ \A r \in Procs : pc'[r] = pc[r]
        /\ \A r \in Procs : pc[r] # "idle" => call'[r] = call[r]
    BY <1>0, ReturnEach
  <1>2. \A r \in Procs : pc[r] # "idle" => call[r].mbox \in Mailboxes /\ call[r].mbox # b
    BY <1>0 DEF TypeOK, ClientInv, Control
  <1>3. /\ \A c \in Mailboxes : isActive[c] => isActive'[c]
        /\ \A c \in Mailboxes : c # b => consumers'[c] = consumers[c]
    BY <1>0 DEF TypeOK
  <1>4. blockedProducers[b] = <<>> /\ blockedConsumers[b] = <<>>
    <2>1. ASSUME NEW S \in {blockedProducers[b], blockedConsumers[b]} PROVE \A r : ~Contains(S, r)
      <3>1. S \in Seq(Procs) BY <1>0, ListsType
      <3>2. ASSUME NEW r, Contains(S, r) PROVE FALSE
        <4>1. r \in Procs BY <3>1, <3>2 DEF Contains
        <4>2. pc[r] # "idle" /\ call[r].mbox = b
          BY <3>2, <4>1 DEF ClientInv, ListedIffAsleep, Asleep
        <4> QED BY <1>2, <4>1, <4>2
      <3> QED BY <3>2
    <2> QED BY <1>0, <2>1, ListsType, NobodyListed
  <1>5. Control'
    <2> SUFFICES ASSUME NEW r \in Procs
                 PROVE  /\ pc'[r] \in {"idle", "full", "empty"}
                        /\ pc'[r] = "idle" => status'[r] = "ready"
                        /\ pc'[r] # "idle" => isActive'[call'[r].mbox] /\ call'[r].mbox >= Reserved
                        /\ pc'[r] = "full" => r \in Senders /\ call'[r].msg.len <= slotSize'[call'[r].mbox]
                        /\ pc'[r] = "empty" => /\ ReceivesAt(r, call'[r].mbox)
                                               /\ call'[r].max >= slotSize'[call'[r].mbox]
      BY DEF Control, ReceivesAt
    <2>1. CASE pc[r] = "idle" BY <1>1, <2>1 DEF ClientInv, Control, running
    <2>2. CASE pc[r] # "idle"
      <3>1. call'[r] = call[r] /\ pc'[r] = pc[r] /\ call[r].mbox \in Mailboxes /\ call[r].mbox # b
        BY <1>1, <1>2, <2>2
      <3>2. slotSize'[call[r].mbox] = slotSize[call[r].mbox] BY <3>1
      <3> QED BY <1>3, <2>2, <3>1, <3>2 DEF ClientInv, Control
    <2> QED BY <2>1, <2>2
  <1>6. ListedIffAsleep'
    <2>1. ASSUME NEW r \in Procs, NEW c \in Mailboxes
          PROVE  /\ Contains(blockedProducers[c], r)
                      <=> status[r] = "blocked" /\ pc'[r] = "full" /\ call'[r].mbox = c
                 /\ Contains(blockedConsumers[c], r)
                      <=> status[r] = "blocked" /\ pc'[r] = "empty" /\ call'[r].mbox = c
      BY <1>1 DEF ClientInv, ListedIffAsleep, Asleep
    <2> QED BY <2>1 DEF ClientInv, ListedIffAsleep, Asleep, running
  <1>7. ConsumersKnown' BY <1>3, <1>4 DEF ClientInv, ConsumersKnown
  <1>8. ProducersCovered'
    <2>1. ASSUME NEW c \in Mailboxes PROVE WokenSenders(c)' = WokenSenders(c)
      BY <1>1 DEF WokenSenders, running
    <2> QED BY <1>4, <2>1 DEF ClientInv, ProducersCovered
  <1> QED BY <1>5, <1>6, <1>7, <1>8 DEF Waits, ClientInv, running

-----------------------------------------------------------------------------
(* Every step of a disciplined client keeps ClientInv.                     *)
Kept == Stored' /\ Waits'

LEMMA FailKept ==
    ASSUME ClientInv, NEW p \in Procs, pc[p] = "idle", NEW rc, Fail(p, rc)
    PROVE  Kept
  <1>1. Waits' BY WaitsFail
  <1>2. Stored' BY InvParts, StoredFrame DEF Fail
  <1> QED BY <1>1, <1>2 DEF Kept

LEMMA DepositKept ==
    ASSUME Discipline, ClientInv, NEW p \in Procs, status[p] = "ready", NEW b \in Mailboxes,
           NEW m \in Messages, pc[p] = "idle" \/ (pc[p] = "full" /\ call[p].mbox = b),
           isActive[b], b >= Reserved, m.len <= slotSize[b], Deposit(p, b, m)
    PROVE  Kept
  <1>1. Waits' BY WaitsDeposit
  <1>2. Stored' BY InvParts, StoredDeposit
  <1> QED BY <1>1, <1>2 DEF Kept

LEMMA TakeKept ==
    ASSUME Discipline, ClientInv, NEW p \in Procs, status[p] = "ready", NEW b \in Mailboxes,
           NEW max \in Int, max >= slotSize[b], pc[p] \in {"idle", "empty"},
           slotQueue[b] # <<>>, Take(p, b, max),
           \A c \in Mailboxes : c # b => consumers'[c] = consumers[c]
    PROVE  Kept
  <1>1. Waits' BY WaitsTake
  <1>2. Stored' BY InvParts, StoredTake
  <1> QED BY <1>1, <1>2 DEF Kept

(* The mailboxes a disciplined call reaches have slots. *)
LEMMA HasSlots ==
    ASSUME ClientInv, NEW b, Valid(b), b >= Reserved
    PROVE  b \in Mailboxes /\ isActive[b] /\ numSlots[b] # 0 /\ slotSize[b] \in SlotSizes \cup {IntSize}
  <1>1. b \in Mailboxes /\ isActive[b] BY DEF Valid
  <1>2. numSlots[b] > 0 /\ numSlots[b] \in Nat BY <1>1, ListsType DEF ClientInv, Created
  <1> QED BY <1>1, <1>2 DEF ClientInv, Created

LEMMA SendKept ==
    ASSUME Discipline, ClientInv, NEW p \in Procs, status[p] = "ready", pc[p] = "idle",
           NEW b, b >= Reserved, NEW m \in Messages
    PROVE  /\ p \in Senders /\ Send(p, b, m) => Kept
           /\ MboxCondSend(p, b, m) => Kept
  <1>1. \A rc : Fail(p, rc) => Kept BY FailKept
  <1>2. ASSUME SendValid(b, m)
        PROVE  /\ b \in Mailboxes /\ isActive[b] /\ numSlots[b] # 0 /\ m.len <= slotSize[b]
               /\ Deposit(p, b, m) => Kept
    <2>1. b \in Mailboxes /\ isActive[b] /\ numSlots[b] # 0 /\ m.len <= slotSize[b]
      BY <1>2, HasSlots DEF SendValid
    <2> QED BY <2>1, DepositKept
  <1>3. ASSUME p \in Senders, SendValid(b, m), Full(b), WaitForSpace(p, b, m)
        PROVE  Kept
    <2>1. Waits' BY <1>2, <1>3, WaitsForSpace
    <2>2. Stored' BY <1>3, InvParts, StoredFrame DEF WaitForSpace
    <2> QED BY <2>1, <2>2 DEF Kept
  <1>4. ASSUME p \in Senders, Send(p, b, m)
        PROVE  Kept
    BY <1>1, <1>2, <1>3, <1>4 DEF Send
  <1>5. ASSUME MboxCondSend(p, b, m)
        PROVE  Kept
    BY <1>1, <1>2, <1>5 DEF MboxCondSend
  <1> QED BY <1>4, <1>5

LEMMA RecvKept ==
    ASSUME Discipline, ClientInv, NEW p \in Procs, status[p] = "ready", pc[p] = "idle",
           NEW b, b >= Reserved, NEW max \in Int,
           b \in Mailboxes => max < 0 \/ max >= slotSize[b]
    PROVE  /\ ReceivesAt(p, b) /\ Recv(p, b, max) => Kept
           /\ MboxCondRecv(p, b, max) => Kept
  <1>1. \A rc : Fail(p, rc) => Kept BY FailKept
  <1>2. ASSUME RecvValid(b, max)
        PROVE  /\ b \in Mailboxes /\ isActive[b] /\ numSlots[b] # 0 /\ max >= slotSize[b]
               /\ slotQueue[b] # <<>> /\ Take(p, b, max) /\ UNCHANGED consumers => Kept
    <2>1. b \in Mailboxes /\ isActive[b] /\ numSlots[b] # 0 /\ max >= slotSize[b]
      BY <1>2, HasSlots DEF RecvValid
    <2> QED BY <2>1, TakeKept
  <1>3. ASSUME ReceivesAt(p, b), RecvValid(b, max), slotQueue[b] = <<>>, WaitForMessage(p, b, max)
        PROVE  Kept
    <2>1. Waits' BY <1>2, <1>3, WaitsForMessage
    <2>2. Stored' BY <1>3, InvParts, StoredFrame DEF WaitForMessage
    <2> QED BY <2>1, <2>2 DEF Kept
  <1>4. ASSUME ReceivesAt(p, b), Recv(p, b, max)
        PROVE  Kept
    BY <1>1, <1>2, <1>3, <1>4 DEF Recv
  <1>5. ASSUME MboxCondRecv(p, b, max)
        PROVE  Kept
    BY <1>1, <1>2, <1>5 DEF MboxCondRecv
  <1> QED BY <1>4, <1>5

LEMMA CreateKept ==
    ASSUME Discipline, ClientInv, NEW p \in Procs, pc[p] = "idle",
           NEW n \in SlotCounts, NEW size \in SlotSizes, MboxCreate(p, n, size)
    PROVE  Kept
  <1>1. CASE Fail(p, -1) BY <1>1, FailKept
  <1>2. CASE /\ CreateValid(n, size) /\ Inactive # {}
             /\ isActive' = [isActive EXCEPT ![Lowest] = TRUE]
             /\ numSlots' = [numSlots EXCEPT ![Lowest] = n]
             /\ slotSize' = [slotSize EXCEPT ![Lowest] = size]
             /\ consumers' = [consumers EXCEPT ![Lowest] = NULL]
             /\ hasQueue' = [hasQueue EXCEPT ![Lowest] = TRUE]
             /\ slotQueue' = [slotQueue EXCEPT ![Lowest] = <<>>]
             /\ Return(p, Lowest, NoMessage)
             /\ UNCHANGED <<slots, blockedProducers, blockedConsumers, running>>
    <2>1. TypeOK /\ Stored BY InvParts
    <2>2. /\ Stored'
          /\ Lowest \in Mailboxes /\ ~isActive[Lowest]
          /\ \A c \in Mailboxes : slotQueue'[c] = slotQueue[c]
          /\ \A c \in Mailboxes : c # Lowest => numSlots'[c] = numSlots[c] /\ slotSize'[c] = slotSize[c]
      BY <1>2, <2>1, StoredCreate
    <2>3. PICK b \in Mailboxes : b = Lowest BY <2>2
    <2>4. Waits' BY <1>2, <2>2, <2>3, WaitsCreate
    <2> QED BY <2>2, <2>4 DEF Kept
  <1> QED BY <1>1, <1>2 DEF MboxCreate

LEMMA InvokeKept ==
    ASSUME Discipline, ClientInv, NEW p \in Procs, Invoke(p)
    PROVE  Kept
  <1>1. status[p] = "ready" /\ pc[p] = "idle"
    BY DEF Invoke, MboxCreate, MboxRelease, MboxSend, MboxCondSend, MboxRecv, MboxCondRecv,
           waitDevice, clock_interrupt_handler, Enter, CanRun
  <1>2. /\ Msgs \subseteq Messages /\ TickMsg \in Messages /\ IntSize \in Int
        /\ BufSizes \subseteq Int
    BY InputsAssumption DEF Messages, IntSize
  <1>3. CASE \E n \in SlotCounts, size \in SlotSizes : MboxCreate(p, n, size)
    BY <1>1, <1>3, CreateKept
  <1>4. ASSUME NEW b \in Targets, MboxRelease(p, b) PROVE FALSE
    BY <1>4 DEF MboxRelease, Enter, Discipline
  <1>5. ASSUME NEW b \in Targets, NEW m \in Msgs, MboxSend(p, b, m) \/ MboxCondSend(p, b, m)
        PROVE  Kept
    <2>1. b >= Reserved /\ m \in Messages BY <1>2 DEF Discipline
    <2>2. MboxSend(p, b, m) => p \in Senders /\ Send(p, b, m)
      BY DEF MboxSend, Enter, Senders
    <2> QED BY <1>1, <1>5, <2>1, <2>2, SendKept
  <1>6. ASSUME clock_interrupt_handler(p) PROVE Kept
    <2>1. p \in Senders /\ Send(p, clockMailbox, TickMsg)
      BY <1>6 DEF clock_interrupt_handler, Enter, Senders
    <2>2. clockMailbox >= Reserved BY MailboxNumbers
    <2> QED BY <1>1, <1>2, <2>1, <2>2, SendKept
  <1>7. ASSUME NEW b \in Targets, NEW max \in BufSizes, MboxRecv(p, b, max) \/ MboxCondRecv(p, b, max)
        PROVE  Kept
    <2>1. b >= Reserved /\ max \in Int BY <1>2 DEF Discipline
    <2>2. MboxRecv(p, b, max) => ReceivesAt(p, b) /\ Recv(p, b, max)
      BY DEF MboxRecv, Enter, ReceivesAt
    <2>3. RecvValid(b, max) => max >= slotSize[b]
      <3>1. RecvValid(b, max) => slotSize[b] \in SlotSizes \cup {IntSize} /\ ~(max < 0)
        BY <2>1, HasSlots DEF RecvValid
      <3> QED BY <3>1 DEF Discipline
    <2>4. CASE RecvValid(b, max)
      BY <1>1, <1>7, <2>1, <2>2, <2>3, <2>4, RecvKept
    <2>5. CASE ~RecvValid(b, max)
      <3>1. Fail(p, -1) BY <1>7, <2>5 DEF MboxRecv, MboxCondRecv, Recv
      <3> QED BY <1>1, <3>1, FailKept
    <2> QED BY <2>4, <2>5
  <1>8. ASSUME waitDevice(p) PROVE Kept
    <2>1. ReceivesAt(p, clockMailbox) /\ Recv(p, clockMailbox, IntSize)
      BY <1>8 DEF waitDevice, Enter, ReceivesAt
    <2>2. /\ clockMailbox >= Reserved /\ IntSize >= slotSize[clockMailbox]
      BY MailboxNumbers DEF ClientInv, Created, IntSize
    <2> QED BY <1>1, <1>2, <2>1, <2>2, RecvKept
  <1> QED BY <1>3, <1>4, <1>5, <1>6, <1>7, <1>8 DEF Invoke

LEMMA ResumeKept ==
    ASSUME Discipline, ClientInv, NEW p \in Procs, Resume(p)
    PROVE  Kept
  <1>1. pc[p] \in {"idle", "full", "empty"} BY DEF ClientInv, Control
  <1>2. SendResume(p) \/ RecvResume(p)
    BY <1>1 DEF Resume, ZeroResume, ZeroSendWoke, ReleaseProducers, ReleaseConsumers,
                ReleaseClear, ReleaseFinish
  <1> DEFINE b == call[p].mbox
             m == call[p].msg
  <1>3. b \in Mailboxes /\ m \in Messages /\ call[p].max \in Int
    BY DEF ClientInv, TypeOK
  <1>4. CASE SendResume(p)
    <2>1. status[p] = "ready" /\ pc[p] = "full" BY <1>4 DEF SendResume, CanRun
    <2>2. isActive[b] /\ b >= Reserved /\ p \in Senders /\ m.len <= slotSize[b]
      BY <2>1 DEF ClientInv, Control
    <2>3. CASE Full(b) /\ WaitForSpace(p, b, m)
      <3>1. Waits' BY <1>3, <2>1, <2>2, <2>3, WaitsForSpace
      <3>2. Stored' BY <2>3, InvParts, StoredFrame DEF WaitForSpace
      <3> QED BY <3>1, <3>2 DEF Kept
    <2>4. CASE Deposit(p, b, m)
      BY <1>3, <2>1, <2>2, <2>4, DepositKept
    <2> QED BY <1>4, <2>2, <2>3, <2>4 DEF SendResume
  <1>5. CASE RecvResume(p)
    <2>1. status[p] = "ready" /\ pc[p] = "empty" BY <1>5 DEF RecvResume, CanRun
    <2>2. isActive[b] /\ call[p].max >= slotSize[b]
      BY <2>1 DEF ClientInv, Control
    <2>3. consumers' = [consumers EXCEPT ![b] = NULL]
      BY <1>5, <2>2 DEF RecvResume
    <2>4. CASE slotQueue[b] # <<>> /\ Take(p, b, call[p].max)
      <3>1. \A c \in Mailboxes : c # b => consumers'[c] = consumers[c]
        BY <2>3 DEF ClientInv, TypeOK
      <3> QED BY <1>3, <2>1, <2>2, <2>4, <3>1, TakeKept
    <2>5. CASE /\ Return(p, -1, NoMessage)
               /\ UNCHANGED <<boxes, queues, slots, blockedProducers, blockedConsumers, running>>
      <3>1. Waits' BY <1>3, <2>1, <2>3, <2>5, WaitsFoundNothing
      <3>2. Stored' BY <2>5, InvParts, StoredFrame
      <3> QED BY <3>1, <3>2 DEF Kept
    <2> QED BY <1>5, <2>2, <2>4, <2>5 DEF RecvResume
  <1> QED BY <1>2, <1>4, <1>5

LEMMA InitClient == Discipline /\ Init => ClientInv
  <1> SUFFICES ASSUME Discipline, Init PROVE ClientInv OBVIOUS
  <1>1. TypeOK /\ SlotIntegrity BY InitType, InitSlots
  <1>2. Control BY DEF Init, Control
  <1>3. \A b \in Mailboxes : /\ slotQueue[b] = <<>> /\ Len(slotQueue[b]) = 0
                             /\ blockedProducers[b] = <<>> /\ blockedConsumers[b] = <<>>
    BY EmptySeq DEF Init
  <1>4. Created
    <2> SUFFICES ASSUME NEW b \in Mailboxes
                 PROVE  /\ b <= clockMailbox => isActive[b]
                        /\ isActive[b] /\ b >= Reserved =>
                             /\ hasQueue[b] /\ numSlots[b] > 0 /\ slotSize[b] \in SlotSizes \cup {IntSize}
                             /\ \A i \in 1..numSlots[b] : <<b, i>> \in Places
                        /\ b = clockMailbox => slotSize[b] = IntSize
      BY <1>3 DEF Created
    <2>0. /\ b \in Nat /\ clockMailbox = Reserved /\ Reserved \in Nat
          /\ (isActive[b] <=> b <= clockMailbox)
          /\ (hasQueue[b] <=> b = clockMailbox)
          /\ numSlots[b] = IF b = clockMailbox THEN 1 ELSE 0
          /\ slotSize[b] = IF b = clockMailbox THEN IntSize ELSE 0
      BY MailboxNumbers DEF Init
    <2>1. CASE b # clockMailbox
      <3>1. isActive[b] => ~(b >= Reserved) BY <2>0, <2>1
      <3> QED BY <2>1, <3>1 DEF Init
    <2>2. CASE b = clockMailbox
      <3>1. /\ isActive[b] /\ hasQueue[b] /\ numSlots[b] = 1 /\ slotSize[b] = IntSize
        BY <2>0, <2>2
      <3>2. <<b, 1>> \in Places BY <2>2 DEF Places
      <3> QED BY <3>1, <3>2
    <2> QED BY <2>1, <2>2
  <1>5. MessagesFit BY <1>3 DEF MessagesFit
  <1>6. ListedIffAsleep
    <2>1. Injective(<<>>) /\ \A e : ~Contains(<<>>, e) BY EmptySeq DEF Injective, Contains
    <2> QED BY <1>3, <2>1 DEF Init, ListedIffAsleep, Asleep
  <1>7. ConsumersKnown /\ ProducersCovered BY <1>3 DEF ConsumersKnown, ProducersCovered
  <1>8. NoSlotLost
    <2>1. Len(freeSlots) = MAXSLOTS /\ \A i \in 1..MAXSLOTS : freeSlots[i] = i - 1
      BY SizesAssumption DEF Init
    <2>2. ASSUME NEW s \in Slots PROVE \E i \in 1..Len(freeSlots) : freeSlots[i] = s
      <3>1. s + 1 \in 1..MAXSLOTS /\ (s + 1) - 1 = s BY SizesAssumption DEF Slots
      <3> QED BY <2>1, <3>1
    <2> QED BY <2>2 DEF NoSlotLost
  <1> QED BY <1>1, <1>2, <1>4, <1>5, <1>6, <1>7, <1>8 DEF ClientInv, Init

LEMMA NextClient == Discipline /\ ClientInv /\ [Next]_vars => ClientInv'
  <1> SUFFICES ASSUME Discipline, ClientInv, [Next]_vars PROVE ClientInv' OBVIOUS
  <1>1. TypeOK' /\ SlotIntegrity' BY NextType, NextSlots DEF ClientInv
  <1>2. Kept
    <2>1. CASE UNCHANGED vars
      <3>1. Stored' BY <2>1, InvParts, StoredFrame DEF vars
      <3>2. UNCHANGED <<isActive, numSlots, slotSize, slotQueue, consumers, blockedProducers,
                        blockedConsumers, status, machine, pc, call>>
        BY <2>1 DEF vars, boxes, queues, waiting, running, control
      <3>3. Waits'
        BY <3>2 DEF ClientInv, Waits, Control, ListedIffAsleep, Asleep, ConsumersKnown,
                    ProducersCovered, WokenSenders
      <3> QED BY <3>1, <3>3 DEF Kept
    <2>2. CASE Next
      BY <2>2, InvokeKept, ResumeKept DEF Next
    <2> QED BY <2>1, <2>2
  <1> QED BY <1>1, <1>2 DEF Kept, ClientInv, Stored, Waits

-----------------------------------------------------------------------------
(* While a mailbox has room there is a free slot: all slots would          *)
(* otherwise lie in other places than the one that is vacant.              *)
LEMMA FreeSlotLeft ==
    ASSUME EnoughSlots, ClientInv, NEW b \in Mailboxes, isActive[b], b >= Reserved, ~Full(b)
    PROVE  freeSlots # <<>>
  <1> SUFFICES ASSUME freeSlots = <<>> PROVE FALSE OBVIOUS
  <1> DEFINE At(x, s) == x[2] \in 1..Len(slotQueue[x[1]]) /\ slotQueue[x[1]][x[2]] = s
             vacant == <<b, Len(slotQueue[b]) + 1>>
             Others == Places \ {vacant}
  <1>0. TypeOK BY DEF ClientInv
  <1>1. vacant \in Places
    <2>1. numSlots[b] \in Nat /\ Len(slotQueue[b]) \in Nat BY <1>0, ListsType
    <2>2. Len(slotQueue[b]) + 1 \in 1..numSlots[b] BY <2>1 DEF Full
    <2> QED BY <2>2 DEF ClientInv, Created
  <1>2. ASSUME NEW s \in Slots PROVE \E x \in Others : At(x, s)
    <2>1. Len(freeSlots) = 0 BY EmptySeq
    <2>2. PICK c \in Mailboxes : \E i \in 1..Len(slotQueue[c]) : slotQueue[c][i] = s
      BY <2>1 DEF ClientInv, NoSlotLost
    <2>3. PICK i \in 1..Len(slotQueue[c]) : slotQueue[c][i] = s BY <2>2
    <2>4. numSlots[c] \in Nat /\ Len(slotQueue[c]) \in Nat BY <1>0, ListsType
    <2>5. slotQueue[c] # <<>> BY <2>3, EmptySeq
    <2>6. isActive[c] /\ c >= Reserved
      BY <2>5, MailboxNumbers DEF ClientInv, Created
    <2>7. i \in 1..numSlots[c]
      BY <2>4, <2>6 DEF ClientInv, SlotIntegrity, SlotCapacity
    <2>8. <<c, i>> \in Places BY <2>6, <2>7 DEF ClientInv, Created
    <2>9. <<c, i>> # vacant BY <2>3, <2>4
    <2>10. At(<<c, i>>, s) BY <2>3
    <2> QED BY <2>8, <2>9, <2>10
  <1> DEFINE place == [s \in Slots |-> CHOOSE x \in Others : At(x, s)]
  <1>3. place \in Injection(Slots, Others)
    <2> HIDE DEF At, Others
    <2>1. \A s \in Slots : place[s] \in Others /\ At(place[s], s) BY <1>2
    <2>2. \A x, s, t : At(x, s) /\ At(x, t) => s = t BY DEF At
    <2>3. place \in [Slots -> Others] BY <2>1
    <2>4. \A s, t \in Slots : place[s] = place[t] => s = t
      <3> HIDE DEF place
      <3> QED BY <2>1, <2>2
    <2> HIDE DEF place
    <2> QED BY <2>3, <2>4 DEF Injection, IsInjective
  <1>4. IsFiniteSet(Places) /\ Cardinality(Places) \in Nat
    <2>1. IsFiniteSet(Mailboxes) /\ IsFiniteSet(1..MAXSLOTS)
      BY SizesAssumption, FS_Interval DEF Mailboxes
    <2>2. IsFiniteSet(Mailboxes \X (1..MAXSLOTS)) BY <2>1, FS_Product
    <2>3. Places \subseteq Mailboxes \X (1..MAXSLOTS)
      BY SizesAssumption, MailboxNumbers DEF Places
    <2> QED BY <2>2, <2>3, FS_Subset, FS_CardinalityType
  <1>5. IsFiniteSet(Others) /\ Cardinality(Others) = Cardinality(Places) - 1
    <2> HIDE DEF vacant
    <2> QED BY <1>1, <1>4, FS_RemoveElement
  <1>6. Cardinality(Slots) <= Cardinality(Others)
    <2> HIDE DEF place, Others
    <2> QED BY <1>3, <1>5, FS_Injection
  <1>7. Cardinality(Slots) = MAXSLOTS
    <2>1. MAXSLOTS \in Nat /\ MAXSLOTS > 0 BY SizesAssumption
    <2>2. Cardinality(0..(MAXSLOTS - 1)) = (MAXSLOTS - 1) - 0 + 1
      BY <2>1, FS_Interval
    <2> QED BY <2>1, <2>2 DEF Slots
  <1> HIDE DEF Others
  <1> QED BY <1>4, <1>5, <1>6, <1>7, SizesAssumption DEF EnoughSlots

(* Only a deposit without a slot, or in a mailbox without a queue, could   *)
(* stop the machine in "fault".                                            *)
LEMMA NoFaultKept ==
    ASSUME Discipline, EnoughSlots, ClientInv, machine = "up", NEW p \in Procs,
           Invoke(p) \/ Resume(p)
    PROVE  machine' # "fault"
  <1>1. \A q : Unblock(p, q) => machine' # "fault" BY DEF Unblock, running
  <1>2. \A b : wakeupProducer(p, b) \/ wakeupConsumer(p, b) => machine' # "fault"
    BY <1>1 DEF wakeupProducer, wakeupConsumer, running
  <1>3. \A b, m : Deposit(p, b, m) /\ ~CannotStore(b) => machine' # "fault"
    BY <1>2 DEF Deposit, running
  <1>4. \A b, max : Take(p, b, max) => machine' # "fault"
    BY <1>2 DEF Take, running
  <1>5. \A rc : Fail(p, rc) => machine' # "fault" BY DEF Fail, running
  <1>6. \A b : b >= Reserved /\ Valid(b) /\ freeSlots # <<>> => numSlots[b] # 0 /\ ~CannotStore(b)
    BY HasSlots DEF CannotStore, Valid, ClientInv, Created
  <1>7. \A b, m : b >= Reserved /\ Send(p, b, m) => machine' # "fault"
    BY <1>3, <1>5, <1>6, HasSlots DEF Send, SendValid, WaitForSpace, BlockMe
  <1>8. \A b, max : b >= Reserved /\ Recv(p, b, max) => machine' # "fault"
    BY <1>4, <1>5, HasSlots DEF Recv, RecvValid, WaitForMessage, BlockMe
  <1>9. clockMailbox >= Reserved BY MailboxNumbers
  <1>10. CASE Invoke(p)
    <2>1. ASSUME NEW b \in Targets, NEW m \in Msgs, MboxSend(p, b, m) \/ MboxCondSend(p, b, m)
          PROVE  machine' # "fault"
      <3>1. b >= Reserved BY DEF Discipline
      <3> QED BY <1>3, <1>5, <1>6, <1>7, <2>1, <3>1 DEF MboxSend, MboxCondSend, SendValid
    <2>2. ASSUME NEW b \in Targets, NEW max \in BufSizes, MboxRecv(p, b, max) \/ MboxCondRecv(p, b, max)
          PROVE  machine' # "fault"
      <3>1. b >= Reserved BY DEF Discipline
      <3> QED BY <1>4, <1>5, <1>8, <2>2, <3>1 DEF MboxRecv, MboxCondRecv
    <2>3. CASE waitDevice(p) \/ clock_interrupt_handler(p)
      BY <1>7, <1>8, <1>9, <2>3 DEF waitDevice, clock_interrupt_handler
    <2>4. ASSUME NEW n, NEW size, MboxCreate(p, n, size) PROVE machine' # "fault"
      BY <1>5, <2>4 DEF MboxCreate, running
    <2>5. ASSUME NEW b, MboxRelease(p, b) PROVE FALSE
      BY <2>5 DEF MboxRelease, Enter, Discipline
    <2> QED BY <1>10, <2>1, <2>2, <2>3, <2>4, <2>5 DEF Invoke
  <1>11. CASE Resume(p)
    <2> DEFINE b == call[p].mbox
               m == call[p].msg
    <2>1. pc[p] \in {"idle", "full", "empty"} BY DEF ClientInv, Control
    <2>2. SendResume(p) \/ RecvResume(p)
      BY <1>11, <2>1 DEF Resume, ZeroResume, ZeroSendWoke, ReleaseProducers, ReleaseConsumers,
                  ReleaseClear, ReleaseFinish
    <2>3. CASE SendResume(p)
      <3>1. isActive[b] /\ b >= Reserved /\ b \in Mailboxes
        BY <2>3 DEF SendResume, ClientInv, Control, TypeOK
      <3>2. numSlots[b] > 0 BY <3>1 DEF ClientInv, Created
      <3>3. CASE WaitForSpace(p, b, m) BY <3>3 DEF WaitForSpace, BlockMe
      <3>4. CASE ~Full(b) /\ Deposit(p, b, m)
        <4>1. freeSlots # <<>> BY <3>1, <3>4, FreeSlotLeft
        <4> QED BY <1>3, <1>6, <3>1, <3>4, <4>1 DEF Valid
      <3> QED BY <2>3, <3>1, <3>2, <3>3, <3>4 DEF SendResume
    <2>4. CASE RecvResume(p)
      BY <1>4, <1>5, <2>4 DEF RecvResume, running
    <2> QED BY <2>2, <2>3, <2>4
  <1> QED BY <1>10, <1>11

-----------------------------------------------------------------------------
(* A sender sleeps at a mailbox only while the free places there are       *)
(* spoken for by senders already woken: in whatever order disciplined      *)
(* clients send, receive and preempt each other, no wake-up of a producer  *)
(* is lost in MboxSend and MboxRecv.                                       *)
THEOREM NoProducerStranded == ASSUME Discipline PROVE Spec => []NoStrandedProducer
  <1>1. ClientInv => NoStrandedProducer
    BY DEF ClientInv, ProducersCovered, NoStrandedProducer
  <1> QED BY <1>1, InitClient, NextClient, PTL DEF Spec

(* A receiver sleeps at a mailbox only while the messages there are spoken *)
(* for by receivers already woken.                                         *)
THEOREM NoConsumerStranded == ASSUME Discipline PROVE Spec => []NoStrandedConsumer
  <1>1. ASSUME ClientInv PROVE NoStrandedConsumer
    <2>1. ASSUME NEW b \in Mailboxes, blockedConsumers[b] # <<>>
          PROVE  Len(slotQueue[b]) <= Cardinality(WokenReceivers(b))
      <3>1. Len(slotQueue[b]) = 0 BY <1>1, <2>1, EmptySeq DEF ClientInv, ConsumersKnown
      <3>2. \A p, q \in WokenReceivers(b) : p = q
        <4>1. \A p \in WokenReceivers(b) : p \in Procs /\ ReceivesAt(p, b)
          BY <1>1 DEF WokenReceivers, ClientInv, Control
        <4> QED BY <4>1 DEF Discipline
      <3>3. WokenReceivers(b) = {} \/ \E p : WokenReceivers(b) = {p} BY <3>2
      <3>4. IsFiniteSet(WokenReceivers(b)) BY <3>3, FS_EmptySet, FS_Singleton
      <3>5. Cardinality(WokenReceivers(b)) \in Nat BY <3>4, FS_CardinalityType
      <3> QED BY <3>1, <3>5
    <2> QED BY <2>1 DEF NoStrandedConsumer
  <1> QED BY <1>1, InitClient, NextClient, PTL DEF Spec

(* The waiting lists hold exactly the processes asleep in blockMe, each    *)
(* once, so nobody sleeps where no send or receive would wake it.          *)
THEOREM ListsHoldSleepers == ASSUME Discipline PROVE Spec => []ListedIffAsleep
  <1>1. ClientInv => ListedIffAsleep BY DEF ClientInv
  <1> QED BY <1>1, InitClient, NextClient, PTL DEF Spec

(* For disciplined clients the comment at unblockProc holds: it is never   *)
(* called for a process that is not asleep.                                *)
THEOREM UnblockOnlySleepers == ASSUME Discipline PROVE Spec => []NoHalt
  <1>1. ClientInv => NoHalt BY DEF ClientInv, NoHalt
  <1> QED BY <1>1, InitClient, NextClient, PTL DEF Spec

(* With as many slots as the mailboxes have places the machine never       *)
(* stops: no sender comes back from its sleep to an empty pool of slots.   *)
THEOREM NeverStopped == ASSUME Discipline, EnoughSlots PROVE Spec => []NeverStops
  <1>1. Init => ClientInv /\ NeverStops BY InitClient DEF Init, NeverStops
  <1>2. ASSUME ClientInv /\ NeverStops, [Next]_vars
        PROVE  (ClientInv /\ NeverStops)'
    <2>1. ClientInv' BY <1>2, NextClient
    <2>2. machine' # "fault"
      <3>1. CASE UNCHANGED vars BY <1>2, <3>1 DEF vars, running, NeverStops
      <3>2. CASE Next BY <1>2, <3>2, NoFaultKept DEF Next, NeverStops
      <3> QED BY <1>2, <3>1, <3>2
    <2> QED BY <2>1, <2>2 DEF ClientInv, TypeOK, NeverStops
  <1> QED BY <1>1, <1>2, PTL DEF Spec
=============================================================================
