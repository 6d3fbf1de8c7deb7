--------------------------- MODULE MailboxProofs ---------------------------
(***************************************************************************)
(* Proofs about the mailbox layer for every number of processes, mailboxes *)
(* and slots, every priority assignment and every set of clients.          *)
(***************************************************************************)
EXTENDS Mailbox, SequenceTheorems, WellFoundedInduction, TLAPS

(* Facts about the ends of a non-empty sequence. *)
LEMMA FrontLast ==
    ASSUME NEW S, NEW s \in Seq(S), s # <<>>
    PROVE  /\ Front(s) \in Seq(S)
           /\ Last(s) \in S
           /\ Len(s) \in Nat /\ Len(s) > 0
           /\ Len(Front(s)) = Len(s) - 1
           /\ \A i \in 1..(Len(s) - 1) : Front(s)[i] = s[i]
           /\ Last(s) = s[Len(s)]
  <1>1. Len(s) \in Nat /\ Len(s) > 0 /\ \A i \in 1..Len(s) : s[i] \in S
    OBVIOUS
  <1>2. \A i \in 1..(Len(s) - 1) : s[i] \in S
    BY <1>1
  <1>3. Front(s) = SubSeq(s, 1, Len(s) - 1)
    BY DEF Front
  <1>4. /\ SubSeq(s, 1, Len(s) - 1) \in Seq(S)
        /\ Len(SubSeq(s, 1, Len(s) - 1)) = IF 1 <= Len(s) - 1 THEN Len(s) - 1 - 1 + 1 ELSE 0
        /\ \A i \in 1..(Len(s) - 1 - 1 + 1) : SubSeq(s, 1, Len(s) - 1)[i] = s[1 + i - 1]
    BY <1>1, <1>2, SubSeqProperties
  <1>5. \A i \in 1..(Len(s) - 1) : SubSeq(s, 1, Len(s) - 1)[i] = s[i]
    BY <1>1, <1>4
  <1>6. Len(SubSeq(s, 1, Len(s) - 1)) = Len(s) - 1
    <2> DEFINE k == Len(SubSeq(s, 1, Len(s) - 1))
               n == Len(s) - 1
    <2>1. n \in Nat /\ k = IF 1 <= n THEN n - 1 + 1 ELSE 0
      BY <1>1, <1>4
    <2> HIDE DEF k, n
    <2>2. k = n
      BY <2>1
    <2> QED BY <2>2 DEF k, n
  <1>7. Last(s) = s[Len(s)] /\ Last(s) \in S
    BY <1>1 DEF Last
  <1> QED BY <1>1, <1>3, <1>4, <1>5, <1>6, <1>7

LEMMA HeadTail ==
    ASSUME NEW S, NEW s \in Seq(S), s # <<>>
    PROVE  /\ Tail(s) \in Seq(S)
           /\ Head(s) \in S
           /\ Len(s) \in Nat /\ Len(s) > 0
           /\ Len(Tail(s)) = Len(s) - 1
           /\ \A i \in 1..(Len(s) - 1) : Tail(s)[i] = s[i + 1]
           /\ Head(s) = s[1]
  OBVIOUS

LEMMA EmptySeqs == <<>> \in Seq(Procs) /\ <<>> \in Seq(Slots)
  BY EmptySeq

(* A waiting list stays a list of processes. *)
LEMMA ListBlockedType ==
    ASSUME NEW list \in Seq(Procs), NEW p \in Procs
    PROVE  ListBlocked(list, p) \in Seq(Procs)
  BY DEF ListBlocked

LEMMA InitType == Init => TypeOK
  BY SizesAssumption, ProcsAssumption
     DEF Init, TypeOK, Mailboxes, Slots, Messages, Segments, NoCall, Args, clockMailbox, IntSize

(* The parts of TypeOK that the steps of the process layer can disturb. *)
RunningOK ==
    /\ status \in [Procs -> {"ready", "blocked"}]
    /\ machine \in {"up", "halted", "fault"}
ControlOK ==
    /\ pc \in [Procs -> Segments]
    /\ call \in [Procs -> [mbox : Mailboxes, msg : Messages, max : Int, i : Nat]]
    /\ result \in [Procs -> [rc : Int, msg : Messages]]

LEMMA UnblockType ==
    ASSUME RunningOK, NEW p, NEW q, Unblock(p, q)
    PROVE  RunningOK'
  BY DEF RunningOK, Unblock, running

LEMMA WakeType ==
    ASSUME TypeOK, NEW p \in Procs, NEW b \in Mailboxes
    PROVE  /\ wakeupConsumer(p, b) =>
                RunningOK' /\ blockedConsumers' \in [Mailboxes -> Seq(Procs)]
           /\ wakeupProducer(p, b) =>
                RunningOK' /\ blockedProducers' \in [Mailboxes -> Seq(Procs)]
  <1>0. RunningOK
    BY DEF TypeOK, RunningOK
  <1>1. ASSUME wakeupConsumer(p, b)
        PROVE  RunningOK' /\ blockedConsumers' \in [Mailboxes -> Seq(Procs)]
    <2>1. CASE blockedConsumers[b] = <<>> /\ UNCHANGED <<blockedConsumers, running>>
      BY <1>0, <2>1 DEF TypeOK, RunningOK, running
    <2>2. CASE blockedConsumers[b] # <<>> /\ Unblock(p, Head(blockedConsumers[b]))
               /\ blockedConsumers' = [blockedConsumers EXCEPT ![b] = Tail(@)]
      BY <1>0, <2>2, UnblockType, HeadTail DEF TypeOK
    <2> QED BY <1>1, <2>1, <2>2 DEF wakeupConsumer
  <1>2. ASSUME wakeupProducer(p, b)
        PROVE  RunningOK' /\ blockedProducers' \in [Mailboxes -> Seq(Procs)]
    <2>1. CASE blockedProducers[b] = <<>> /\ UNCHANGED <<blockedProducers, running>>
      BY <1>0, <2>1 DEF TypeOK, RunningOK, running
    <2>2. CASE blockedProducers[b] # <<>> /\ Unblock(p, Head(blockedProducers[b]))
               /\ blockedProducers' = [blockedProducers EXCEPT ![b] = Tail(@)]
      BY <1>0, <2>2, UnblockType, HeadTail DEF TypeOK
    <2> QED BY <1>2, <2>1, <2>2 DEF wakeupProducer
  <1> QED BY <1>1, <1>2

LEMMA ReturnType ==
    ASSUME TypeOK, NEW p \in Procs, NEW rc \in Int, NEW m \in Messages,
           Return(p, rc, m)
    PROVE  ControlOK'
  <1>1. NoCall \in [mbox : Mailboxes, msg : Messages, max : Int, i : Nat]
    BY SizesAssumption DEF NoCall, Args, Mailboxes, Messages
  <1> QED BY <1>1 DEF Return, ControlOK, TypeOK, Segments

LEMMA FailType ==
    ASSUME TypeOK, NEW p \in Procs, NEW rc \in Int, Fail(p, rc)
    PROVE  TypeOK'
  <1>1. ControlOK'
    BY ReturnType DEF Fail, Messages
  <1> QED BY <1>1 DEF Fail, TypeOK, ControlOK, boxes, queues, slots, waiting, running

LEMMA BlockMeType ==
    ASSUME TypeOK, NEW p \in Procs, NEW seg \in Segments,
           NEW c \in [mbox : Mailboxes, msg : Messages, max : Int, i : Nat],
           BlockMe(p, seg, c)
    PROVE  RunningOK' /\ ControlOK'
  BY DEF BlockMe, TypeOK, RunningOK, ControlOK

LEMMA DepositType ==
    ASSUME TypeOK, NEW p \in Procs, NEW b \in Mailboxes, NEW m \in Messages,
           Deposit(p, b, m)
    PROVE  TypeOK'
  <1>1. CASE CannotStore(b)
    <2>1. CASE /\ machine' = "fault"
               /\ UNCHANGED <<boxes, queues, slots, waiting, status, control>>
      BY <2>1 DEF TypeOK, boxes, queues, slots, waiting, control
    <2> QED BY <1>1, <2>1 DEF Deposit
  <1>2. CASE ~CannotStore(b)
    <2>1. /\ freeSlots' = Front(freeSlots)
          /\ mailSlots' = [mailSlots EXCEPT ![Last(freeSlots)] =
                             [inUse |-> TRUE, mailboxID |-> b, message |-> m]]
          /\ slotQueue' = [slotQueue EXCEPT ![b] = Append(@, Last(freeSlots))]
          /\ wakeupConsumer(p, b) \/ UNCHANGED <<blockedConsumers, running>>
          /\ Return(p, 0, NoMessage)
          /\ UNCHANGED <<boxes, hasQueue, consumers, blockedProducers>>
      BY <1>2 DEF Deposit
    <2>2. Front(freeSlots) \in Seq(Slots) /\ Last(freeSlots) \in Slots
      BY <1>2, FrontLast DEF CannotStore, TypeOK
    <2>3. ControlOK'
      BY <2>1, ReturnType DEF Messages
    <2>4. RunningOK' /\ blockedConsumers' \in [Mailboxes -> Seq(Procs)]
      BY <2>1, WakeType DEF TypeOK, RunningOK, running
    <2>5. mailSlots' \in [Slots -> [inUse : BOOLEAN, mailboxID : Mailboxes,
                                    message : Messages]]
      <3>1. [inUse |-> TRUE, mailboxID |-> b, message |-> m]
              \in [inUse : BOOLEAN, mailboxID : Mailboxes, message : Messages]
        OBVIOUS
      <3> QED BY <2>1, <2>2, <3>1 DEF TypeOK
    <2>6. slotQueue' \in [Mailboxes -> Seq(Slots)]
      <3>1. slotQueue \in [Mailboxes -> Seq(Slots)]
        BY DEF TypeOK
      <3>2. Append(slotQueue[b], Last(freeSlots)) \in Seq(Slots)
        BY <2>2, <3>1
      <3> QED BY <2>1, <3>1, <3>2
    <2> QED BY <2>1, <2>2, <2>3, <2>4, <2>5, <2>6 DEF TypeOK, RunningOK, ControlOK, boxes
  <1> QED BY <1>1, <1>2

LEMMA MessageLength == \A m \in Messages : m.len \in Int
  BY InputsAssumption DEF Messages, NoMessage, TickMsg, IntSize

(* Take leaves consumers to its callers. *)
LEMMA TakeType ==
    ASSUME TypeOK, NEW p \in Procs, NEW b \in Mailboxes, NEW max \in Int,
           slotQueue[b] # <<>>, Take(p, b, max),
           consumers' \in [Mailboxes -> Procs \cup {NULL}]
    PROVE  TypeOK'
  <1> DEFINE s == Head(slotQueue[b])
             m == mailSlots[s].message
  <1>1. slotQueue[b] \in Seq(Slots)
    BY DEF TypeOK
  <1>2. s \in Slots /\ Tail(slotQueue[b]) \in Seq(Slots)
    BY <1>1, HeadTail
  <1>3. m \in Messages /\ m.len \in Int
    BY <1>2, MessageLength DEF TypeOK
  <1>4. /\ slotQueue' = [slotQueue EXCEPT ![b] = Tail(@)]
        /\ UNCHANGED <<boxes, hasQueue, blockedConsumers>>
    BY DEF Take
  <1>5. slotQueue' \in [Mailboxes -> Seq(Slots)]
    BY <1>2, <1>4 DEF TypeOK
  <1>6. CASE /\ Return(p, -1, NoMessage)
             /\ UNCHANGED <<slots, blockedProducers, running>>
    <2>1. ControlOK'
      BY <1>6, ReturnType DEF Messages
    <2> QED BY <1>4, <1>5, <1>6, <2>1 DEF TypeOK, ControlOK, boxes, slots, running
  <1>7. CASE /\ mailSlots' = [mailSlots EXCEPT ![s].inUse = FALSE]
             /\ freeSlots' = Append(freeSlots, s)
             /\ wakeupProducer(p, b)
             /\ Return(p, m.len, m)
    <2>1. ControlOK'
      BY <1>3, <1>7, ReturnType
    <2>2. RunningOK' /\ blockedProducers' \in [Mailboxes -> Seq(Procs)]
      BY <1>7, WakeType
    <2>3. freeSlots' \in Seq(Slots)
      BY <1>2, <1>7 DEF TypeOK
    <2>4. mailSlots' \in [Slots -> [inUse : BOOLEAN, mailboxID : Mailboxes,
                                    message : Messages]]
      <3> HIDE DEF s
      <3>1. mailSlots \in [Slots -> [inUse : BOOLEAN, mailboxID : Mailboxes,
                                     message : Messages]]
        BY DEF TypeOK
      <3>2. [mailSlots[s] EXCEPT !.inUse = FALSE]
              \in [inUse : BOOLEAN, mailboxID : Mailboxes, message : Messages]
        BY <1>2, <3>1
      <3>3. mailSlots' = [mailSlots EXCEPT ![s] = [mailSlots[s] EXCEPT !.inUse = FALSE]]
        BY <1>7
      <3> HIDE <1>7
      <3> QED BY <1>2, <3>1, <3>2, <3>3
    <2> QED BY <1>4, <1>5, <2>1, <2>2, <2>3, <2>4 DEF TypeOK, ControlOK, RunningOK, boxes
  <1> QED BY <1>6, <1>7 DEF Take

(* MboxCreate has a lowest inactive id to take whenever there is one. *)
LEMMA LowestInactive ==
    ASSUME Inactive # {}
    PROVE  Lowest \in Inactive
  <1>1. Inactive \subseteq Nat
    BY SizesAssumption DEF Inactive, Mailboxes
  <1>2. IsWellFoundedOn(OpToRel(<, Nat), Nat)
    BY NatLessThanWellFounded
  <1> DEFINE less == OpToRel(<, Nat)
  <1>3. \A x1, y1 \in Nat : x1 < y1 => <<x1, y1>> \in less
    BY DEF OpToRel
  <1> HIDE DEF less
  <1>4. PICK b \in Inactive : \A c \in Inactive : ~(<<c, b>> \in less)
    BY <1>1, <1>2, WFMin DEF less
  <1>5. ASSUME NEW c \in Inactive
        PROVE  b <= c
    <2>1. b \in Nat /\ c \in Nat /\ ~(c < b)
      BY <1>1, <1>3, <1>4
    <2> QED BY <2>1
  <1> QED BY <1>5 DEF Lowest

CallRecords == [mbox : Mailboxes, msg : Messages, max : Int, i : Nat]

LEMMA CallType ==
    ASSUME NEW b \in Mailboxes, NEW m \in Messages, NEW max \in Int
    PROVE  Args(b, m, max) \in CallRecords
  BY DEF Args, CallRecords

-----------------------------------------------------------------------------
(* TypeOK, one lemma for each action. *)

LEMMA CreateType ==
    ASSUME TypeOK, NEW p \in Procs, NEW n \in Int, NEW size \in Int,
           MboxCreate(p, n, size)
    PROVE  TypeOK'
  <1>1. CASE Fail(p, -1)
    BY <1>1, FailType
  <1>2. CASE /\ n \in 0..MAXSLOTS /\ size \in 0..MAX_MESSAGE /\ Inactive # {}
             /\ isActive' = [isActive EXCEPT ![Lowest] = TRUE]
             /\ numSlots' = [numSlots EXCEPT ![Lowest] = n]
             /\ slotSize' = [slotSize EXCEPT ![Lowest] = size]
             /\ consumers' = [consumers EXCEPT ![Lowest] = NULL]
             /\ hasQueue' = [hasQueue EXCEPT ![Lowest] = TRUE]
             /\ slotQueue' = [slotQueue EXCEPT ![Lowest] = <<>>]
             /\ Return(p, Lowest, NoMessage)
             /\ UNCHANGED <<slots, blockedProducers, blockedConsumers, running>>
    <2>1. Lowest \in Int
      BY <1>2, LowestInactive DEF Mailboxes, Inactive
    <2>2. ControlOK'
      BY <1>2, <2>1, ReturnType DEF Messages
    <2> QED BY EmptySeqs, <1>2, <2>2 DEF TypeOK, ControlOK, slots, running
  <1> QED BY <1>1, <1>2 DEF MboxCreate, CreateValid

LEMMA UnblockNextType ==
    ASSUME TypeOK, NEW p \in Procs, NEW list, UnblockNext(p, list)
    PROVE  TypeOK'
  <1>1. RunningOK'
    BY UnblockType DEF UnblockNext, TypeOK, RunningOK
  <1>2. call' \in [Procs -> CallRecords]
    <2>1. call \in [Procs -> CallRecords] /\ call[p].i + 1 \in Nat
      BY DEF TypeOK, CallRecords
    <2>2. call' = [call EXCEPT ![p].i = call[p].i + 1]
      BY DEF UnblockNext
    <2> QED BY <2>1, <2>2 DEF CallRecords
  <1> QED BY <1>1, <1>2
          DEF UnblockNext, TypeOK, RunningOK, CallRecords, boxes, queues, slots, waiting

LEMMA GoToType ==
    ASSUME TypeOK, NEW p \in Procs, NEW seg \in Segments, GoTo(p, seg)
    PROVE  ControlOK' /\ RunningOK'
  <1>1. call' \in [Procs -> CallRecords]
    <2>1. call \in [Procs -> CallRecords]
      BY DEF TypeOK, CallRecords
    <2>2. [call[p] EXCEPT !.i = 1] \in CallRecords
      BY <2>1 DEF CallRecords
    <2>3. call' = [call EXCEPT ![p] = [call[p] EXCEPT !.i = 1]]
      BY DEF GoTo
    <2> QED BY <2>1, <2>2, <2>3
  <1>2. pc' \in [Procs -> Segments] /\ result' = result
    BY DEF GoTo, TypeOK
  <1>3. RunningOK'
    BY DEF GoTo, TypeOK, RunningOK, running
  <1> QED BY <1>1, <1>2, <1>3 DEF TypeOK, ControlOK, CallRecords

LEMMA ReleaseType ==
    ASSUME TypeOK, NEW p \in Procs
    PROVE  /\ \A b : MboxRelease(p, b) => TypeOK'
           /\ ReleaseProducers(p) => TypeOK'
           /\ ReleaseConsumers(p) => TypeOK'
           /\ ReleaseClear(p) => TypeOK'
           /\ ReleaseFinish(p) => TypeOK'
  <1>0. call[p].mbox \in Mailboxes
    BY DEF TypeOK
  <1>1. ASSUME NEW b, MboxRelease(p, b)
        PROVE  TypeOK'
    <2>1. CASE Fail(p, -1)
      BY <2>1, FailType
    <2>2. CASE /\ Valid(b)
               /\ isActive' = [isActive EXCEPT ![b] = FALSE]
               /\ pc' = [pc EXCEPT ![p] = "relProducers"]
               /\ call' = [call EXCEPT ![p] = Args(b, NoMessage, 0)]
               /\ UNCHANGED <<numSlots, slotSize, queues, slots, waiting, running, result>>
      <3>1. NoMessage \in Messages /\ 0 \in Int
        BY DEF Messages
      <3>2. b \in Mailboxes
        BY <2>2 DEF Valid
      <3>3. Args(b, NoMessage, 0) \in CallRecords
        BY <3>1, <3>2, CallType
      <3>4. call' \in [Procs -> CallRecords]
        BY <2>2, <3>3 DEF TypeOK, CallRecords
      <3> QED BY <2>2, <3>4 DEF TypeOK, CallRecords, Segments, queues, slots, waiting, running
    <2> QED BY <1>1, <2>1, <2>2 DEF MboxRelease
  <1>2. ASSUME ReleaseProducers(p)
        PROVE  TypeOK'
    <2>1. CASE UnblockNext(p, blockedProducers[call[p].mbox])
      BY <2>1, UnblockNextType
    <2>2. CASE /\ blockedProducers' = [blockedProducers EXCEPT ![call[p].mbox] = <<>>]
               /\ GoTo(p, "relConsumers")
               /\ UNCHANGED <<consumers, blockedConsumers>>
      <3>1. ControlOK' /\ RunningOK'
        BY <2>2, GoToType DEF Segments
      <3> QED BY EmptySeqs, <2>2, <3>1 DEF GoTo, TypeOK, ControlOK, RunningOK, boxes, queues, slots
    <2> QED BY <1>2, <2>1, <2>2 DEF ReleaseProducers
  <1>3. ASSUME ReleaseConsumers(p)
        PROVE  TypeOK'
    <2>1. CASE UnblockNext(p, blockedConsumers[call[p].mbox])
      BY <2>1, UnblockNextType
    <2>2. CASE /\ blockedConsumers' = [blockedConsumers EXCEPT ![call[p].mbox] = <<>>]
               /\ GoTo(p, "relFinish")
               /\ UNCHANGED <<consumers, blockedProducers>>
      <3>1. ControlOK' /\ RunningOK'
        BY <2>2, GoToType DEF Segments
      <3> QED BY EmptySeqs, <2>2, <3>1 DEF GoTo, TypeOK, ControlOK, RunningOK, boxes, queues, slots
    <2>3. CASE /\ Unblock(p, consumers[call[p].mbox])
               /\ pc' = [pc EXCEPT ![p] = "relClear"]
               /\ UNCHANGED <<boxes, queues, slots, waiting, call, result>>
      <3>1. RunningOK'
        BY <2>3, UnblockType DEF TypeOK, RunningOK
      <3> QED BY <2>3, <3>1
              DEF TypeOK, RunningOK, Segments, boxes, queues, slots, waiting
    <2>4. CASE GoTo(p, "relFinish") /\ UNCHANGED waiting
      <3>1. ControlOK' /\ RunningOK'
        BY <2>4, GoToType DEF Segments
      <3> QED BY <2>4, <3>1
              DEF GoTo, TypeOK, ControlOK, RunningOK, boxes, queues, slots, waiting
    <2> QED BY <1>3, <2>1, <2>2, <2>3, <2>4 DEF ReleaseConsumers
  <1>4. ASSUME ReleaseClear(p)
        PROVE  TypeOK'
    <2>1. GoTo(p, "relFinish") /\ UNCHANGED <<blockedProducers, blockedConsumers>>
      BY <1>4 DEF ReleaseClear
    <2>2. ControlOK' /\ RunningOK'
      BY <2>1, GoToType DEF Segments
    <2>3. consumers' \in [Mailboxes -> Procs \cup {NULL}]
      BY <1>4 DEF ReleaseClear, TypeOK
    <2> QED BY <2>1, <2>2, <2>3 DEF GoTo, TypeOK, ControlOK, RunningOK, boxes, queues, slots
  <1>5. ASSUME ReleaseFinish(p)
        PROVE  TypeOK'
    <2>1. ControlOK'
      BY <1>5, ReturnType DEF ReleaseFinish, Messages
    <2> QED BY EmptySeqs, <1>5, <2>1 DEF ReleaseFinish, TypeOK, ControlOK, boxes, slots, waiting, running
  <1> QED BY <1>1, <1>2, <1>3, <1>4, <1>5

LEMMA SendType ==
    ASSUME TypeOK, NEW p \in Procs, NEW m \in Messages
    PROVE  /\ \A b : WaitForSpace(p, b, m) /\ b \in Mailboxes => TypeOK'
           /\ \A b : Send(p, b, m) => TypeOK'
           /\ \A b : MboxCondSend(p, b, m) => TypeOK'
  <1>0. NoMessage \in Messages
    BY DEF Messages
  <1>1. ASSUME NEW b \in Mailboxes, WaitForSpace(p, b, m)
        PROVE  TypeOK'
    <2>1. RunningOK' /\ ControlOK'
      BY <1>1, BlockMeType, CallType DEF WaitForSpace, Segments, CallRecords
    <2>2. blockedProducers' \in [Mailboxes -> Seq(Procs)]
      BY <1>1, ListBlockedType DEF WaitForSpace, TypeOK
    <2> QED BY <1>1, <2>1, <2>2
            DEF WaitForSpace, TypeOK, RunningOK, ControlOK, boxes, queues, slots
  <1>2. ASSUME NEW b \in Mailboxes, ZeroSend(p, b)
        PROVE  TypeOK'
    <2>1. CASE /\ Unblock(p, consumers[b])
               /\ pc' = [pc EXCEPT ![p] = "zeroWoke"]
               /\ call' = [call EXCEPT ![p] = Args(b, NoMessage, 0)]
               /\ UNCHANGED <<boxes, queues, slots, waiting, result>>
      <3>1. RunningOK'
        BY <2>1, UnblockType DEF TypeOK, RunningOK
      <3>2. call' \in [Procs -> CallRecords]
        <4>1. Args(b, NoMessage, 0) \in CallRecords
          BY <1>0, CallType
        <4>2. call \in [Procs -> CallRecords]
          BY DEF TypeOK, CallRecords
        <4> QED BY <2>1, <4>1, <4>2
      <3>3. pc' \in [Procs -> Segments] /\ result' = result
        BY <2>1 DEF TypeOK, Segments
      <3> HIDE DEF Segments
      <3> QED BY <2>1, <3>1, <3>2, <3>3
              DEF TypeOK, RunningOK, CallRecords, boxes, queues, slots, waiting
    <2>2. CASE /\ blockedProducers' = [blockedProducers EXCEPT ![b] = ListBlocked(@, p)]
               /\ BlockMe(p, "zeroSend", Args(b, NoMessage, 0))
               /\ UNCHANGED <<boxes, queues, slots, consumers, blockedConsumers>>
      <3>1. RunningOK' /\ ControlOK'
        BY <1>0, <2>2, BlockMeType, CallType DEF Segments, CallRecords
      <3>2. blockedProducers' \in [Mailboxes -> Seq(Procs)]
        BY <2>2, ListBlockedType DEF TypeOK
      <3> QED BY <2>2, <3>1, <3>2
              DEF TypeOK, RunningOK, ControlOK, boxes, queues, slots
    <2> QED BY <1>2, <2>1, <2>2 DEF ZeroSend
  <1>3. ASSUME NEW b, Send(p, b, m)
        PROVE  TypeOK'
    BY <1>1, <1>2, <1>3, FailType, DepositType DEF Send, SendValid, Valid
  <1>4. ASSUME NEW b, MboxCondSend(p, b, m)
        PROVE  TypeOK'
    BY <1>4, FailType, DepositType DEF MboxCondSend, SendValid, Valid
  <1> QED BY <1>1, <1>3, <1>4

LEMMA RecvType ==
    ASSUME TypeOK, NEW p \in Procs, NEW max \in Int
    PROVE  /\ \A b : Recv(p, b, max) => TypeOK'
           /\ \A b : MboxCondRecv(p, b, max) => TypeOK'
  <1>0. NoMessage \in Messages
    BY DEF Messages
  <1>1. ASSUME NEW b \in Mailboxes, WaitForMessage(p, b, max)
        PROVE  TypeOK'
    <2>1. RunningOK' /\ ControlOK'
      BY <1>0, <1>1, BlockMeType, CallType DEF WaitForMessage, Segments, CallRecords
    <2>2. blockedConsumers' \in [Mailboxes -> Seq(Procs)]
      BY <1>1, ListBlockedType DEF WaitForMessage, TypeOK
    <2> QED BY <1>1, <2>1, <2>2
            DEF WaitForMessage, TypeOK, RunningOK, ControlOK, boxes, queues, slots
  <1>2. ASSUME NEW b \in Mailboxes, ZeroRecv(p, b)
        PROVE  TypeOK'
    <2>1. CASE /\ wakeupProducer(p, b)
               /\ Return(p, 0, NoMessage)
               /\ UNCHANGED <<boxes, queues, slots, consumers, blockedConsumers>>
      <3>1. ControlOK'
        BY <1>0, <2>1, ReturnType
      <3>2. RunningOK' /\ blockedProducers' \in [Mailboxes -> Seq(Procs)]
        BY <2>1, WakeType
      <3> QED BY <2>1, <3>1, <3>2 DEF TypeOK, RunningOK, ControlOK, boxes, queues, slots
    <2>2. CASE /\ blockedConsumers' = [blockedConsumers EXCEPT ![b] = ListBlocked(@, p)]
               /\ consumers' = [consumers EXCEPT ![b] = p]
               /\ BlockMe(p, "zeroRecv", Args(b, NoMessage, 0))
               /\ UNCHANGED <<boxes, queues, slots, blockedProducers>>
      <3>1. RunningOK' /\ ControlOK'
        BY <1>0, <2>2, BlockMeType, CallType DEF Segments, CallRecords
      <3>2. blockedConsumers' \in [Mailboxes -> Seq(Procs)]
        BY <2>2, ListBlockedType DEF TypeOK
      <3> QED BY <2>2, <3>1, <3>2
              DEF TypeOK, RunningOK, ControlOK, boxes, queues, slots
    <2> QED BY <1>2, <2>1, <2>2 DEF ZeroRecv
  <1>3. ASSUME NEW b \in Mailboxes, slotQueue[b] # <<>>, Take(p, b, max), UNCHANGED consumers
        PROVE  TypeOK'
    BY <1>3, TakeType DEF TypeOK
  <1>4. ASSUME NEW b, Recv(p, b, max)
        PROVE  TypeOK'
    BY <1>1, <1>2, <1>3, <1>4, FailType DEF Recv, RecvValid, Valid
  <1>5. ASSUME NEW b, MboxCondRecv(p, b, max)
        PROVE  TypeOK'
    BY <1>3, <1>5, FailType DEF MboxCondRecv, RecvValid, Valid
  <1> QED BY <1>4, <1>5

LEMMA ResumeType ==
    ASSUME TypeOK, NEW p \in Procs, Resume(p)
    PROVE  TypeOK'
  <1>0. call[p].mbox \in Mailboxes /\ call[p].msg \in Messages /\ call[p].max \in Int
    BY DEF TypeOK
  <1>1. CASE SendResume(p)
    BY <1>0, <1>1, FailType, SendType, DepositType DEF SendResume
  <1>2. CASE RecvResume(p)
    <2>1. CASE Fail(p, -1)
      BY <2>1, FailType
    <2>2. CASE /\ consumers' = [consumers EXCEPT ![call[p].mbox] = NULL]
               /\ Return(p, -1, NoMessage)
               /\ UNCHANGED <<boxes, queues, slots, blockedProducers,
                              blockedConsumers, running>>
      <3>1. ControlOK'
        BY <2>2, ReturnType DEF Messages
      <3> QED BY <2>2, <3>1 DEF TypeOK, ControlOK, boxes, queues, slots, running
    <2>3. CASE /\ consumers' = [consumers EXCEPT ![call[p].mbox] = NULL]
               /\ slotQueue[call[p].mbox] # <<>>
               /\ Take(p, call[p].mbox, call[p].max)
      <3>1. consumers' \in [Mailboxes -> Procs \cup {NULL}]
        BY <2>3 DEF TypeOK
      <3> QED BY <1>0, <2>3, <3>1, TakeType
    <2> QED BY <1>2, <2>1, <2>2, <2>3 DEF RecvResume
  <1>3. CASE ZeroResume(p)
    BY <1>3, FailType DEF ZeroResume
  <1>4. CASE ZeroSendWoke(p)
    <2>1. ControlOK'
      BY <1>4, ReturnType DEF ZeroSendWoke, Messages
    <2> QED BY <1>4, <2>1
            DEF ZeroSendWoke, TypeOK, ControlOK, boxes, queues, slots, running
  <1> QED BY <1>1, <1>2, <1>3, <1>4, ReleaseType DEF Resume

LEMMA InvokeType ==
    ASSUME TypeOK, NEW p \in Procs, Invoke(p)
    PROVE  TypeOK'
  <1>1. \A n \in SlotCounts, size \in SlotSizes : n \in Int /\ size \in Int
    BY InputsAssumption
  <1>2. Msgs \subseteq Messages /\ TickMsg \in Messages /\ IntSize \in Int
    BY DEF Messages, IntSize
  <1>3. BufSizes \subseteq Int
    BY InputsAssumption
  <1>4. CASE \E n \in SlotCounts, size \in SlotSizes : MboxCreate(p, n, size)
    BY <1>1, <1>4, CreateType
  <1>5. CASE \E b \in Targets : MboxRelease(p, b)
    BY <1>5, ReleaseType
  <1>6. CASE \E b \in Targets, m \in Msgs : MboxSend(p, b, m) \/ MboxCondSend(p, b, m)
    BY <1>2, <1>6, SendType DEF MboxSend
  <1>7. CASE \E b \in Targets, max \in BufSizes : MboxRecv(p, b, max) \/ MboxCondRecv(p, b, max)
    BY <1>3, <1>7, RecvType DEF MboxRecv
  <1>8. CASE waitDevice(p)
    BY <1>2, <1>8, RecvType DEF waitDevice
  <1>9. CASE clock_interrupt_handler(p)
    BY <1>2, <1>9, SendType DEF clock_interrupt_handler
  <1> QED BY <1>4, <1>5, <1>6, <1>7, <1>8, <1>9 DEF Invoke

LEMMA NextType == TypeOK /\ [Next]_vars => TypeOK'
  <1> SUFFICES ASSUME TypeOK, [Next]_vars PROVE TypeOK'
    OBVIOUS
  <1>1. CASE UNCHANGED vars
    BY <1>1 DEF TypeOK, vars, boxes, queues, slots, waiting, running, control
  <1>2. CASE Next
    BY <1>2, InvokeType, ResumeType DEF Next
  <1> QED BY <1>1, <1>2

(* Every variable keeps its type, whatever the processes do. *)
THEOREM TypeCorrect == Spec => []TypeOK
  BY InitType, NextType, PTL DEF Spec

-----------------------------------------------------------------------------
(* SlotIntegrity is inductive relative to TypeOK.  Only four kinds of step *)
(* touch what it speaks of: a deposit, a take, the clearing of a queue and *)
(* the deactivation of a mailbox.                                          *)

LEMMA InitSlots == Init => SlotIntegrity
  <1> SUFFICES ASSUME Init PROVE SlotIntegrity
    OBVIOUS
  <1>1. Len(freeSlots) = MAXSLOTS /\ \A i \in 1..MAXSLOTS : freeSlots[i] = i - 1
    BY SizesAssumption DEF Init
  <1>2. FreeSlotsDistinct
    BY <1>1, SizesAssumption DEF FreeSlotsDistinct, Injective, Init, Slots
  <1>3. \A b \in Mailboxes : slotQueue[b] = <<>> /\ Len(slotQueue[b]) = 0 /\ numSlots[b] >= 0
    BY EmptySeq DEF Init
  <1> QED BY <1>2, <1>3 DEF SlotIntegrity, QueuedSlotsOwned, SlotCapacity, Injective

LEMMA FrameSlots ==
    ASSUME SlotIntegrity, UNCHANGED <<slotQueue, slots, numSlots>>,
           \A b \in Mailboxes : isActive'[b] => isActive[b]
    PROVE  SlotIntegrity'
  BY DEF SlotIntegrity, FreeSlotsDistinct, QueuedSlotsOwned, SlotCapacity, Injective, slots

LEMMA ClearSlots ==
    ASSUME TypeOK, SlotIntegrity, NEW b \in Mailboxes,
           slotQueue' = [slotQueue EXCEPT ![b] = <<>>], UNCHANGED slots,
           \A c \in Mailboxes \ {b} : isActive'[c] = isActive[c] /\ numSlots'[c] = numSlots[c],
           numSlots'[b] >= 0
    PROVE  SlotIntegrity'
  <1>1. slotQueue'[b] = <<>> /\ Len(slotQueue'[b]) = 0
    BY EmptySeq DEF TypeOK
  <1>2. \A c \in Mailboxes \ {b} : slotQueue'[c] = slotQueue[c]
    BY DEF TypeOK
  <1>3. FreeSlotsDistinct'
    BY DEF SlotIntegrity, FreeSlotsDistinct, Injective, slots
  <1>4. QueuedSlotsOwned'
    BY <1>1, <1>2 DEF SlotIntegrity, QueuedSlotsOwned, Injective, slots
  <1>5. SlotCapacity'
    BY <1>1, <1>2 DEF SlotIntegrity, SlotCapacity
  <1> QED BY <1>3, <1>4, <1>5 DEF SlotIntegrity

(* A sequence without repetition stays one when its last element is        *)
(* dropped, when its first is, and when a new element is appended.         *)
LEMMA InjectiveEnds ==
    ASSUME NEW S, NEW s \in Seq(S), Injective(s)
    PROVE  /\ s # <<>> => /\ Injective(Front(s))
                          /\ \A i \in 1..Len(Front(s)) : Front(s)[i] # Last(s)
                          /\ Injective(Tail(s))
                          /\ \A i \in 1..Len(Tail(s)) : Tail(s)[i] # Head(s)
           /\ \A e \in S : (\A i \in 1..Len(s) : s[i] # e) => Injective(Append(s, e))
  <1>1. ASSUME s # <<>>
        PROVE  /\ Injective(Front(s))
               /\ \A i \in 1..Len(Front(s)) : Front(s)[i] # Last(s)
               /\ Injective(Tail(s))
               /\ \A i \in 1..Len(Tail(s)) : Tail(s)[i] # Head(s)
    <2>1. /\ Injective(Front(s))
          /\ \A i \in 1..Len(Front(s)) : Front(s)[i] # Last(s)
      <3>1. /\ Len(s) \in Nat /\ Len(s) > 0 /\ Last(s) = s[Len(s)]
            /\ Len(Front(s)) = Len(s) - 1
            /\ \A i \in 1..(Len(s) - 1) : Front(s)[i] = s[i]
        BY <1>1, FrontLast
      <3>2. \A i, j \in 1..Len(s) : s[i] = s[j] => i = j
        BY DEF Injective
      <3>3. ASSUME NEW i \in 1..Len(Front(s))
            PROVE  /\ i \in 1..Len(s) /\ i # Len(s) /\ Len(s) \in 1..Len(s)
                   /\ Front(s)[i] = s[i]
        BY <3>1
      <3>4. \A i \in 1..Len(Front(s)) : Front(s)[i] # Last(s)
        BY <3>1, <3>2, <3>3
      <3> QED BY <3>2, <3>3, <3>4 DEF Injective
    <2>2. /\ Injective(Tail(s))
          /\ \A i \in 1..Len(Tail(s)) : Tail(s)[i] # Head(s)
      BY <1>1, HeadTail DEF Injective
    <2> QED BY <2>1, <2>2
  <1>2. ASSUME NEW e \in S, \A i \in 1..Len(s) : s[i] # e
        PROVE  Injective(Append(s, e))
    BY <1>2 DEF Injective
  <1> QED BY <1>1, <1>2

LEMMA DepositSlots ==
    ASSUME TypeOK, SlotIntegrity, NEW p \in Procs, NEW b \in Mailboxes,
           NEW m \in Messages, Len(slotQueue[b]) < numSlots[b] \/ numSlots[b] = 0,
           Deposit(p, b, m)
    PROVE  SlotIntegrity'
  <1>1. CASE CannotStore(b)
    BY <1>1, FrameSlots DEF Deposit, boxes, queues
  <1>2. CASE ~CannotStore(b)
    <2> DEFINE s == Last(freeSlots)
    <2>1. /\ freeSlots' = Front(freeSlots)
          /\ mailSlots' = [mailSlots EXCEPT ![s] =
                             [inUse |-> TRUE, mailboxID |-> b, message |-> m]]
          /\ slotQueue' = [slotQueue EXCEPT ![b] = Append(@, s)]
          /\ UNCHANGED boxes
      BY <1>2 DEF Deposit
    <2>2. freeSlots \in Seq(Slots) /\ freeSlots # <<>> /\ slotQueue[b] \in Seq(Slots)
      BY <1>2 DEF TypeOK, CannotStore
    <2>3. /\ s \in Slots
          /\ s = freeSlots[Len(freeSlots)] /\ Len(freeSlots) \in Nat /\ Len(freeSlots) > 0
          /\ Len(Front(freeSlots)) = Len(freeSlots) - 1
          /\ \A i \in 1..(Len(freeSlots) - 1) : Front(freeSlots)[i] = freeSlots[i]
      BY <2>2, FrontLast
    <2>4. ~mailSlots[s].inUse
      BY <2>3 DEF SlotIntegrity, FreeSlotsDistinct
    <2>5. /\ Injective(Front(freeSlots))
          /\ \A i \in 1..Len(Front(freeSlots)) : Front(freeSlots)[i] # s
      BY <2>2, InjectiveEnds DEF SlotIntegrity, FreeSlotsDistinct
    <2>6. \A c \in Mailboxes : \A i \in 1..Len(slotQueue[c]) : slotQueue[c][i] # s
      BY <2>4 DEF SlotIntegrity, QueuedSlotsOwned
    <2> HIDE DEF s
    <2>10. /\ \A x \in Slots \ {s} : mailSlots'[x] = mailSlots[x]
           /\ mailSlots'[s] = [inUse |-> TRUE, mailboxID |-> b, message |-> m]
      <3> DEFINE new == [inUse |-> TRUE, mailboxID |-> b, message |-> m]
      <3>1. DOMAIN mailSlots = Slots
        BY DEF TypeOK
      <3>2. s \in Slots
        BY <2>3
      <3>3. mailSlots' = [mailSlots EXCEPT ![s] = new]
        BY <2>1
      <3> HIDE DEF new
      <3>4. mailSlots'[s] = new
        BY <3>1, <3>2, <3>3
      <3>5. ASSUME NEW x \in Slots, x # s
            PROVE  mailSlots'[x] = mailSlots[x]
        BY <3>1, <3>3, <3>5
      <3> QED BY <3>4, <3>5 DEF new
    <2>11. \A c \in Mailboxes : /\ slotQueue[c] \in Seq(Slots)
                                /\ \A i \in 1..Len(slotQueue[c]) : slotQueue[c][i] \in Slots
      <3>1. \A c \in Mailboxes : slotQueue[c] \in Seq(Slots)
        BY DEF TypeOK
      <3>2. ASSUME NEW q \in Seq(Slots), NEW i \in 1..Len(q)
            PROVE  q[i] \in Slots
        OBVIOUS
      <3> QED BY <3>1, <3>2
    <2>12. slotQueue'[b] = Append(slotQueue[b], s)
      BY <2>1 DEF TypeOK
    <2>7. FreeSlotsDistinct'
      <3>1. \A i \in 1..Len(Front(freeSlots)) : Front(freeSlots)[i] \in Slots
        BY <2>2, <2>3
      <3>2. \A i \in 1..Len(Front(freeSlots)) : ~mailSlots'[Front(freeSlots)[i]].inUse
        BY <2>3, <2>5, <2>10, <3>1 DEF SlotIntegrity, FreeSlotsDistinct
      <3> QED BY <2>1, <2>5, <3>2 DEF FreeSlotsDistinct
    <2>8. QueuedSlotsOwned'
      <3>1. ASSUME NEW c \in Mailboxes, c # b
            PROVE  /\ Injective(slotQueue'[c])
                   /\ \A i \in 1..Len(slotQueue'[c]) :
                        /\ mailSlots'[slotQueue'[c][i]].inUse
                        /\ mailSlots'[slotQueue'[c][i]].mailboxID = c
        <4>1. slotQueue'[c] = slotQueue[c] /\ slotQueue[c] \in Seq(Slots)
          BY <2>1, <3>1 DEF TypeOK
        <4>2. \A i \in 1..Len(slotQueue[c]) :
                mailSlots'[slotQueue[c][i]] = mailSlots[slotQueue[c][i]]
          BY <2>6, <2>10, <2>11
        <4> QED BY <4>1, <4>2 DEF SlotIntegrity, QueuedSlotsOwned
      <3>2. Injective(slotQueue'[b])
        BY <2>2, <2>3, <2>6, <2>12, InjectiveEnds DEF SlotIntegrity, QueuedSlotsOwned
      <3>3. ASSUME NEW i \in 1..Len(slotQueue'[b])
            PROVE  /\ mailSlots'[slotQueue'[b][i]].inUse
                   /\ mailSlots'[slotQueue'[b][i]].mailboxID = b
        <4>1. CASE i = Len(slotQueue[b]) + 1
          <5>1. slotQueue'[b][i] = s
            BY <2>2, <2>3, <2>12, <4>1
          <5> QED BY <2>10, <5>1
        <4>2. CASE i \in 1..Len(slotQueue[b])
          <5>1. slotQueue'[b][i] = slotQueue[b][i]
            BY <2>2, <2>3, <2>12, <4>2
          <5>2. mailSlots'[slotQueue[b][i]] = mailSlots[slotQueue[b][i]]
            BY <2>6, <2>10, <2>11, <4>2
          <5> QED BY <4>2, <5>1, <5>2 DEF SlotIntegrity, QueuedSlotsOwned
        <4>3. i = Len(slotQueue[b]) + 1 \/ i \in 1..Len(slotQueue[b])
          BY <2>2, <2>3, <2>12
        <4> QED BY <4>1, <4>2, <4>3
      <3> QED BY <3>1, <3>2, <3>3 DEF QueuedSlotsOwned
    <2>9. SlotCapacity'
      <3>1. numSlots[b] # 0 /\ Len(slotQueue[b]) + 1 <= numSlots[b]
        BY <1>2, <2>2 DEF CannotStore, TypeOK
      <3>2. Len(slotQueue'[b]) <= numSlots'[b]
        BY <2>1, <2>2, <2>3, <3>1 DEF TypeOK, boxes
      <3>3. \A c \in Mailboxes \ {b} : slotQueue'[c] = slotQueue[c]
        BY <2>1 DEF TypeOK
      <3> QED BY <2>1, <3>2, <3>3 DEF SlotIntegrity, SlotCapacity, boxes
    <2> QED BY <2>7, <2>8, <2>9 DEF SlotIntegrity
  <1> QED BY <1>1, <1>2

LEMMA SlotQueueType ==
    ASSUME TypeOK
    PROVE  \A c \in Mailboxes : /\ slotQueue[c] \in Seq(Slots)
                               /\ \A i \in 1..Len(slotQueue[c]) : slotQueue[c][i] \in Slots
  BY DEF TypeOK

LEMMA TakeSlots ==
    ASSUME TypeOK, SlotIntegrity, NEW p \in Procs, NEW b \in Mailboxes, NEW max \in Int,
           slotQueue[b] # <<>>, Take(p, b, max)
    PROVE  SlotIntegrity'
  <1> DEFINE s == Head(slotQueue[b])
  <1>1. \A c \in Mailboxes : /\ slotQueue[c] \in Seq(Slots)
                             /\ \A i \in 1..Len(slotQueue[c]) : slotQueue[c][i] \in Slots
    BY SlotQueueType
  <1>2. /\ s \in Slots /\ s = slotQueue[b][1]
        /\ Len(slotQueue[b]) \in Nat /\ Len(slotQueue[b]) > 0
        /\ Len(Tail(slotQueue[b])) = Len(slotQueue[b]) - 1
        /\ \A i \in 1..(Len(slotQueue[b]) - 1) : Tail(slotQueue[b])[i] = slotQueue[b][i + 1]
    BY <1>1, HeadTail
  <1>3. /\ slotQueue'[b] = Tail(slotQueue[b])
        /\ \A c \in Mailboxes \ {b} : slotQueue'[c] = slotQueue[c]
        /\ UNCHANGED boxes
    BY DEF Take, TypeOK
  <1>4. mailSlots[s].inUse /\ mailSlots[s].mailboxID = b
    BY <1>2 DEF SlotIntegrity, QueuedSlotsOwned
  <1>5. /\ \A c \in Mailboxes : Injective(slotQueue'[c])
        /\ \A c \in Mailboxes : \A i \in 1..Len(slotQueue'[c]) :
             /\ slotQueue'[c][i] \in Slots /\ slotQueue'[c][i] # s
             /\ mailSlots[slotQueue'[c][i]].inUse
             /\ mailSlots[slotQueue'[c][i]].mailboxID = c
    <2>1. ASSUME NEW c \in Mailboxes, c # b
          PROVE  /\ Injective(slotQueue'[c])
                 /\ \A i \in 1..Len(slotQueue'[c]) :
                      /\ slotQueue'[c][i] \in Slots /\ slotQueue'[c][i] # s
                      /\ mailSlots[slotQueue'[c][i]].inUse
                      /\ mailSlots[slotQueue'[c][i]].mailboxID = c
      BY <1>1, <1>3, <1>4, <2>1 DEF SlotIntegrity, QueuedSlotsOwned
    <2>2. /\ Injective(Tail(slotQueue[b]))
          /\ \A i \in 1..Len(Tail(slotQueue[b])) : Tail(slotQueue[b])[i] # s
      BY <1>1, InjectiveEnds DEF SlotIntegrity, QueuedSlotsOwned
    <2>3. ASSUME NEW i \in 1..Len(Tail(slotQueue[b]))
          PROVE  /\ Tail(slotQueue[b])[i] \in Slots
                 /\ mailSlots[Tail(slotQueue[b])[i]].inUse
                 /\ mailSlots[Tail(slotQueue[b])[i]].mailboxID = b
      <3>1. i + 1 \in 1..Len(slotQueue[b]) /\ Tail(slotQueue[b])[i] = slotQueue[b][i + 1]
        BY <1>2
      <3> QED BY <1>1, <3>1 DEF SlotIntegrity, QueuedSlotsOwned
    <2>4. Injective(slotQueue'[b]) /\ \A i \in 1..Len(slotQueue'[b]) :
             /\ slotQueue'[b][i] \in Slots /\ slotQueue'[b][i] # s
             /\ mailSlots[slotQueue'[b][i]].inUse
             /\ mailSlots[slotQueue'[b][i]].mailboxID = b
      <3> HIDE DEF s
      <3> QED BY <1>3, <2>2, <2>3
    <2> HIDE DEF s
    <2> QED BY <2>1, <2>4
  <1>6. SlotCapacity'
    <2>1. numSlots[b] \in Nat /\ (isActive[b] => Len(Tail(slotQueue[b])) <= numSlots[b])
      BY <1>2, SizesAssumption DEF TypeOK, SlotIntegrity, SlotCapacity
    <2> QED BY <1>3, <2>1 DEF SlotIntegrity, SlotCapacity, boxes
  <1> HIDE DEF s
  <1>7. CASE UNCHANGED slots
    BY <1>5, <1>6, <1>7 DEF SlotIntegrity, QueuedSlotsOwned, FreeSlotsDistinct, slots
  <1>8. CASE /\ mailSlots' = [mailSlots EXCEPT ![s].inUse = FALSE]
             /\ freeSlots' = Append(freeSlots, s)
    <2>1. freeSlots \in Seq(Slots) /\ \A i \in 1..Len(freeSlots) : freeSlots[i] \in Slots
      BY DEF TypeOK
    <2>2. /\ \A x \in Slots \ {s} : mailSlots'[x] = mailSlots[x]
          /\ ~mailSlots'[s].inUse
      BY <1>2, <1>8 DEF TypeOK
    <2>3. \A i \in 1..Len(freeSlots) : freeSlots[i] # s
      BY <1>4 DEF SlotIntegrity, FreeSlotsDistinct
    <2>4. Injective(freeSlots')
      BY <1>2, <1>8, <2>1, <2>3, InjectiveEnds DEF SlotIntegrity, FreeSlotsDistinct
    <2>5. \A i \in 1..Len(freeSlots') : ~mailSlots'[freeSlots'[i]].inUse
      <3>1. ASSUME NEW i \in 1..Len(freeSlots')
            PROVE  \/ freeSlots'[i] = s
                   \/ i \in 1..Len(freeSlots) /\ freeSlots'[i] = freeSlots[i]
        BY <1>2, <1>8, <2>1
      <3> QED BY <2>1, <2>2, <2>3, <3>1 DEF SlotIntegrity, FreeSlotsDistinct
    <2>6. QueuedSlotsOwned'
      BY <1>5, <2>2 DEF QueuedSlotsOwned
    <2> QED BY <1>6, <2>4, <2>5, <2>6 DEF SlotIntegrity, FreeSlotsDistinct
  <1> QED BY <1>7, <1>8 DEF Take, s

(* Every action that leaves the queues, the slots and the sizes alone. *)
Quiet == /\ UNCHANGED <<slotQueue, slots, numSlots>>
         /\ \A b \in Mailboxes : isActive'[b] => isActive[b]

LEMMA SendSlots ==
    ASSUME TypeOK, SlotIntegrity, NEW p \in Procs, NEW m \in Messages
    PROVE  /\ \A b : Send(p, b, m) => SlotIntegrity'
           /\ \A b : MboxCondSend(p, b, m) => SlotIntegrity'
           /\ SendResume(p) => SlotIntegrity'
  <1>1. \A b : WaitForSpace(p, b, m) \/ ZeroSend(p, b) => Quiet
    BY DEF WaitForSpace, ZeroSend, Quiet, boxes, queues, slots
  <1>2. \A rc : Fail(p, rc) => Quiet
    BY DEF Fail, Quiet, boxes, queues, slots
  <1>3. \A b \in Mailboxes : ~Full(b) => Len(slotQueue[b]) < numSlots[b]
    BY SizesAssumption DEF Full, TypeOK
  <1>4. ASSUME NEW b, Send(p, b, m)
        PROVE  SlotIntegrity'
    BY <1>1, <1>2, <1>3, <1>4, FrameSlots, DepositSlots DEF Send, SendValid, Valid, Quiet
  <1>5. ASSUME NEW b, MboxCondSend(p, b, m)
        PROVE  SlotIntegrity'
    BY <1>2, <1>3, <1>5, FrameSlots, DepositSlots DEF MboxCondSend, SendValid, Valid, Quiet
  <1>6. ASSUME SendResume(p)
        PROVE  SlotIntegrity'
    <2>1. call[p].mbox \in Mailboxes /\ call[p].msg \in Messages
      BY DEF TypeOK
    <2>2. CASE Fail(p, -1)
      BY <1>2, <2>2, FrameSlots DEF Quiet
    <2>3. CASE WaitForSpace(p, call[p].mbox, call[p].msg)
      BY <2>3, FrameSlots DEF WaitForSpace, boxes, queues, slots
    <2>4. CASE /\ ~(Full(call[p].mbox) /\ numSlots[call[p].mbox] > 0)
               /\ Deposit(p, call[p].mbox, call[p].msg)
      <3>1. numSlots[call[p].mbox] \in Nat
        BY <2>1, SizesAssumption DEF TypeOK
      <3> QED BY <1>3, <2>1, <2>4, <3>1, DepositSlots
    <2> QED BY <1>6, <2>2, <2>3, <2>4 DEF SendResume
  <1> QED BY <1>4, <1>5, <1>6

LEMMA RecvSlots ==
    ASSUME TypeOK, SlotIntegrity, NEW p \in Procs, NEW max \in Int
    PROVE  /\ \A b : Recv(p, b, max) => SlotIntegrity'
           /\ \A b : MboxCondRecv(p, b, max) => SlotIntegrity'
           /\ RecvResume(p) => SlotIntegrity'
  <1>1. \A b : WaitForMessage(p, b, max) \/ ZeroRecv(p, b) => Quiet
    BY DEF WaitForMessage, ZeroRecv, Quiet, boxes, queues, slots
  <1>2. \A rc : Fail(p, rc) => Quiet
    BY DEF Fail, Quiet, boxes, queues, slots
  <1>3. ASSUME NEW b, Recv(p, b, max)
        PROVE  SlotIntegrity'
    BY <1>1, <1>2, <1>3, FrameSlots, TakeSlots DEF Recv, RecvValid, Valid, Quiet
  <1>4. ASSUME NEW b, MboxCondRecv(p, b, max)
        PROVE  SlotIntegrity'
    BY <1>2, <1>4, FrameSlots, TakeSlots DEF MboxCondRecv, RecvValid, Valid, Quiet
  <1>5. ASSUME RecvResume(p)
        PROVE  SlotIntegrity'
    <2>1. call[p].mbox \in Mailboxes /\ call[p].max \in Int
      BY DEF TypeOK
    <2>2. CASE Fail(p, -1)
      BY <1>2, <2>2, FrameSlots DEF Quiet
    <2>3. CASE UNCHANGED <<boxes, queues, slots>>
      BY <2>3, FrameSlots DEF boxes, queues
    <2>4. CASE slotQueue[call[p].mbox] # <<>> /\ Take(p, call[p].mbox, call[p].max)
      BY <2>1, <2>4, TakeSlots
    <2> QED BY <1>5, <2>2, <2>3, <2>4 DEF RecvResume
  <1> QED BY <1>3, <1>4, <1>5

LEMMA LifecycleSlots ==
    ASSUME TypeOK, SlotIntegrity, NEW p \in Procs
    PROVE  /\ \A n, size : MboxCreate(p, n, size) => SlotIntegrity'
           /\ \A b : MboxRelease(p, b) => SlotIntegrity'
           /\ ReleaseProducers(p) \/ ReleaseConsumers(p) \/ ReleaseClear(p) => SlotIntegrity'
           /\ ReleaseFinish(p) => SlotIntegrity'
  <1>1. ASSUME NEW n, NEW size, MboxCreate(p, n, size)
        PROVE  SlotIntegrity'
    <2>1. CASE Fail(p, -1)
      BY <2>1, FrameSlots DEF Fail, boxes, queues
    <2>2. CASE /\ n \in 0..MAXSLOTS /\ Inactive # {}
               /\ isActive' = [isActive EXCEPT ![Lowest] = TRUE]
               /\ numSlots' = [numSlots EXCEPT ![Lowest] = n]
               /\ slotQueue' = [slotQueue EXCEPT ![Lowest] = <<>>]
               /\ UNCHANGED slots
      <3>1. Lowest \in Mailboxes
        BY <2>2, LowestInactive DEF Inactive
      <3>2. \A c \in Mailboxes \ {Lowest} : isActive'[c] = isActive[c] /\ numSlots'[c] = numSlots[c]
        BY <2>2 DEF TypeOK
      <3>3. numSlots'[Lowest] >= 0
        BY <2>2, <3>1 DEF TypeOK
      <3> QED BY <2>2, <3>1, <3>2, <3>3, ClearSlots
    <2> QED BY <1>1, <2>1, <2>2 DEF MboxCreate, CreateValid
  <1>2. ASSUME NEW b, MboxRelease(p, b)
        PROVE  SlotIntegrity'
    <2>1. Quiet
      BY <1>2 DEF MboxRelease, Fail, Quiet, TypeOK, boxes, queues
    <2> QED BY <2>1, FrameSlots DEF Quiet
  <1>3. ASSUME ReleaseProducers(p) \/ ReleaseConsumers(p) \/ ReleaseClear(p)
        PROVE  SlotIntegrity'
    <2>1. UNCHANGED <<boxes, queues, slots>>
      BY <1>3 DEF ReleaseProducers, ReleaseConsumers, ReleaseClear, UnblockNext, GoTo
    <2> QED BY <2>1, FrameSlots DEF boxes, queues
  <1>4. ASSUME ReleaseFinish(p)
        PROVE  SlotIntegrity'
    <2>1. call[p].mbox \in Mailboxes
      BY DEF TypeOK
    <2>2. numSlots[call[p].mbox] >= 0
      BY <2>1, SizesAssumption DEF TypeOK
    <2> QED BY <1>4, <2>1, <2>2, ClearSlots DEF ReleaseFinish, boxes
  <1> QED BY <1>1, <1>2, <1>3, <1>4

LEMMA NextSlots == TypeOK /\ SlotIntegrity /\ [Next]_vars => SlotIntegrity'
  <1> SUFFICES ASSUME TypeOK, SlotIntegrity, [Next]_vars PROVE SlotIntegrity'
    OBVIOUS
  <1>1. CASE UNCHANGED vars
    BY <1>1, FrameSlots DEF vars, boxes, queues
  <1>2. ASSUME NEW p \in Procs, Invoke(p)
        PROVE  SlotIntegrity'
    <2>1. Msgs \subseteq Messages /\ TickMsg \in Messages /\ IntSize \in Int
      BY DEF Messages, IntSize
    <2>2. BufSizes \subseteq Int
      BY InputsAssumption
    <2>3. CASE \/ \E n \in SlotCounts, size \in SlotSizes : MboxCreate(p, n, size)
               \/ \E b \in Targets : MboxRelease(p, b)
      BY <2>3, LifecycleSlots
    <2>4. CASE \/ \E b \in Targets, m \in Msgs : MboxSend(p, b, m) \/ MboxCondSend(p, b, m)
               \/ clock_interrupt_handler(p)
      BY <2>1, <2>4, SendSlots DEF MboxSend, clock_interrupt_handler
    <2>5. CASE \/ \E b \in Targets, max \in BufSizes : MboxRecv(p, b, max) \/ MboxCondRecv(p, b, max)
               \/ waitDevice(p)
      BY <2>1, <2>2, <2>5, RecvSlots DEF MboxRecv, waitDevice
    <2> QED BY <1>2, <2>3, <2>4, <2>5 DEF Invoke
  <1>3. ASSUME NEW p \in Procs, Resume(p)
        PROVE  SlotIntegrity'
    <2>1. CASE SendResume(p)
      BY <2>1, SendSlots DEF Messages
    <2>2. CASE RecvResume(p)
      <3>1. 0 \in Int
        OBVIOUS
      <3> QED BY <2>2, <3>1, RecvSlots
    <2>3. CASE ZeroResume(p) \/ ZeroSendWoke(p)
      BY <2>3, FrameSlots DEF ZeroResume, ZeroSendWoke, Fail, boxes, queues
    <2> QED BY <1>3, <2>1, <2>2, <2>3, LifecycleSlots DEF Resume
  <1> QED BY <1>1, <1>2, <1>3 DEF Next

(* No slot is ever shared: however sends, receives, creations and releases *)
(* of any number of processes interleave, a slot is either free once, or   *)
(* queued once at the mailbox it is marked for, and no mailbox overflows.  *)
THEOREM SlotsNeverShared == Spec => []SlotIntegrity
  BY InitType, InitSlots, NextType, NextSlots, PTL DEF Spec
=============================================================================
