----------------------- MODULE MailboxChannelProofs -----------------------
(***************************************************************************)
(* The mailbox layer implements bounded first-in first-out channels when   *)
(* whoever releases mailboxes is the only one who creates and releases     *)
(* them.  With two owners it does not: MboxRelease frees the queue of its  *)
(* mailbox last, when another process may have created the id anew.  The   *)
(* second part shows that MboxRelease leaves nobody asleep.                *)
(***************************************************************************)
EXTENDS MailboxClientProofs

SomeoneReleases == \E p \in Procs : "release" \in Calls[p]

(* One owner; and a client that releases mailboxes uses none without       *)
(* slots, since a rendezvous returns 0 whatever has become of the id.      *)
OneOwner ==
    /\ \A p, q \in Procs : "release" \in Calls[p] /\ Calls[q] \cap {"create", "release"} # {} => p = q
    /\ SomeoneReleases => 0 \notin SlotCounts /\ \A b \in Targets : b >= Reserved

ReleaseSegments == {"relProducers", "relConsumers", "relClear", "relFinish"}
ZeroSegments == {"zeroSend", "zeroRecv", "zeroWoke"}

(* While its owner releases it, a mailbox stays inactive.                  *)
StaysClosed ==
    \A p \in Procs : pc[p] \in ReleaseSegments =>
        "release" \in Calls[p] /\ ~isActive[call[p].mbox]

(* A rendezvous ends at the mailbox without slots where it began.          *)
MeetingPlaceKept ==
    \A p \in Procs : pc[p] \in ZeroSegments =>
        ~SomeoneReleases /\ isActive[call[p].mbox] /\ numSlots[call[p].mbox] = 0

HaveSlots ==
    SomeoneReleases => \A b \in Mailboxes : isActive[b] /\ b >= Reserved => numSlots[b] # 0

OwnerInv == StaysClosed /\ MeetingPlaceKept /\ HaveSlots

-----------------------------------------------------------------------------
(* OwnerInv is inductive.  A step of p changes pc and call only at p, and  *)
(* only MboxCreate and MboxRelease change which mailboxes are active.      *)
Moves(p) == \A r \in Procs : r # p => pc'[r] = pc[r] /\ call'[r].mbox = call[r].mbox

LEMMA ReturnMoves ==
    ASSUME TypeOK, NEW p \in Procs, NEW rc, NEW m, Return(p, rc, m)
    PROVE  Moves(p) /\ pc'[p] = "idle"
  BY DEF Return, Moves, TypeOK

LEMMA BlockMoves ==
    ASSUME TypeOK, NEW p \in Procs, NEW seg, NEW c, BlockMe(p, seg, c)
    PROVE  Moves(p) /\ pc'[p] = seg /\ call'[p] = c
  BY DEF BlockMe, Moves, TypeOK

LEMMA OwnerFrame ==
    ASSUME OwnerInv, NEW p \in Procs, Moves(p), UNCHANGED boxes,
           pc'[p] \in ReleaseSegments => "release" \in Calls[p] /\ ~isActive[call'[p].mbox],
           pc'[p] \in ZeroSegments =>
             ~SomeoneReleases /\ isActive[call'[p].mbox] /\ numSlots[call'[p].mbox] = 0
    PROVE  OwnerInv'
  <1>1. StaysClosed'
    <2>1. ASSUME NEW r \in Procs, pc'[r] \in ReleaseSegments
          PROVE  "release" \in Calls[r] /\ ~isActive[call'[r].mbox]
      BY <2>1 DEF Moves, OwnerInv, StaysClosed
    <2> QED BY <2>1 DEF StaysClosed, boxes, ReleaseSegments
  <1>2. MeetingPlaceKept'
    <2>1. ASSUME NEW r \in Procs, pc'[r] \in ZeroSegments
          PROVE  ~SomeoneReleases /\ isActive[call'[r].mbox] /\ numSlots[call'[r].mbox] = 0
      BY <2>1 DEF Moves, OwnerInv, MeetingPlaceKept
    <2> QED BY <2>1 DEF MeetingPlaceKept, boxes, ZeroSegments, SomeoneReleases
  <1>3. HaveSlots' BY DEF OwnerInv, HaveSlots, boxes, SomeoneReleases
  <1> QED BY <1>1, <1>2, <1>3 DEF OwnerInv

LEMMA OwnerReturns ==
    ASSUME TypeOK, OwnerInv, NEW p \in Procs, NEW rc, NEW m, Return(p, rc, m), UNCHANGED boxes
    PROVE  OwnerInv'
  <1>1. Moves(p) /\ pc'[p] = "idle" BY ReturnMoves
  <1>2. pc'[p] \notin ReleaseSegments /\ pc'[p] \notin ZeroSegments
    BY <1>1 DEF ReleaseSegments, ZeroSegments
  <1> QED BY <1>1, <1>2, OwnerFrame

LEMMA OwnerBlocks ==
    ASSUME TypeOK, OwnerInv, NEW p \in Procs, NEW seg \in {"full", "empty"}, NEW c,
           BlockMe(p, seg, c), UNCHANGED boxes
    PROVE  OwnerInv'
  <1>1. Moves(p) /\ pc'[p] = seg BY BlockMoves
  <1>2. pc'[p] \notin ReleaseSegments /\ pc'[p] \notin ZeroSegments
    BY <1>1 DEF ReleaseSegments, ZeroSegments
  <1> QED BY <1>1, <1>2, OwnerFrame

(* Whoever sends or receives without slots does so at an active mailbox,   *)
(* and then nobody releases mailboxes.                                     *)
LEMMA NoReleaseHere ==
    ASSUME OneOwner, OwnerInv, NEW b, Valid(b), numSlots[b] = 0, SomeoneReleases => b >= Reserved
    PROVE  ~SomeoneReleases /\ isActive[b] /\ numSlots[b] = 0
  BY DEF OwnerInv, HaveSlots, Valid

LEMMA OwnerSends ==
    ASSUME OneOwner, TypeOK, OwnerInv, NEW p \in Procs, NEW b, NEW m,
           SomeoneReleases => b >= Reserved
    PROVE  /\ \A c : Deposit(p, c, m) => OwnerInv'
           /\ Send(p, b, m) => OwnerInv'
           /\ MboxCondSend(p, b, m) => OwnerInv'
  <1>1. \A rc : Fail(p, rc) => OwnerInv' BY OwnerReturns DEF Fail
  <1>2. ASSUME NEW c, Deposit(p, c, m) PROVE OwnerInv'
    <2>1. CASE CannotStore(c)
      <3>1. UNCHANGED <<boxes, pc, call>> BY <1>2, <2>1 DEF Deposit, control
      <3> QED BY <3>1 DEF OwnerInv, StaysClosed, MeetingPlaceKept, HaveSlots, boxes,
                          ReleaseSegments, ZeroSegments, SomeoneReleases
    <2>2. CASE ~CannotStore(c)
      BY <1>2, <2>2, OwnerReturns DEF Deposit
    <2> QED BY <2>1, <2>2
  <1>3. \A c : WaitForSpace(p, c, m) => OwnerInv' BY OwnerBlocks DEF WaitForSpace
  <1>4. ASSUME SendValid(b, m), numSlots[b] = 0, ZeroSend(p, b) PROVE OwnerInv'
    <2>1. ~SomeoneReleases /\ isActive[b] /\ numSlots[b] = 0
      BY <1>4, NoReleaseHere DEF SendValid
    <2>2. Moves(p) /\ pc'[p] \in {"zeroSend", "zeroWoke"} /\ call'[p].mbox = b /\ UNCHANGED boxes
      <3>1. CASE consumers[b] = NULL
        BY <1>4, <3>1, BlockMoves DEF ZeroSend, Args
      <3>2. CASE consumers[b] # NULL
        <4> DEFINE arg == Args(b, NoMessage, 0)
        <4>1. /\ pc' = [pc EXCEPT ![p] = "zeroWoke"] /\ call' = [call EXCEPT ![p] = arg]
              /\ UNCHANGED boxes
          BY <1>4, <3>2 DEF ZeroSend
        <4>2. arg.mbox = b BY DEF Args
        <4> HIDE DEF arg
        <4> QED BY <4>1, <4>2 DEF Moves, TypeOK
      <3> QED BY <3>1, <3>2
    <2>3. pc'[p] \notin ReleaseSegments BY <2>2 DEF ReleaseSegments
    <2> QED BY <2>1, <2>2, <2>3, OwnerFrame
  <1>5. ASSUME Send(p, b, m) PROVE OwnerInv'
    BY <1>1, <1>2, <1>3, <1>4, <1>5 DEF Send
  <1>6. ASSUME MboxCondSend(p, b, m) PROVE OwnerInv'
    BY <1>1, <1>2, <1>6 DEF MboxCondSend
  <1> QED BY <1>2, <1>5, <1>6

LEMMA OwnerReceives ==
    ASSUME OneOwner, TypeOK, OwnerInv, NEW p \in Procs, NEW b, NEW max,
           SomeoneReleases => b >= Reserved
    PROVE  /\ \A c : Take(p, c, max) => OwnerInv'
           /\ Recv(p, b, max) => OwnerInv'
           /\ MboxCondRecv(p, b, max) => OwnerInv'
  <1>1. \A rc : Fail(p, rc) => OwnerInv' BY OwnerReturns DEF Fail
  <1>2. \A c : Take(p, c, max) => OwnerInv' BY OwnerReturns DEF Take
  <1>3. \A c : WaitForMessage(p, c, max) => OwnerInv' BY OwnerBlocks DEF WaitForMessage
  <1>4. ASSUME RecvValid(b, max), numSlots[b] = 0, ZeroRecv(p, b) PROVE OwnerInv'
    <2>1. ~SomeoneReleases /\ isActive[b] /\ numSlots[b] = 0
      BY <1>4, NoReleaseHere DEF RecvValid
    <2>2. CASE Return(p, 0, NoMessage) /\ UNCHANGED boxes BY <2>2, OwnerReturns
    <2>3. CASE BlockMe(p, "zeroRecv", Args(b, NoMessage, 0)) /\ UNCHANGED boxes
      <3>1. Moves(p) /\ pc'[p] = "zeroRecv" /\ call'[p].mbox = b BY <2>3, BlockMoves DEF Args
      <3>2. pc'[p] \notin ReleaseSegments BY <3>1 DEF ReleaseSegments
      <3> QED BY <2>1, <2>3, <3>1, <3>2, OwnerFrame
    <2> QED BY <1>4, <2>2, <2>3 DEF ZeroRecv
  <1>5. ASSUME Recv(p, b, max) PROVE OwnerInv'
    BY <1>1, <1>2, <1>3, <1>4, <1>5 DEF Recv
  <1>6. ASSUME MboxCondRecv(p, b, max) PROVE OwnerInv'
    BY <1>1, <1>2, <1>6 DEF MboxCondRecv
  <1> QED BY <1>2, <1>5, <1>6

LEMMA OwnerCreates ==
    ASSUME OneOwner, TypeOK, OwnerInv, NEW p \in Procs, NEW n \in SlotCounts, NEW size \in SlotSizes,
           MboxCreate(p, n, size)
    PROVE  OwnerInv'
  <1>1. CASE Fail(p, -1) BY <1>1, OwnerReturns DEF Fail
  <1>2. CASE /\ Inactive # {}
             /\ isActive' = [isActive EXCEPT ![Lowest] = TRUE]
             /\ numSlots' = [numSlots EXCEPT ![Lowest] = n]
             /\ Return(p, Lowest, NoMessage)
    <2>1. PICK b \in Mailboxes : b = Lowest /\ ~isActive[b]
      BY <1>2, LowestInactive DEF Inactive
    <2>2. Moves(p) /\ pc'[p] = "idle" BY <1>2, ReturnMoves
    <2>3. "create" \in Calls[p] /\ pc[p] = "idle" BY DEF MboxCreate, Enter
    <2>4. \A r \in Procs : pc[r] \notin ReleaseSegments
      BY <2>3 DEF OwnerInv, StaysClosed, OneOwner, ReleaseSegments
    <2>5. /\ isActive'[b] = TRUE /\ numSlots'[b] = n
          /\ \A c \in Mailboxes : c # b => isActive'[c] = isActive[c] /\ numSlots'[c] = numSlots[c]
      BY <1>2, <2>1 DEF TypeOK
    <2>6. StaysClosed'
      BY <2>2, <2>4 DEF StaysClosed, Moves, ReleaseSegments
    <2>7. MeetingPlaceKept'
      <3>1. ASSUME NEW r \in Procs, pc'[r] \in ZeroSegments
            PROVE  ~SomeoneReleases /\ isActive'[call'[r].mbox] /\ numSlots'[call'[r].mbox] = 0
        <4>1. r # p BY <2>2, <3>1 DEF ZeroSegments
        <4>2. ~SomeoneReleases /\ isActive[call[r].mbox] /\ numSlots[call[r].mbox] = 0
          BY <2>2, <3>1, <4>1 DEF Moves, OwnerInv, MeetingPlaceKept
        <4>3. call[r].mbox \in Mailboxes /\ call[r].mbox # b BY <2>1, <4>2 DEF TypeOK
        <4> QED BY <2>2, <2>5, <4>1, <4>2, <4>3 DEF Moves
      <3> QED BY <3>1 DEF MeetingPlaceKept, ZeroSegments, SomeoneReleases
    <2>8. HaveSlots'
      <3>1. ASSUME SomeoneReleases, NEW c \in Mailboxes, isActive'[c], c >= Reserved
            PROVE  numSlots'[c] # 0
        <4>1. CASE c = b BY <2>5, <3>1, <4>1 DEF OneOwner
        <4>2. CASE c # b BY <2>5, <3>1, <4>2 DEF OwnerInv, HaveSlots
        <4> QED BY <4>1, <4>2
      <3> QED BY <3>1 DEF HaveSlots, SomeoneReleases
    <2> QED BY <2>6, <2>7, <2>8 DEF OwnerInv
  <1> QED BY <1>1, <1>2 DEF MboxCreate

LEMMA OwnerReleases ==
    ASSUME OneOwner, TypeOK, OwnerInv, NEW p \in Procs
    PROVE  /\ \A b : MboxRelease(p, b) => OwnerInv'
           /\ ReleaseProducers(p) \/ ReleaseConsumers(p) \/ ReleaseClear(p) \/ ReleaseFinish(p)
                => OwnerInv'
  <1>1. ASSUME NEW b, MboxRelease(p, b) PROVE OwnerInv'
    <2>1. CASE Fail(p, -1) BY <2>1, OwnerReturns DEF Fail
    <2>2. CASE /\ Valid(b)
               /\ isActive' = [isActive EXCEPT ![b] = FALSE]
               /\ pc' = [pc EXCEPT ![p] = "relProducers"]
               /\ call' = [call EXCEPT ![p] = Args(b, NoMessage, 0)]
               /\ UNCHANGED numSlots
      <3> DEFINE arg == Args(b, NoMessage, 0)
      <3>1. arg.mbox = b /\ call' = [call EXCEPT ![p] = arg] BY <2>2 DEF Args
      <3> HIDE DEF arg
      <3>2. /\ \A r \in Procs : r # p => pc'[r] = pc[r] /\ call'[r] = call[r]
            /\ pc'[p] = "relProducers" /\ call'[p].mbox = b
        BY <2>2, <3>1 DEF TypeOK
      <3>3. b \in Mailboxes /\ \A c \in Mailboxes : isActive'[c] <=> isActive[c] /\ c # b
        BY <2>2 DEF Valid, TypeOK
      <3>4. SomeoneReleases /\ "release" \in Calls[p] BY <1>1 DEF MboxRelease, Enter, SomeoneReleases
      <3>5. \A r \in Procs : call[r].mbox \in Mailboxes BY DEF TypeOK
      <3>6. StaysClosed'
        <4>1. ASSUME NEW r \in Procs, pc'[r] \in ReleaseSegments
              PROVE  "release" \in Calls[r] /\ ~isActive'[call'[r].mbox]
          <5>1. CASE r = p BY <3>2, <3>3, <3>4, <5>1
          <5>2. CASE r # p
            BY <3>2, <3>3, <3>5, <4>1, <5>2 DEF OwnerInv, StaysClosed
          <5> QED BY <5>1, <5>2
        <4> QED BY <4>1 DEF StaysClosed, ReleaseSegments
      <3>7. MeetingPlaceKept'
        <4>1. \A r \in Procs : pc'[r] \notin ZeroSegments
          BY <3>2, <3>4 DEF OwnerInv, MeetingPlaceKept, ZeroSegments
        <4> QED BY <4>1 DEF MeetingPlaceKept, ZeroSegments
      <3>8. HaveSlots'
        BY <2>2, <3>3 DEF OwnerInv, HaveSlots, SomeoneReleases
      <3> QED BY <3>6, <3>7, <3>8 DEF OwnerInv
    <2> QED BY <1>1, <2>1, <2>2 DEF MboxRelease
  <1>2. ASSUME ReleaseProducers(p) \/ ReleaseConsumers(p) \/ ReleaseClear(p)
        PROVE  OwnerInv'
    <2>1. pc[p] \in ReleaseSegments /\ UNCHANGED boxes
      BY <1>2 DEF ReleaseProducers, ReleaseConsumers, ReleaseClear, ReleaseSegments,
                  UnblockNext, GoTo
    <2>2. /\ Moves(p) /\ call'[p].mbox = call[p].mbox
          /\ pc'[p] \in {"relProducers", "relConsumers", "relClear", "relFinish"}
      <3>1. CASE \E list : UnblockNext(p, list)
        <4>1. /\ pc' = pc
              /\ call' = [call EXCEPT ![p] = [call[p] EXCEPT !.i = call[p].i + 1]]
          BY <3>1 DEF UnblockNext
        <4> QED BY <2>1, <4>1 DEF Moves, TypeOK, ReleaseSegments
      <3>2. CASE \E seg \in {"relConsumers", "relFinish"} : GoTo(p, seg)
        <4>1. PICK seg \in {"relConsumers", "relFinish"} : GoTo(p, seg) BY <3>2
        <4>2. /\ pc' = [pc EXCEPT ![p] = seg]
              /\ call' = [call EXCEPT ![p] = [call[p] EXCEPT !.i = 1]]
          BY <4>1 DEF GoTo
        <4> QED BY <4>2 DEF Moves, TypeOK
      <3>3. CASE pc' = [pc EXCEPT ![p] = "relClear"] /\ UNCHANGED call
        BY <3>3 DEF Moves, TypeOK
      <3> QED BY <1>2, <3>1, <3>2, <3>3 DEF ReleaseProducers, ReleaseConsumers, ReleaseClear
    <2>3. pc'[p] \notin ZeroSegments BY <2>2 DEF ZeroSegments
    <2>4. "release" \in Calls[p] /\ ~isActive[call'[p].mbox]
      BY <2>1, <2>2 DEF OwnerInv, StaysClosed
    <2> QED BY <2>1, <2>2, <2>3, <2>4, OwnerFrame
  <1>3. ReleaseFinish(p) => OwnerInv' BY OwnerReturns DEF ReleaseFinish
  <1> QED BY <1>1, <1>2, <1>3

LEMMA OwnerNext == OneOwner /\ TypeOK /\ OwnerInv /\ [Next]_vars => OwnerInv'
  <1> SUFFICES ASSUME OneOwner, TypeOK, OwnerInv, [Next]_vars PROVE OwnerInv' OBVIOUS
  <1>1. CASE UNCHANGED vars
    BY <1>1 DEF vars, boxes, control, OwnerInv, StaysClosed, MeetingPlaceKept, HaveSlots,
                ReleaseSegments, ZeroSegments, SomeoneReleases
  <1>2. ASSUME NEW p \in Procs, Invoke(p) PROVE OwnerInv'
    <2>1. \A b \in Targets \cup {clockMailbox} : SomeoneReleases => b >= Reserved
      BY SizesAssumption DEF OneOwner, clockMailbox
    <2>2. CASE \/ \E n \in SlotCounts, size \in SlotSizes : MboxCreate(p, n, size)
               \/ \E b \in Targets : MboxRelease(p, b)
      BY <2>2, OwnerCreates, OwnerReleases
    <2>3. CASE \/ \E b \in Targets, m \in Msgs : MboxSend(p, b, m) \/ MboxCondSend(p, b, m)
               \/ clock_interrupt_handler(p)
      BY <2>1, <2>3, OwnerSends DEF MboxSend, clock_interrupt_handler
    <2>4. CASE \/ \E b \in Targets, max \in BufSizes : MboxRecv(p, b, max) \/ MboxCondRecv(p, b, max)
               \/ waitDevice(p)
      BY <2>1, <2>4, OwnerReceives DEF MboxRecv, waitDevice
    <2> QED BY <1>2, <2>2, <2>3, <2>4 DEF Invoke
  <1>3. ASSUME NEW p \in Procs, Resume(p) PROVE OwnerInv'
    <2>1. CASE SendResume(p)
      <3>1. \A rc : Fail(p, rc) => OwnerInv' BY OwnerReturns DEF Fail
      <3>2. \A c, m : WaitForSpace(p, c, m) => OwnerInv' BY OwnerBlocks DEF WaitForSpace
      <3>3. \A c, m : Deposit(p, c, m) => OwnerInv'
        <4>1. ASSUME NEW c, NEW m, Deposit(p, c, m) PROVE OwnerInv'
          <5>1. SomeoneReleases => Reserved >= Reserved BY SizesAssumption
          <5> QED BY <4>1, <5>1, OwnerSends
        <4> QED BY <4>1
      <3> QED BY <2>1, <3>1, <3>2, <3>3 DEF SendResume
    <2>2. CASE RecvResume(p) BY <2>2, OwnerReturns DEF RecvResume, Fail, Take
    <2>3. CASE ZeroResume(p) \/ ZeroSendWoke(p)
      BY <2>3, OwnerReturns DEF ZeroResume, ZeroSendWoke, Fail
    <2> QED BY <1>3, <2>1, <2>2, <2>3, OwnerReleases DEF Resume
  <1> QED BY <1>1, <1>2, <1>3 DEF Next

LEMMA OwnerInit == Init => OwnerInv
  <1> SUFFICES ASSUME Init PROVE OwnerInv OBVIOUS
  <1>1. StaysClosed /\ MeetingPlaceKept
    BY DEF Init, StaysClosed, MeetingPlaceKept, ReleaseSegments, ZeroSegments
  <1>2. ASSUME NEW b \in Mailboxes, isActive[b], b >= Reserved PROVE numSlots[b] # 0
    <2>1. b \in Nat /\ Reserved \in Nat /\ clockMailbox = Reserved
      BY SizesAssumption DEF Mailboxes, clockMailbox
    <2>2. b <= clockMailbox BY <1>2 DEF Init
    <2>3. b = clockMailbox BY <1>2, <2>1, <2>2
    <2> QED BY <2>3 DEF Init
  <1> QED BY <1>1, <1>2 DEF OwnerInv, HaveSlots

-----------------------------------------------------------------------------
(* The abstract channels, and what a step does to them.                    *)
Contents ==
    [b \in Mailboxes |->
       IF isActive[b]
         THEN [i \in 1..Len(slotQueue[b]) |-> mailSlots[slotQueue[b][i]].message]
         ELSE <<>>]

(* A sequence written as a function. *)
LEMMA FunctionIsSeq ==
    ASSUME NEW S, NEW n \in Nat, NEW f \in [1..n -> S]
    PROVE  f \in Seq(S) /\ Len(f) = n
  <1>1. f \in Seq(S) BY SeqDef
  <1>2. DOMAIN f = 1..n /\ DOMAIN f = 1..Len(f) /\ Len(f) \in Nat BY <1>1, LenProperties
  <1> QED BY <1>1, <1>2

LEMMA ContentsOf ==
    ASSUME TypeOK, NEW b \in Mailboxes, isActive[b]
    PROVE  /\ Contents[b] \in Seq(Messages) /\ Len(Contents[b]) = Len(slotQueue[b])
           /\ Len(slotQueue[b]) \in Nat
           /\ \A i \in 1..Len(slotQueue[b]) :
                Contents[b][i] = mailSlots[slotQueue[b][i]].message
  <1> DEFINE n == Len(slotQueue[b])
             f == [i \in 1..n |-> mailSlots[slotQueue[b][i]].message]
  <1>1. n \in Nat /\ \A i \in 1..n : slotQueue[b][i] \in Slots BY SlotQueueType
  <1>2. \A s \in Slots : mailSlots[s].message \in Messages BY DEF TypeOK
  <1>3. f \in [1..n -> Messages] BY <1>1, <1>2
  <1>4. Contents[b] = f BY DEF Contents
  <1>5. \A i \in 1..n : f[i] = mailSlots[slotQueue[b][i]].message OBVIOUS
  <1>6. f \in Seq(Messages) /\ Len(f) = n
    <2> HIDE DEF f, n
    <2> QED BY <1>1, <1>3, FunctionIsSeq
  <1> HIDE DEF f
  <1> QED BY <1>1, <1>4, <1>5, <1>6

LEMMA ContentsClosed ==
    ASSUME NEW b \in Mailboxes, ~isActive[b]
    PROVE  Contents[b] = <<>>
  BY DEF Contents

(* An active mailbox with an empty queue is an empty channel. *)
LEMMA ContentsEmpty ==
    ASSUME TypeOK, NEW b \in Mailboxes, isActive[b]
    PROVE  Contents[b] = <<>> <=> slotQueue[b] = <<>>
  <1>1. Contents[b] \in Seq(Messages) /\ Len(Contents[b]) = Len(slotQueue[b])
    BY ContentsOf
  <1>2. slotQueue[b] \in Seq(Slots) BY SlotQueueType
  <1>3. Contents[b] = <<>> <=> Len(Contents[b]) = 0 BY <1>1, EmptySeq
  <1>4. slotQueue[b] = <<>> <=> Len(slotQueue[b]) = 0 BY <1>2, EmptySeq
  <1> QED BY <1>1, <1>3, <1>4

(* Marking slots as free changes no message. *)
LEMMA SameContents ==
    ASSUME TypeOK, UNCHANGED isActive,
           \A b \in Mailboxes : isActive[b] => slotQueue'[b] = slotQueue[b],
           \A s \in Slots : mailSlots'[s].message = mailSlots[s].message
    PROVE  Contents' = Contents
  <1>1. \A b \in Mailboxes : \A i \in 1..Len(slotQueue[b]) : slotQueue[b][i] \in Slots
    BY SlotQueueType
  <1>2. ASSUME NEW b \in Mailboxes
        PROVE  Contents'[b] = Contents[b]
    <2>1. CASE isActive[b]
      <3>1. /\ Contents'[b] = [i \in 1..Len(slotQueue[b]) |-> mailSlots'[slotQueue[b][i]].message]
            /\ Contents[b] = [i \in 1..Len(slotQueue[b]) |-> mailSlots[slotQueue[b][i]].message]
        BY <2>1 DEF Contents
      <3>2. \A i \in 1..Len(slotQueue[b]) :
              mailSlots'[slotQueue[b][i]].message = mailSlots[slotQueue[b][i]].message
        BY <1>1
      <3> QED BY <3>1, <3>2
    <2>2. CASE ~isActive[b] BY <2>2 DEF Contents
    <2> QED BY <2>1, <2>2
  <1> QED BY <1>2 DEF Contents

LEMMA Untouched ==
    ASSUME TypeOK, UNCHANGED <<isActive, slotQueue, mailSlots>>
    PROVE  Contents' = Contents
  BY SameContents

(* The steps of Channels in terms of Contents. *)
LEMMA ChanStutter ==
    ASSUME UNCHANGED <<isActive, numSlots, result>>, Contents' = Contents
    PROVE  UNCHANGED Chan!vars
  BY DEF Chan!vars, Contents

LEMMA ChanAnswer ==
    ASSUME NEW p \in Procs, UNCHANGED <<isActive, numSlots>>, Contents' = Contents, NEW rc,
           result' = [result EXCEPT ![p] = [rc |-> rc, msg |-> NoMessage]],
           \/ rc \in {-1, -2}
           \/ rc = 0 /\ \E b \in Mailboxes : isActive[b] /\ numSlots[b] = 0
           \/ rc = 0 /\ \E b \in Mailboxes : ~isActive[b]
    PROVE  Chan!Next
  <1>1. CASE rc \in {-1, -2}
    <2>1. Chan!Refuse(p) BY <1>1 DEF Chan!Refuse, Chan!Answer, Contents
    <2> QED BY <2>1 DEF Chan!Next
  <1>2. CASE rc = 0 /\ \E b \in Mailboxes : isActive[b] /\ numSlots[b] = 0
    <2>1. Chan!Meet(p) BY <1>2 DEF Chan!Meet, Chan!Answer, Contents
    <2> QED BY <2>1 DEF Chan!Next
  <1>3. CASE rc = 0 /\ \E b \in Mailboxes : ~isActive[b]
    <2>1. Chan!Closed(p) BY <1>3 DEF Chan!Closed, Chan!Answer, Contents
    <2> QED BY <2>1 DEF Chan!Next
  <1> QED BY <1>1, <1>2, <1>3

LEMMA ChanPut ==
    ASSUME NEW p \in Procs, NEW b \in Mailboxes, NEW m \in Messages,
           isActive[b], Len(Contents[b]) < numSlots[b],
           Contents' = [Contents EXCEPT ![b] = Append(Contents[b], m)],
           result' = [result EXCEPT ![p] = [rc |-> 0, msg |-> NoMessage]],
           UNCHANGED <<isActive, numSlots>>
    PROVE  Chan!Next
  <1>1. Chan!Put(p, b, m) BY DEF Chan!Put, Chan!Answer, Contents
  <1> QED BY <1>1 DEF Chan!Next

LEMMA ChanTake ==
    ASSUME NEW p \in Procs, NEW b \in Mailboxes, isActive[b], Contents[b] # <<>>,
           Contents' = [Contents EXCEPT ![b] = Tail(Contents[b])],
           UNCHANGED <<isActive, numSlots>>,
           \/ result' = [result EXCEPT ![p] = [rc |-> Head(Contents[b]).len, msg |-> Head(Contents[b])]]
           \/ result' = [result EXCEPT ![p] = [rc |-> -1, msg |-> NoMessage]]
    PROVE  Chan!Next
  <1>1. CASE result' = [result EXCEPT ![p] = [rc |-> Head(Contents[b]).len, msg |-> Head(Contents[b])]]
    <2>1. Chan!Take(p, b) BY <1>1 DEF Chan!Take, Chan!Answer, Contents
    <2> QED BY <2>1 DEF Chan!Next
  <1>2. CASE result' = [result EXCEPT ![p] = [rc |-> -1, msg |-> NoMessage]]
    <2>1. Chan!Lose(p, b) BY <1>2 DEF Chan!Lose, Chan!Answer, Contents
    <2> QED BY <2>1 DEF Chan!Next
  <1> QED BY <1>1, <1>2

LEMMA ChanOpen ==
    ASSUME NEW p \in Procs, NEW b \in Mailboxes, ~isActive[b], NEW n \in Nat,
           numSlots \in [Mailboxes -> Int],
           isActive' = [isActive EXCEPT ![b] = TRUE], numSlots' = [numSlots EXCEPT ![b] = n],
           Contents' = [Contents EXCEPT ![b] = <<>>],
           result' = [result EXCEPT ![p] = [rc |-> b, msg |-> NoMessage]]
    PROVE  Chan!Next
  <1>1. numSlots'[b] = n OBVIOUS
  <1>2. Chan!Open(p, b) BY <1>1 DEF Chan!Open, Chan!Answer, Contents
  <1> QED BY <1>2 DEF Chan!Next

LEMMA ChanClose ==
    ASSUME NEW b \in Mailboxes, isActive[b], isActive' = [isActive EXCEPT ![b] = FALSE],
           Contents' = [Contents EXCEPT ![b] = <<>>], UNCHANGED <<numSlots, result>>
    PROVE  Chan!Next
  <1>1. Chan!Close(b) BY DEF Chan!Close, Contents
  <1> QED BY <1>1 DEF Chan!Next

LEMMA ContentsChanged ==
    ASSUME NEW b \in Mailboxes, NEW new, Contents'[b] = new,
           \A c \in Mailboxes : c # b => Contents'[c] = Contents[c]
    PROVE  Contents' = [Contents EXCEPT ![b] = new]
  <1>1. DOMAIN Contents = Mailboxes /\ DOMAIN Contents' = Mailboxes BY DEF Contents
  <1>2. Contents = [c \in Mailboxes |-> Contents[c]] /\ Contents' = [c \in Mailboxes |-> Contents'[c]]
    BY DEF Contents
  <1> DEFINE C == Contents
             D == Contents'
  <1>3. /\ C = [c \in Mailboxes |-> C[c]] /\ D = [c \in Mailboxes |-> D[c]]
        /\ D[b] = new /\ \A c \in Mailboxes : c # b => D[c] = C[c]
    BY <1>2
  <1> HIDE DEF C, D
  <1>4. D = [C EXCEPT ![b] = new] BY <1>3
  <1> QED BY <1>4 DEF C, D

LEMMA ChannelUntouched ==
    ASSUME TypeOK, NEW c \in Mailboxes, isActive'[c] = isActive[c], slotQueue'[c] = slotQueue[c],
           \A i \in 1..Len(slotQueue[c]) :
             mailSlots'[slotQueue[c][i]].message = mailSlots[slotQueue[c][i]].message
    PROVE  Contents'[c] = Contents[c]
  <1>1. CASE isActive[c]
    <2>1. /\ Contents'[c] = [i \in 1..Len(slotQueue[c]) |-> mailSlots'[slotQueue[c][i]].message]
          /\ Contents[c] = [i \in 1..Len(slotQueue[c]) |-> mailSlots[slotQueue[c][i]].message]
      BY <1>1 DEF Contents
    <2> QED BY <2>1
  <1>2. CASE ~isActive[c] BY <1>2 DEF Contents
  <1> QED BY <1>1, <1>2

-----------------------------------------------------------------------------
(* The steps of the mailbox layer as steps of channels.                    *)
Refines == [Chan!Next]_Chan!vars

LEMMA FailRefines ==
    ASSUME TypeOK, NEW p \in Procs, NEW rc \in {-1, -2}, Fail(p, rc)
    PROVE  Refines
  <1>1. UNCHANGED <<isActive, numSlots, slotQueue, mailSlots>>
        /\ result' = [result EXCEPT ![p] = [rc |-> rc, msg |-> NoMessage]]
    BY DEF Fail, Return, boxes, queues, slots
  <1> QED BY <1>1, Untouched, ChanAnswer DEF Refines

LEMMA StutterRefines ==
    ASSUME TypeOK, UNCHANGED <<boxes, queues, slots, result>>
    PROVE  Refines
  <1>1. UNCHANGED <<isActive, numSlots, slotQueue, mailSlots, result>>
    BY DEF boxes, queues, slots
  <1> QED BY <1>1, Untouched, ChanStutter DEF Refines

LEMMA DepositRefines ==
    ASSUME TypeOK, SlotIntegrity, NEW p \in Procs, NEW b \in Mailboxes, NEW m \in Messages,
           isActive[b], ~Full(b), Deposit(p, b, m)
    PROVE  Refines
  <1>1. CASE CannotStore(b)
    BY <1>1, StutterRefines DEF Deposit, control
  <1>2. CASE ~CannotStore(b)
    <2> DEFINE s == Last(freeSlots)
               n == Len(slotQueue[b])
               rec == [inUse |-> TRUE, mailboxID |-> b, message |-> m]
    <2>1. /\ mailSlots' = [mailSlots EXCEPT ![s] = rec]
          /\ slotQueue' = [slotQueue EXCEPT ![b] = Append(slotQueue[b], s)]
          /\ result' = [result EXCEPT ![p] = [rc |-> 0, msg |-> NoMessage]]
          /\ UNCHANGED <<isActive, numSlots>>
      BY <1>2 DEF Deposit, Return, boxes
    <2>2. s \in Slots /\ s = freeSlots[Len(freeSlots)] /\ Len(freeSlots) \in Nat /\ Len(freeSlots) > 0
      <3>1. freeSlots \in Seq(Slots) /\ freeSlots # <<>> BY <1>2 DEF CannotStore, TypeOK
      <3> QED BY <3>1, FrontLast
    <2>3. \A c \in Mailboxes : /\ slotQueue[c] \in Seq(Slots)
                               /\ \A i \in 1..Len(slotQueue[c]) : slotQueue[c][i] \in Slots
      BY SlotQueueType
    <2>4. \A c \in Mailboxes : \A i \in 1..Len(slotQueue[c]) : slotQueue[c][i] # s
      BY <2>2 DEF SlotIntegrity, FreeSlotsDistinct, QueuedSlotsOwned
    <2>5. rec.message = m OBVIOUS
    <2> HIDE DEF s, rec
    <2>6. /\ mailSlots'[s] = rec
          /\ \A x \in Slots : x # s => mailSlots'[x] = mailSlots[x]
      BY <2>1, <2>2 DEF TypeOK
    <2>7. /\ slotQueue'[b] = Append(slotQueue[b], s)
          /\ \A c \in Mailboxes : c # b => slotQueue'[c] = slotQueue[c]
      BY <2>1 DEF TypeOK
    <2>8. n \in Nat /\ Len(slotQueue'[b]) = n + 1 /\ slotQueue'[b][n + 1] = s
          /\ \A i \in 1..n : slotQueue'[b][i] = slotQueue[b][i]
      BY <2>2, <2>3, <2>7
    <2>9. /\ Contents[b] \in Seq(Messages) /\ Len(Contents[b]) = n
          /\ \A i \in 1..n : Contents[b][i] = mailSlots[slotQueue[b][i]].message
      BY ContentsOf
    <2>10. Contents'[b] = [i \in 1..(n + 1) |-> mailSlots'[slotQueue'[b][i]].message]
      BY <2>1, <2>8 DEF Contents
    <2>11. \A i \in 1..n : mailSlots'[slotQueue'[b][i]].message = Contents[b][i]
      BY <2>3, <2>4, <2>6, <2>8, <2>9
    <2>12. mailSlots'[slotQueue'[b][n + 1]].message = m BY <2>5, <2>6, <2>8
    <2> HIDE DEF n
    <2>13. /\ \A i \in 1..n : Contents'[b][i] = Contents[b][i]
           /\ Contents'[b][n + 1] = m
           /\ Contents'[b] \in [1..(n + 1) -> Messages]
      <3>1. \A i \in 1..(n + 1) : i \in 1..n \/ i = n + 1 BY <2>8
      <3>2. \A i \in 1..n : Contents[b][i] \in Messages BY <2>9
      <3>3. \A i \in 1..(n + 1) : mailSlots'[slotQueue'[b][i]].message \in Messages
        BY <2>11, <2>12, <3>1, <3>2
      <3>4. \A i \in 1..n : i \in 1..(n + 1) BY <2>8
      <3>5. n + 1 \in 1..(n + 1) BY <2>8
      <3> QED BY <2>10, <2>11, <2>12, <3>3, <3>4, <3>5
    <2>14. Contents'[b] = Append(Contents[b], m)
      <3> DEFINE t == Append(Contents[b], m)
                 u == Contents'[b]
      <3>1. /\ t \in Seq(Messages) /\ Len(t) = n + 1 /\ t[n + 1] = m
            /\ \A i \in 1..n : t[i] = Contents[b][i]
        BY <2>8, <2>9
      <3>2. u \in Seq(Messages) /\ Len(u) = n + 1
        <4>1. n + 1 \in Nat /\ u \in [1..(n + 1) -> Messages] BY <2>8, <2>13
        <4> HIDE DEF u
        <4> QED BY <4>1, FunctionIsSeq
      <3>3. \A i \in 1..Len(u) : u[i] = t[i]
        <4>1. \A i \in 1..n : u[i] = t[i] BY <2>13, <3>1
        <4>2. u[n + 1] = t[n + 1] BY <2>13, <3>1
        <4> HIDE DEF u, t
        <4> QED BY <2>8, <3>2, <4>1, <4>2
      <3> HIDE DEF u, t
      <3>4. u = t BY <3>1, <3>2, <3>3, SeqEqual
      <3> QED BY <3>4 DEF u, t
    <2>15. \A c \in Mailboxes : c # b => Contents'[c] = Contents[c]
      BY <2>1, <2>3, <2>4, <2>6, <2>7, ChannelUntouched
    <2>16. Contents' = [Contents EXCEPT ![b] = Append(Contents[b], m)]
      BY <2>14, <2>15, ContentsChanged
    <2>17. Len(Contents[b]) < numSlots[b]
      <3>1. numSlots[b] \in Nat BY SizesAssumption DEF TypeOK
      <3> QED BY <2>8, <2>9, <3>1 DEF Full, n
    <2> QED BY <2>1, <2>16, <2>17, ChanPut DEF Refines
  <1> QED BY <1>1, <1>2

LEMMA TakeRefines ==
    ASSUME TypeOK, NEW p \in Procs, NEW b \in Mailboxes, NEW max \in Int,
           isActive[b], slotQueue[b] # <<>>, Take(p, b, max)
    PROVE  Refines
  <1> DEFINE s == Head(slotQueue[b])
             m == mailSlots[s].message
             n == Len(slotQueue[b])
  <1>1. /\ slotQueue' = [slotQueue EXCEPT ![b] = Tail(slotQueue[b])]
        /\ UNCHANGED <<isActive, numSlots>>
        /\ \/ result' = [result EXCEPT ![p] = [rc |-> m.len, msg |-> m]]
           \/ result' = [result EXCEPT ![p] = [rc |-> -1, msg |-> NoMessage]]
        /\ UNCHANGED mailSlots \/ mailSlots' = [mailSlots EXCEPT ![s].inUse = FALSE]
    BY DEF Take, Return, boxes, slots
  <1>2. /\ slotQueue[b] \in Seq(Slots) /\ s \in Slots /\ s = slotQueue[b][1]
        /\ n \in Nat /\ n > 0 /\ Len(Tail(slotQueue[b])) = n - 1
        /\ \A i \in 1..(n - 1) : Tail(slotQueue[b])[i] = slotQueue[b][i + 1]
    BY SlotQueueType, HeadTail
  <1>3. \A x \in Slots : mailSlots'[x].message = mailSlots[x].message
    <2>1. mailSlots \in [Slots -> [inUse : BOOLEAN, mailboxID : Mailboxes, message : Messages]]
      BY DEF TypeOK
    <2> HIDE DEF s
    <2> QED BY <1>1, <1>2, <2>1
  <1>4. /\ slotQueue'[b] = Tail(slotQueue[b])
        /\ \A c \in Mailboxes : c # b => slotQueue'[c] = slotQueue[c]
    BY <1>1 DEF TypeOK
  <1>5. /\ Contents[b] \in Seq(Messages) /\ Len(Contents[b]) = n
        /\ \A i \in 1..n : Contents[b][i] = mailSlots[slotQueue[b][i]].message
    BY ContentsOf
  <1>6. Contents[b] # <<>> BY ContentsEmpty
  <1>7. /\ Tail(Contents[b]) \in Seq(Messages) /\ Len(Tail(Contents[b])) = n - 1
        /\ \A i \in 1..(n - 1) : Tail(Contents[b])[i] = Contents[b][i + 1]
        /\ Head(Contents[b]) = Contents[b][1]
    BY <1>5, <1>6, HeadTail
  <1>8. Head(Contents[b]) = m BY <1>2, <1>5, <1>7
  <1>9. Contents'[b] = [i \in 1..(n - 1) |-> mailSlots'[slotQueue'[b][i]].message]
    BY <1>1, <1>2, <1>4 DEF Contents
  <1>10. \A i \in 1..(n - 1) : mailSlots'[slotQueue'[b][i]].message = Contents[b][i + 1]
    <2> SUFFICES ASSUME NEW i \in 1..(n - 1)
                 PROVE  mailSlots'[slotQueue'[b][i]].message = Contents[b][i + 1]
      OBVIOUS
    <2>1. i + 1 \in 1..n /\ slotQueue'[b][i] = slotQueue[b][i + 1] BY <1>2, <1>4
    <2>2. slotQueue[b][i + 1] \in Slots BY <2>1, SlotQueueType
    <2> QED BY <1>3, <1>5, <2>1, <2>2
  <1> HIDE DEF s, m, n
  <1>11. Contents'[b] = Tail(Contents[b])
    <2> DEFINE t == Tail(Contents[b])
               u == Contents'[b]
    <2>1. \A i \in 1..(n - 1) : u[i] = t[i] BY <1>7, <1>9, <1>10
    <2>2. \A i \in 1..(n - 1) : Contents[b][i + 1] \in Messages
      <3>1. \A i \in 1..(n - 1) : i + 1 \in 1..n BY <1>2
      <3> QED BY <1>5, <3>1
    <2>3. u \in [1..(n - 1) -> Messages] BY <1>9, <1>10, <2>2
    <2>4. u \in Seq(Messages) /\ Len(u) = n - 1
      <3>1. n - 1 \in Nat BY <1>2
      <3> HIDE DEF u
      <3> QED BY <2>3, <3>1, FunctionIsSeq
    <2>5. t \in Seq(Messages) /\ Len(t) = n - 1 BY <1>7
    <2> HIDE DEF u, t
    <2>6. u = t BY <2>1, <2>4, <2>5, SeqEqual
    <2> QED BY <2>6 DEF u, t
  <1>12. \A c \in Mailboxes : c # b => Contents'[c] = Contents[c]
    <2>1. ASSUME NEW c \in Mailboxes, c # b PROVE Contents'[c] = Contents[c]
      <3>1. \A i \in 1..Len(slotQueue[c]) : slotQueue[c][i] \in Slots BY SlotQueueType
      <3> QED BY <1>1, <1>3, <1>4, <2>1, <3>1, ChannelUntouched
    <2> QED BY <2>1
  <1>13. Contents' = [Contents EXCEPT ![b] = Tail(Contents[b])]
    BY <1>11, <1>12, ContentsChanged
  <1>14. \/ result' = [result EXCEPT ![p] = [rc |-> Head(Contents[b]).len, msg |-> Head(Contents[b])]]
         \/ result' = [result EXCEPT ![p] = [rc |-> -1, msg |-> NoMessage]]
    BY <1>1, <1>8
  <1> QED BY <1>1, <1>6, <1>13, <1>14, ChanTake DEF Refines

LEMMA SendRefines ==
    ASSUME OneOwner, OwnerInv, TypeOK, SlotIntegrity, NEW p \in Procs, NEW m \in Messages, NEW b
    PROVE  /\ Send(p, b, m) => Refines
           /\ MboxCondSend(p, b, m) => Refines
  <1>1. \A rc \in {-1, -2} : Fail(p, rc) => Refines BY FailRefines
  <1>2. WaitForSpace(p, b, m) => Refines
    BY StutterRefines DEF WaitForSpace, BlockMe
  <1>3. ZeroSend(p, b) => Refines
    BY StutterRefines DEF ZeroSend, BlockMe
  <1>4. SendValid(b, m) /\ ~Full(b) /\ Deposit(p, b, m) => Refines
    BY DepositRefines DEF SendValid, Valid
  <1> QED BY <1>1, <1>2, <1>3, <1>4 DEF Send, MboxCondSend

LEMMA RecvRefines ==
    ASSUME TypeOK, NEW p \in Procs, NEW max \in Int, NEW b
    PROVE  /\ Recv(p, b, max) => Refines
           /\ MboxCondRecv(p, b, max) => Refines
  <1>1. \A rc \in {-1, -2} : Fail(p, rc) => Refines BY FailRefines
  <1>2. WaitForMessage(p, b, max) => Refines
    BY StutterRefines DEF WaitForMessage, BlockMe
  <1>3. ASSUME RecvValid(b, max), numSlots[b] = 0, ZeroRecv(p, b)
        PROVE  Refines
    <2>1. b \in Mailboxes /\ isActive[b] BY <1>3 DEF RecvValid, Valid
    <2>2. CASE Return(p, 0, NoMessage) /\ UNCHANGED <<boxes, queues, slots>>
      <3>1. /\ UNCHANGED <<isActive, numSlots, slotQueue, mailSlots>>
            /\ result' = [result EXCEPT ![p] = [rc |-> 0, msg |-> NoMessage]]
        BY <2>2 DEF Return, boxes, queues, slots
      <3> QED BY <1>3, <2>1, <3>1, Untouched, ChanAnswer DEF Refines
    <2>3. CASE UNCHANGED <<boxes, queues, slots, result>> BY <2>3, StutterRefines
    <2> QED BY <1>3, <2>2, <2>3 DEF ZeroRecv, BlockMe
  <1>4. RecvValid(b, max) /\ slotQueue[b] # <<>> /\ Take(p, b, max) => Refines
    BY TakeRefines DEF RecvValid, Valid
  <1> QED BY <1>1, <1>2, <1>3, <1>4 DEF Recv, MboxCondRecv

LEMMA CreateRefines ==
    ASSUME TypeOK, NEW p \in Procs, NEW n \in Int, NEW size \in Int, MboxCreate(p, n, size)
    PROVE  Refines
  <1>1. CASE Fail(p, -1) BY <1>1, FailRefines
  <1>2. CASE /\ n \in 0..MAXSLOTS /\ Inactive # {}
             /\ isActive' = [isActive EXCEPT ![Lowest] = TRUE]
             /\ numSlots' = [numSlots EXCEPT ![Lowest] = n]
             /\ slotQueue' = [slotQueue EXCEPT ![Lowest] = <<>>]
             /\ result' = [result EXCEPT ![p] = [rc |-> Lowest, msg |-> NoMessage]]
             /\ UNCHANGED mailSlots
    <2>1. PICK b \in Mailboxes : b = Lowest /\ ~isActive[b]
      BY <1>2, LowestInactive DEF Inactive
    <2>2. /\ isActive'[b] = TRUE /\ slotQueue'[b] = <<>>
          /\ \A c \in Mailboxes : c # b => isActive'[c] = isActive[c] /\ slotQueue'[c] = slotQueue[c]
      BY <1>2, <2>1 DEF TypeOK
    <2>3. Contents'[b] = <<>>
      <3>1. Len(slotQueue'[b]) = 0 BY <2>2, EmptySeq
      <3>2. Contents'[b] = [i \in 1..0 |-> mailSlots'[slotQueue'[b][i]].message]
        BY <2>2, <3>1 DEF Contents
      <3>3. Contents'[b] \in [1..0 -> Messages] BY <3>2
      <3>4. Contents'[b] \in Seq(Messages) /\ Len(Contents'[b]) = 0 BY <3>3, FunctionIsSeq
      <3> QED BY <3>4, EmptySeq
    <2>4. \A c \in Mailboxes : c # b => Contents'[c] = Contents[c]
      BY <1>2, <2>2, ChannelUntouched
    <2>5. Contents' = [Contents EXCEPT ![b] = <<>>] BY <2>3, <2>4, ContentsChanged
    <2>6. n \in Nat /\ numSlots \in [Mailboxes -> Int]
      BY <1>2, SizesAssumption DEF TypeOK
    <2> QED BY <1>2, <2>1, <2>5, <2>6, ChanOpen DEF Refines
  <1> QED BY <1>1, <1>2 DEF MboxCreate, CreateValid, Return, slots

LEMMA ReleaseRefines ==
    ASSUME OwnerInv, TypeOK, NEW p \in Procs
    PROVE  /\ \A b : MboxRelease(p, b) => Refines
           /\ ReleaseProducers(p) \/ ReleaseConsumers(p) \/ ReleaseClear(p) => Refines
           /\ ReleaseFinish(p) => Refines
  <1>1. ASSUME NEW b, MboxRelease(p, b) PROVE Refines
    <2>1. CASE Fail(p, -1) BY <2>1, FailRefines
    <2>2. CASE /\ Valid(b)
               /\ isActive' = [isActive EXCEPT ![b] = FALSE]
               /\ UNCHANGED <<numSlots, queues, slots, result>>
      <3>1. b \in Mailboxes /\ isActive[b] BY <2>2 DEF Valid
      <3>2. /\ ~isActive'[b]
            /\ \A c \in Mailboxes : c # b => isActive'[c] = isActive[c] /\ slotQueue'[c] = slotQueue[c]
        BY <2>2, <3>1 DEF TypeOK, queues
      <3>3. Contents'[b] = <<>> BY <3>1, <3>2 DEF Contents
      <3>4. \A c \in Mailboxes : c # b => Contents'[c] = Contents[c]
        BY <2>2, <3>2, ChannelUntouched DEF slots
      <3>5. Contents' = [Contents EXCEPT ![b] = <<>>] BY <3>1, <3>3, <3>4, ContentsChanged
      <3> QED BY <2>2, <3>1, <3>5, ChanClose DEF Refines
    <2> QED BY <1>1, <2>1, <2>2 DEF MboxRelease
  <1>2. ASSUME ReleaseProducers(p) \/ ReleaseConsumers(p) \/ ReleaseClear(p)
        PROVE  Refines
    <2>1. UNCHANGED <<boxes, queues, slots, result>>
      BY <1>2 DEF ReleaseProducers, ReleaseConsumers, ReleaseClear, UnblockNext, GoTo
    <2> QED BY <2>1, StutterRefines
  <1>3. ASSUME ReleaseFinish(p) PROVE Refines
    <2> DEFINE b == call[p].mbox
    <2>1. b \in Mailboxes BY DEF TypeOK
    <2>2. ~isActive[b] BY <1>3 DEF ReleaseFinish, OwnerInv, StaysClosed, ReleaseSegments
    <2>3. /\ slotQueue' = [slotQueue EXCEPT ![b] = <<>>]
          /\ result' = [result EXCEPT ![p] = [rc |-> 0, msg |-> NoMessage]]
          /\ UNCHANGED <<isActive, numSlots, mailSlots>>
      BY <1>3 DEF ReleaseFinish, Return, boxes, slots
    <2>4. \A c \in Mailboxes : isActive[c] => slotQueue'[c] = slotQueue[c]
      BY <2>2, <2>3 DEF TypeOK
    <2>5. Contents' = Contents BY <2>3, <2>4, SameContents
    <2> QED BY <2>1, <2>2, <2>3, <2>5, ChanAnswer DEF Refines
  <1> QED BY <1>1, <1>2, <1>3

LEMMA ResumeRefines ==
    ASSUME OwnerInv, TypeOK, SlotIntegrity, NEW p \in Procs, Resume(p)
    PROVE  Refines
  <1> DEFINE b == call[p].mbox
             m == call[p].msg
  <1>0. b \in Mailboxes /\ m \in Messages /\ call[p].max \in Int BY DEF TypeOK
  <1>1. CASE SendResume(p)
    <2>1. CASE Fail(p, -1) BY <2>1, FailRefines
    <2>2. CASE WaitForSpace(p, b, m) BY <2>2, StutterRefines DEF WaitForSpace, BlockMe
    <2>3. CASE isActive[b] /\ ~(Full(b) /\ numSlots[b] > 0) /\ Deposit(p, b, m)
      <3>1. CASE CannotStore(b)
        BY <2>3, <3>1, StutterRefines DEF Deposit, control
      <3>2. CASE ~CannotStore(b)
        <4>1. numSlots[b] \in Nat /\ numSlots[b] # 0
          BY <1>0, <3>2, SizesAssumption DEF CannotStore, TypeOK
        <4>2. ~Full(b) BY <2>3, <4>1
        <4> QED BY <1>0, <2>3, <4>2, DepositRefines
      <3> QED BY <3>1, <3>2
    <2> QED BY <1>1, <2>1, <2>2, <2>3 DEF SendResume
  <1>2. CASE RecvResume(p)
    <2>1. CASE Fail(p, -1) BY <2>1, FailRefines
    <2>2. CASE Return(p, -1, NoMessage) /\ UNCHANGED <<boxes, queues, slots>>
      <3>1. /\ UNCHANGED <<isActive, numSlots, slotQueue, mailSlots>>
            /\ result' = [result EXCEPT ![p] = [rc |-> -1, msg |-> NoMessage]]
        BY <2>2 DEF Return, boxes, queues, slots
      <3> QED BY <3>1, Untouched, ChanAnswer DEF Refines
    <2>3. CASE isActive[b] /\ slotQueue[b] # <<>> /\ Take(p, b, call[p].max)
      BY <1>0, <2>3, TakeRefines
    <2> QED BY <1>2, <2>1, <2>2, <2>3 DEF RecvResume
  <1>3. CASE ZeroResume(p) \/ ZeroSendWoke(p)
    <2>1. isActive[b] /\ numSlots[b] = 0
      BY <1>3 DEF ZeroResume, ZeroSendWoke, OwnerInv, MeetingPlaceKept, ZeroSegments
    <2>2. /\ UNCHANGED <<isActive, numSlots, slotQueue, mailSlots>>
          /\ result' = [result EXCEPT ![p] = [rc |-> 0, msg |-> NoMessage]]
      BY <1>3, <2>1 DEF ZeroResume, ZeroSendWoke, Fail, Return, boxes, queues, slots
    <2> QED BY <1>0, <2>1, <2>2, Untouched, ChanAnswer DEF Refines
  <1> QED BY <1>1, <1>2, <1>3, ReleaseRefines DEF Resume

LEMMA NextRefines ==
    ASSUME OneOwner, OwnerInv, TypeOK, SlotIntegrity, [Next]_vars
    PROVE  Refines
  <1>1. CASE UNCHANGED vars
    BY <1>1, StutterRefines DEF vars, control
  <1>2. ASSUME NEW p \in Procs, Invoke(p)
        PROVE  Refines
    <2>1. /\ Msgs \subseteq Messages /\ TickMsg \in Messages /\ IntSize \in Int
          /\ BufSizes \subseteq Int /\ SlotCounts \subseteq Int /\ SlotSizes \subseteq Int
      BY InputsAssumption DEF Messages, IntSize
    <2>2. CASE \/ \E n \in SlotCounts, size \in SlotSizes : MboxCreate(p, n, size)
               \/ \E b \in Targets : MboxRelease(p, b)
      BY <2>1, <2>2, CreateRefines, ReleaseRefines
    <2>3. CASE \/ \E b \in Targets, m \in Msgs : MboxSend(p, b, m) \/ MboxCondSend(p, b, m)
               \/ clock_interrupt_handler(p)
      BY <2>1, <2>3, SendRefines DEF MboxSend, clock_interrupt_handler
    <2>4. CASE \/ \E b \in Targets, max \in BufSizes : MboxRecv(p, b, max) \/ MboxCondRecv(p, b, max)
               \/ waitDevice(p)
      BY <2>1, <2>4, RecvRefines DEF MboxRecv, waitDevice
    <2> QED BY <1>2, <2>2, <2>3, <2>4 DEF Invoke
  <1> QED BY <1>1, <1>2, ResumeRefines DEF Next

LEMMA InitRefines == Init => Chan!Init
  <1> SUFFICES ASSUME Init PROVE Chan!Init OBVIOUS
  <1>1. TypeOK BY InitType
  <1>2. ASSUME NEW b \in Mailboxes PROVE Contents[b] = <<>>
    <2>1. slotQueue[b] = <<>> BY DEF Init
    <2> QED BY <1>1, <2>1, ContentsEmpty, ContentsClosed
  <1>3. Contents = [b \in Mailboxes |-> <<>>] BY <1>2 DEF Contents
  <1>4. isActive \in [Mailboxes -> BOOLEAN] BY <1>1 DEF TypeOK
  <1>5. numSlots \in [Mailboxes -> 0..1] BY DEF Init
  <1>6. result = [p \in Procs |-> [rc |-> 0, msg |-> NoMessage]] BY DEF Init
  <1> QED BY <1>3, <1>4, <1>5, <1>6 DEF Chan!Init, Contents

(* Every mailbox is a bounded FIFO channel, whatever sends and receives,   *)
(* creations, releases and preemptions come in whatever order, as long as  *)
(* nobody creates or releases mailboxes beside the one who releases them:  *)
(* no message is duplicated, reordered, overwritten while it is queued or  *)
(* delivered from another mailbox, though all draw slots from one pool.    *)
THEOREM ChannelsImplemented == ASSUME OneOwner PROVE Spec => ImplementsChannels
  <1>1. TypeOK /\ SlotIntegrity /\ OwnerInv /\ [Next]_vars => (TypeOK /\ SlotIntegrity /\ OwnerInv)'
    BY NextType, NextSlots, OwnerNext
  <1>2. Init => TypeOK /\ SlotIntegrity /\ OwnerInv BY InitType, InitSlots, OwnerInit
  <1>3. TypeOK /\ SlotIntegrity /\ OwnerInv /\ [Next]_vars => [Chan!Next]_Chan!vars
    BY NextRefines DEF Refines
  <1> QED BY <1>1, <1>2, <1>3, InitRefines, PTL DEF Spec, ImplementsChannels, Chan!Spec

-----------------------------------------------------------------------------
(***************************************************************************)
(* MboxRelease leaves nobody asleep, when one process alone creates and    *)
(* releases mailboxes, at most one process waits in MboxRecv at each, and  *)
(* the arrays of blocked pids have room for all who send.  A process that  *)
(* release wakes may have been woken by somebody else first, and may sleep *)
(* at another mailbox by then; the lists may name processes that are       *)
(* awake.  What is kept is that whoever does sleep is found.               *)
(***************************************************************************)

Owned ==
    /\ OneOwner /\ SomeoneReleases
    /\ \A p, q \in Procs, b \in Mailboxes : ReceivesAt(p, b) /\ ReceivesAt(q, b) => p = q
    /\ IsFiniteSet(Senders) /\ Cardinality(Senders) <= MAX_BLOCKED

Sleeping ==
    \A p \in Procs :
        /\ status[p] = "blocked" => pc[p] \in {"full", "empty"}
        /\ pc[p] = "full" => p \in Senders
        /\ pc[p] = "empty" => ReceivesAt(p, call[p].mbox)

(* Whoever sleeps is in the list, or the one that consumers points at.     *)
ProducersListed == \A p \in Procs : Asleep(p, "full") => Contains(blockedProducers[call[p].mbox], p)
ReceiversPointed == \A p \in Procs : Asleep(p, "empty") => consumers[call[p].mbox] = p

ListOfSenders(list) == Injective(list) /\ \A e : Contains(list, e) => e \in Senders
ListsOfSenders == \A b \in Mailboxes : ListOfSenders(blockedProducers[b])

(* Of those who sleep at the mailbox that o releases, the loop of o has    *)
(* the senders still before it, and a receiver as long as it is not past   *)
(* that.  The mailbox has slots, so o does not enter the loop over the     *)
(* receivers.                                                              *)
StillListed(o, p) ==
    \E i \in 1..Len(blockedProducers[call[o].mbox]) :
        i >= call[o].i /\ blockedProducers[call[o].mbox][i] = p
Swept(o, p) ==
    /\ Asleep(p, "full") => pc[o] = "relProducers" /\ StillListed(o, p)
    /\ Asleep(p, "empty") => pc[o] \in {"relProducers", "relConsumers"}
Sweeps ==
    \A o \in Procs : pc[o] \in ReleaseSegments =>
        /\ numSlots[call[o].mbox] # 0 /\ call[o].i >= 1
        /\ pc[o] = "relConsumers" => call[o].i = 1
        /\ \A p \in Procs : call[p].mbox = call[o].mbox => Swept(o, p)

Found == \A p \in Procs : status[p] = "blocked" => isActive[call[p].mbox] \/ Releasing(call[p].mbox)

Waking == /\ Sleeping /\ ProducersListed /\ ReceiversPointed /\ ListsOfSenders
          /\ Sweeps /\ Found

(* After a halt nothing runs, and nothing is claimed.                      *)
WakeInv == machine = "up" => Waking

-----------------------------------------------------------------------------
(* A step of p changes nobody else but wakes him; drops nobody from a list *)
(* who goes on sleeping; and leaves consumers of sleepers alone.           *)
OnlyWakes(p) ==
    \A r \in Procs : r # p =>
        pc'[r] = pc[r] /\ call'[r] = call[r] /\ (status'[r] = "blocked" => status[r] = "blocked")
ListsKept(p) ==
    \A b \in Mailboxes :
        /\ \A r \in Procs : r # p /\ status'[r] = "blocked" /\ Contains(blockedProducers[b], r) =>
             Contains(blockedProducers'[b], r)
        /\ ~isActive[b] => blockedProducers'[b] = blockedProducers[b]
        /\ ListOfSenders(blockedProducers'[b])
PointsKept(p) == \A r \in Procs : r # p /\ Asleep(r, "empty") => consumers'[call[r].mbox] = r

(* p itself goes on, or falls asleep where it is found again.              *)
GoesOn(p) == pc'[p] = "idle" /\ status'[p] = "ready"
FallsAsleep(p) ==
    /\ status'[p] = "blocked" /\ isActive[call'[p].mbox]
    /\ \/ pc'[p] = "full" /\ p \in Senders /\ Contains(blockedProducers'[call'[p].mbox], p)
       \/ pc'[p] = "empty" /\ ReceivesAt(p, call'[p].mbox) /\ consumers'[call'[p].mbox] = p
Settles(p) == GoesOn(p) \/ FallsAsleep(p)

LEMMA OneReleases ==
    ASSUME Owned, OwnerInv, NEW p \in Procs, Calls[p] \cap {"create", "release"} # {},
           NEW o \in Procs, pc[o] \in ReleaseSegments
    PROVE  o = p
  BY DEF Owned, OneOwner, OwnerInv, StaysClosed

LEMMA WorkKept ==
    ASSUME TypeOK, OwnerInv, Waking, NEW p \in Procs, pc[p] \notin ReleaseSegments,
           OnlyWakes(p), ListsKept(p), PointsKept(p), Settles(p), UNCHANGED boxes
    PROVE  Waking'
  <1>1. UNCHANGED <<isActive, numSlots>> BY DEF boxes
  <1>2. \A r \in Procs : call[r].mbox \in Mailboxes BY DEF TypeOK
  <1>3. pc'[p] \notin ReleaseSegments BY DEF Settles, GoesOn, FallsAsleep, ReleaseSegments
  <1>4. Sleeping'
    <2>1. ASSUME NEW r \in Procs
          PROVE  /\ status'[r] = "blocked" => pc'[r] \in {"full", "empty"}
                 /\ pc'[r] = "full" => r \in Senders
                 /\ pc'[r] = "empty" => ReceivesAt(r, call'[r].mbox)
      <3>1. CASE r = p BY <3>1 DEF Settles, GoesOn, FallsAsleep
      <3>2. CASE r # p BY <3>2 DEF OnlyWakes, Waking, Sleeping
      <3> QED BY <3>1, <3>2
    <2> QED BY <2>1 DEF Sleeping, Senders, ReceivesAt, clockMailbox
  <1>5. ProducersListed'
    <2>1. ASSUME NEW r \in Procs, status'[r] = "blocked", pc'[r] = "full"
          PROVE  Contains(blockedProducers'[call'[r].mbox], r)
      <3>1. CASE r = p BY <2>1, <3>1 DEF Settles, GoesOn, FallsAsleep
      <3>2. CASE r # p
        BY <1>2, <2>1, <3>2 DEF OnlyWakes, ListsKept, Waking, ProducersListed, Asleep
      <3> QED BY <3>1, <3>2
    <2> QED BY <2>1 DEF ProducersListed, Asleep, Contains
  <1>6. ReceiversPointed'
    <2>1. ASSUME NEW r \in Procs, status'[r] = "blocked", pc'[r] = "empty"
          PROVE  consumers'[call'[r].mbox] = r
      <3>1. CASE r = p BY <2>1, <3>1 DEF Settles, GoesOn, FallsAsleep
      <3>2. CASE r # p BY <2>1, <3>2 DEF OnlyWakes, PointsKept, Asleep
      <3> QED BY <3>1, <3>2
    <2> QED BY <2>1 DEF ReceiversPointed, Asleep
  <1>7. ListsOfSenders' BY DEF ListsKept, ListsOfSenders, ListOfSenders, Injective, Contains, Senders
  <1>8. Sweeps'
    <2>1. ASSUME NEW o \in Procs, pc'[o] \in ReleaseSegments
          PROVE  /\ numSlots'[call'[o].mbox] # 0 /\ call'[o].i >= 1
                 /\ pc'[o] = "relConsumers" => call'[o].i = 1
                 /\ \A r \in Procs : call'[r].mbox = call'[o].mbox => Swept(o, r)'
      <3>1. o # p /\ pc[o] \in ReleaseSegments /\ call'[o] = call[o] /\ pc'[o] = pc[o]
        BY <1>3, <2>1 DEF OnlyWakes
      <3>2. ~isActive[call[o].mbox] BY <3>1 DEF OwnerInv, StaysClosed
      <3>3. blockedProducers'[call[o].mbox] = blockedProducers[call[o].mbox]
        BY <1>2, <3>2 DEF ListsKept
      <3>4. ASSUME NEW r \in Procs, call'[r].mbox = call'[o].mbox
            PROVE  Swept(o, r)'
        <4>1. CASE r = p
          <5>1. status'[p] # "blocked" BY <3>1, <3>2, <3>4, <4>1 DEF Settles, GoesOn, FallsAsleep
          <5> QED BY <4>1, <5>1 DEF Swept, Asleep
        <4>2. CASE r # p
          <5>1. /\ pc'[r] = pc[r] /\ call'[r] = call[r]
                /\ status'[r] = "blocked" => status[r] = "blocked"
            BY <4>2 DEF OnlyWakes
          <5>2. Swept(o, r) BY <3>1, <3>4, <5>1 DEF Waking, Sweeps
          <5> QED BY <3>1, <3>3, <5>1, <5>2 DEF Swept, StillListed, Asleep
        <4> QED BY <4>1, <4>2
      <3> QED BY <1>1, <3>1, <3>4 DEF Waking, Sweeps
    <2> QED BY <2>1 DEF Sweeps, ReleaseSegments
  <1>9. Found'
    <2>1. ASSUME NEW r \in Procs, status'[r] = "blocked"
          PROVE  (isActive[call[r].mbox] \/ Releasing(call[r].mbox))'
      <3>1. CASE r = p BY <1>1, <2>1, <3>1 DEF Settles, GoesOn, FallsAsleep
      <3>2. CASE r # p
        <4>1. call'[r] = call[r] /\ status[r] = "blocked" BY <2>1, <3>2 DEF OnlyWakes
        <4>2. CASE isActive[call[r].mbox] BY <1>1, <4>1, <4>2
        <4>3. CASE Releasing(call[r].mbox)
          <5>1. PICK o \in Procs : call[o].mbox = call[r].mbox /\ pc[o] \in ReleaseSegments
            BY <4>3 DEF Releasing, ReleaseSegments
          <5>2. o # p /\ pc'[o] = pc[o] /\ call'[o] = call[o] BY <5>1 DEF OnlyWakes
          <5>3. call'[o].mbox = call'[r].mbox /\ pc'[o] \in ReleaseSegments
            BY <4>1, <5>1, <5>2
          <5> QED BY <5>3 DEF Releasing, ReleaseSegments
        <4> QED BY <4>1, <4>2, <4>3 DEF Waking, Found
      <3> QED BY <3>1, <3>2
    <2> QED BY <2>1 DEF Found
  <1> QED BY <1>4, <1>5, <1>6, <1>7, <1>8, <1>9 DEF Waking

-----------------------------------------------------------------------------
(* The pieces of the operations. *)
LEMMA UnblockWakes ==
    ASSUME TypeOK, NEW p \in Procs, NEW q \in Procs, Unblock(p, q), machine' = "up"
    PROVE  /\ \A r \in Procs : r # q => status'[r] = status[r]
           /\ q # p => status'[q] = "ready"
           /\ q = p => status'[p] = status[p]
  BY DEF Unblock, TypeOK, running

LEMMA ListsUntouched ==
    ASSUME TypeOK, Waking, NEW p \in Procs, UNCHANGED blockedProducers
    PROVE  ListsKept(p)
  BY DEF Waking, ListsOfSenders, ListsKept

LEMMA PointsUntouched ==
    ASSUME Waking, NEW p \in Procs, UNCHANGED consumers
    PROVE  PointsKept(p)
  BY DEF Waking, ReceiversPointed, PointsKept

LEMMA ReturnSettles ==
    ASSUME TypeOK, NEW p \in Procs, NEW rc, NEW m, Return(p, rc, m), status'[p] = "ready",
           \A r \in Procs : r # p => (status'[r] = "blocked" => status[r] = "blocked")
    PROVE  OnlyWakes(p) /\ Settles(p)
  BY ReturnEach DEF OnlyWakes, Settles, GoesOn

(* wakeupConsumer wakes somebody at most.                                  *)
LEMMA ConsumerWakes ==
    ASSUME TypeOK, NEW p \in Procs, status[p] = "ready", NEW b \in Mailboxes,
           wakeupConsumer(p, b), machine' = "up"
    PROVE  /\ status'[p] = "ready"
           /\ \A r \in Procs : status'[r] = "blocked" => status[r] = "blocked"
  <1>1. CASE UNCHANGED running BY <1>1 DEF running
  <1>2. CASE blockedConsumers[b] # <<>> /\ Unblock(p, Head(blockedConsumers[b]))
    <2>1. PICK q \in Procs : Unblock(p, q)
      <3>1. blockedConsumers[b] \in Seq(Procs) BY ListsType
      <3> QED BY <1>2, <3>1, HeadTail
    <2> QED BY <2>1, UnblockWakes DEF TypeOK
  <1> QED BY <1>1, <1>2 DEF wakeupConsumer

(* wakeupProducer takes out of a list the one it wakes. *)
LEMMA ProducerWakes ==
    ASSUME TypeOK, Waking, NEW p \in Procs, status[p] = "ready", NEW b \in Mailboxes, isActive[b],
           wakeupProducer(p, b), machine' = "up"
    PROVE  /\ status'[p] = "ready"
           /\ \A r \in Procs : status'[r] = "blocked" => status[r] = "blocked"
           /\ ListsKept(p)
  <1>1. CASE UNCHANGED <<blockedProducers, running>>
    BY <1>1, ListsUntouched DEF running
  <1>2. CASE /\ blockedProducers[b] # <<>>
             /\ blockedProducers' = [blockedProducers EXCEPT ![b] = Tail(@)]
             /\ Unblock(p, Head(blockedProducers[b]))
    <2>1. blockedProducers[b] \in Seq(Procs) /\ blockedProducers \in [Mailboxes -> Seq(Procs)]
      BY ListsType DEF TypeOK
    <2>2. ListOfSenders(blockedProducers[b]) BY DEF Waking, ListsOfSenders
    <2>3. Injective(blockedProducers[b]) BY <2>2 DEF ListOfSenders
    <2>4. PICK q : q = Head(blockedProducers[b]) OBVIOUS
    <2>5. /\ Injective(Tail(blockedProducers[b])) /\ q \in Procs
          /\ \A e : Contains(Tail(blockedProducers[b]), e)
                      <=> Contains(blockedProducers[b], e) /\ e # q
      BY <1>2, <2>1, <2>3, <2>4, HeadTaken
    <2>6. /\ \A r \in Procs : r # q => status'[r] = status[r]
          /\ q # p => status'[q] = "ready"
          /\ q = p => status'[p] = status[p]
      BY <1>2, <2>4, <2>5, UnblockWakes
    <2>7. /\ blockedProducers'[b] = Tail(blockedProducers[b])
          /\ \A c \in Mailboxes : c # b => blockedProducers'[c] = blockedProducers[c]
      BY <1>2, <2>1
    <2>8. ListOfSenders(blockedProducers'[b]) BY <2>2, <2>5, <2>7 DEF ListOfSenders
    <2>9. ASSUME NEW c \in Mailboxes
          PROVE  /\ \A r \in Procs : r # p /\ status'[r] = "blocked" /\ Contains(blockedProducers[c], r) =>
                      Contains(blockedProducers'[c], r)
                 /\ ~isActive[c] => blockedProducers'[c] = blockedProducers[c]
                 /\ ListOfSenders(blockedProducers'[c])
      <3>1. CASE c = b BY <2>5, <2>6, <2>7, <2>8, <3>1
      <3>2. CASE c # b BY <2>7, <3>2 DEF Waking, ListsOfSenders
      <3> QED BY <3>1, <3>2
    <2>10. ListsKept(p) BY <2>9 DEF ListsKept
    <2>11. /\ status'[p] = "ready"
           /\ \A r \in Procs : status'[r] = "blocked" => status[r] = "blocked"
      BY <2>5, <2>6
    <2> QED BY <2>10, <2>11
  <1> QED BY <1>1, <1>2 DEF wakeupProducer

LEMMA DepositKeeps ==
    ASSUME TypeOK, OwnerInv, Waking, NEW p \in Procs, status[p] = "ready", pc[p] \notin ReleaseSegments,
           NEW b \in Mailboxes, NEW m, Deposit(p, b, m), machine' = "up", machine = "up"
    PROVE  Waking'
  <1>1. /\ Return(p, 0, NoMessage) /\ UNCHANGED <<boxes, consumers, blockedProducers>>
        /\ wakeupConsumer(p, b) \/ UNCHANGED running
    BY DEF Deposit
  <1>2. /\ status'[p] = "ready"
        /\ \A r \in Procs : status'[r] = "blocked" => status[r] = "blocked"
    <2>1. CASE UNCHANGED running BY <2>1 DEF running
    <2>2. CASE wakeupConsumer(p, b) BY <2>2, ConsumerWakes
    <2> QED BY <1>1, <2>1, <2>2
  <1>3. OnlyWakes(p) /\ Settles(p) BY <1>1, <1>2, ReturnSettles
  <1>4. ListsKept(p) /\ PointsKept(p) BY <1>1, ListsUntouched, PointsUntouched
  <1> QED BY <1>1, <1>3, <1>4, WorkKept

LEMMA TakeKeeps ==
    ASSUME TypeOK, OwnerInv, Waking, NEW p \in Procs, status[p] = "ready", pc[p] \notin ReleaseSegments,
           NEW b \in Mailboxes, isActive[b], NEW max, Take(p, b, max), machine' = "up",
           PointsKept(p)
    PROVE  Waking'
  <1>1. /\ \E rc, m : Return(p, rc, m)
        /\ UNCHANGED boxes
        /\ wakeupProducer(p, b) \/ UNCHANGED <<blockedProducers, running>>
    BY DEF Take
  <1>2. /\ status'[p] = "ready"
        /\ \A r \in Procs : status'[r] = "blocked" => status[r] = "blocked"
        /\ ListsKept(p)
    <2>1. CASE UNCHANGED <<blockedProducers, running>> BY <2>1, ListsUntouched DEF running
    <2>2. CASE wakeupProducer(p, b) BY <2>2, ProducerWakes
    <2> QED BY <1>1, <2>1, <2>2
  <1>3. OnlyWakes(p) /\ Settles(p) BY <1>1, <1>2, ReturnSettles
  <1> QED BY <1>1, <1>2, <1>3, WorkKept

LEMMA FailKeeps ==
    ASSUME TypeOK, OwnerInv, Waking, NEW p \in Procs, status[p] = "ready", pc[p] \notin ReleaseSegments,
           NEW rc, Return(p, rc, NoMessage), PointsKept(p),
           UNCHANGED <<boxes, blockedProducers, running>>
    PROVE  Waking'
  <1>1. ListsKept(p) BY ListsUntouched
  <1>2. UNCHANGED <<boxes, status>> BY DEF running
  <1>3. OnlyWakes(p) /\ Settles(p) BY <1>2, ReturnSettles
  <1> QED BY <1>1, <1>2, <1>3, WorkKept

LEMMA WaitForSpaceKeeps ==
    ASSUME Owned, TypeOK, OwnerInv, Waking, NEW p \in Senders, status[p] = "ready",
           pc[p] \notin ReleaseSegments,
           NEW b \in Mailboxes, isActive[b], NEW m, WaitForSpace(p, b, m)
    PROVE  Waking'
  <1> DEFINE new == IF Contains(blockedProducers[b], p) THEN blockedProducers[b]
                    ELSE ListBlocked(blockedProducers[b], p)
             arg == Args(b, m, 0)
  <1>1. /\ p \in Procs /\ arg.mbox = b
        /\ blockedProducers' = [blockedProducers EXCEPT ![b] = new]
        /\ BlockMe(p, "full", arg) /\ UNCHANGED <<boxes, consumers>>
    BY DEF WaitForSpace, Senders, Args
  <1>2. /\ blockedProducers[b] \in Seq(Procs) /\ ListOfSenders(blockedProducers[b])
        /\ blockedProducers \in [Mailboxes -> Seq(Procs)]
    BY ListsType DEF Waking, ListsOfSenders, TypeOK
  <1>3. /\ ListOfSenders(new) /\ Contains(new, p)
        /\ \A e : Contains(blockedProducers[b], e) => Contains(new, e)
    <2>1. CASE Contains(blockedProducers[b], p) BY <1>2, <2>1
    <2>2. CASE ~Contains(blockedProducers[b], p)
      <3>1. Injective(blockedProducers[b]) /\ \A e : Contains(blockedProducers[b], e) => e \in Senders
        BY <1>2 DEF ListOfSenders
      <3>2. IsFiniteSet(Senders) BY DEF Owned
      <3>3. Len(blockedProducers[b]) < Cardinality(Senders)
        BY <1>2, <2>2, <3>1, <3>2, RoomLeft
      <3>4. Len(blockedProducers[b]) < MAX_BLOCKED
        <4>1. Cardinality(Senders) \in Nat /\ Len(blockedProducers[b]) \in Nat /\ MAX_BLOCKED \in Nat
          BY <1>2, <3>2, FS_CardinalityType, SizesAssumption
        <4> QED BY <3>3, <4>1 DEF Owned
      <3>5. new = Append(blockedProducers[b], p) BY <2>2, <3>4 DEF ListBlocked
      <3>6. /\ Injective(Append(blockedProducers[b], p))
            /\ \A e : Contains(Append(blockedProducers[b], p), e)
                        <=> Contains(blockedProducers[b], e) \/ e = p
        BY <1>1, <1>2, <2>2, <3>1, OneAppended
      <3> QED BY <3>1, <3>5, <3>6 DEF ListOfSenders
    <2> QED BY <2>1, <2>2
  <1> HIDE DEF new, arg
  <1>4. blockedProducers'[b] = new /\ \A c \in Mailboxes : c # b => blockedProducers'[c] = blockedProducers[c]
    BY <1>1, <1>2
  <1>5. ListsKept(p)
    <2>1. ASSUME NEW c \in Mailboxes
          PROVE  /\ \A r \in Procs : r # p /\ status'[r] = "blocked" /\ Contains(blockedProducers[c], r) =>
                      Contains(blockedProducers'[c], r)
                 /\ ~isActive[c] => blockedProducers'[c] = blockedProducers[c]
                 /\ ListOfSenders(blockedProducers'[c])
      <3>1. CASE c = b BY <1>3, <1>4, <3>1
      <3>2. CASE c # b BY <1>4, <3>2 DEF Waking, ListsOfSenders
      <3> QED BY <3>1, <3>2
    <2> QED BY <2>1 DEF ListsKept
  <1>6. /\ \A r \in Procs : pc'[r] = IF r = p THEN "full" ELSE pc[r]
        /\ \A r \in Procs : call'[r] = IF r = p THEN arg ELSE call[r]
        /\ \A r \in Procs : status'[r] = IF r = p THEN "blocked" ELSE status[r]
    BY <1>1, BlockEach
  <1>7. OnlyWakes(p) BY <1>6 DEF OnlyWakes
  <1>8. Settles(p)
    <2>1. isActive[call'[p].mbox] /\ call'[p].mbox = b BY <1>1, <1>6
    <2> QED BY <1>1, <1>3, <1>4, <1>6, <2>1 DEF Settles, FallsAsleep
  <1>9. PointsKept(p) BY <1>1, PointsUntouched
  <1> QED BY <1>1, <1>5, <1>7, <1>8, <1>9, WorkKept

(* consumers is overwritten, but nobody else receives at this mailbox.     *)
LEMMA OwnPointer ==
    ASSUME Owned, TypeOK, Waking, NEW p \in Procs, NEW b \in Mailboxes, ReceivesAt(p, b), NEW new,
           consumers' = [consumers EXCEPT ![b] = new]
    PROVE  PointsKept(p) /\ consumers'[b] = new
  <1>1. ASSUME NEW r \in Procs, r # p, Asleep(r, "empty")
        PROVE  consumers'[call[r].mbox] = r
    <2>1. ReceivesAt(r, call[r].mbox) /\ consumers[call[r].mbox] = r /\ call[r].mbox \in Mailboxes
      BY <1>1 DEF Waking, Sleeping, ReceiversPointed, Asleep, TypeOK
    <2>2. call[r].mbox # b BY <1>1, <2>1 DEF Owned
    <2> QED BY <2>1, <2>2 DEF TypeOK
  <1> QED BY <1>1 DEF PointsKept, TypeOK

LEMMA WaitForMessageKeeps ==
    ASSUME Owned, TypeOK, OwnerInv, Waking, NEW p \in Procs, status[p] = "ready",
           pc[p] \notin ReleaseSegments,
           NEW b \in Mailboxes, isActive[b], ReceivesAt(p, b), NEW max, WaitForMessage(p, b, max)
    PROVE  Waking'
  <1> DEFINE arg == Args(b, NoMessage, max)
  <1>1. /\ arg.mbox = b /\ BlockMe(p, "empty", arg) /\ UNCHANGED <<boxes, blockedProducers>>
        /\ consumers' = [consumers EXCEPT ![b] = p]
    BY DEF WaitForMessage, Args
  <1> HIDE DEF arg
  <1>2. PointsKept(p) /\ consumers'[b] = p BY <1>1, OwnPointer
  <1>3. ListsKept(p) BY <1>1, ListsUntouched
  <1>4. /\ \A r \in Procs : pc'[r] = IF r = p THEN "empty" ELSE pc[r]
        /\ \A r \in Procs : call'[r] = IF r = p THEN arg ELSE call[r]
        /\ \A r \in Procs : status'[r] = IF r = p THEN "blocked" ELSE status[r]
    BY <1>1, BlockEach
  <1>5. OnlyWakes(p) BY <1>4 DEF OnlyWakes
  <1>6. Settles(p)
    <2>1. isActive[call'[p].mbox] /\ call'[p].mbox = b BY <1>1, <1>4
    <2> QED BY <1>2, <1>4, <2>1 DEF Settles, FallsAsleep
  <1> QED BY <1>1, <1>2, <1>3, <1>5, <1>6, WorkKept

-----------------------------------------------------------------------------
(* The operations.  A client that names no mailbox below Reserved finds    *)
(* slots wherever it is let in.                                            *)
LEMMA FindsSlots ==
    ASSUME Owned, OwnerInv, NEW b, Valid(b), b >= Reserved
    PROVE  b \in Mailboxes /\ isActive[b] /\ numSlots[b] # 0
  BY DEF Owned, OwnerInv, HaveSlots, Valid

LEMMA SendKeeps ==
    ASSUME Owned, TypeOK, OwnerInv, Waking, NEW p \in Procs, status[p] = "ready",
           pc[p] = "idle", NEW b, b >= Reserved, NEW m, machine = "up", machine' = "up"
    PROVE  /\ p \in Senders /\ Send(p, b, m) => Waking'
           /\ MboxCondSend(p, b, m) => Waking'
  <1>1. pc[p] \notin ReleaseSegments BY DEF ReleaseSegments
  <1>2. ASSUME NEW rc, Fail(p, rc) PROVE Waking'
    <2>1. PointsKept(p) BY <1>2, PointsUntouched DEF Fail, waiting
    <2>2. Return(p, rc, NoMessage) /\ UNCHANGED <<boxes, blockedProducers, running>>
      BY <1>2 DEF Fail, waiting
    <2> QED BY <1>1, <2>1, <2>2, FailKeeps
  <1>3. ASSUME SendValid(b, m), Deposit(p, b, m) PROVE Waking'
    BY <1>1, <1>3, FindsSlots, DepositKeeps DEF SendValid
  <1>4. ASSUME p \in Senders, Send(p, b, m) PROVE Waking'
    <2>1. SendValid(b, m) => b \in Mailboxes /\ isActive[b] /\ numSlots[b] # 0
      BY FindsSlots DEF SendValid
    <2>2. CASE SendValid(b, m) /\ WaitForSpace(p, b, m)
      BY <1>1, <1>4, <2>1, <2>2, WaitForSpaceKeeps
    <2> QED BY <1>2, <1>3, <1>4, <2>1, <2>2 DEF Send
  <1>5. ASSUME MboxCondSend(p, b, m) PROVE Waking'
    BY <1>2, <1>3, <1>5 DEF MboxCondSend
  <1> QED BY <1>4, <1>5

LEMMA RecvKeeps ==
    ASSUME Owned, TypeOK, OwnerInv, Waking, NEW p \in Procs, status[p] = "ready",
           pc[p] = "idle", NEW b, b >= Reserved, NEW max, machine' = "up"
    PROVE  /\ ReceivesAt(p, b) /\ Recv(p, b, max) => Waking'
           /\ MboxCondRecv(p, b, max) => Waking'
  <1>1. pc[p] \notin ReleaseSegments BY DEF ReleaseSegments
  <1>2. ASSUME NEW rc, Fail(p, rc) PROVE Waking'
    <2>1. PointsKept(p) BY <1>2, PointsUntouched DEF Fail, waiting
    <2>2. Return(p, rc, NoMessage) /\ UNCHANGED <<boxes, blockedProducers, running>>
      BY <1>2 DEF Fail, waiting
    <2> QED BY <1>1, <2>1, <2>2, FailKeeps
  <1>3. ASSUME RecvValid(b, max), Take(p, b, max), UNCHANGED consumers PROVE Waking'
    <2>1. b \in Mailboxes /\ isActive[b] BY <1>3, FindsSlots DEF RecvValid
    <2>2. PointsKept(p) BY <1>3, PointsUntouched
    <2> QED BY <1>1, <1>3, <2>1, <2>2, TakeKeeps
  <1>4. ASSUME ReceivesAt(p, b), Recv(p, b, max) PROVE Waking'
    <2>1. RecvValid(b, max) => b \in Mailboxes /\ isActive[b] /\ numSlots[b] # 0
      BY FindsSlots DEF RecvValid
    <2>2. CASE RecvValid(b, max) /\ WaitForMessage(p, b, max)
      BY <1>1, <1>4, <2>1, <2>2, WaitForMessageKeeps
    <2> QED BY <1>2, <1>3, <1>4, <2>1, <2>2 DEF Recv
  <1>5. ASSUME MboxCondRecv(p, b, max) PROVE Waking'
    BY <1>2, <1>3, <1>5 DEF MboxCondRecv
  <1> QED BY <1>4, <1>5

LEMMA ResumeKeeps ==
    ASSUME Owned, TypeOK, OwnerInv, Waking, NEW p \in Procs, machine' = "up",
           SendResume(p) \/ RecvResume(p)
    PROVE  Waking'
  <1> DEFINE b == call[p].mbox
             m == call[p].msg
  <1>1. /\ machine = "up" /\ status[p] = "ready" /\ pc[p] \in {"full", "empty"}
        /\ b \in Mailboxes
    BY DEF SendResume, RecvResume, CanRun, TypeOK
  <1>2. pc[p] \notin ReleaseSegments BY <1>1 DEF ReleaseSegments
  <1>3. ASSUME NEW rc, Fail(p, rc) PROVE Waking'
    <2>1. PointsKept(p) BY <1>3, PointsUntouched DEF Fail, waiting
    <2>2. Return(p, rc, NoMessage) /\ UNCHANGED <<boxes, blockedProducers, running>>
      BY <1>3 DEF Fail, waiting
    <2> QED BY <1>1, <1>2, <2>1, <2>2, FailKeeps
  <1>4. CASE SendResume(p)
    <2>1. p \in Senders BY <1>4 DEF SendResume, Waking, Sleeping
    <2>2. CASE isActive[b] /\ WaitForSpace(p, b, m)
      BY <1>1, <1>2, <2>1, <2>2, WaitForSpaceKeeps
    <2>3. CASE Deposit(p, b, m) BY <1>1, <1>2, <2>3, DepositKeeps
    <2> QED BY <1>3, <1>4, <2>2, <2>3 DEF SendResume
  <1>5. CASE RecvResume(p)
    <2>1. ReceivesAt(p, b) BY <1>5 DEF RecvResume, Waking, Sleeping
    <2>2. CASE isActive[b] /\ consumers' = [consumers EXCEPT ![b] = NULL]
      <3>1. PointsKept(p) BY <1>1, <2>1, <2>2, OwnPointer
      <3>2. CASE Take(p, b, call[p].max) BY <1>1, <1>2, <2>2, <3>1, <3>2, TakeKeeps
      <3>3. CASE /\ Return(p, -1, NoMessage)
                 /\ UNCHANGED <<boxes, queues, slots, blockedProducers, blockedConsumers, running>>
        BY <1>1, <1>2, <3>1, <3>3, FailKeeps
      <3> QED BY <1>5, <2>2, <3>2, <3>3 DEF RecvResume
    <2> QED BY <1>3, <1>5, <2>2 DEF RecvResume
  <1> QED BY <1>4, <1>5

(* Nobody sleeps at the mailbox that MboxCreate takes.                     *)
LEMMA CreateKeeps ==
    ASSUME Owned, TypeOK, OwnerInv, Waking, NEW p \in Procs, NEW n, NEW size,
           MboxCreate(p, n, size)
    PROVE  Waking'
  <1>1. /\ status[p] = "ready" /\ pc[p] = "idle" /\ pc[p] \notin ReleaseSegments
        /\ Calls[p] \cap {"create", "release"} # {}
    BY DEF MboxCreate, Enter, CanRun, ReleaseSegments
  <1>2. CASE Fail(p, -1)
    <2>1. PointsKept(p) BY <1>2, PointsUntouched DEF Fail, waiting
    <2>2. Return(p, -1, NoMessage) /\ UNCHANGED <<boxes, blockedProducers, running>>
      BY <1>2 DEF Fail, waiting
    <2> QED BY <1>1, <2>1, <2>2, FailKeeps
  <1>3. CASE /\ Inactive # {}
             /\ isActive' = [isActive EXCEPT ![Lowest] = TRUE]
             /\ consumers' = [consumers EXCEPT ![Lowest] = NULL]
             /\ Return(p, Lowest, NoMessage)
             /\ UNCHANGED <<blockedProducers, running>>
    <2>1. PICK b \in Mailboxes : b = Lowest /\ ~isActive[b]
      BY <1>3, LowestInactive DEF Inactive
    <2>2. \A r \in Procs : pc[r] \notin ReleaseSegments BY <1>1, OneReleases
    <2>3. \A r \in Procs : status[r] = "blocked" =>
            isActive[call[r].mbox] /\ call[r].mbox \in Mailboxes /\ call[r].mbox # b
      BY <2>1, <2>2 DEF Waking, Found, Releasing, ReleaseSegments, TypeOK
    <2>4. /\ \A r \in Procs : pc'[r] = IF r = p THEN "idle" ELSE pc[r]
          /\ \A r \in Procs : r # p => call'[r] = call[r]
          /\ status' = status
      BY <1>3, ReturnEach DEF running
    <2>5. /\ \A c \in Mailboxes : c # b => isActive'[c] = isActive[c] /\ consumers'[c] = consumers[c]
          /\ isActive'[b] = TRUE
      BY <1>3, <2>1 DEF TypeOK
    <2>6. \A r \in Procs : status'[r] = "blocked" =>
            r # p /\ status[r] = "blocked" /\ pc'[r] = pc[r] /\ call'[r] = call[r]
      BY <1>1, <2>4
    <2>7. Sleeping'
      <3>1. ASSUME NEW r \in Procs
            PROVE  /\ status'[r] = "blocked" => pc'[r] \in {"full", "empty"}
                   /\ pc'[r] = "full" => r \in Senders
                   /\ pc'[r] = "empty" => ReceivesAt(r, call'[r].mbox)
        BY <1>1, <2>4 DEF Waking, Sleeping
      <3> QED BY <3>1 DEF Sleeping, Senders, ReceivesAt, clockMailbox
    <2>8. ProducersListed' BY <1>3, <2>6 DEF Waking, ProducersListed, Asleep, Contains
    <2>9. ReceiversPointed' BY <2>3, <2>5, <2>6 DEF Waking, ReceiversPointed, Asleep
    <2>10. ListsOfSenders'
      BY <1>3 DEF Waking, ListsOfSenders, ListOfSenders, Injective, Contains, Senders
    <2>11. Sweeps' BY <2>2, <2>4 DEF Sweeps, ReleaseSegments
    <2>12. Found' BY <2>3, <2>5, <2>6 DEF Found
    <2> QED BY <2>7, <2>8, <2>9, <2>10, <2>11, <2>12 DEF Waking
  <1> QED BY <1>2, <1>3 DEF MboxCreate

-----------------------------------------------------------------------------
(* MboxRelease.  A step of the owner o changes nobody else but wakes him;  *)
(* o stays in its release of b or returns from it.                         *)
LEMMA OwnerWork ==
    ASSUME Owned, TypeOK, OwnerInv, Waking, NEW o \in Procs, "release" \in Calls[o],
           status'[o] = "ready", OnlyWakes(o), pc'[o] \in ReleaseSegments \cup {"idle"},
           \A b \in Mailboxes : ListOfSenders(blockedProducers'[b]),
           \A r \in Procs : r # o /\ status'[r] = "blocked" =>
             /\ pc[r] = "full" => Contains(blockedProducers'[call[r].mbox], r)
             /\ pc[r] = "empty" => consumers'[call[r].mbox] = r
             /\ isActive'[call[r].mbox] \/ (pc'[o] \in ReleaseSegments /\ call'[o].mbox = call[r].mbox),
           pc'[o] \in ReleaseSegments =>
             /\ numSlots'[call'[o].mbox] # 0 /\ call'[o].i >= 1
             /\ pc'[o] = "relConsumers" => call'[o].i = 1
             /\ \A r \in Procs : r # o /\ call[r].mbox = call'[o].mbox => Swept(o, r)'
    PROVE  Waking'
  <1>1. \A r \in Procs : status'[r] = "blocked" =>
          r # o /\ status[r] = "blocked" /\ pc'[r] = pc[r] /\ call'[r] = call[r]
    BY DEF OnlyWakes
  <1>2. pc'[o] \notin {"full", "empty"} BY DEF ReleaseSegments
  <1>3. Sleeping'
    <2>1. ASSUME NEW r \in Procs
          PROVE  /\ status'[r] = "blocked" => pc'[r] \in {"full", "empty"}
                 /\ pc'[r] = "full" => r \in Senders
                 /\ pc'[r] = "empty" => ReceivesAt(r, call'[r].mbox)
      <3>1. CASE r = o BY <1>2, <3>1
      <3>2. CASE r # o BY <3>2 DEF OnlyWakes, Waking, Sleeping
      <3> QED BY <3>1, <3>2
    <2> QED BY <2>1 DEF Sleeping, Senders, ReceivesAt, clockMailbox
  <1>4. ProducersListed' BY <1>1 DEF ProducersListed, Asleep, Contains
  <1>5. ReceiversPointed' BY <1>1 DEF ReceiversPointed, Asleep
  <1>6. ListsOfSenders' BY DEF ListsOfSenders, ListOfSenders, Injective, Contains, Senders
  <1>7. Sweeps'
    <2>1. ASSUME NEW q \in Procs, pc'[q] \in ReleaseSegments
          PROVE  /\ numSlots'[call'[q].mbox] # 0 /\ call'[q].i >= 1
                 /\ pc'[q] = "relConsumers" => call'[q].i = 1
                 /\ \A r \in Procs : call'[r].mbox = call'[q].mbox => Swept(q, r)'
      <3>1. q = o
        <4>1. q # o => pc[q] \in ReleaseSegments BY <2>1 DEF OnlyWakes
        <4>2. q # o => q = o BY <4>1, OneReleases
        <4> QED BY <4>2
      <3>2. ASSUME NEW r \in Procs, call'[r].mbox = call'[q].mbox PROVE Swept(q, r)'
        <4>1. CASE r = o BY <4>1 DEF Swept, Asleep
        <4>2. CASE r # o
          <5>1. call'[r] = call[r] BY <4>2 DEF OnlyWakes
          <5> QED BY <2>1, <3>1, <3>2, <4>2, <5>1
        <4> QED BY <4>1, <4>2
      <3> QED BY <2>1, <3>1, <3>2
    <2> QED BY <2>1 DEF Sweeps, ReleaseSegments
  <1>8. Found'
    <2>1. ASSUME NEW r \in Procs, status'[r] = "blocked"
          PROVE  (isActive[call[r].mbox] \/ Releasing(call[r].mbox))'
      <3>1. r # o /\ call'[r] = call[r] BY <1>1, <2>1
      <3>2. CASE isActive'[call[r].mbox] BY <3>1, <3>2
      <3>3. CASE pc'[o] \in ReleaseSegments /\ call'[o].mbox = call[r].mbox
        BY <3>1, <3>3 DEF Releasing, ReleaseSegments
      <3> QED BY <2>1, <3>1, <3>2, <3>3
    <2> QED BY <2>1 DEF Found
  <1> QED BY <1>3, <1>4, <1>5, <1>6, <1>7, <1>8 DEF Waking

LEMMA OthersOpen ==
    ASSUME Owned, OwnerInv, Waking, NEW o \in Procs, "release" \in Calls[o],
           NEW r \in Procs, status[r] = "blocked"
    PROVE  isActive[call[r].mbox] \/ (pc[o] \in ReleaseSegments /\ call[o].mbox = call[r].mbox)
  <1> SUFFICES ASSUME ~isActive[call[r].mbox]
               PROVE  pc[o] \in ReleaseSegments /\ call[o].mbox = call[r].mbox
    OBVIOUS
  <1>1. PICK q \in Procs : call[q].mbox = call[r].mbox /\ pc[q] \in ReleaseSegments
    BY DEF Waking, Found, Releasing, ReleaseSegments
  <1>2. q = o BY <1>1, OneReleases
  <1> QED BY <1>1, <1>2

LEMMA ReleaseStarts ==
    ASSUME Owned, TypeOK, OwnerInv, Waking, NEW p \in Procs, NEW b, b >= Reserved,
           MboxRelease(p, b)
    PROVE  Waking'
  <1>1. /\ status[p] = "ready" /\ pc[p] = "idle" /\ pc[p] \notin ReleaseSegments
        /\ "release" \in Calls[p]
    BY DEF MboxRelease, Enter, CanRun, ReleaseSegments
  <1>2. CASE Fail(p, -1)
    <2>1. PointsKept(p) BY <1>2, PointsUntouched DEF Fail, waiting
    <2>2. Return(p, -1, NoMessage) /\ UNCHANGED <<boxes, blockedProducers, running>>
      BY <1>2 DEF Fail, waiting
    <2> QED BY <1>1, <2>1, <2>2, FailKeeps
  <1>3. CASE /\ Valid(b)
             /\ isActive' = [isActive EXCEPT ![b] = FALSE]
             /\ pc' = [pc EXCEPT ![p] = "relProducers"]
             /\ call' = [call EXCEPT ![p] = Args(b, NoMessage, 0)]
             /\ UNCHANGED <<numSlots, blockedProducers, consumers, status>>
    <2> DEFINE arg == Args(b, NoMessage, 0)
    <2>1. arg.mbox = b /\ arg.i = 1 /\ call' = [call EXCEPT ![p] = arg] BY <1>3 DEF Args
    <2> HIDE DEF arg
    <2>2. b \in Mailboxes /\ numSlots[b] # 0 BY <1>3, FindsSlots
    <2>3. /\ \A r \in Procs : r # p => pc'[r] = pc[r] /\ call'[r] = call[r]
          /\ pc'[p] = "relProducers" /\ call'[p].mbox = b /\ call'[p].i = 1
          /\ \A c \in Mailboxes : c # b => isActive'[c] = isActive[c]
      BY <1>3, <2>1 DEF TypeOK
    <2>4. OnlyWakes(p) BY <1>3, <2>3 DEF OnlyWakes
    <2>5. ASSUME NEW r \in Procs, r # p, status'[r] = "blocked"
          PROVE  /\ pc[r] = "full" => Contains(blockedProducers'[call[r].mbox], r)
                 /\ pc[r] = "empty" => consumers'[call[r].mbox] = r
                 /\ isActive'[call[r].mbox] \/ (pc'[p] \in ReleaseSegments /\ call'[p].mbox = call[r].mbox)
      <3>1. isActive[call[r].mbox] /\ call[r].mbox \in Mailboxes
        BY <1>1, <1>3, <2>5, OthersOpen DEF TypeOK
      <3>2. isActive'[call[r].mbox] \/ (pc'[p] \in ReleaseSegments /\ call'[p].mbox = call[r].mbox)
        BY <2>3, <3>1 DEF ReleaseSegments
      <3>3. /\ pc[r] = "full" => Contains(blockedProducers[call[r].mbox], r)
            /\ pc[r] = "empty" => consumers[call[r].mbox] = r
        BY <1>3, <2>5 DEF Waking, ProducersListed, ReceiversPointed, Asleep
      <3> QED BY <1>3, <3>2, <3>3
    <2>6. ASSUME NEW r \in Procs, r # p, call[r].mbox = call'[p].mbox PROVE Swept(p, r)'
      <3>1. ASSUME status'[r] = "blocked", pc'[r] = "full" PROVE StillListed(p, r)'
        <4>1. Contains(blockedProducers[b], r)
          BY <1>3, <2>3, <2>6, <3>1 DEF Waking, ProducersListed, Asleep
        <4>2. PICK i \in 1..Len(blockedProducers[b]) : blockedProducers[b][i] = r
          BY <4>1 DEF Contains
        <4>3. i >= 1 BY <4>2
        <4> QED BY <1>3, <2>3, <4>2, <4>3 DEF StillListed
      <3> QED BY <2>3, <3>1 DEF Swept, Asleep
    <2>7. \A c \in Mailboxes : ListOfSenders(blockedProducers'[c])
      BY <1>3 DEF Waking, ListsOfSenders
    <2>8. /\ pc'[p] \in ReleaseSegments \cup {"idle"} /\ status'[p] = "ready"
          /\ numSlots'[call'[p].mbox] # 0 /\ call'[p].i >= 1
          /\ pc'[p] = "relConsumers" => call'[p].i = 1
      BY <1>1, <1>3, <2>2, <2>3 DEF ReleaseSegments
    <2> QED BY <1>1, <2>4, <2>5, <2>6, <2>7, <2>8, OwnerWork
  <1> QED BY <1>2, <1>3 DEF MboxRelease, waiting, running

(* What release's unblockProc of q does.                                   *)
LEMMA OwnerUnblocks ==
    ASSUME TypeOK, NEW o \in Procs, status[o] = "ready", NEW q \in Procs, Unblock(o, q),
           machine' = "up"
    PROVE  /\ status'[o] = "ready"
           /\ \A r \in Procs : status'[r] = "blocked" => status[r] = "blocked"
           /\ \A r \in Procs : r # o /\ status'[r] = "blocked" => r # q
  BY UnblockWakes DEF TypeOK

LEMMA ProducersSwept ==
    ASSUME Owned, TypeOK, OwnerInv, Waking, NEW o \in Procs, machine' = "up", ReleaseProducers(o)
    PROVE  Waking'
  <1> DEFINE b == call[o].mbox
             list == blockedProducers[b]
             n == call[o].i
  <1>1. /\ status[o] = "ready" /\ pc[o] = "relProducers" /\ pc[o] \in ReleaseSegments
        /\ b \in Mailboxes /\ n \in Nat /\ list \in Seq(Procs) /\ Len(list) \in Nat
    <2>1. status[o] = "ready" /\ pc[o] = "relProducers" /\ pc[o] \in ReleaseSegments
      BY DEF ReleaseProducers, CanRun, ReleaseSegments
    <2>2. b \in Mailboxes /\ n \in Nat BY DEF TypeOK
    <2>3. list \in Seq(Procs) BY <2>2, ListsType
    <2> QED BY <2>1, <2>2, <2>3
  <1>2. "release" \in Calls[o] /\ numSlots[b] # 0 /\ n >= 1
    BY <1>1 DEF OwnerInv, StaysClosed, Waking, Sweeps
  <1>3. \A r \in Procs : status[r] = "blocked" =>
          isActive[call[r].mbox] \/ (pc[o] \in ReleaseSegments /\ b = call[r].mbox)
    BY <1>2, OthersOpen
  <1>4. \A r \in Procs : status[r] = "blocked" =>
          /\ pc[r] = "full" => Contains(blockedProducers[call[r].mbox], r)
          /\ pc[r] = "empty" => consumers[call[r].mbox] = r
    BY DEF Waking, ProducersListed, ReceiversPointed, Asleep
  <1>5. ASSUME NEW r \in Procs, call[r].mbox = b, status[r] = "blocked", pc[r] = "full"
        PROVE  \E j \in 1..Len(list) : j >= n /\ list[j] = r
    BY <1>1, <1>5 DEF Waking, Sweeps, Swept, StillListed, Asleep
  <1>6. CASE UnblockNext(o, list)
    <2>1. n <= Len(list) /\ Unblock(o, list[n])
          /\ call' = [call EXCEPT ![o] = [call[o] EXCEPT !.i = n + 1]]
          /\ UNCHANGED <<isActive, numSlots, blockedProducers, consumers, pc>>
      BY <1>6 DEF UnblockNext, boxes, waiting
    <2>2. /\ \A r \in Procs : r # o => call'[r] = call[r]
          /\ call'[o].mbox = b /\ call'[o].i = n + 1
      BY <2>1 DEF TypeOK
    <2>3. n \in 1..Len(list) BY <1>1, <1>2, <2>1
    <2>4. PICK q \in Procs : q = list[n] BY <1>1, <2>3
    <2>5. /\ status'[o] = "ready"
          /\ \A r \in Procs : status'[r] = "blocked" => status[r] = "blocked"
          /\ \A r \in Procs : r # o /\ status'[r] = "blocked" => r # q
      BY <1>1, <2>1, <2>4, OwnerUnblocks
    <2>6. OnlyWakes(o) BY <2>1, <2>2, <2>5 DEF OnlyWakes
    <2>7. ASSUME NEW r \in Procs, r # o, call[r].mbox = call'[o].mbox PROVE Swept(o, r)'
      <3>1. ASSUME status'[r] = "blocked", pc'[r] = "full" PROVE StillListed(o, r)'
        <4>1. status[r] = "blocked" /\ pc[r] = "full" BY <2>1, <2>5, <3>1
        <4>2. PICK j \in 1..Len(list) : j >= n /\ list[j] = r BY <1>5, <2>2, <2>7, <4>1
        <4>3. j # n BY <2>4, <2>5, <2>7, <3>1, <4>2
        <4>4. j >= n + 1 BY <1>1, <4>2, <4>3
        <4> QED BY <2>1, <2>2, <4>2, <4>4 DEF StillListed
      <3>2. pc'[o] = "relProducers" BY <1>1, <2>1
      <3> QED BY <3>1, <3>2 DEF Swept, Asleep
    <2>8. \A c \in Mailboxes : ListOfSenders(blockedProducers'[c])
      BY <2>1 DEF Waking, ListsOfSenders
    <2>9. \A r \in Procs : r # o /\ status'[r] = "blocked" =>
           /\ pc[r] = "full" => Contains(blockedProducers'[call[r].mbox], r)
           /\ pc[r] = "empty" => consumers'[call[r].mbox] = r
           /\ isActive'[call[r].mbox] \/ (pc'[o] \in ReleaseSegments /\ call'[o].mbox = call[r].mbox)
      BY <1>3, <1>4, <2>1, <2>2, <2>5
    <2>10. /\ pc'[o] \in ReleaseSegments \cup {"idle"}
           /\ numSlots'[call'[o].mbox] # 0 /\ call'[o].i >= 1
           /\ pc'[o] = "relConsumers" => call'[o].i = 1
      BY <1>1, <1>2, <2>1, <2>2
    <2> HIDE DEF b, list, n
    <2> QED BY <1>2, <2>5, <2>6, <2>7, <2>8, <2>9, <2>10, OwnerWork
  <1>7. CASE /\ n > Len(list)
             /\ blockedProducers' = [blockedProducers EXCEPT ![b] = <<>>]
             /\ GoTo(o, "relConsumers")
             /\ UNCHANGED consumers
    <2>1. /\ pc' = [pc EXCEPT ![o] = "relConsumers"]
          /\ call' = [call EXCEPT ![o] = [call[o] EXCEPT !.i = 1]]
          /\ UNCHANGED <<isActive, numSlots, status>>
      BY <1>7 DEF GoTo, boxes, running
    <2>2. /\ \A r \in Procs : r # o => call'[r] = call[r] /\ pc'[r] = pc[r]
          /\ call'[o].mbox = b /\ call'[o].i = 1 /\ pc'[o] = "relConsumers"
      BY <2>1 DEF TypeOK
    <2>3. /\ blockedProducers'[b] = <<>>
          /\ \A c \in Mailboxes : c # b => blockedProducers'[c] = blockedProducers[c]
      BY <1>7 DEF TypeOK
    <2>4. OnlyWakes(o) BY <2>1, <2>2 DEF OnlyWakes
    <2>5. \A r \in Procs : call[r].mbox = b /\ status[r] = "blocked" => pc[r] # "full"
      BY <1>1, <1>5, <1>7
    <2>6. \A r \in Procs : r # o /\ call[r].mbox = call'[o].mbox => Swept(o, r)'
      BY <2>1, <2>2, <2>5 DEF Swept, Asleep
    <2>7. \A c \in Mailboxes : ListOfSenders(blockedProducers'[c])
      <3>1. ListOfSenders(<<>>) BY EmptySeqs DEF ListOfSenders, Injective, Contains
      <3> QED BY <2>3, <3>1 DEF Waking, ListsOfSenders
    <2>8. \A r \in Procs : r # o /\ status'[r] = "blocked" =>
           /\ pc[r] = "full" => Contains(blockedProducers'[call[r].mbox], r)
           /\ pc[r] = "empty" => consumers'[call[r].mbox] = r
           /\ isActive'[call[r].mbox] \/ (pc'[o] \in ReleaseSegments /\ call'[o].mbox = call[r].mbox)
      <3>1. \A r \in Procs : call[r].mbox \in Mailboxes BY DEF TypeOK
      <3> QED BY <1>3, <1>4, <1>7, <2>1, <2>2, <2>3, <2>5, <3>1 DEF ReleaseSegments
    <2>9. /\ pc'[o] \in ReleaseSegments \cup {"idle"} /\ status'[o] = "ready"
          /\ numSlots'[call'[o].mbox] # 0 /\ call'[o].i >= 1
          /\ pc'[o] = "relConsumers" => call'[o].i = 1
      BY <1>1, <1>2, <2>1, <2>2 DEF ReleaseSegments
    <2> HIDE DEF b, list, n
    <2> QED BY <1>2, <2>4, <2>6, <2>7, <2>8, <2>9, OwnerWork
  <1> QED BY <1>6, <1>7 DEF ReleaseProducers

(* The last three segments of a release, at whose mailbox no sender sleeps *)
(* any more.                                                               *)
LEMMA ReleaseGoesOn ==
    ASSUME Owned, TypeOK, OwnerInv, Waking, NEW o \in Procs, pc[o] \in ReleaseSegments,
           status'[o] = "ready",
           \A r \in Procs : status'[r] = "blocked" => status[r] = "blocked",
           \A r \in Procs : status'[r] = "blocked" /\ r # o => call[r].mbox # call[o].mbox,
           \A r \in Procs : r # o => pc'[r] = pc[r] /\ call'[r] = call[r],
           \A c \in Mailboxes : c # call[o].mbox => consumers'[c] = consumers[c],
           UNCHANGED <<isActive, numSlots, blockedProducers>>,
           \/ pc'[o] = "idle"
           \/ pc'[o] \in {"relClear", "relFinish"} /\ call'[o].mbox = call[o].mbox /\ call'[o].i >= 1
    PROVE  Waking'
  <1>1. "release" \in Calls[o] /\ numSlots[call[o].mbox] # 0
    BY DEF OwnerInv, StaysClosed, Waking, Sweeps
  <1>2. OnlyWakes(o) BY DEF OnlyWakes
  <1>3. \A c \in Mailboxes : ListOfSenders(blockedProducers'[c]) BY DEF Waking, ListsOfSenders
  <1>4. ASSUME NEW r \in Procs, r # o, status'[r] = "blocked"
        PROVE  /\ pc[r] = "full" => Contains(blockedProducers'[call[r].mbox], r)
               /\ pc[r] = "empty" => consumers'[call[r].mbox] = r
               /\ isActive'[call[r].mbox] \/ (pc'[o] \in ReleaseSegments /\ call'[o].mbox = call[r].mbox)
    <2>1. status[r] = "blocked" /\ call[r].mbox # call[o].mbox /\ call[r].mbox \in Mailboxes
      BY <1>4 DEF TypeOK
    <2>2. isActive[call[r].mbox] BY <1>1, <2>1, OthersOpen
    <2>3. /\ pc[r] = "full" => Contains(blockedProducers[call[r].mbox], r)
          /\ pc[r] = "empty" => consumers[call[r].mbox] = r
      BY <2>1 DEF Waking, ProducersListed, ReceiversPointed, Asleep
    <2> QED BY <2>1, <2>2, <2>3
  <1>5. ASSUME pc'[o] \in ReleaseSegments
        PROVE  /\ numSlots'[call'[o].mbox] # 0 /\ call'[o].i >= 1
               /\ pc'[o] = "relConsumers" => call'[o].i = 1
               /\ \A r \in Procs : r # o /\ call[r].mbox = call'[o].mbox => Swept(o, r)'
    <2>1. call'[o].mbox = call[o].mbox /\ call'[o].i >= 1 BY <1>5 DEF ReleaseSegments
    <2>2. \A r \in Procs : r # o /\ call[r].mbox = call'[o].mbox => status'[r] # "blocked"
      BY <2>1
    <2> QED BY <1>1, <2>1, <2>2 DEF Swept, Asleep
  <1>6. pc'[o] \in ReleaseSegments \cup {"idle"} BY DEF ReleaseSegments
  <1> QED BY <1>1, <1>2, <1>3, <1>4, <1>5, <1>6, OwnerWork

LEMMA ConsumersSwept ==
    ASSUME Owned, TypeOK, OwnerInv, Waking, NEW o \in Procs, machine' = "up",
           ReleaseConsumers(o) \/ ReleaseClear(o) \/ ReleaseFinish(o)
    PROVE  Waking'
  <1> DEFINE b == call[o].mbox
  <1>1. /\ status[o] = "ready" /\ pc[o] \in {"relConsumers", "relClear", "relFinish"}
        /\ pc[o] \in ReleaseSegments
    BY DEF ReleaseConsumers, ReleaseClear, ReleaseFinish, CanRun, ReleaseSegments
  <1>2. b \in Mailboxes BY DEF TypeOK
  <1>3. numSlots[b] # 0 /\ call[o].i >= 1 BY <1>1 DEF Waking, Sweeps
  <1>4. ASSUME NEW r \in Procs, call[r].mbox = b, status[r] = "blocked"
        PROVE  pc[o] = "relConsumers" /\ pc[r] = "empty" /\ consumers[b] = r
    <2>1. Swept(o, r) BY <1>1, <1>4 DEF Waking, Sweeps
    <2>2. pc[r] \in {"full", "empty"} BY <1>4 DEF Waking, Sleeping
    <2>3. pc[r] # "full" BY <1>1, <1>4, <2>1 DEF Swept, Asleep
    <2> QED BY <1>1, <1>4, <2>1, <2>2, <2>3 DEF Swept, Asleep, Waking, ReceiversPointed
  <1>5. ASSUME GoTo(o, "relFinish")
        PROVE  /\ UNCHANGED <<isActive, numSlots, status>>
               /\ \A r \in Procs : r # o => pc'[r] = pc[r] /\ call'[r] = call[r]
               /\ pc'[o] = "relFinish" /\ call'[o].mbox = b /\ call'[o].i >= 1
    <2>1. /\ pc' = [pc EXCEPT ![o] = "relFinish"]
          /\ call' = [call EXCEPT ![o] = [call[o] EXCEPT !.i = 1]]
          /\ UNCHANGED <<isActive, numSlots, status>>
      BY <1>5 DEF GoTo, boxes, running
    <2> QED BY <2>1 DEF TypeOK
  <1>6. CASE ReleaseConsumers(o)
    <2>0. ~InLoop(o, b) BY <1>1, <1>3, <1>6 DEF InLoop, ReleaseConsumers, Waking, Sweeps
    <2>1. CASE /\ consumers[b] # NULL /\ Unblock(o, consumers[b])
               /\ pc' = [pc EXCEPT ![o] = "relClear"]
               /\ UNCHANGED <<boxes, queues, slots, waiting, call, result>>
      <3>1. PICK q \in Procs : q = consumers[b] BY <1>2, <2>1 DEF TypeOK
      <3>2. /\ status'[o] = "ready"
            /\ \A r \in Procs : status'[r] = "blocked" => status[r] = "blocked"
            /\ \A r \in Procs : r # o /\ status'[r] = "blocked" => r # q
        BY <1>1, <2>1, <3>1, OwnerUnblocks
      <3>3. /\ \A r \in Procs : r # o => pc'[r] = pc[r] /\ call'[r] = call[r]
            /\ pc'[o] = "relClear" /\ call' = call
            /\ UNCHANGED <<isActive, numSlots, blockedProducers, consumers>>
        BY <2>1 DEF TypeOK, boxes, waiting
      <3>4. \A r \in Procs : status'[r] = "blocked" /\ r # o => call[r].mbox # b
        BY <1>4, <3>1, <3>2
      <3> HIDE DEF b
      <3>5. call[o].mbox = b BY DEF b
      <3> QED BY <1>1, <1>3, <3>2, <3>3, <3>4, <3>5, ReleaseGoesOn
    <2>2. CASE consumers[b] = NULL /\ GoTo(o, "relFinish") /\ UNCHANGED waiting
      <3>1. \A r \in Procs : status'[r] = "blocked" /\ r # o => call[r].mbox # b
        BY <1>4, <1>5, <2>2, ProcsAssumption
      <3>2. UNCHANGED <<blockedProducers, consumers>> BY <2>2 DEF waiting
      <3>3. call[o].mbox = b OBVIOUS
      <3> HIDE DEF b
      <3> QED BY <1>1, <1>5, <2>2, <3>1, <3>2, <3>3, ReleaseGoesOn
    <2> QED BY <1>6, <2>0, <2>1, <2>2 DEF ReleaseConsumers
  <1>7. CASE ReleaseClear(o)
    <2>1. /\ pc[o] = "relClear" /\ GoTo(o, "relFinish") /\ UNCHANGED blockedProducers
          /\ consumers' = [consumers EXCEPT ![b] = NULL]
      BY <1>7 DEF ReleaseClear
    <2>2. \A c \in Mailboxes : c # b => consumers'[c] = consumers[c] BY <2>1 DEF TypeOK
    <2>3. \A r \in Procs : status'[r] = "blocked" /\ r # o => call[r].mbox # b
      BY <1>4, <1>5, <2>1
    <2>4. call[o].mbox = b OBVIOUS
    <2> HIDE DEF b
    <2> QED BY <1>1, <1>5, <2>1, <2>2, <2>3, <2>4, ReleaseGoesOn
  <1>8. CASE ReleaseFinish(o)
    <2>1. pc[o] = "relFinish" /\ Return(o, 0, NoMessage) /\ UNCHANGED <<boxes, waiting, running>>
      BY <1>8 DEF ReleaseFinish
    <2>2. UNCHANGED <<isActive, numSlots, blockedProducers, consumers, status>>
      BY <2>1 DEF boxes, waiting, running
    <2>3. \A r \in Procs : status'[r] = "blocked" /\ r # o => call[r].mbox # b
      BY <1>4, <2>1, <2>2
    <2>4. pc'[o] = "idle" /\ \A r \in Procs : r # o => pc'[r] = pc[r] /\ call'[r] = call[r]
      BY <2>1, ReturnEach
    <2>5. call[o].mbox = b OBVIOUS
    <2> HIDE DEF b
    <2> QED BY <1>1, <2>2, <2>3, <2>4, <2>5, ReleaseGoesOn
  <1> QED BY <1>6, <1>7, <1>8

-----------------------------------------------------------------------------
LEMMA InvokeKeeps ==
    ASSUME Owned, TypeOK, OwnerInv, Waking, NEW p \in Procs, machine' = "up", Invoke(p)
    PROVE  Waking'
  <1>1. \A op : Enter(p, op) => machine = "up" /\ status[p] = "ready" /\ pc[p] = "idle" /\ op \in Calls[p]
    BY DEF Enter, CanRun
  <1>2. \A b \in Targets \cup {clockMailbox} : b >= Reserved
    BY SizesAssumption DEF Owned, OneOwner, clockMailbox
  <1>3. "send" \in Calls[p] \/ "tick" \in Calls[p] => p \in Senders BY DEF Senders
  <1>4. CASE \E n \in SlotCounts, size \in SlotSizes : MboxCreate(p, n, size)
    BY <1>4, CreateKeeps
  <1>5. CASE \E b \in Targets : MboxRelease(p, b)
    BY <1>2, <1>5, ReleaseStarts
  <1>6. ASSUME NEW b \in Targets, NEW m \in Msgs, MboxSend(p, b, m) \/ MboxCondSend(p, b, m)
        PROVE  Waking'
    <2>1. b >= Reserved BY <1>2
    <2>2. machine = "up" /\ status[p] = "ready" /\ pc[p] = "idle"
      BY <1>1, <1>6 DEF MboxSend, MboxCondSend
    <2>3. MboxSend(p, b, m) => p \in Senders /\ Send(p, b, m) BY <1>1, <1>3 DEF MboxSend
    <2> QED BY <1>6, <2>1, <2>2, <2>3, SendKeeps
  <1>7. ASSUME NEW b \in Targets, NEW max \in BufSizes, MboxRecv(p, b, max) \/ MboxCondRecv(p, b, max)
        PROVE  Waking'
    <2>1. b >= Reserved BY <1>2
    <2>2. status[p] = "ready" /\ pc[p] = "idle" BY <1>1, <1>7 DEF MboxRecv, MboxCondRecv
    <2>3. MboxRecv(p, b, max) => ReceivesAt(p, b) /\ Recv(p, b, max)
      BY <1>1 DEF MboxRecv, ReceivesAt
    <2> QED BY <1>7, <2>1, <2>2, <2>3, RecvKeeps
  <1>8. CASE waitDevice(p)
    <2>1. status[p] = "ready" /\ pc[p] = "idle" /\ "waitDevice" \in Calls[p]
      BY <1>1, <1>8 DEF waitDevice
    <2>2. ReceivesAt(p, clockMailbox) /\ clockMailbox >= Reserved BY <1>2, <2>1 DEF ReceivesAt
    <2> QED BY <1>8, <2>1, <2>2, RecvKeeps DEF waitDevice
  <1>9. CASE clock_interrupt_handler(p)
    <2>1. machine = "up" /\ status[p] = "ready" /\ pc[p] = "idle" /\ p \in Senders
      BY <1>1, <1>3, <1>9 DEF clock_interrupt_handler
    <2>2. clockMailbox >= Reserved BY <1>2
    <2> QED BY <1>9, <2>1, <2>2, SendKeeps DEF clock_interrupt_handler
  <1> QED BY <1>4, <1>5, <1>6, <1>7, <1>8, <1>9 DEF Invoke

LEMMA WakeNext == Owned /\ TypeOK /\ OwnerInv /\ WakeInv /\ [Next]_vars => WakeInv'
  <1> SUFFICES ASSUME Owned, TypeOK, OwnerInv, WakeInv, [Next]_vars, machine' = "up"
               PROVE  Waking'
    BY DEF WakeInv
  <1>1. CASE UNCHANGED vars
    <2>1. UNCHANGED <<isActive, numSlots, consumers, blockedProducers, status, machine, pc, call>>
      BY <1>1 DEF vars, boxes, waiting, running, control
    <2>2. Waking BY <2>1 DEF WakeInv
    <2>3. Sleeping' BY <2>1, <2>2 DEF Waking, Sleeping, Senders, ReceivesAt, clockMailbox
    <2>4. ProducersListed' /\ ReceiversPointed' /\ ListsOfSenders'
      BY <2>1, <2>2 DEF Waking, ProducersListed, ReceiversPointed, ListsOfSenders, ListOfSenders,
                        Asleep, Contains, Injective, Senders
    <2>5. Sweeps' BY <2>1, <2>2 DEF Waking, Sweeps, Swept, StillListed, Asleep, ReleaseSegments
    <2>6. Found' BY <2>1, <2>2 DEF Waking, Found, Releasing
    <2> QED BY <2>3, <2>4, <2>5, <2>6 DEF Waking
  <1>2. ASSUME NEW p \in Procs, Invoke(p) PROVE Waking'
    <2>1. machine = "up"
      BY <1>2 DEF Invoke, MboxCreate, MboxRelease, MboxSend, MboxCondSend, MboxRecv,
                  MboxCondRecv, waitDevice, clock_interrupt_handler, Enter, CanRun
    <2>2. Waking BY <2>1 DEF WakeInv
    <2> QED BY <1>2, <2>2, InvokeKeeps
  <1>3. ASSUME NEW p \in Procs, Resume(p) PROVE Waking'
    <2>1. machine = "up"
      BY <1>3 DEF Resume, SendResume, RecvResume, ZeroResume, ZeroSendWoke, ReleaseProducers,
                  ReleaseConsumers, ReleaseClear, ReleaseFinish, CanRun
    <2>2. Waking BY <2>1 DEF WakeInv
    <2>3. ~(ZeroResume(p) \/ ZeroSendWoke(p))
      BY DEF ZeroResume, ZeroSendWoke, Owned, OwnerInv, MeetingPlaceKept, ZeroSegments
    <2> QED BY <1>3, <2>2, <2>3, ResumeKeeps, ProducersSwept, ConsumersSwept DEF Resume
  <1> QED BY <1>1, <1>2, <1>3 DEF Next

LEMMA WakeInit == Init => WakeInv
  <1> SUFFICES ASSUME Init PROVE Waking BY DEF WakeInv
  <1>1. \A p \in Procs : status[p] = "ready" /\ pc[p] = "idle" BY DEF Init
  <1>2. Sleeping /\ ProducersListed /\ ReceiversPointed /\ Found
    BY <1>1 DEF Sleeping, ProducersListed, ReceiversPointed, Found, Asleep
  <1>3. Sweeps BY <1>1 DEF Sweeps, ReleaseSegments
  <1>4. ListsOfSenders
    <2>1. ListOfSenders(<<>>) BY EmptySeqs DEF ListOfSenders, Injective, Contains
    <2> QED BY <2>1 DEF Init, ListsOfSenders
  <1> QED BY <1>2, <1>3, <1>4 DEF Waking

(* MboxRelease leaves nobody asleep at a mailbox that is gone, however     *)
(* its loops, which read their lists afresh after every process they wake, *)
(* interleave with senders and receivers.                                  *)
THEOREM ReleaseLeavesNobody == ASSUME Owned PROVE Spec => []ReleaseWakesAll
  <1>1. Init => TypeOK /\ OwnerInv /\ WakeInv BY InitType, OwnerInit, WakeInit
  <1>2. TypeOK /\ OwnerInv /\ WakeInv /\ [Next]_vars => (TypeOK /\ OwnerInv /\ WakeInv)'
    BY NextType, OwnerNext, WakeNext DEF Owned
  <1>3. WakeInv => ReleaseWakesAll BY DEF WakeInv, Waking, Found, ReleaseWakesAll
  <1> QED BY <1>1, <1>2, <1>3, PTL DEF Spec
=============================================================================
