--------------------------- MODULE SemaphoreProofs ---------------------------
(***************************************************************************)
(* Proofs about the semaphores, for any number of processes and of         *)
(* semaphores, whatever the kernel-mode operations do to theirs.           *)
(***************************************************************************)
EXTENDS Semaphore, SequenceTheorems, WellFoundedInduction, TLAPS

LEMMA EmptySeqs == \A S : <<>> \in Seq(S)
  BY SMT

LEMMA ReturnType ==
    ASSUME TypeOK, NEW p, NEW woken, NEW rc \in {0, -1}, Return(p, woken, rc)
    PROVE  /\ pc' \in [Procs -> {"idle", "semp", "semv", "kernSemP", "kernSemV",
                                 "toTake", "toSend", "toRecv"}]
           /\ arg' \in [Procs -> Sems]
           /\ result' \in [Procs -> {0, -1}]
  BY DEF TypeOK, Return

LEMMA SleepType ==
    ASSUME TypeOK, NEW p \in Procs, NEW s \in Sems, NEW op, Sleep(p, s, op),
           op \in {"semp", "semv", "kernSemP", "kernSemV", "toTake", "toSend", "toRecv"}
    PROVE  /\ pc' \in [Procs -> {"idle", "semp", "semv", "kernSemP", "kernSemV",
                                 "toTake", "toSend", "toRecv"}]
           /\ arg' \in [Procs -> Sems]
           /\ result' \in [Procs -> {0, -1}]
  BY DEF TypeOK, Sleep

LEMMA QueueType ==
    ASSUME NEW q \in [Sems -> Seq(Procs)], NEW s \in Sems, NEW p \in Procs, NEW r,
           \/ r = q
           \/ r = [q EXCEPT ![s] = Append(@, p)]
           \/ q[s] # <<>> /\ r = [q EXCEPT ![s] = Tail(@)]
    PROVE  r \in [Sems -> Seq(Procs)]
  <1>1. Append(q[s], p) \in Seq(Procs)
    BY AppendProperties
  <1>2. q[s] # <<>> => Tail(q[s]) \in Seq(Procs)
    BY HeadTailProperties
  <1> QED BY <1>1, <1>2

LEMMA MboxType ==
    ASSUME TypeOK, NEW p \in Procs, NEW s \in Sems, NEW op,
           op \in {"semp", "semv", "kernSemP", "kernSemV"},
           MboxSend(p, s, op) \/ MboxRecv(p, s, op),
           value' \in [Sems -> Int], blocked' \in [Sems -> Int], in_use' = in_use
    PROVE  TypeOK'
  <1>1. CASE MboxSend(p, s, op)
    <2>1. /\ receivers' \in [Sems -> Seq(Procs)]
          /\ senders' \in [Sems -> Seq(Procs)]
      <3>1. \/ receivers[s] # <<>> /\ receivers' = [receivers EXCEPT ![s] = Tail(@)] /\ senders' = senders
            \/ senders' = [senders EXCEPT ![s] = Append(@, p)] /\ receivers' = receivers
        BY <1>1 DEF MboxSend
      <3>2. receivers \in [Sems -> Seq(Procs)] /\ senders \in [Sems -> Seq(Procs)]
        BY DEF TypeOK
      <3>3. receivers' \in [Sems -> Seq(Procs)]
        BY <3>1, <3>2, QueueType
      <3>4. senders' \in [Sems -> Seq(Procs)]
        BY <3>1, <3>2, QueueType
      <3> QED BY <3>3, <3>4
    <2>2. (\E woken : Return(p, woken, 0)) \/ Sleep(p, s, op)
      BY <1>1 DEF MboxSend
    <2> QED BY <2>1, <2>2, ReturnType, SleepType DEF TypeOK
  <1>2. CASE MboxRecv(p, s, op)
    <2>1. /\ receivers' \in [Sems -> Seq(Procs)]
          /\ senders' \in [Sems -> Seq(Procs)]
      <3>1. \/ senders[s] # <<>> /\ senders' = [senders EXCEPT ![s] = Tail(@)] /\ receivers' = receivers
            \/ receivers' = [receivers EXCEPT ![s] = Append(@, p)] /\ senders' = senders
        BY <1>2 DEF MboxRecv
      <3>2. receivers \in [Sems -> Seq(Procs)] /\ senders \in [Sems -> Seq(Procs)]
        BY DEF TypeOK
      <3>3. receivers' \in [Sems -> Seq(Procs)]
        BY <3>1, <3>2, QueueType
      <3>4. senders' \in [Sems -> Seq(Procs)]
        BY <3>1, <3>2, QueueType
      <3> QED BY <3>3, <3>4
    <2>2. (\E woken : Return(p, woken, 0)) \/ Sleep(p, s, op)
      BY <1>2 DEF MboxRecv
    <2> QED BY <2>1, <2>2, ReturnType, SleepType DEF TypeOK
  <1> QED BY <1>1, <1>2

LEMMA FailType ==
    ASSUME TypeOK, NEW p, Fail(p)
    PROVE  TypeOK'
  BY ReturnType DEF Fail, TypeOK, sems, mailbox

(* A semaphore that is not in use is found whenever there is one. *)
LEMMA FirstUnused ==
    ASSUME Unused # {}
    PROVE  First \in Unused
  <1>1. Unused \subseteq Nat
    BY SemAssumption DEF Unused, Sems
  <1>2. IsWellFoundedOn(OpToRel(<, Nat), Nat)
    BY NatLessThanWellFounded
  <1> DEFINE less == OpToRel(<, Nat)
  <1>3. \A m, n \in Nat : m < n => <<m, n>> \in less
    BY DEF OpToRel
  <1> HIDE DEF less
  <1>4. PICK s \in Unused : \A t \in Unused : ~(<<t, s>> \in less)
    BY <1>1, <1>2, WFMin DEF less
  <1>5. ASSUME NEW t \in Unused
        PROVE  s <= t
    <2>1. s \in Nat /\ t \in Nat /\ ~(t < s)
      BY <1>1, <1>3, <1>4
    <2> QED BY <2>1
  <1> QED BY <1>5 DEF First

-----------------------------------------------------------------------------
(* TypeOK. *)

LEMMA CreateType ==
    ASSUME TypeOK, NEW p \in Procs, NEW v \in Int, Create(p, v)
    PROVE  TypeOK'
  BY FirstUnused, ReturnType DEF Create, TypeOK, Unused, mailbox

LEMMA PVType ==
    ASSUME TypeOK, NEW p \in Procs, NEW s \in Sems, P(p, s) \/ V(p, s), in_use' = in_use
    PROVE  TypeOK'
  <1>1. value' \in [Sems -> Int]
    BY DEF P, V, TypeOK
  <1>2. CASE Return(p, {}, 0) /\ UNCHANGED <<blocked, mailbox>>
    BY <1>1, <1>2, ReturnType DEF TypeOK, mailbox
  <1>3. CASE /\ blocked' = [blocked EXCEPT ![s] = @ + 1]
             /\ MboxRecv(p, s, "semp")
    <2>1. blocked' \in [Sems -> Int]
      BY <1>3 DEF TypeOK
    <2> QED BY <1>1, <1>3, <2>1, MboxType
  <1>4. CASE /\ blocked' = [blocked EXCEPT ![s] = @ - 1]
             /\ MboxSend(p, s, "semv")
    <2>1. blocked' \in [Sems -> Int]
      BY <1>4 DEF TypeOK
    <2> QED BY <1>1, <1>4, <2>1, MboxType
  <1> QED BY <1>2, <1>3, <1>4 DEF P, V

LEMMA TypeStep ==
    ASSUME TypeOK, [Next]_vars
    PROVE  TypeOK'
  <1>1. CASE UNCHANGED vars
    BY <1>1 DEF TypeOK, vars, sems, mailbox
  <1>2. ASSUME NEW p \in Procs, NEW v \in Int, sys_semcreate(p, v) \/ kernSemCreate(p, v)
        PROVE  TypeOK'
    BY <1>2, CreateType, FailType DEF sys_semcreate, kernSemCreate
  <1>3. ASSUME NEW p \in Procs, NEW s, sys_semp(p, s) \/ sys_semv(p, s)
        PROVE  TypeOK'
    BY <1>3, FailType, PVType DEF sys_semp, sys_semv, Valid
  <1>4. ASSUME NEW p \in Procs, NEW s, kernSemP(p, s) \/ kernSemV(p, s)
        PROVE  TypeOK'
    <2>1. CASE Fail(p)
      BY <2>1, FailType
    <2>2. CASE Valid(s) /\ kernSemP(p, s) /\ ~Fail(p)
      BY <2>2, SleepType DEF kernSemP, Valid, TypeOK, sems, mailbox
    <2>3. CASE Valid(s) /\ kernSemV(p, s) /\ ~Fail(p)
      <3>1. value' \in [Sems -> Int]
        BY <2>3 DEF kernSemV, Valid, TypeOK
      <3>2. Sleep(p, s, "toRecv") /\ UNCHANGED <<blocked, in_use, mailbox>>
        BY <2>3 DEF kernSemV
      <3> QED BY <2>3, <3>1, <3>2, SleepType DEF Valid, TypeOK, mailbox
    <2> QED BY <1>4, <2>1, <2>2, <2>3 DEF kernSemP, kernSemV
  <1>5. ASSUME NEW p \in Procs, kernTake(p)
        PROVE  TypeOK'
    BY <1>5, ReturnType DEF kernTake, TypeOK, mailbox
  <1>6. ASSUME NEW p \in Procs, kernMailbox(p)
        PROVE  TypeOK'
    BY <1>6, MboxType, arg[p] \in Sems DEF kernMailbox, sems, TypeOK
  <1> QED BY <1>1, <1>2, <1>3, <1>4, <1>5, <1>6, SemAssumption DEF Next

(* Every variable keeps its type, whichever operations are used. *)
THEOREM TypeCorrect == Spec => []TypeOK
  <1>1. Init => TypeOK
    BY SemAssumption DEF Init, TypeOK, Sems
  <1>2. TypeOK /\ [Next]_vars => TypeOK'
    BY TypeStep
  <1> QED BY <1>1, <1>2, PTL DEF Spec

-----------------------------------------------------------------------------
(* The inductive invariant: nobody sends to the mailbox of a semaphore     *)
(* used by system calls alone; whoever is inside an operation is in a P,   *)
(* or in a kernel-mode operation on a semaphore of that kind; and the      *)
(* counts agree, for semaphores not in use as well, which is what Create   *)
(* relies on.                                                              *)
NoSenders == \A s \in SysSems : senders[s] = <<>>
Inside ==
    \A p \in Procs : pc[p] \notin {"idle", "semp"} => pc[p] # "semv" /\ arg[p] \notin SysSems
Counts ==
    \A s \in SysSems :
        /\ blocked[s] = Len(receivers[s])
        /\ in_use[s] => Len(receivers[s]) = IF value[s] < 0 THEN -value[s] ELSE 0
        /\ ~in_use[s] => receivers[s] = <<>>

IInv == TypeOK /\ NoSenders /\ Inside /\ Counts

LEMMA PStep ==
    ASSUME IInv, NEW p \in Procs, NEW s \in SysSems, in_use[s], P(p, s), in_use' = in_use
    PROVE  NoSenders' /\ Inside' /\ Counts'
  <1> s \in Sems
    BY DEF SysSems
  <1>1. CASE value[s] - 1 >= 0 /\ Return(p, {}, 0) /\ UNCHANGED <<blocked, mailbox>>
    <2>1. NoSenders' /\ Inside'
      BY <1>1 DEF IInv, NoSenders, Inside, TypeOK, Return, mailbox
    <2>2. Counts'
      <3>1. /\ value' = [value EXCEPT ![s] = @ - 1]
            /\ blocked' = blocked /\ receivers' = receivers
        BY <1>1 DEF P, mailbox
      <3>2. value \in [Sems -> Int] /\ SysSems \subseteq Sems
        BY DEF IInv, TypeOK, SysSems
      <3>3. value[s] >= 0 /\ value'[s] >= 0
        BY <1>1, <3>1, <3>2
      <3>4. ASSUME NEW t \in SysSems, t # s
            PROVE  value'[t] = value[t]
        BY <3>1, <3>2, <3>4
      <3>5. ASSUME NEW t \in SysSems
            PROVE  /\ blocked'[t] = Len(receivers'[t])
                   /\ in_use'[t] =>
                        Len(receivers'[t]) = IF value'[t] < 0 THEN -value'[t] ELSE 0
                   /\ ~in_use'[t] => receivers'[t] = <<>>
        <4>1. /\ blocked[t] = Len(receivers[t])
              /\ in_use[t] => Len(receivers[t]) = IF value[t] < 0 THEN -value[t] ELSE 0
              /\ ~in_use[t] => receivers[t] = <<>>
          BY DEF IInv, Counts
        <4>2. CASE t # s
          BY <3>1, <3>4, <4>1, <4>2
        <4>3. CASE t = s
          <5>1. ~(value[s] < 0) /\ ~(value'[s] < 0)
            BY <3>1, <3>2, <3>3
          <5> QED BY <3>1, <4>1, <4>3, <5>1
        <4> QED BY <4>2, <4>3
      <3> QED BY <3>5 DEF Counts
    <2> QED BY <2>1, <2>2
  <1>2. CASE /\ value[s] - 1 < 0
             /\ blocked' = [blocked EXCEPT ![s] = @ + 1]
             /\ MboxRecv(p, s, "semp")
    <2>1. /\ receivers' = [receivers EXCEPT ![s] = Append(@, p)]
          /\ Sleep(p, s, "semp")
          /\ senders' = senders
      BY <1>2 DEF MboxRecv, IInv, NoSenders
    <2>2. Len(Append(receivers[s], p)) = Len(receivers[s]) + 1
      BY AppendProperties DEF IInv, TypeOK
    <2>3. NoSenders' /\ Inside'
      BY <2>1 DEF Sleep, IInv, NoSenders, Inside, TypeOK
    <2>4. Counts'
      <3>1. value' = [value EXCEPT ![s] = @ - 1]
        BY DEF P
      <3> QED BY <1>2, <2>1, <2>2, <3>1 DEF IInv, Counts, TypeOK, SysSems
    <2> QED BY <2>3, <2>4
  <1> QED BY <1>1, <1>2 DEF P

LEMMA VStep ==
    ASSUME IInv, NEW p \in Procs, NEW s \in SysSems, in_use[s], V(p, s), in_use' = in_use
    PROVE  NoSenders' /\ Inside' /\ Counts'
  <1> s \in Sems
    BY DEF SysSems
  <1>1. value' = [value EXCEPT ![s] = @ + 1]
    BY DEF V
  <1>2. receivers[s] \in Seq(Procs) /\ value[s] \in Int /\ blocked[s] = Len(receivers[s])
    BY DEF IInv, TypeOK, Counts
  <1>3. CASE /\ ~(value[s] + 1 <= 0 /\ blocked[s] > 0)
             /\ Return(p, {}, 0) /\ UNCHANGED <<blocked, mailbox>>
    <2>1. value[s] >= 0
      BY <1>2, <1>3 DEF IInv, Counts
    <2>2. NoSenders' /\ Inside'
      BY <1>3 DEF IInv, NoSenders, Inside, TypeOK, Return, mailbox
    <2>3. Counts'
      <3>1. blocked' = blocked /\ receivers' = receivers
        BY <1>3 DEF mailbox
      <3>2. value \in [Sems -> Int] /\ SysSems \subseteq Sems
        BY DEF IInv, TypeOK, SysSems
      <3>3. value'[s] >= 0
        BY <1>1, <2>1, <3>2
      <3>4. ASSUME NEW t \in SysSems, t # s
            PROVE  value'[t] = value[t]
        BY <1>1, <3>2, <3>4
      <3>5. ASSUME NEW t \in SysSems
            PROVE  /\ blocked'[t] = Len(receivers'[t])
                   /\ in_use'[t] =>
                        Len(receivers'[t]) = IF value'[t] < 0 THEN -value'[t] ELSE 0
                   /\ ~in_use'[t] => receivers'[t] = <<>>
        <4>1. /\ blocked[t] = Len(receivers[t])
              /\ in_use[t] => Len(receivers[t]) = IF value[t] < 0 THEN -value[t] ELSE 0
              /\ ~in_use[t] => receivers[t] = <<>>
          BY DEF IInv, Counts
        <4>2. CASE t # s
          BY <3>1, <3>4, <4>1, <4>2
        <4>3. CASE t = s
          <5>1. ~(value[s] < 0) /\ ~(value'[s] < 0)
            BY <1>1, <2>1, <3>2, <3>3
          <5> QED BY <3>1, <4>1, <4>3, <5>1
        <4> QED BY <4>2, <4>3
      <3> QED BY <3>5 DEF Counts
    <2> QED BY <2>2, <2>3
  <1>4. CASE /\ value[s] + 1 <= 0 /\ blocked[s] > 0
             /\ blocked' = [blocked EXCEPT ![s] = @ - 1]
             /\ MboxSend(p, s, "semv")
    <2>1. receivers[s] # <<>>
      BY <1>2, <1>4, EmptySeq
    <2>2. /\ receivers' = [receivers EXCEPT ![s] = Tail(@)]
          /\ Return(p, {Head(receivers[s])}, 0)
          /\ senders' = senders
      BY <1>4, <2>1 DEF MboxSend
    <2>3. Len(Tail(receivers[s])) = Len(receivers[s]) - 1
      BY <1>2, <2>1, HeadTailProperties
    <2>4. NoSenders' /\ Inside'
      BY <2>2 DEF Return, IInv, NoSenders, Inside, TypeOK
    <2>5. Counts'
      <3>1. ASSUME NEW t \in SysSems, t # s
            PROVE  /\ blocked'[t] = blocked[t] /\ receivers'[t] = receivers[t]
                   /\ value'[t] = value[t]
        BY <1>1, <1>4, <2>2, <3>1 DEF IInv, TypeOK, SysSems
      <3>2. /\ blocked'[s] = blocked[s] - 1 /\ value'[s] = value[s] + 1
            /\ Len(receivers'[s]) = Len(receivers[s]) - 1
        BY <1>1, <1>4, <2>2, <2>3 DEF IInv, TypeOK
      <3>3. Len(receivers[s]) = IF value[s] < 0 THEN -value[s] ELSE 0
        BY DEF IInv, Counts
      <3>4. value[s] < 0 => Len(receivers'[s]) = IF value'[s] < 0 THEN -value'[s] ELSE 0
        BY <1>2, <3>2, <3>3
      <3> QED BY <1>2, <1>4, <3>1, <3>2, <3>4 DEF IInv, Counts
    <2> QED BY <2>4, <2>5
  <1> QED BY <1>3, <1>4 DEF V

LEMMA CreateStep ==
    ASSUME IInv, NEW p \in Procs, NEW v \in Int, v >= 0, Create(p, v)
    PROVE  NoSenders' /\ Inside' /\ Counts'
  <1>1. First \in Sems /\ ~in_use[First]
    BY FirstUnused DEF Create, Unused
  <1>2. NoSenders' /\ Inside'
    BY DEF Create, Return, IInv, NoSenders, Inside, TypeOK, mailbox
  <1>3. Counts'
    <2>1. First \in SysSems => Len(receivers[First]) = 0
      BY <1>1 DEF IInv, Counts
    <2> QED BY <1>1, <2>1 DEF Create, IInv, Counts, TypeOK, mailbox, SysSems
  <1> QED BY <1>2, <1>3

(* A step of the mailbox layer on a semaphore used in kernel mode leaves   *)
(* the others alone: the process it wakes is the only other one it moves.  *)
LEMMA KernMailboxStep ==
    ASSUME IInv, NEW p \in Procs, kernMailbox(p)
    PROVE  NoSenders' /\ Inside' /\ Counts'
  <1>1. arg[p] \in Sems /\ arg[p] \notin SysSems
    BY DEF kernMailbox, IInv, Inside, TypeOK
  <1>2. \A s \in SysSems : senders'[s] = senders[s] /\ receivers'[s] = receivers[s]
    BY <1>1 DEF kernMailbox, MboxSend, MboxRecv, IInv, TypeOK, SysSems
  <1>3. Inside'
    <2>1. \/ \E woken : Return(p, woken, 0)
          \/ \E op : Sleep(p, arg[p], op) /\ op # "semv"
      BY DEF kernMailbox, MboxSend, MboxRecv
    <2> QED BY <1>1, <2>1 DEF Return, Sleep, IInv, Inside, TypeOK
  <1> QED BY <1>2, <1>3 DEF kernMailbox, sems, IInv, NoSenders, Counts

LEMMA Step ==
    ASSUME KernValues \subseteq Nat, IInv, [Next]_vars
    PROVE  IInv'
  <1>1. TypeOK'
    BY TypeStep DEF IInv
  <1>2. CASE UNCHANGED vars
    BY <1>1, <1>2 DEF IInv, NoSenders, Inside, Counts, vars, sems, mailbox
  <1>3. ASSUME NEW p \in Procs, Fail(p)
        PROVE  NoSenders' /\ Inside' /\ Counts'
    BY <1>3 DEF Fail, Return, IInv, NoSenders, Inside, Counts, TypeOK, sems, mailbox
  <1>4. ASSUME NEW p \in Procs, NEW v \in Values, sys_semcreate(p, v)
        PROVE  NoSenders' /\ Inside' /\ Counts'
    BY <1>3, <1>4, CreateStep, SemAssumption DEF sys_semcreate
  <1>5. ASSUME NEW p \in Procs, NEW v \in KernValues, kernSemCreate(p, v)
        PROVE  NoSenders' /\ Inside' /\ Counts'
    BY <1>3, <1>5, CreateStep DEF kernSemCreate
  <1>6. ASSUME NEW p \in Procs, NEW s \in Indices \ KernIndices, sys_semp(p, s)
        PROVE  NoSenders' /\ Inside' /\ Counts'
    BY <1>3, <1>6, PStep DEF sys_semp, Valid, SysSems
  <1>7. ASSUME NEW p \in Procs, NEW s \in Indices \ KernIndices, sys_semv(p, s)
        PROVE  NoSenders' /\ Inside' /\ Counts'
    BY <1>3, <1>7, VStep DEF sys_semv, Valid, SysSems
  <1>8. ASSUME NEW p \in Procs, NEW s \in KernIndices, kernSemP(p, s) \/ kernSemV(p, s)
        PROVE  NoSenders' /\ Inside' /\ Counts'
    <2>1. CASE Fail(p)
      BY <1>3, <2>1
    <2>2. CASE ~Fail(p)
      <3>1. /\ s \in Sems /\ s \notin SysSems
            /\ \E op : Sleep(p, s, op) /\ op # "semv"
            /\ UNCHANGED <<blocked, in_use, mailbox>>
            /\ \A t \in SysSems : value'[t] = value[t]
        BY <1>8, <2>2
           DEF kernSemP, kernSemV, Valid, IInv, TypeOK, sems, SysSems
      <3> QED BY <3>1 DEF Sleep, IInv, NoSenders, Inside, Counts, TypeOK, mailbox
    <2> QED BY <2>1, <2>2
  <1>9. ASSUME NEW p \in Procs, kernTake(p)
        PROVE  NoSenders' /\ Inside' /\ Counts'
    <2>1. arg[p] \notin SysSems
      BY <1>9 DEF kernTake, IInv, Inside
    <2>2. \A t \in SysSems : value'[t] = value[t]
      BY <1>9, <2>1 DEF kernTake, IInv, TypeOK, SysSems
    <2> QED BY <1>9, <2>2 DEF kernTake, Return, IInv, NoSenders, Inside, Counts, TypeOK, mailbox
  <1>10. ASSUME NEW p \in Procs, kernMailbox(p)
         PROVE  NoSenders' /\ Inside' /\ Counts'
    BY <1>10, KernMailboxStep
  <1> QED BY <1>1, <1>2, <1>4, <1>5, <1>6, <1>7, <1>8, <1>9, <1>10 DEF Next, IInv

LEMMA InvariantKept ==
    ASSUME KernValues \subseteq Nat
    PROVE  Spec => []IInv
  <1>1. Init => IInv
    BY SemAssumption DEF Init, IInv, TypeOK, NoSenders, Inside, Counts, Sems, SysSems
  <1>2. IInv /\ [Next]_vars => IInv'
    BY Step
  <1> QED BY <1>1, <1>2, PTL DEF Spec

(* On a semaphore used by system calls alone a negative value is the       *)
(* number of processes asleep in P, provided kernel-mode callers create no *)
(* semaphore with a negative value, which kernSemCreate accepts.           *)
THEOREM SystemCallsCorrect ==
    ASSUME KernValues \subseteq Nat
    PROVE  Spec => []WaitersCounted
  <1>1. IInv => WaitersCounted
    BY DEF IInv, Counts, WaitersCounted
  <1> QED BY InvariantKept, <1>1, PTL

(* Whoever V counts as blocked is asleep in the receive of P already when  *)
(* V sends to the mailbox (phase3.c:142-144), so V never sleeps itself, on *)
(* the same condition.                                                     *)
THEOREM VFindsReceiver ==
    ASSUME KernValues \subseteq Nat
    PROVE  Spec => []VNeverSleeps
  <1>1. IInv => VNeverSleeps
    BY DEF IInv, Inside, VNeverSleeps
  <1> QED BY InvariantKept, <1>1, PTL
-----------------------------------------------------------------------------
(* The refinement.  Nothing but an operation on one semaphore changes what *)
(* the counting semaphores see, and that semaphore alone.                  *)
Kept(s) == in_use'[s] = in_use[s] /\ value'[s] = value[s] /\ receivers'[s] = receivers[s]

LEMMA KeptUnits ==
    ASSUME NEW s \in SysSems, Kept(s)
    PROVE  Units(s)' = Units(s)
  BY DEF Kept, Units

LEMMA KeptStutters ==
    ASSUME \A s \in SysSems : Kept(s)
    PROVE  UNCHANGED Counting!vars
  <1>1. \A s \in SysSems : Units(s)' = Units(s)
    BY KeptUnits
  <1>2. {s \in SysSems : in_use'[s]} = {s \in SysSems : in_use[s]}
    BY DEF Kept
  <1>3. [s \in SysSems |-> Units(s)]' = [s \in SysSems |-> Units(s)]
    BY <1>1
  <1>4. [s \in SysSems |-> receivers'[s]] = [s \in SysSems |-> receivers[s]]
    BY DEF Kept
  <1> QED BY <1>2, <1>3, <1>4 DEF Counting!vars

(* A semaphore that exists has its value in units, and none when that is   *)
(* negative.                                                               *)
LEMMA UnitsAre ==
    ASSUME IInv, NEW s \in SysSems, in_use[s]
    PROVE  /\ value[s] \in Int
           /\ Units(s) = IF value[s] < 0 THEN 0 ELSE value[s]
           /\ value[s] >= 0 <=> receivers[s] = <<>>
  <1>1. /\ value[s] \in Int /\ receivers[s] \in Seq(Procs)
        /\ Len(receivers[s]) = IF value[s] < 0 THEN -value[s] ELSE 0
    BY DEF IInv, TypeOK, Counts, SysSems
  <1>2. Units(s) = IF value[s] < 0 THEN 0 ELSE value[s]
    BY <1>1 DEF Units
  <1>3. receivers[s] = <<>> <=> Len(receivers[s]) = 0
    BY <1>1, EmptySeq
  <1> QED BY <1>1, <1>2, <1>3

(* What the counting semaphores see of a step that changes s alone.        *)
LEMMA OneSemaphore ==
    ASSUME NEW s \in SysSems, \A t \in SysSems : t # s => Kept(t)
    PROVE  /\ [t \in SysSems |-> Units(t)]' = [[t \in SysSems |-> Units(t)] EXCEPT ![s] = Units(s)']
           /\ [t \in SysSems |-> receivers'[t]] =
                [[t \in SysSems |-> receivers[t]] EXCEPT ![s] = receivers'[s]]
           /\ in_use'[s] = in_use[s] =>
                {t \in SysSems : in_use'[t]} = {t \in SysSems : in_use[t]}
  <1>1. \A t \in SysSems : t # s => Units(t)' = Units(t)
    BY KeptUnits
  <1>2. [t \in SysSems |-> Units(t)]' = [[t \in SysSems |-> Units(t)] EXCEPT ![s] = Units(s)']
    BY <1>1
  <1> QED BY <1>2 DEF Kept

LEMMA PCounts ==
    ASSUME IInv, IInv', NEW p \in Procs, NEW s \in SysSems, in_use[s], P(p, s), in_use' = in_use
    PROVE  Counting!Next
  <1>1. s \in Sems /\ value' = [value EXCEPT ![s] = @ - 1]
    BY DEF SysSems, P
  <1>2. /\ value \in [Sems -> Int] /\ receivers \in [Sems -> Seq(Procs)] /\ SysSems \subseteq Sems
        /\ senders[s] = <<>>
    BY DEF IInv, TypeOK, SysSems, NoSenders
  <1>3. Units(s) = (IF value[s] < 0 THEN 0 ELSE value[s]) /\ value[s] \in Int
    BY UnitsAre
  <1>4. Units(s)' = (IF value'[s] < 0 THEN 0 ELSE value'[s])
    <2>1. /\ in_use'[s] /\ s \in Sems /\ value' \in [Sems -> Int] /\ receivers' \in [Sems -> Seq(Procs)]
          /\ Len(receivers'[s]) = IF value'[s] < 0 THEN -value'[s] ELSE 0
      BY DEF IInv, TypeOK, Counts, SysSems
    <2>2. value'[s] \in Int /\ Units(s)' = value'[s] + Len(receivers'[s])
      BY <2>1 DEF Units
    <2> QED BY <2>1, <2>2
  <1>5. value'[s] = value[s] - 1
    BY <1>1, <1>2
  <1>6. CASE value[s] - 1 >= 0 /\ Return(p, {}, 0) /\ UNCHANGED <<blocked, mailbox>>
    <2>1. \A t \in SysSems : t # s => Kept(t)
      BY <1>1, <1>2, <1>6 DEF Kept, mailbox
    <2>2. Units(s) > 0 /\ Units(s)' = Units(s) - 1 /\ receivers' = receivers
      BY <1>3, <1>4, <1>5, <1>6 DEF mailbox
    <2>3. Counting!TakeUnit(s)
      BY <2>1, <2>2, OneSemaphore DEF Counting!TakeUnit
    <2> QED BY <2>3 DEF Counting!Next
  <1>7. CASE value[s] - 1 < 0 /\ MboxRecv(p, s, "semp")
    <2>1. receivers' = [receivers EXCEPT ![s] = Append(@, p)]
      BY <1>2, <1>7 DEF MboxRecv
    <2>2. \A t \in SysSems : t # s => Kept(t)
      BY <1>1, <1>2, <2>1 DEF Kept
    <2>3. Units(s) = 0 /\ Units(s)' = Units(s) /\ receivers'[s] = Append(receivers[s], p)
      BY <1>2, <1>3, <1>4, <1>5, <1>7, <2>1
    <2>4. Counting!Wait(p, s)
      BY <2>2, <2>3, OneSemaphore DEF Counting!Wait
    <2> QED BY <2>4 DEF Counting!Next
  <1> QED BY <1>6, <1>7 DEF P

LEMMA VCounts ==
    ASSUME IInv, IInv', NEW p \in Procs, NEW s \in SysSems, in_use[s], V(p, s), in_use' = in_use
    PROVE  Counting!Next
  <1>1. s \in Sems /\ value' = [value EXCEPT ![s] = @ + 1]
    BY DEF SysSems, V
  <1>2. /\ value \in [Sems -> Int] /\ receivers \in [Sems -> Seq(Procs)] /\ SysSems \subseteq Sems
        /\ blocked[s] = Len(receivers[s])
    BY DEF IInv, TypeOK, SysSems, Counts
  <1>3. /\ Units(s) = (IF value[s] < 0 THEN 0 ELSE value[s]) /\ value[s] \in Int
        /\ value[s] >= 0 <=> receivers[s] = <<>>
    BY UnitsAre
  <1>4. Units(s)' = (IF value'[s] < 0 THEN 0 ELSE value'[s])
    <2>1. /\ in_use'[s] /\ s \in Sems /\ value' \in [Sems -> Int] /\ receivers' \in [Sems -> Seq(Procs)]
          /\ Len(receivers'[s]) = IF value'[s] < 0 THEN -value'[s] ELSE 0
      BY DEF IInv, TypeOK, Counts, SysSems
    <2>2. value'[s] \in Int /\ Units(s)' = value'[s] + Len(receivers'[s])
      BY <2>1 DEF Units
    <2> QED BY <2>1, <2>2
  <1>5. value'[s] = value[s] + 1
    BY <1>1, <1>2
  <1>6. CASE /\ ~(value[s] + 1 <= 0 /\ blocked[s] > 0)
             /\ Return(p, {}, 0) /\ UNCHANGED <<blocked, mailbox>>
    <2>1. \A t \in SysSems : t # s => Kept(t)
      BY <1>1, <1>2, <1>6 DEF Kept, mailbox
    <2>2. receivers[s] = <<>>
      BY <1>2, <1>3, <1>6, EmptySeq
    <2>3. Units(s)' = Units(s) + 1 /\ receivers' = receivers
      BY <1>3, <1>4, <1>5, <1>6, <2>2 DEF mailbox
    <2>4. Counting!AddUnit(s)
      BY <2>1, <2>2, <2>3, OneSemaphore DEF Counting!AddUnit
    <2> QED BY <2>4 DEF Counting!Next
  <1>7. CASE value[s] + 1 <= 0 /\ blocked[s] > 0 /\ MboxSend(p, s, "semv")
    <2>1. receivers[s] # <<>>
      BY <1>2, <1>7, EmptySeq
    <2>2. receivers' = [receivers EXCEPT ![s] = Tail(@)]
      BY <1>7, <2>1 DEF MboxSend
    <2>3. \A t \in SysSems : t # s => Kept(t)
      BY <1>1, <1>2, <2>2 DEF Kept
    <2>4. Units(s)' = Units(s) /\ receivers'[s] = Tail(receivers[s])
      BY <1>2, <1>3, <1>4, <1>5, <1>7, <2>2
    <2>5. Counting!HandOver(s)
      BY <2>1, <2>3, <2>4, OneSemaphore DEF Counting!HandOver
    <2> QED BY <2>5 DEF Counting!Next
  <1> QED BY <1>6, <1>7 DEF V

LEMMA CreateCounts ==
    ASSUME IInv, NEW p \in Procs, NEW v \in Nat, Create(p, v)
    PROVE  [Counting!Next]_Counting!vars
  <1>0. PICK s \in Sems : s = First /\ ~in_use[s]
    BY FirstUnused DEF Create, Unused
  <1>1. /\ value' = [value EXCEPT ![s] = v] /\ in_use' = [in_use EXCEPT ![s] = TRUE]
        /\ receivers' = receivers
    BY <1>0 DEF Create, mailbox
  <1>2. value \in [Sems -> Int] /\ in_use \in [Sems -> BOOLEAN] /\ SysSems \subseteq Sems
    BY DEF IInv, TypeOK, SysSems
  <1>3. \A t \in SysSems : t # s => Kept(t)
    BY <1>1, <1>2 DEF Kept
  <1>4. CASE s \notin SysSems
    BY <1>3, <1>4, KeptStutters
  <1>5. CASE s \in SysSems
    <2>1. receivers[s] = <<>> /\ Len(<<>>) = 0
      BY <1>0, <1>5, EmptySeq DEF IInv, Counts
    <2>2. Units(s)' = v
      <3>1. in_use'[s] /\ value'[s] = v /\ receivers'[s] = <<>>
        BY <1>1, <1>2, <2>1
      <3> QED BY <2>1, <3>1 DEF Units
    <2>3. {t \in SysSems : in_use'[t]} = {t \in SysSems : in_use[t]} \cup {s}
      BY <1>1, <1>2, <1>5
    <2>4. [t \in SysSems |-> Units(t)]'[s] = v
      BY <1>5, <2>2
    <2>5. [t \in SysSems |-> Units(t)]' = [[t \in SysSems |-> Units(t)] EXCEPT ![s] = v]
      BY <1>3, <1>5, <2>2, OneSemaphore
    <2>6. Counting!Create(s)
      BY <1>0, <1>1, <1>2, <2>3, <2>4, <2>5 DEF Counting!Create
    <2> QED BY <1>5, <2>6 DEF Counting!Next
  <1> QED BY <1>4, <1>5

LEMMA CountingStep ==
    ASSUME KernValues \subseteq Nat, IInv, IInv', [Next]_vars
    PROVE  [Counting!Next]_Counting!vars
  <1>0. SysSems \subseteq Sems
    BY DEF SysSems
  <1>1. CASE UNCHANGED vars
    BY <1>1, KeptStutters DEF vars, sems, mailbox, Kept
  <1>2. ASSUME NEW p \in Procs, Fail(p)
        PROVE  UNCHANGED Counting!vars
    BY <1>2, KeptStutters DEF Fail, sems, mailbox, Kept
  <1>3. ASSUME NEW p \in Procs, NEW v \in Values, sys_semcreate(p, v)
        PROVE  [Counting!Next]_Counting!vars
    BY <1>2, <1>3, CreateCounts, SemAssumption DEF sys_semcreate
  <1>4. ASSUME NEW p \in Procs, NEW v \in KernValues, kernSemCreate(p, v)
        PROVE  [Counting!Next]_Counting!vars
    BY <1>2, <1>4, CreateCounts DEF kernSemCreate
  <1>5. ASSUME NEW p \in Procs, NEW s \in Indices \ KernIndices, sys_semp(p, s)
        PROVE  [Counting!Next]_Counting!vars
    BY <1>2, <1>5, PCounts DEF sys_semp, Valid, SysSems
  <1>6. ASSUME NEW p \in Procs, NEW s \in Indices \ KernIndices, sys_semv(p, s)
        PROVE  [Counting!Next]_Counting!vars
    BY <1>2, <1>6, VCounts DEF sys_semv, Valid, SysSems
  <1>7. ASSUME NEW p \in Procs, NEW s \in KernIndices, kernSemP(p, s) \/ kernSemV(p, s)
        PROVE  UNCHANGED Counting!vars
    <2>1. CASE Fail(p)
      BY <1>2, <2>1
    <2>2. CASE ~Fail(p)
      <3>1. \A t \in SysSems : Kept(t)
        BY <1>7, <2>2 DEF kernSemP, kernSemV, Valid, IInv, TypeOK, sems, mailbox, SysSems, Kept
      <3> QED BY <3>1, KeptStutters
    <2> QED BY <2>1, <2>2
  <1>8. ASSUME NEW p \in Procs, kernTake(p)
        PROVE  UNCHANGED Counting!vars
    <2>1. arg[p] \notin SysSems
      BY <1>8 DEF kernTake, IInv, Inside
    <2>2. \A t \in SysSems : Kept(t)
      BY <1>0, <1>8, <2>1 DEF kernTake, IInv, TypeOK, Kept, mailbox
    <2> QED BY <2>2, KeptStutters
  <1>9. ASSUME NEW p \in Procs, kernMailbox(p)
        PROVE  UNCHANGED Counting!vars
    <2>1. arg[p] \notin SysSems
      BY <1>9 DEF kernMailbox, IInv, Inside
    <2>2. \A t \in SysSems : Kept(t)
      BY <1>0, <1>9, <2>1 DEF kernMailbox, MboxSend, MboxRecv, sems, IInv, TypeOK, Kept
    <2> QED BY <2>2, KeptStutters
  <1> QED BY <1>1, <1>3, <1>4, <1>5, <1>6, <1>7, <1>8, <1>9 DEF Next

(* The semaphores of the system calls are counting semaphores that serve   *)
(* first come first, whatever kernel-mode callers do to theirs, as long as *)
(* these create none with a negative value.                                *)
THEOREM CountingImplemented ==
    ASSUME KernValues \subseteq Nat
    PROVE  Spec => ImplementsCounting
  <1>1. Init => Counting!Init
    BY DEF Init, Counting!Init, Units, SysSems
  <1>2. Init => IInv
    BY SemAssumption DEF Init, IInv, TypeOK, NoSenders, Inside, Counts, Sems, SysSems
  <1>3. IInv /\ [Next]_vars => IInv'
    BY Step
  <1>4. IInv /\ IInv' /\ [Next]_vars => [Counting!Next]_Counting!vars
    BY CountingStep
  <1> QED BY <1>1, <1>2, <1>3, <1>4, PTL DEF Spec, ImplementsCounting, Counting!Spec
==============================================================================
