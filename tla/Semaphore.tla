------------------------------ MODULE Semaphore ------------------------------
(***************************************************************************)
(* The semaphores of phase3/phase3.c, in both sets of operations: the      *)
(* system calls sys_sem*, which run with interrupts off and so as one step *)
(* up to the mailbox they may sleep on, and kernSem*, for callers in       *)
(* kernel mode, which may be preempted before they call the mailbox layer. *)
(* The mailbox layer they are linked with (libphase2.a, a binary) is       *)
(* external: a zero-slot mailbox is a meeting point with a first-come      *)
(* first-served queue of senders and one of receivers.  There are 2000     *)
(* mailboxes and 200 semaphores, so creating one for a semaphore succeeds. *)
(***************************************************************************)
EXTENDS Integers, Sequences, FiniteSets, SequencesExt

CONSTANTS
    Procs,       \* the processes
    MAXSEMS,     \* 200 in the code
    Values,      \* the initial values passed to sys_semcreate
    KernValues,  \* those passed to kernSemCreate
    Indices,     \* the indices passed to the operations
    KernIndices, \* those of them that are used in kernel mode
    MaxValue     \* bound of the model: V is called below it, kernSemP above -MaxValue

Sems == 0..(MAXSEMS - 1)

ASSUME SemAssumption ==
    /\ MAXSEMS \in Nat \ {0}
    /\ Values \subseteq Int /\ KernValues \subseteq Int
    /\ Indices \subseteq Int /\ KernIndices \subseteq Int
    /\ MaxValue \in Nat

VARIABLES
    value, blocked, in_use,  \* sems[s]
    senders, receivers,      \* external: who sleeps on the mailbox of s
    pc,                      \* the operation each process is inside of
    arg, result              \* its semaphore, and what its last call returned

sems    == <<value, blocked, in_use>>
mailbox == <<senders, receivers>>
vars    == <<sems, mailbox, pc, arg, result>>

TypeOK ==
    /\ value \in [Sems -> Int]
    /\ blocked \in [Sems -> Int]
    /\ in_use \in [Sems -> BOOLEAN]
    /\ senders \in [Sems -> Seq(Procs)]
    /\ receivers \in [Sems -> Seq(Procs)]
    /\ pc \in [Procs -> {"idle", "semp", "semv", "kernSemP", "kernSemV", "toTake", "toSend", "toRecv"}]
    /\ arg \in [Procs -> Sems]
    /\ result \in [Procs -> {0, -1}]

(* phase3_init. *)
Init ==
    /\ value = [s \in Sems |-> -1]
    /\ blocked = [s \in Sems |-> 0]
    /\ in_use = [s \in Sems |-> FALSE]
    /\ senders = [s \in Sems |-> <<>>]
    /\ receivers = [s \in Sems |-> <<>>]
    /\ pc = [p \in Procs |-> "idle"]
    /\ arg = [p \in Procs |-> 0]
    /\ result = [p \in Procs |-> 0]

-----------------------------------------------------------------------------
(* p's call returns rc, and with it the call of each process in woken.     *)
Return(p, woken, rc) ==
    /\ pc' = [q \in Procs |-> IF q = p \/ q \in woken THEN "idle" ELSE pc[q]]
    /\ result' = [q \in Procs |-> IF q = p THEN rc ELSE IF q \in woken THEN 0 ELSE result[q]]
    /\ UNCHANGED arg

(* p stops inside its call, at op. *)
Sleep(p, s, op) ==
    /\ pc' = [pc EXCEPT ![p] = op]
    /\ arg' = [arg EXCEPT ![p] = s]
    /\ UNCHANGED result

(* MboxSend and MboxRecv on the mailbox of s, external, called by p as the *)
(* end of the operation op.                                                *)
MboxSend(p, s, op) ==
    \/ /\ receivers[s] # <<>>
       /\ receivers' = [receivers EXCEPT ![s] = Tail(@)]
       /\ Return(p, {Head(receivers[s])}, 0)
       /\ UNCHANGED senders
    \/ /\ receivers[s] = <<>>
       /\ senders' = [senders EXCEPT ![s] = Append(@, p)]
       /\ Sleep(p, s, op)
       /\ UNCHANGED receivers

MboxRecv(p, s, op) ==
    \/ /\ senders[s] # <<>>
       /\ senders' = [senders EXCEPT ![s] = Tail(@)]
       /\ Return(p, {Head(senders[s])}, 0)
       /\ UNCHANGED receivers
    \/ /\ senders[s] = <<>>
       /\ receivers' = [receivers EXCEPT ![s] = Append(@, p)]
       /\ Sleep(p, s, op)
       /\ UNCHANGED senders

Idle(p)  == pc[p] = "idle"
Valid(s) == s \in Sems /\ in_use[s]
Fail(p) == Return(p, {}, -1) /\ UNCHANGED <<sems, mailbox>>

-----------------------------------------------------------------------------
(* The first semaphore that is not in use; blocked keeps the 0 it has from *)
(* the loader, because no semaphore is ever given back.                    *)
Unused == {s \in Sems : ~in_use[s]}
First  == CHOOSE s \in Unused : \A t \in Unused : s <= t

Create(p, v) ==
    /\ Unused # {}
    /\ value' = [value EXCEPT ![First] = v]
    /\ in_use' = [in_use EXCEPT ![First] = TRUE]
    /\ Return(p, {}, 0)
    /\ UNCHANGED <<blocked, mailbox>>

sys_semcreate(p, v) ==
    /\ Idle(p)
    /\ \/ v >= 0 /\ Create(p, v)
       \/ (v < 0 \/ Unused = {}) /\ Fail(p)

kernSemCreate(p, v) ==
    /\ Idle(p)
    /\ Create(p, v) \/ (Unused = {} /\ Fail(p))

-----------------------------------------------------------------------------
(* Faulty: the semaphore lets one process too many pass. *)
PPassesAtZero(p, s) ==
    /\ value' = [value EXCEPT ![s] = @ - 1]
    /\ \/ value[s] - 1 >= -1 /\ Return(p, {}, 0) /\ UNCHANGED <<blocked, mailbox>>
       \/ /\ value[s] - 1 < -1
          /\ blocked' = [blocked EXCEPT ![s] = @ + 1]
          /\ MboxRecv(p, s, "semp")
P(p, s) ==
    /\ value' = [value EXCEPT ![s] = @ - 1]
    /\ \/ value[s] - 1 >= 0 /\ Return(p, {}, 0) /\ UNCHANGED <<blocked, mailbox>>
       \/ /\ value[s] - 1 < 0
          /\ blocked' = [blocked EXCEPT ![s] = @ + 1]
          /\ MboxRecv(p, s, "semp")

(* Faulty: V sends whether or not someone waits; it forgets the last one   *)
(* that waits.                                                             *)
VAlwaysSends(p, s) ==
    /\ value' = [value EXCEPT ![s] = @ + 1]
    /\ MboxSend(p, s, "semv")
    /\ UNCHANGED blocked
VForgetsLast(p, s) ==
    /\ value' = [value EXCEPT ![s] = @ + 1]
    /\ \/ /\ value[s] + 1 < 0 /\ blocked[s] > 0
          /\ blocked' = [blocked EXCEPT ![s] = @ - 1]
          /\ MboxSend(p, s, "semv")
       \/ /\ ~(value[s] + 1 < 0 /\ blocked[s] > 0)
          /\ Return(p, {}, 0) /\ UNCHANGED <<blocked, mailbox>>
V(p, s) ==
    /\ value' = [value EXCEPT ![s] = @ + 1]
    /\ \/ /\ value[s] + 1 <= 0 /\ blocked[s] > 0
          /\ blocked' = [blocked EXCEPT ![s] = @ - 1]
          /\ MboxSend(p, s, "semv")
       \/ /\ ~(value[s] + 1 <= 0 /\ blocked[s] > 0)
          /\ Return(p, {}, 0) /\ UNCHANGED <<blocked, mailbox>>

sys_semp(p, s) ==
    /\ Idle(p)
    /\ \/ ~Valid(s) /\ Fail(p)
       \/ Valid(s) /\ P(p, s) /\ UNCHANGED in_use

sys_semv(p, s) ==
    /\ Idle(p)
    /\ \/ ~Valid(s) /\ Fail(p)
       \/ Valid(s) /\ value[s] < MaxValue /\ V(p, s) /\ UNCHANGED in_use

-----------------------------------------------------------------------------
(* The operations for kernel mode use the mailbox the other way round:     *)
(* kernSemP sends, kernSemV always receives.  Between what kernSemP reads  *)
(* and what it does about it another process may run.                      *)
kernSemP(p, s) ==
    /\ Idle(p)
    /\ \/ ~Valid(s) /\ Fail(p)
       \/ /\ Valid(s) /\ value[s] = 0
          /\ Sleep(p, s, "toSend")
          /\ UNCHANGED <<sems, mailbox>>
       \/ /\ Valid(s) /\ value[s] # 0 /\ value[s] > -MaxValue
          /\ Sleep(p, s, "toTake")
          /\ UNCHANGED <<sems, mailbox>>

kernTake(p) ==
    /\ pc[p] = "toTake"
    /\ value' = [value EXCEPT ![arg[p]] = @ - 1]
    /\ Return(p, {}, 0)
    /\ UNCHANGED <<blocked, in_use, mailbox>>

(* Faulty: V goes to sleep on the index it was given, checked or not. *)
kernSemVUnchecked(p, s) ==
    /\ Idle(p)
    /\ Sleep(p, s, "toRecv")
    /\ UNCHANGED <<sems, mailbox>>

kernSemV(p, s) ==
    /\ Idle(p)
    /\ \/ ~Valid(s) /\ Fail(p)
       \/ /\ Valid(s) /\ value[s] < MaxValue
          /\ value' = [value EXCEPT ![s] = @ + 1]
          /\ Sleep(p, s, "toRecv")
          /\ UNCHANGED <<blocked, in_use, mailbox>>

(* Inside either, the call of the mailbox layer. *)
kernMailbox(p) ==
    /\ \/ pc[p] = "toSend" /\ MboxSend(p, arg[p], "kernSemP")
       \/ pc[p] = "toRecv" /\ MboxRecv(p, arg[p], "kernSemV")
    /\ UNCHANGED sems

-----------------------------------------------------------------------------
Next == \E p \in Procs :
    \/ \E v \in Values : sys_semcreate(p, v)
    \/ \E v \in KernValues : kernSemCreate(p, v)
    \/ \E s \in Indices \ KernIndices : sys_semp(p, s) \/ sys_semv(p, s)
    \/ \E s \in KernIndices : kernSemP(p, s) \/ kernSemV(p, s)
    \/ kernTake(p) \/ kernMailbox(p)

Spec == Init /\ [][Next]_vars

-----------------------------------------------------------------------------
(* Properties. *)

(* On the semaphores used by system calls alone value, blocked and the     *)
(* queue of the mailbox agree: a negative value is the number of processes *)
(* asleep in P, and blocked counts them.                                   *)
SysSems == Sems \ KernIndices
WaitersCounted ==
    \A s \in SysSems : in_use[s] =>
        /\ blocked[s] = Len(receivers[s])
        /\ Len(receivers[s]) = IF value[s] < 0 THEN -value[s] ELSE 0

(* sys_semv never sleeps: when it sends, a process in P is there already.  *)
VNeverSleeps == \A p \in Procs : pc[p] # "semv"

(* The semaphores as counting semaphores: a process that sleeps in P has   *)
(* taken its unit in advance, and sleeps as a receiver at the mailbox.     *)
Units(s) == IF in_use[s] THEN value[s] + Len(receivers[s]) ELSE 0
Counting == INSTANCE CountingSemaphore WITH
              Sems    <- SysSems,
              open    <- {s \in SysSems : in_use[s]},
              count   <- [s \in SysSems |-> Units(s)],
              waiting <- [s \in SysSems |-> receivers[s]]

(* No unit is made or lost, no process passes P without one, and waiting   *)
(* processes are served in the order they came.                            *)
ImplementsCounting == Counting!Spec

-----------------------------------------------------------------------------
(* Statements of the comments in phase3.c that the code does not keep.     *)

(* A process sleeps in kernSemP only while there is no unit, or one that a *)
(* kernSemV under way brings it.                                           *)
KernWaitsAtZero ==
    \A p \in Procs : pc[p] = "kernSemP" /\ value[arg[p]] > 0 =>
        \E q \in Procs : pc[q] = "toRecv" /\ arg[q] = arg[p]

(* kernSemV wakes a process asleep in P or returns. *)
KernVNeverSleeps == \A p \in Procs : pc[p] # "kernSemV"

(* A semaphore created with at least zero units never has fewer: kernSemP  *)
(* at zero waits.                                                          *)
KernNonNegative == \A s \in Sems : in_use[s] => value[s] >= 0

(* A new semaphore has at least zero units. *)
CreatedNonNegative == [][\A s \in Sems : ~in_use[s] /\ in_use'[s] => value'[s] >= 0]_vars

=============================================================================
