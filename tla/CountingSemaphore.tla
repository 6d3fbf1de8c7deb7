--------------------------- MODULE CountingSemaphore ---------------------------
(***************************************************************************)
(* What the semaphores of phase 3 promise: a count of units that is never  *)
(* negative, processes that wait only while it is zero, and each V giving  *)
(* its one unit to the process that has waited longest, or to the count    *)
(* when nobody waits, without ever waiting itself.                         *)
(***************************************************************************)
EXTENDS Integers, Sequences

CONSTANTS Procs, Sems

VARIABLES open,     \* the semaphores that exist
          count,    \* the units of each
          waiting   \* the processes inside its P, longest waiting first

vars == <<open, count, waiting>>

Init ==
    /\ open = {}
    /\ count = [s \in Sems |-> 0]
    /\ waiting = [s \in Sems |-> <<>>]

Create(s) ==
    /\ s \notin open
    /\ open' = open \cup {s}
    /\ count'[s] \in Nat /\ count' = [count EXCEPT ![s] = count'[s]]
    /\ UNCHANGED waiting

TakeUnit(s) ==
    /\ s \in open /\ count[s] > 0
    /\ count' = [count EXCEPT ![s] = @ - 1]
    /\ UNCHANGED <<open, waiting>>

Wait(p, s) ==
    /\ s \in open /\ count[s] = 0
    /\ waiting' = [waiting EXCEPT ![s] = Append(@, p)]
    /\ UNCHANGED <<open, count>>

AddUnit(s) ==
    /\ s \in open /\ waiting[s] = <<>>
    /\ count' = [count EXCEPT ![s] = @ + 1]
    /\ UNCHANGED <<open, waiting>>

HandOver(s) ==
    /\ s \in open /\ waiting[s] # <<>>
    /\ waiting' = [waiting EXCEPT ![s] = Tail(@)]
    /\ UNCHANGED <<open, count>>

Next == \E s \in Sems :
    \/ Create(s) \/ TakeUnit(s) \/ AddUnit(s) \/ HandOver(s)
    \/ \E p \in Procs : Wait(p, s)

Spec == Init /\ [][Next]_vars
================================================================================
