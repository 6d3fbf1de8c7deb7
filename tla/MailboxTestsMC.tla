--------------------------- MODULE MailboxTestsMC ---------------------------
(* Values of the constants of MailboxTests for model checking.  Only the   *)
(* program counts as a choice of who runs, so the layer itself gives every *)
(* process one priority and every operation.                               *)
EXTENDS MailboxTests

CONSTANT tick

EqualPriority == [p \in Procs |-> 3]
EveryCall == [p \in Procs |-> Operations]
=============================================================================
