---------------------------- MODULE SemaphoreMC ----------------------------
(* Values of the constants of Semaphore for model checking. *)
EXTENDS Semaphore, TLC

CONSTANTS p1, p2, p3, p4

(* A negative value, none, one unit. *)
FewValues == -1..1
(* Indices on either side of the table as well; the last semaphore, and *)
(* the index beyond it, are used in kernel mode.                           *)
AllIndices == -1..MAXSEMS
LastSemaphore == {MAXSEMS - 1, MAXSEMS}
============================================================================
