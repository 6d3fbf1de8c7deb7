------------------------------ MODULE KernelMC ------------------------------
(* Values of the constants of Kernel for model checking. *)
EXTENDS Kernel

AllOps   == {"spork", "join", "quit", "zap", "blockMe", "unblockProc", "tick"}
(* What it takes to put a process that fell asleep back to work. *)
SleepOps == {"spork", "blockMe", "unblockProc"}
(* Some better, some worse than that of testcase_main, 3. *)
SomePriorities == 2..5
=============================================================================
