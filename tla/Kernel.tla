------------------------------- MODULE Kernel -------------------------------
(***************************************************************************)
(* The process layer, phase1b-archive/phase1b.c: the process table, the    *)
(* six ready queues threaded through its entries, and the dispatcher.      *)
(*                                                                         *)
(* A process is the index of its entry in process_table.  One process runs *)
(* at a time and each operation runs until it returns or switches context, *)
(* so an action is one operation up to there; pc[s] says where s goes on   *)
(* when it is dispatched again.  The ready queues are kept as the pointers *)
(* they are (ready_queues[q], next), because a process can be linked in    *)
(* twice and the walks along next then never end.                          *)
(***************************************************************************)
EXTENDS Integers, Sequences, FiniteSets, SequencesExt

CONSTANTS
    NULL,        \* a NULL pointer
    MAXPROC,     \* entries of process_table, 50 in the code
    PIDMOD,      \* pids that are 1 or 2 modulo this are skipped, 50 in the code
    MaxPid,      \* bound of the model: next_pid stays at or below it
    Ops,         \* the operations processes perform
    Priorities   \* the priority arguments of spork

Entries == 0..(MAXPROC - 1)
init    == 1     \* process_table[1]
Queues  == 1..6  \* ready_queues, by priority

ASSUME TableAssumption ==
    /\ MAXPROC \in Nat /\ MAXPROC > 1
    /\ PIDMOD \in Nat /\ PIDMOD > 3
    /\ MaxPid \in Nat
    /\ NULL \notin Entries
    /\ Priorities \subseteq Int
    /\ Ops \subseteq {"spork", "join", "quit", "zap", "blockMe", "unblockProc", "tick"}

VARIABLES
    pid,           \* -1 when the entry is unused
    priority, parent,
    children,      \* the list threaded through sibling, first child first
    status,        \* -1 terminated, 0 runnable, 1 blocked
    zap_target,
    ready_queues, next,
    running_process, next_pid,
    pc,            \* where each process goes on
    machine        \* "up", or how the machine stopped

table == <<pid, priority, parent, children, next_pid>>
links == <<ready_queues, next>>
vars  == <<table, status, zap_target, links, running_process, pc, machine>>

Pointers == Entries \cup {NULL}
Stops == {"no process ready", "switch to itself", "error", "hung", "fault"}

TypeOK ==
    /\ pid \in [Entries -> Int]
    /\ priority \in [Entries -> Queues]
    /\ parent \in [Entries -> Pointers]
    /\ children \in [Entries -> Seq(Entries)]
    /\ status \in [Entries -> {-1, 0, 1}]
    /\ zap_target \in [Entries -> Pointers]
    /\ ready_queues \in [Queues -> Pointers]
    /\ next \in [Entries -> Pointers]
    /\ running_process \in Pointers
    /\ next_pid \in Nat
    /\ pc \in [Entries -> {"start", "run", "join", "zap", "dispatch", "dead"}]
    /\ machine \in {"up"} \cup Stops

(* phase1_init. *)
Init ==
    /\ pid = [s \in Entries |-> IF s = init THEN 1 ELSE -1]
    /\ priority = [s \in Entries |-> 6]
    /\ parent = [s \in Entries |-> NULL]
    /\ children = [s \in Entries |-> <<>>]
    /\ status = [s \in Entries |-> IF s = init THEN 0 ELSE -1]
    /\ zap_target = [s \in Entries |-> NULL]
    /\ ready_queues = [q \in Queues |-> IF q = 6 THEN init ELSE NULL]
    /\ next = [s \in Entries |-> NULL]
    /\ running_process = NULL
    /\ next_pid = 2
    /\ pc = [s \in Entries |-> "start"]
    /\ machine = "up"

-----------------------------------------------------------------------------
(* dispatcher looks at the head of each queue only, and takes a terminated *)
(* process for a runnable one.  contextSwitch halts when the chosen        *)
(* process is the one that runs.                                           *)
HeadsAsleep(rq, st) == {q \in Queues : rq[q] # NULL}   \* Faulty: sleepers too
Heads(rq, st) == {q \in Queues : rq[q] # NULL /\ st[rq[q]] # 1}
Chosen(rq, st) == rq[CHOOSE q \in Heads(rq, st) : \A r \in Heads(rq, st) : q <= r]

contextSwitch(s) ==
    \/ s = running_process /\ machine' = "switch to itself" /\ UNCHANGED running_process
    \/ s # running_process /\ running_process' = s /\ UNCHANGED machine

dispatcher(rq, st) ==
    IF Heads(rq, st) = {}
      THEN machine' = "no process ready" /\ UNCHANGED running_process
      ELSE contextSwitch(Chosen(rq, st))

Stop(why) ==
    /\ machine' = why
    /\ UNCHANGED <<table, status, zap_target, links, running_process, pc>>

-----------------------------------------------------------------------------
(* Walking a queue along next: Nth(rq, nx, q)[n] is the n-th process, and  *)
(* a walk of more steps than there are entries goes in circles.            *)
Nth(rq, nx, q) ==
    LET nth[n \in 0..MAXPROC] ==
          IF n = 0 THEN rq[q]
          ELSE IF nth[n - 1] = NULL THEN NULL ELSE nx[nth[n - 1]]
    IN  nth

Cyclic(rq, nx, q) == Nth(rq, nx, q)[MAXPROC] # NULL
QueueLast(rq, nx, q) ==
    CHOOSE s \in Entries : nx[s] = NULL /\ \E n \in 0..MAXPROC : Nth(rq, nx, q)[n] = s
OnQueue(rq, nx, q, s) == \E n \in 0..MAXPROC : Nth(rq, nx, q)[n] = s

(* Faulty: what is queued behind the process goes with it. *)
UnlinkedWithRest(rq, nx, q, s) ==
    [rq |-> IF rq[q] = s THEN [rq EXCEPT ![q] = NULL] ELSE rq,
     nx |-> [e \in Entries |-> IF nx[e] = s THEN NULL ELSE nx[e]]]

(* remove_from_ready_queue(s), when s is met on the walk: its first        *)
(* occurrence is unlinked.                                                 *)
Unlinked(rq, nx, q, s) ==
    IF rq[q] = s
      THEN [rq |-> [rq EXCEPT ![q] = nx[s]], nx |-> [nx EXCEPT ![s] = NULL]]
      ELSE LET nth == Nth(rq, nx, q)
               at == CHOOSE n \in 1..MAXPROC : nth[n] = s /\ \A k \in 0..(n - 1) : nth[k] # s
           IN  [rq |-> rq, nx |-> [nx EXCEPT ![nth[at - 1]] = nx[s], ![s] = NULL]]

-----------------------------------------------------------------------------
(* The process r that runs, performing op. *)
Running(r, op) ==
    /\ machine = "up" /\ r = running_process
    /\ pc[r] = "run" /\ op \in Ops

(* The startup code calls dispatcher, which starts init. *)
Boot ==
    /\ machine = "up" /\ running_process = NULL
    /\ dispatcher(ready_queues, status)
    /\ UNCHANGED <<table, status, zap_target, links, pc>>

(* A process starts its own code, or goes on with it when zap returns. *)
Proceed(r) ==
    /\ machine = "up" /\ r = running_process /\ r # init
    /\ pc[r] \in {"start", "zap"}
    /\ pc' = [pc EXCEPT ![r] = "run"]
    /\ UNCHANGED <<table, status, zap_target, links, running_process, machine>>

(* A terminated process that is dispatched returns from quit and runs off  *)
(* the end of processWrapper.                                              *)
RunsOff(r) ==
    /\ machine = "up" /\ r = running_process /\ pc[r] = "dead"
    /\ Stop("fault")

-----------------------------------------------------------------------------
(* spork.  The first free entry from next_pid % MAXPROC on, wrapping; the  *)
(* next pid, skipping those that are 1 or 2 modulo PIDMOD; the child list  *)
(* of the parent; the tail of the ready queue; and the dispatcher when the *)
(* child's priority is as good as the parent's.                            *)
Distance(s) == (s - (next_pid % MAXPROC) + MAXPROC) % MAXPROC
FreeEntries == {s \in Entries : pid[s] = -1}
(* Faulty: the entry the pid points at is taken for free. *)
FirstFreeAssumed == next_pid % MAXPROC
FirstFree == CHOOSE s \in FreeEntries : \A t \in FreeEntries : Distance(s) <= Distance(t)

Skipped(n) == n > 2 /\ n % PIDMOD \in {1, 2}
NewPid == CHOOSE n \in {next_pid, next_pid + 1, next_pid + 2} :
            ~Skipped(n) /\ \A k \in next_pid..(n - 1) : Skipped(k)

AddChild(r, s, prio) ==
    children' = [children EXCEPT ![r] =
                   IF prio > priority[r] THEN Append(@, s) ELSE <<s>> \o children[r]]

Appended(q, s) ==
    IF ready_queues[q] = NULL
      THEN [rq |-> [ready_queues EXCEPT ![q] = s], nx |-> next]
      ELSE [rq |-> ready_queues,
            nx |-> [next EXCEPT ![QueueLast(ready_queues, next, q)] = s]]


NewProcess(r, prio) ==
    LET s == FirstFree
        queue == Appended(prio, s)
    IN  /\ pid' = [pid EXCEPT ![s] = NewPid]
        /\ next_pid' = NewPid + 1
        /\ priority' = [priority EXCEPT ![s] = prio]
        /\ status' = [status EXCEPT ![s] = 0]
        /\ parent' = [parent EXCEPT ![s] = r]
        /\ AddChild(r, s, prio)
        /\ ready_queues' = queue.rq /\ next' = [queue.nx EXCEPT ![s] = NULL]
        /\ IF prio <= priority[r]
             THEN dispatcher(queue.rq, status')
             ELSE UNCHANGED <<running_process, machine>>
        /\ UNCHANGED zap_target

spork(r, prio) ==
    /\ Running(r, "spork") /\ next_pid <= MaxPid
    /\ prio \in 1..5 /\ FreeEntries # {}   \* otherwise -1 and nothing changes
    /\ \/ Cyclic(ready_queues, next, prio) /\ Stop("hung")
       \/ /\ ~Cyclic(ready_queues, next, prio)
          /\ NewProcess(r, prio)
          /\ pc' = [pc EXCEPT ![FirstFree] = "start"]

-----------------------------------------------------------------------------
(* join: one time round its loop.  The first terminated child leaves the   *)
(* list and its entry becomes free; without one the parent blocks, and     *)
(* looks again when it is dispatched.                                      *)
Terminated(r) == {i \in 1..Len(children[r]) : status[children[r][i]] = -1}

JoinLoop(r) ==
    \/ /\ Terminated(r) # {}
       /\ LET i == CHOOSE i \in Terminated(r) : \A j \in Terminated(r) : i <= j
          IN  /\ children' = [children EXCEPT ![r] = RemoveAt(@, i)]
              /\ pid' = [pid EXCEPT ![children[r][i]] = -1]
       /\ pc' = [pc EXCEPT ![r] = "run"]
       /\ UNCHANGED <<priority, parent, next_pid, status, zap_target, links,
                      running_process, machine>>
    \/ /\ Terminated(r) = {}
       /\ status' = [status EXCEPT ![r] = 1]
       /\ dispatcher(ready_queues, status')
       /\ pc' = [pc EXCEPT ![r] = "join"]
       /\ UNCHANGED <<table, zap_target, links>>

join(r) ==
    /\ \/ Running(r, "join") /\ children[r] # <<>>   \* without children, -2
       \/ machine = "up" /\ r = running_process /\ pc[r] = "join"
    /\ JoinLoop(r)

-----------------------------------------------------------------------------
(* init_run sporks testcase_main at priority 3, and when it runs again     *)
(* calls dispatcher.  It was dispatched because no other queue had a       *)
(* runnable head, and still none has, so its join loop is never reached.   *)
InitSpork ==
    /\ machine = "up" /\ running_process = init /\ pc[init] = "start"
    /\ NewProcess(init, 3)
    /\ pc' = [pc EXCEPT ![init] = "dispatch", ![FirstFree] = "start"]

(* Faulty: init joins at once. *)
InitJoins ==
    /\ machine = "up" /\ running_process = init /\ pc[init] = "dispatch"
    /\ JoinLoop(init)

InitDispatch ==
    /\ machine = "up" /\ running_process = init /\ pc[init] = "dispatch"
    /\ dispatcher(ready_queues, status)
    /\ UNCHANGED <<table, status, zap_target, links, pc>>

-----------------------------------------------------------------------------
(* Faulty: the parent is not woken. *)
ParentNotWoken(r) == [status EXCEPT ![r] = -1]

(* quit, called by a process or by processWrapper when its function        *)
(* returns.  The parent becomes runnable if it is blocked, for whatever    *)
(* reason; then every blocked zapper is put in front of its queue, in the  *)
(* order of the table.                                                     *)
ParentWoken(r) ==
    [s \in Entries |-> IF s = r THEN -1
                       ELSE IF s = parent[r] /\ status[s] = 1 THEN 0 ELSE status[s]]

Zappers(r) == {s \in Entries : ParentWoken(r)[s] = 1 /\ zap_target[s] = r}
ZappersAt(r, q) == {s \in Zappers(r) : priority[s] = q}
Highest(S) == CHOOSE s \in S : \A t \in S : t <= s

ZappersInFront(r) ==
    [rq |-> [q \in Queues |-> IF ZappersAt(r, q) = {} THEN ready_queues[q]
                              ELSE Highest(ZappersAt(r, q))],
     nx |-> [s \in Entries |->
               IF s \notin Zappers(r) THEN next[s]
               ELSE LET before == {t \in ZappersAt(r, priority[s]) : t < s}
                    IN  IF before = {} THEN ready_queues[priority[s]] ELSE Highest(before)]]

quit(r) ==
    /\ Running(r, "quit")
    /\ \/ children[r] # <<>> /\ Stop("error")
       \/ /\ children[r] = <<>>
          /\ status' = [s \in Entries |-> IF s \in Zappers(r) THEN 0 ELSE ParentWoken(r)[s]]
          /\ zap_target' = [s \in Entries |-> IF s \in Zappers(r) THEN NULL ELSE zap_target[s]]
          /\ LET z == ZappersInFront(r)
                 q == priority[r]
                 queue == IF OnQueue(z.rq, z.nx, q, r) THEN Unlinked(z.rq, z.nx, q, r) ELSE z
             IN  /\ ready_queues' = queue.rq /\ next' = queue.nx
                 /\ IF ~OnQueue(z.rq, z.nx, q, r) /\ Cyclic(z.rq, z.nx, q)
                      THEN machine' = "hung" /\ UNCHANGED running_process
                      ELSE dispatcher(queue.rq, status')
          /\ pc' = [pc EXCEPT ![r] = "dead"]
          /\ UNCHANGED table

-----------------------------------------------------------------------------
(* Faulty: status 2, which dumpProcesses shows as Zapped. *)
zapMarked(r, n) ==
    /\ Running(r, "zap") /\ n # pid[r]
    /\ \E s \in Entries : pid[s] = n /\ status[s] # -1 /\
         /\ status' = [status EXCEPT ![r] = 2]
         /\ zap_target' = [zap_target EXCEPT ![r] = s]
         /\ dispatcher(ready_queues, status')
         /\ pc' = [pc EXCEPT ![r] = "zap"]
         /\ UNCHANGED <<table, links>>

(* zap: a process that zaps itself, or a pid that no entry has, stops the  *)
(* machine; a target already terminated returns at once.                   *)
zap(r, n) ==
    /\ Running(r, "zap")
    /\ \/ (n = pid[r] \/ \A s \in Entries : pid[s] # n) /\ Stop("error")
       \/ /\ n # pid[r]
          /\ \E s \in Entries : pid[s] = n /\ status[s] # -1 /\
               /\ status' = [status EXCEPT ![r] = 1]
               /\ zap_target' = [zap_target EXCEPT ![r] = s]
               /\ dispatcher(ready_queues, status')
               /\ pc' = [pc EXCEPT ![r] = "zap"]
               /\ UNCHANGED <<table, links>>

blockMe(r) ==
    /\ Running(r, "blockMe")
    /\ status' = [status EXCEPT ![r] = 1]
    /\ dispatcher(ready_queues, status')
    /\ UNCHANGED <<table, zap_target, links, pc>>

(* unblockProc appends the process to its queue.  It was never taken off   *)
(* the queue when it blocked.                                              *)
unblockProc(r, n) ==
    /\ Running(r, "unblockProc")
    /\ \E s \in Entries : pid[s] = n /\ status[s] = 1 /\   \* otherwise -2
         LET q == priority[s] IN
         \/ Cyclic(ready_queues, next, q) /\ Stop("hung")
         \/ /\ ~Cyclic(ready_queues, next, q)
            /\ status' = [status EXCEPT ![s] = 0]
            /\ ready_queues' = Appended(q, s).rq /\ next' = Appended(q, s).nx
            /\ dispatcher(ready_queues', status')
            /\ UNCHANGED <<table, zap_target, pc>>

(* The clock handler of the test harness calls dispatcher. *)
tick(r) ==
    /\ Running(r, "tick")
    /\ dispatcher(ready_queues, status)
    /\ UNCHANGED <<table, status, zap_target, links, pc>>

-----------------------------------------------------------------------------
Pids == {pid[s] : s \in {t \in Entries : pid[t] # -1}}

Next ==
    \/ Boot \/ InitSpork \/ InitDispatch
    \/ \E r \in Entries :
         \/ Proceed(r) \/ RunsOff(r) \/ join(r) \/ quit(r) \/ blockMe(r) \/ tick(r)
         \/ \E prio \in Priorities : spork(r, prio)
         \/ \E n \in Pids \cup {next_pid} : zap(r, n)      \* next_pid: nobody's yet
         \/ \E n \in Pids : unblockProc(r, n)

Spec == Init /\ [][Next]_vars

-----------------------------------------------------------------------------
(* Properties. *)

Live == {s \in Entries : pid[s] # -1}
Runnable == {s \in Live : status[s] = 0}

(* The process tree: a child list names live entries, each once, whose     *)
(* parent pointer leads back to the list's owner; every live process but   *)
(* init is on the list of a parent that has not terminated; no two live    *)
(* processes share a pid.  Reuse of table entries breaks it first.         *)
FamilyTree ==
    /\ \A s \in Live : \A i \in 1..Len(children[s]) :
         /\ children[s][i] \in Live /\ parent[children[s][i]] = s
         /\ \A j \in 1..Len(children[s]) : children[s][j] = children[s][i] => i = j
    /\ \A s \in Entries : children[s] # <<>> => s \in Live /\ status[s] # -1
    /\ \A s \in Live \ {init} : Contains(children[parent[s]], s)
    /\ \A s, t \in Live : pid[s] = pid[t] => s = t

(* A parent asleep in join has no terminated child: the quit of a child is *)
(* never missed between the scan of the list and the sleep.                *)
NoLostJoin ==
    \A s \in Live : pc[s] = "join" /\ status[s] = 1 => Terminated(s) = {}

(* Each ready queue is a list that ends and holds each process once; a     *)
(* process that has not terminated is on the queue of its priority, asleep *)
(* or not, and a terminated one is on no queue.                            *)
OnSomeQueue(s) == \E q \in Queues : OnQueue(ready_queues, next, q, s)
QueuesWellFormed ==
    machine # "hung" =>
        /\ \A q \in Queues : ~Cyclic(ready_queues, next, q)
        /\ \A q, q2 \in Queues, n, n2 \in 0..MAXPROC :
             LET s == Nth(ready_queues, next, q)[n]
             IN  s # NULL /\ s = Nth(ready_queues, next, q2)[n2] => q = q2 /\ n = n2
        /\ \A s \in Live : status[s] # -1 => OnQueue(ready_queues, next, priority[s], s)
        /\ \A s \in Entries : status[s] = -1 => ~OnSomeQueue(s)

(* No step spoils the ready queues except the two that queue a process     *)
(* again which never left its queue when it fell asleep: unblockProc, and  *)
(* the quit of a process that is being zapped.                             *)
QueuesAgain ==
    \E r \in Entries :
        \/ \E n \in Pids : unblockProc(r, n)
        \/ status[r] # -1 /\ status'[r] = -1 /\ Zappers(r) # {}
QueuesKept == [][QueuesWellFormed /\ ~QueuesAgain => QueuesWellFormed']_vars

(* As long as the queues are lists, a process that stops or falls asleep,  *)
(* in join, zap, quit or blockMe, is never the one the dispatcher chooses, *)
(* which halts the machine (phase1b.c, 523): only a process that could go  *)
(* on is told to switch to itself, by a tick, spork or unblockProc.        *)
NoSwitchToSleeper ==
    [][QueuesWellFormed /\ running_process # NULL /\ machine' = "switch to itself"
          => status'[running_process] = 0]_vars

(* The dispatcher always finds a process: init never sleeps. *)
SomeoneToRun == Heads(ready_queues, status) # {}

-----------------------------------------------------------------------------
(* Statements of the comments in phase1b.c that the code does not keep.    *)

(* The dispatcher runs a process of the best priority that is runnable, as *)
(* its comment says.                                                       *)
BestPriorityRuns ==
    /\ machine = "up" /\ running_process # NULL =>
         \A s \in Runnable : priority[running_process] <= priority[s]
    /\ machine = "no process ready" => Runnable = {}

NeverHangs == machine # "hung"

(* Choosing the process that runs already is nothing to stop for. *)
SwitchToSelfIsNothing == machine # "switch to itself"

(* When zap is dispatched again its target has terminated. *)
ZapWaits ==
    machine = "up" /\ running_process # NULL /\ pc[running_process] = "zap" =>
        zap_target[running_process] = NULL

=============================================================================
