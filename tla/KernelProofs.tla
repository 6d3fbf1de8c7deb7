---------------------------- MODULE KernelProofs ----------------------------
(***************************************************************************)
(* Proofs about the process layer, for a process table of any size.  The   *)
(* ready queues may be spoiled (a process can be linked in twice) and      *)
(* still every pointer leads to an entry that has been used, and init      *)
(* stays in front of queue 6; the child lists are exactly the live entries *)
(* that name their owner as parent.  The second half is about the queues   *)
(* while they are lists: what each operation does to the walk along next.  *)
(***************************************************************************)
EXTENDS Kernel, FiniteSetTheorems, NaturalsInduction, WellFoundedInduction, TLAPS

Used == {s \in Entries : pid[s] # -1 \/ pc[s] = "dead"}
UsedPointers == Used \cup {NULL}

(* All pointers of the queues are of kind P. *)
Linked(rq, nx, P) == rq \in [Queues -> P] /\ nx \in [Entries -> P]

Pointed == Linked(ready_queues, next, UsedPointers) /\ running_process \in UsedPointers

(* status and pc tell alike who has terminated. *)
StatusMatches ==
    \A s \in Entries :
        /\ status[s] = -1 <=> pid[s] = -1 \/ pc[s] = "dead"
        /\ pid[s] = -1 => pc[s] \in {"start", "dead"}

(* init never leaves its queue, and it is alone before it forks. *)
InitReady ==
    /\ pid[init] # -1 /\ status[init] = 0 /\ priority[init] = 6
    /\ pc[init] \in {"start", "dispatch"}
    /\ ready_queues[6] = init
    /\ \A s \in Used \ {init} : priority[s] # 6
    /\ pc[init] = "start" => Used = {init}

Named ==
    /\ next_pid >= 2
    /\ \A s \in Live : pid[s] \in Nat /\ pid[s] < next_pid
    /\ \A s, t \in Live : pid[s] = pid[t] => s = t

ChildrenOf(s) == {c \in Live : parent[c] = s}
Family ==
    /\ \A s \in Entries : ToSet(children[s]) = ChildrenOf(s)
    /\ \A s \in Entries : IsInjective(children[s])
    /\ \A s \in Entries : children[s] # <<>> => status[s] # -1
    /\ \A s \in Live \ {init} : parent[s] \in Entries

KernelInv ==
    TypeOK /\ Pointed /\ StatusMatches /\ InitReady /\ Named /\ Family /\ NoLostJoin

-----------------------------------------------------------------------------
(* Least and greatest elements, for the searches through the table. *)
LEMMA Least ==
    ASSUME NEW S, S \subseteq Nat, S # {}
    PROVE  \E m \in S : \A n \in S : m <= n
  <1> DEFINE less == OpToRel(<, Nat)
  <1>1. IsWellFoundedOn(less, Nat) BY NatLessThanWellFounded
  <1>2. \A x, y \in Nat : <<x, y>> \in less <=> x < y BY DEF OpToRel
  <1> HIDE DEF less
  <1>3. PICK m \in S : \A n \in Nat : <<n, m>> \in less => n \notin S
    BY <1>1, WFMin
  <1>4. \A n \in S : m <= n
    <2> SUFFICES ASSUME NEW n \in S PROVE m <= n OBVIOUS
    <2>1. m \in Nat /\ n \in Nat OBVIOUS
    <2>2. ~ n < m BY <1>2, <1>3, <2>1
    <2> QED BY <2>1, <2>2
  <1> QED BY <1>4

LEMMA EntriesType ==
    /\ MAXPROC \in Nat /\ Entries \subseteq Nat /\ init \in Entries
    /\ \A s \in Entries : s <= MAXPROC - 1
    /\ NULL \notin Entries
  BY TableAssumption DEF Entries, init

LEMMA HighestIn ==
    ASSUME NEW S, S \subseteq Entries, S # {}
    PROVE  Highest(S) \in S
  <1> DEFINE D == {MAXPROC - s : s \in S}
  <1>1. D \subseteq Nat /\ D # {}
    <2>1. \A s \in S : s \in Nat /\ s <= MAXPROC - 1 /\ MAXPROC \in Nat BY EntriesType
    <2>2. \A s \in S : MAXPROC - s \in Nat BY <2>1
    <2> QED BY <2>2
  <1>2. PICK m \in D : \A n \in D : m <= n BY <1>1, Least
  <1>3. PICK s \in S : m = MAXPROC - s BY <1>2
  <1>4. \A t \in S : MAXPROC - t \in D BY DEF D
  <1>5. \A t \in S : t <= s BY <1>2, <1>3, <1>4, EntriesType
  <1> QED BY <1>3, <1>5 DEF Highest

LEMMA FirstFreeIsFree ==
    ASSUME TypeOK, FreeEntries # {}
    PROVE  FirstFree \in FreeEntries
  <1> DEFINE D == {Distance(s) : s \in FreeEntries}
  <1>1. \A s \in FreeEntries : Distance(s) \in Nat
    <2>1. MAXPROC \in Nat \ {0} /\ next_pid \in Nat
      BY TableAssumption DEF TypeOK
    <2>2. \A a \in Int, b \in Nat \ {0} : a % b \in Nat BY SMT
    <2>3. next_pid % MAXPROC \in Int BY <2>1, <2>2
    <2>4. \A s \in FreeEntries : s - (next_pid % MAXPROC) + MAXPROC \in Int
      BY <2>1, <2>3, EntriesType DEF FreeEntries
    <2> HIDE DEF D
    <2> QED BY <2>1, <2>2, <2>4 DEF Distance
  <1>2. D \subseteq Nat /\ D # {} BY <1>1
  <1>3. PICK m \in D : \A n \in D : m <= n BY <1>2, Least
  <1>4. PICK s \in FreeEntries : m = Distance(s) BY <1>3
  <1>5. \A t \in FreeEntries : Distance(s) <= Distance(t) BY <1>3, <1>4
  <1> QED BY <1>4, <1>5 DEF FirstFree

(* Of three pids in a row one is not skipped (phase1b.c, 191-194). *)
LEMMA NewPidIsNew ==
    ASSUME TypeOK, next_pid >= 2
    PROVE  NewPid \in Nat /\ NewPid >= next_pid
  <1> DEFINE n == next_pid
  <1>1. n \in Nat /\ PIDMOD \in Nat /\ PIDMOD > 3 BY TableAssumption DEF TypeOK
  <1>2. ~(Skipped(n) /\ Skipped(n + 1) /\ Skipped(n + 2))
    <2>1. SUFFICES ASSUME n % PIDMOD \in {1, 2}, (n + 1) % PIDMOD \in {1, 2}
                   PROVE  (n + 2) % PIDMOD \notin {1, 2}
      BY DEF Skipped
    <2> HIDE DEF n
    <2> QED BY <1>1, <2>1, Z3
  <1>3. \E k \in {n, n + 1, n + 2} : ~Skipped(k) /\ \A j \in n..(k - 1) : Skipped(j)
    <2>1. CASE ~Skipped(n)
      <3>1. \A j \in n..(n - 1) : FALSE BY <1>1
      <3> HIDE DEF n
      <3> QED BY <2>1, <3>1
    <2>2. CASE Skipped(n) /\ ~Skipped(n + 1)
      <3>1. \A j \in n..((n + 1) - 1) : j = n BY <1>1
      <3>2. ~Skipped(n + 1) /\ \A j \in n..((n + 1) - 1) : Skipped(j)
        BY <2>2, <3>1, Zenon
      <3> HIDE DEF n
      <3> WITNESS n + 1 \in {n, n + 1, n + 2}
      <3> QED BY <3>2
    <2>3. CASE Skipped(n) /\ Skipped(n + 1)
      <3>1. \A j \in n..((n + 2) - 1) : j = n \/ j = n + 1 BY <1>1
      <3>2. ~Skipped(n + 2) /\ \A j \in n..((n + 2) - 1) : Skipped(j)
        BY <1>2, <2>3, <3>1, Zenon
      <3> HIDE DEF n
      <3> WITNESS n + 2 \in {n, n + 1, n + 2}
      <3> QED BY <3>2
    <2> QED BY <2>1, <2>2, <2>3
  <1>4. NewPid \in {n, n + 1, n + 2} BY <1>3 DEF NewPid
  <1> QED BY <1>1, <1>4

-----------------------------------------------------------------------------
(* Lists without repetition: a child put at either end, a child taken out. *)
LEMMA ToSetIs ==
    ASSUME NEW S, NEW c \in Seq(S)
    PROVE  /\ Len(c) \in Nat /\ DOMAIN c = 1..Len(c)
           /\ \A e : e \in ToSet(c) <=> \E i \in 1..Len(c) : c[i] = e
           /\ ToSet(c) \subseteq S
           /\ c = <<>> <=> ToSet(c) = {}
  <1>1. Len(c) \in Nat /\ DOMAIN c = 1..Len(c) /\ \A i \in 1..Len(c) : c[i] \in S
    OBVIOUS
  <1>2. \A e : e \in ToSet(c) <=> \E i \in 1..Len(c) : c[i] = e
    BY <1>1 DEF ToSet
  <1>3. c = <<>> <=> Len(c) = 0 OBVIOUS
  <1>4. c # <<>> => c[1] \in ToSet(c) BY <1>1, <1>2, <1>3
  <1>5. c = <<>> => ToSet(c) = {} BY <1>1, <1>2, <1>3
  <1> QED BY <1>1, <1>2, <1>4, <1>5

LEMMA ChildAppended ==
    ASSUME NEW S, NEW c \in Seq(S), NEW s \in S, s \notin ToSet(c), IsInjective(c)
    PROVE  /\ Append(c, s) \in Seq(S) /\ IsInjective(Append(c, s))
           /\ ToSet(Append(c, s)) = ToSet(c) \cup {s}
  <1> DEFINE d == Append(c, s)
  <1>1. /\ Len(c) \in Nat /\ DOMAIN c = 1..Len(c)
        /\ d \in Seq(S) /\ Len(d) = Len(c) + 1 /\ DOMAIN d = 1..(Len(c) + 1)
        /\ \A i \in 1..Len(c) : d[i] = c[i]
        /\ d[Len(c) + 1] = s
    OBVIOUS
  <1> HIDE DEF d
  <1>2. \A i \in 1..Len(c) : c[i] # s BY ToSetIs
  <1>3. IsInjective(d) BY <1>1, <1>2 DEF IsInjective
  <1>4. ToSet(d) = ToSet(c) \cup {s}
    <2>1. \A e : e \in ToSet(d) <=> \E i \in 1..(Len(c) + 1) : d[i] = e
      BY <1>1, ToSetIs
    <2>2. \A e : e \in ToSet(c) <=> \E i \in 1..Len(c) : c[i] = e BY ToSetIs
    <2> QED BY <1>1, <2>1, <2>2
  <1> QED BY <1>1, <1>3, <1>4 DEF d

LEMMA ChildInFront ==
    ASSUME NEW S, NEW c \in Seq(S), NEW s \in S, s \notin ToSet(c), IsInjective(c)
    PROVE  /\ <<s>> \o c \in Seq(S) /\ IsInjective(<<s>> \o c)
           /\ ToSet(<<s>> \o c) = ToSet(c) \cup {s}
  <1> DEFINE d == <<s>> \o c
  <1>1. /\ Len(c) \in Nat /\ DOMAIN c = 1..Len(c)
        /\ d \in Seq(S) /\ Len(d) = Len(c) + 1 /\ DOMAIN d = 1..(Len(c) + 1)
        /\ \A i \in 1..Len(c) : d[i + 1] = c[i]
        /\ d[1] = s
    OBVIOUS
  <1> HIDE DEF d
  <1>2. \A i \in 1..Len(c) : c[i] # s BY ToSetIs
  <1>3. \A i \in 1..(Len(c) + 1) : i = 1 \/ (i - 1 \in 1..Len(c) /\ d[i] = c[i - 1])
    <2> TAKE i \in 1..(Len(c) + 1)
    <2>1. i # 1 => i - 1 \in 1..Len(c) /\ (i - 1) + 1 = i BY <1>1
    <2> QED BY <1>1, <2>1
  <1>4. IsInjective(d)
    <2> SUFFICES ASSUME NEW i \in 1..(Len(c) + 1), NEW j \in 1..(Len(c) + 1), d[i] = d[j]
                 PROVE  i = j
      BY <1>1 DEF IsInjective
    <2>1. i \in Nat /\ j \in Nat BY <1>1
    <2>2. i = 1 <=> j = 1 BY <1>1, <1>2, <1>3
    <2>3. \A k, l \in 1..Len(c) : c[k] = c[l] => k = l BY <1>1 DEF IsInjective
    <2>4. i # 1 /\ j # 1 => i - 1 = j - 1 BY <1>3, <2>3
    <2> QED BY <2>1, <2>2, <2>4
  <1>5. ToSet(d) = ToSet(c) \cup {s}
    <2>1. \A e : e \in ToSet(d) <=> \E i \in 1..(Len(c) + 1) : d[i] = e
      BY <1>1, ToSetIs
    <2>2. \A e : e \in ToSet(c) <=> \E i \in 1..Len(c) : c[i] = e BY ToSetIs
    <2>3. \A i \in 1..Len(c) : i + 1 \in 1..(Len(c) + 1) BY <1>1
    <2>4. ToSet(d) \subseteq ToSet(c) \cup {s}
      <3> SUFFICES ASSUME NEW i \in 1..(Len(c) + 1) PROVE d[i] \in ToSet(c) \cup {s} BY <2>1
      <3>1. CASE i = 1 BY <1>1, <3>1
      <3>2. CASE i # 1
        <4>1. i - 1 \in 1..Len(c) /\ d[i] = c[i - 1] BY <1>1, <1>3, <3>2
        <4> QED BY <2>2, <4>1
      <3> QED BY <3>1, <3>2
    <2>5. ToSet(c) \cup {s} \subseteq ToSet(d) BY <1>1, <2>1, <2>2, <2>3
    <2> QED BY <2>4, <2>5
  <1> QED BY <1>1, <1>4, <1>5 DEF d

LEMMA ChildRemoved ==
    ASSUME NEW S, NEW c \in Seq(S), IsInjective(c), NEW k \in 1..Len(c)
    PROVE  /\ RemoveAt(c, k) \in Seq(S) /\ IsInjective(RemoveAt(c, k))
           /\ ToSet(RemoveAt(c, k)) = ToSet(c) \ {c[k]}
  <1> DEFINE n == Len(c)
             a == SubSeq(c, 1, k - 1)
             b == SubSeq(c, k + 1, n)
             d == a \o b
  <1>1. n \in Nat /\ k \in Nat /\ 1 <= k /\ k <= n OBVIOUS
  <1>2. /\ a \in Seq(S) /\ Len(a) = k - 1
        /\ \A i \in 1..(k - 1) : a[i] = c[i]
    BY <1>1
  <1>3. /\ b \in Seq(S) /\ Len(b) = n - k
        /\ \A i \in 1..(n - k) : b[i] = c[k + i]
    BY <1>1
  <1>4. /\ d \in Seq(S) /\ Len(d) = n - 1 /\ DOMAIN d = 1..(n - 1)
        /\ \A i \in 1..(k - 1) : d[i] = c[i]
        /\ \A i \in 1..(n - 1) : i >= k => d[i] = c[i + 1]
    <2> HIDE DEF a, b, n
    <2>1. d \in Seq(S) /\ Len(d) = n - 1 /\ DOMAIN d = 1..(n - 1) BY <1>1, <1>2, <1>3
    <2>2. \A i \in 1..(k - 1) : d[i] = a[i] BY <1>1, <1>2, <1>3
    <2>3. \A i \in 1..(n - 1) : i >= k => d[i] = b[i - (k - 1)] /\ i - (k - 1) \in 1..(n - k)
      BY <1>1, <1>2, <1>3
    <2>4. \A i \in 1..(n - 1) : i >= k => d[i] = c[i + 1]
      <3> SUFFICES ASSUME NEW i \in 1..(n - 1), i >= k PROVE d[i] = c[i + 1] OBVIOUS
      <3>1. k + (i - (k - 1)) = i + 1 BY <1>1
      <3> QED BY <1>3, <2>3, <3>1
    <2> QED BY <1>2, <2>1, <2>2, <2>4
  <1> HIDE DEF d
  <1>5. DOMAIN c = 1..n /\ \A i, j \in 1..n : c[i] = c[j] => i = j BY DEF IsInjective
  <1>6. \A i \in 1..(n - 1) : d[i] = c[IF i < k THEN i ELSE i + 1]
    BY <1>1, <1>4
  <1>7. IsInjective(d)
    <2> SUFFICES ASSUME NEW i \in 1..(n - 1), NEW j \in 1..(n - 1), d[i] = d[j] PROVE i = j
      BY <1>4 DEF IsInjective
    <2>1. (IF i < k THEN i ELSE i + 1) = (IF j < k THEN j ELSE j + 1) BY <1>1, <1>5, <1>6
    <2> QED BY <1>1, <2>1
  <1>8. ToSet(d) = ToSet(c) \ {c[k]}
    <2>1. \A e : e \in ToSet(d) <=> \E i \in 1..(n - 1) : d[i] = e BY <1>4, ToSetIs
    <2>2. \A e : e \in ToSet(c) <=> \E i \in 1..n : c[i] = e BY ToSetIs
    <2>3. \A i \in 1..(n - 1) : d[i] \in ToSet(c) \ {c[k]}
      BY <1>1, <1>5, <1>6, <2>2
    <2>4. \A j \in 1..n : j # k => c[j] \in ToSet(d)
      <3> SUFFICES ASSUME NEW j \in 1..n, j # k PROVE c[j] \in ToSet(d) OBVIOUS
      <3> DEFINE i == IF j < k THEN j ELSE j - 1
      <3>1. i \in 1..(n - 1) /\ j = (IF i < k THEN i ELSE i + 1) BY <1>1
      <3> QED BY <1>6, <2>1, <3>1
    <2>5. ToSet(d) \subseteq ToSet(c) \ {c[k]} BY <2>1, <2>3
    <2>6. ToSet(c) \ {c[k]} \subseteq ToSet(d) BY <2>2, <2>4
    <2> QED BY <2>5, <2>6
  <1> QED BY <1>4, <1>7, <1>8 DEF RemoveAt, d

-----------------------------------------------------------------------------
(* What the operations on the queues leave: pointers of the same kind P,   *)
(* and the head of queue 6 alone when they work on another queue.          *)
LEMMA DispatcherRuns ==
    ASSUME NEW P, NEW rq \in [Queues -> P], NEW st, dispatcher(rq, st),
           running_process \in P, machine \in {"up"} \cup Stops
    PROVE  running_process' \in P /\ machine' \in {"up"} \cup Stops
  <1>1. CASE Heads(rq, st) = {} BY <1>1 DEF dispatcher, Stops
  <1>2. CASE Heads(rq, st) # {}
    <2>1. Heads(rq, st) \subseteq Nat /\ Heads(rq, st) \subseteq Queues BY DEF Heads, Queues
    <2>2. \E q \in Heads(rq, st) : \A r \in Heads(rq, st) : q <= r BY <1>2, <2>1, Least
    <2>3. Chosen(rq, st) \in P BY <2>1, <2>2 DEF Chosen
    <2> QED BY <1>2, <2>3 DEF dispatcher, contextSwitch, Stops
  <1> QED BY <1>1, <1>2

LEMMA AppendedTo ==
    ASSUME NEW P, Linked(ready_queues, next, P), NEW q \in Queues, NEW s \in P
    PROVE  /\ Linked(Appended(q, s).rq, Appended(q, s).nx, P)
           /\ q # 6 => Appended(q, s).rq[6] = ready_queues[6]
  <1>1. \A x : [next EXCEPT ![x] = s] \in [Entries -> P] BY DEF Linked
  <1>2. /\ [ready_queues EXCEPT ![q] = s] \in [Queues -> P]
        /\ q # 6 => [ready_queues EXCEPT ![q] = s][6] = ready_queues[6]
    BY DEF Queues, Linked
  <1> QED BY <1>1, <1>2 DEF Appended, Linked

LEMMA UnlinkedFrom ==
    ASSUME NEW P, NULL \in P, NEW rq, NEW nx, Linked(rq, nx, P),
           NEW q \in Queues, NEW s \in Entries
    PROVE  /\ Linked(Unlinked(rq, nx, q, s).rq, Unlinked(rq, nx, q, s).nx, P)
           /\ q # 6 => Unlinked(rq, nx, q, s).rq[6] = rq[6]
  <1>1. nx[s] \in P BY DEF Linked
  <1>2. \A x : [nx EXCEPT ![x] = nx[s], ![s] = NULL] \in [Entries -> P] BY <1>1 DEF Linked
  <1> QED BY <1>1, <1>2 DEF Unlinked, Queues, Linked

LEMMA FrontZappers ==
    ASSUME NEW P, Linked(ready_queues, next, P), NEW r \in Entries,
           priority \in [Entries -> Queues], Zappers(r) \subseteq P
    PROVE  /\ Linked(ZappersInFront(r).rq, ZappersInFront(r).nx, P)
           /\ ZappersAt(r, 6) = {} => ZappersInFront(r).rq[6] = ready_queues[6]
  <1>1. \A q : \A S \in SUBSET ZappersAt(r, q) : S # {} => Highest(S) \in P
    <2> TAKE q
    <2> TAKE S \in SUBSET ZappersAt(r, q)
    <2>1. S \subseteq Entries /\ S \subseteq P BY DEF ZappersAt, Zappers
    <2> QED BY <2>1, HighestIn
  <1>2. \A q \in Queues : (IF ZappersAt(r, q) = {} THEN ready_queues[q]
                            ELSE Highest(ZappersAt(r, q))) \in P
    BY <1>1 DEF Linked
  <1>3. ASSUME NEW s \in Entries
        PROVE  (IF s \notin Zappers(r) THEN next[s]
                ELSE LET before == {t \in ZappersAt(r, priority[s]) : t < s}
                     IN  IF before = {} THEN ready_queues[priority[s]] ELSE Highest(before)) \in P
    <2> DEFINE before == {t \in ZappersAt(r, priority[s]) : t < s}
    <2>1. before \in SUBSET ZappersAt(r, priority[s]) OBVIOUS
    <2>2. before # {} => Highest(before) \in P BY <1>1, <2>1
    <2>3. ready_queues[priority[s]] \in P /\ next[s] \in P BY DEF Linked
    <2>4. (IF before = {} THEN ready_queues[priority[s]] ELSE Highest(before)) \in P
      <3> HIDE DEF before
      <3> QED BY <2>2, <2>3
    <2>5. CASE s \notin Zappers(r) BY <2>3, <2>5
    <2>6. CASE s \in Zappers(r) BY <2>4, <2>6
    <2> QED BY <2>5, <2>6
  <1> QED BY <1>2, <1>3 DEF ZappersInFront, Queues, Linked

-----------------------------------------------------------------------------
LEMMA InitKernelInv == Init => KernelInv
  <1> SUFFICES ASSUME Init PROVE KernelInv OBVIOUS
  <1>1. init \in Entries /\ NULL \notin Entries BY EntriesType
  <1>2. <<>> \in Seq(Entries) OBVIOUS
  <1>3. TypeOK BY <1>1, <1>2 DEF Init, TypeOK, Pointers, Queues
  <1>4. Live = {init} /\ Used = {init} BY <1>1 DEF Init, Live, Used
  <1>5. Pointed BY <1>1, <1>4 DEF Init, Pointed, Linked, UsedPointers, Queues
  <1>6. StatusMatches BY <1>1 DEF Init, StatusMatches
  <1>7. InitReady BY <1>1, <1>4 DEF Init, InitReady, Queues
  <1>8. Named BY <1>1, <1>4 DEF Init, Named
  <1>9. Family
    <2>1. ToSet(<<>>) = {} /\ IsInjective(<<>>) BY DEF ToSet, IsInjective
    <2>2. \A s \in Entries : children[s] = <<>> /\ ChildrenOf(s) = {}
      BY <1>1, <1>4 DEF Init, ChildrenOf
    <2> QED BY <1>4, <2>1, <2>2 DEF Family
  <1>10. NoLostJoin BY <1>1, <1>4 DEF Init, NoLostJoin
  <1> QED BY <1>3, <1>5, <1>6, <1>7, <1>8, <1>9, <1>10 DEF KernelInv

(* A step that only dispatches or stops the machine. *)
LEMMA Redispatched ==
    ASSUME KernelInv, UNCHANGED <<table, status, zap_target, links, pc>>,
           running_process' \in UsedPointers, machine' \in {"up"} \cup Stops
    PROVE  KernelInv'
  <1>1. UNCHANGED <<pid, priority, parent, children, next_pid, ready_queues, next>>
    BY DEF table, links
  <1>2. Used' = Used /\ UsedPointers' = UsedPointers /\ Live' = Live
    BY <1>1 DEF Used, UsedPointers, Live
  <1>3. UsedPointers \subseteq Pointers BY DEF UsedPointers, Used, Pointers
  <1>4. TypeOK' BY <1>1, <1>3 DEF KernelInv, TypeOK
  <1>5. Pointed' BY <1>1, <1>2 DEF KernelInv, Pointed
  <1>6. StatusMatches' BY <1>1 DEF KernelInv, StatusMatches
  <1>7. InitReady' BY <1>1, <1>2 DEF KernelInv, InitReady
  <1>8. Named' BY <1>1, <1>2 DEF KernelInv, Named
  <1>9. Family' BY <1>1, <1>2 DEF KernelInv, Family, ChildrenOf
  <1>10. NoLostJoin' BY <1>1, <1>2 DEF KernelInv, NoLostJoin, Terminated
  <1> QED BY <1>4, <1>5, <1>6, <1>7, <1>8, <1>9, <1>10 DEF KernelInv

LEMMA StopKeeps == ASSUME KernelInv, NEW why \in Stops, Stop(why) PROVE KernelInv'
  BY Redispatched DEF Stop, KernelInv, Pointed

LEMMA DispatchKeeps ==
    ASSUME KernelInv, dispatcher(ready_queues, status),
           UNCHANGED <<table, status, zap_target, links, pc>>
    PROVE  KernelInv'
  <1>1. running_process' \in UsedPointers /\ machine' \in {"up"} \cup Stops
    BY DispatcherRuns DEF KernelInv, Pointed, Linked, TypeOK
  <1> QED BY <1>1, Redispatched

(* A process that is past its start and not terminated. *)
LEMMA Alive ==
    ASSUME KernelInv, NEW r \in Entries, pc[r] \in {"run", "join", "zap"}
    PROVE  r \in Live /\ r # init /\ status[r] # -1 /\ pc[r] # "dead"
  BY DEF KernelInv, StatusMatches, InitReady, Live

(* Falling asleep, in join, zap or blockMe. *)
LEMMA AsleepKeeps ==
    ASSUME KernelInv, NEW r \in Live, r # init, pc[r] # "dead",
           NEW to \in {"run", "join", "zap"}, to = "join" => Terminated(r) = {},
           status' = [status EXCEPT ![r] = 1], pc' = [pc EXCEPT ![r] = to],
           zap_target' \in [Entries -> Pointers],
           dispatcher(ready_queues, status'), UNCHANGED <<table, links>>
    PROVE  KernelInv'
  <1>1. UNCHANGED <<pid, priority, parent, children, next_pid, ready_queues, next>>
    BY DEF table, links
  <1>2. TypeOK /\ r \in Entries /\ init \in Entries BY EntriesType DEF KernelInv, Live
  <1>3. Used' = Used /\ UsedPointers' = UsedPointers /\ Live' = Live
    BY <1>1, <1>2 DEF Used, UsedPointers, Live, TypeOK
  <1>4. running_process' \in UsedPointers /\ machine' \in {"up"} \cup Stops
    BY DispatcherRuns DEF KernelInv, Pointed, Linked, TypeOK
  <1>5. UsedPointers \subseteq Pointers BY DEF UsedPointers, Used, Pointers
  <1>6. TypeOK' BY <1>1, <1>2, <1>4, <1>5 DEF TypeOK
  <1>7. Pointed' BY <1>1, <1>3, <1>4 DEF KernelInv, Pointed
  <1>8. StatusMatches' BY <1>1, <1>2 DEF KernelInv, StatusMatches, TypeOK, Live
  <1>9. InitReady' BY <1>1, <1>2, <1>3 DEF KernelInv, InitReady, TypeOK
  <1>10. Named' BY <1>1, <1>3 DEF KernelInv, Named
  <1>11. Family' BY <1>1, <1>2, <1>3 DEF KernelInv, Family, ChildrenOf, TypeOK
  <1>12. NoLostJoin'
    <2> SUFFICES ASSUME NEW s \in Live, pc'[s] = "join", status'[s] = 1
                 PROVE  Terminated(s)' = {}
      BY <1>3 DEF NoLostJoin
    <2>1. s \in Entries BY DEF Live
    <2>2. Terminated(s) = {} BY <1>2, <2>1 DEF KernelInv, NoLostJoin, TypeOK
    <2>3. \A i \in 1..Len(children[s]) : children[s][i] \in Entries
      BY <1>2, <2>1 DEF TypeOK
    <2>4. \A e \in Entries : status'[e] = -1 => status[e] = -1 BY <1>2 DEF TypeOK
    <2> QED BY <1>1, <2>2, <2>3, <2>4 DEF Terminated
  <1> QED BY <1>6, <1>7, <1>8, <1>9, <1>10, <1>11, <1>12 DEF KernelInv

LEMMA ProceedKeeps == ASSUME KernelInv, NEW r \in Entries, Proceed(r) PROVE KernelInv'
  <1>1. /\ r = running_process /\ r # init /\ pc[r] \in {"start", "zap"}
        /\ pc' = [pc EXCEPT ![r] = "run"]
        /\ UNCHANGED <<pid, priority, parent, children, next_pid, status, zap_target,
                       ready_queues, next, running_process, machine>>
    BY DEF Proceed, table, links
  <1>2. TypeOK /\ init \in Entries /\ r # NULL BY EntriesType DEF KernelInv
  <1>3. pid[r] # -1 BY <1>1, <1>2 DEF KernelInv, Pointed, UsedPointers, Used
  <1>4. Used' = Used /\ UsedPointers' = UsedPointers /\ Live' = Live
    BY <1>1, <1>2, <1>3 DEF Used, UsedPointers, Live, TypeOK
  <1>5. TypeOK' BY <1>1, <1>2 DEF TypeOK
  <1>6. Pointed' BY <1>1, <1>4 DEF KernelInv, Pointed
  <1>7. StatusMatches' BY <1>1, <1>2, <1>3 DEF KernelInv, StatusMatches, TypeOK
  <1>8. InitReady' BY <1>1, <1>2, <1>4 DEF KernelInv, InitReady, TypeOK
  <1>9. Named' /\ Family' BY <1>1, <1>4 DEF KernelInv, Named, Family, ChildrenOf
  <1>10. NoLostJoin' BY <1>1, <1>2, <1>4 DEF KernelInv, NoLostJoin, Terminated, TypeOK, Live
  <1> QED BY <1>5, <1>6, <1>7, <1>8, <1>9, <1>10 DEF KernelInv

(* join finds a terminated child and frees its entry. *)
LEMMA JoinFoundKeeps ==
    ASSUME KernelInv, NEW r \in Live, r # init, pc[r] # "dead", Terminated(r) # {}, JoinLoop(r)
    PROVE  KernelInv'
  <1>1. PICK i \in Terminated(r) :
           /\ children' = [children EXCEPT ![r] = RemoveAt(@, i)]
           /\ pid' = [pid EXCEPT ![children[r][i]] = -1]
    <2>1. Terminated(r) \subseteq Nat BY DEF Terminated
    <2>2. \E i \in Terminated(r) : \A j \in Terminated(r) : i <= j BY <2>1, Least
    <2> QED BY <2>2 DEF JoinLoop
  <1>2. /\ pc' = [pc EXCEPT ![r] = "run"]
        /\ UNCHANGED <<priority, parent, next_pid, status, zap_target,
                       ready_queues, next, running_process, machine>>
    BY DEF JoinLoop, links
  <1> DEFINE c == children[r][i]
  <1>3. TypeOK /\ r \in Entries /\ init \in Entries BY EntriesType DEF KernelInv, Live
  <1>4. children[r] \in Seq(Entries) /\ i \in 1..Len(children[r]) /\ status[c] = -1
    BY <1>3 DEF TypeOK, Terminated
  <1>5. c \in ToSet(children[r]) /\ c \in Entries BY <1>4, ToSetIs
  <1>6. c \in Live /\ parent[c] = r BY <1>3, <1>5 DEF KernelInv, Family, ChildrenOf
  <1>7. c # r /\ c # init /\ pc[c] = "dead" /\ status[r] # -1 /\ pid[r] # -1
    BY <1>3, <1>4, <1>5, <1>6 DEF KernelInv, StatusMatches, InitReady, Live
  <1>8. \A s \in Entries : pid'[s] = IF s = c THEN -1 ELSE pid[s] BY <1>1, <1>3, <1>5 DEF TypeOK
  <1>9. \A s \in Entries : pc'[s] = IF s = r THEN "run" ELSE pc[s] BY <1>2, <1>3 DEF TypeOK
  <1>10. \A s \in Entries : children'[s] = IF s = r THEN RemoveAt(children[r], i) ELSE children[s]
    BY <1>1, <1>3 DEF TypeOK
  <1>11. IsInjective(children[r]) BY <1>3 DEF KernelInv, Family
  <1>12. /\ RemoveAt(children[r], i) \in Seq(Entries) /\ IsInjective(RemoveAt(children[r], i))
         /\ ToSet(RemoveAt(children[r], i)) = ToSet(children[r]) \ {c}
    BY <1>4, <1>11, ChildRemoved
  <1> HIDE DEF c
  <1>13. Live' = Live \ {c} BY <1>8 DEF Live
  <1>14. Used' = Used /\ UsedPointers' = UsedPointers
    BY <1>7, <1>8, <1>9 DEF Used, UsedPointers
  <1>15. TypeOK'
    <2>1. children' \in [Entries -> Seq(Entries)] BY <1>1, <1>3, <1>12 DEF TypeOK
    <2>2. pid' \in [Entries -> Int]
      <3>1. pid \in [Entries -> Int] /\ -1 \in Int BY <1>3 DEF TypeOK
      <3> QED BY <1>1, <3>1
    <2> QED BY <1>2, <1>3, <2>1, <2>2 DEF TypeOK
  <1>16. Pointed' BY <1>2, <1>14 DEF KernelInv, Pointed
  <1>17. StatusMatches' BY <1>2, <1>7, <1>8, <1>9 DEF KernelInv, StatusMatches
  <1>18. InitReady' BY <1>2, <1>3, <1>7, <1>8, <1>9, <1>14 DEF KernelInv, InitReady
  <1>19. Named'
    <2>1. \A s \in Live' : s \in Live /\ s \in Entries /\ pid'[s] = pid[s]
      BY <1>8, <1>13 DEF Live
    <2> QED BY <1>2, <2>1 DEF KernelInv, Named
  <1>20. Family'
    <2>1. \A s \in Entries : ChildrenOf(s)' = ChildrenOf(s) \ {c}
      BY <1>2, <1>13 DEF ChildrenOf
    <2>2. \A s \in Entries : s # r => c \notin ChildrenOf(s) BY <1>6 DEF ChildrenOf
    <2>3. \A s \in Entries : ToSet(children'[s]) = ChildrenOf(s)' /\ IsInjective(children'[s])
      <3> TAKE s \in Entries
      <3>1. ToSet(children[s]) = ChildrenOf(s) /\ IsInjective(children[s])
        BY DEF KernelInv, Family
      <3>2. CASE s = r BY <1>3, <1>10, <1>12, <2>1, <3>1, <3>2
      <3>3. CASE s # r
        <4>1. children'[s] = children[s] BY <1>10, <3>3
        <4>2. ChildrenOf(s)' = ChildrenOf(s) BY <2>1, <2>2, <3>3
        <4> QED BY <3>1, <4>1, <4>2
      <3> QED BY <3>2, <3>3
    <2>4. \A s \in Entries : children'[s] # <<>> => status'[s] # -1
      BY <1>2, <1>7, <1>10 DEF KernelInv, Family
    <2>5. \A s \in Live' \ {init} : parent'[s] \in Entries
      BY <1>2, <1>13 DEF KernelInv, Family
    <2> QED BY <2>3, <2>4, <2>5 DEF Family
  <1>21. NoLostJoin'
    <2> SUFFICES ASSUME NEW s \in Live', pc'[s] = "join", status'[s] = 1
                 PROVE  Terminated(s)' = {}
      BY DEF NoLostJoin
    <2>1. s \in Live /\ s \in Entries /\ s # r BY <1>9, <1>13 DEF Live
    <2>2. Terminated(s) = {} BY <1>2, <1>9, <2>1 DEF KernelInv, NoLostJoin
    <2> QED BY <1>2, <1>10, <2>1, <2>2 DEF Terminated
  <1> QED BY <1>15, <1>16, <1>17, <1>18, <1>19, <1>20, <1>21 DEF KernelInv

LEMMA JoinKeeps == ASSUME KernelInv, NEW r \in Entries, join(r) PROVE KernelInv'
  <1>1. pc[r] \in {"run", "join"} /\ JoinLoop(r) BY DEF join, Running
  <1>2. r \in Live /\ r # init /\ pc[r] # "dead" BY <1>1, Alive
  <1>3. CASE Terminated(r) # {} BY <1>1, <1>2, <1>3, JoinFoundKeeps
  <1>4. CASE Terminated(r) = {}
    <2>1. /\ status' = [status EXCEPT ![r] = 1] /\ dispatcher(ready_queues, status')
          /\ pc' = [pc EXCEPT ![r] = "join"] /\ UNCHANGED <<table, zap_target, links>>
      BY <1>1, <1>4 DEF JoinLoop
    <2>2. zap_target' \in [Entries -> Pointers] BY <2>1 DEF KernelInv, TypeOK
    <2> QED BY <1>2, <1>4, <2>1, <2>2, AsleepKeeps
  <1> QED BY <1>3, <1>4

LEMMA BlockKeeps == ASSUME KernelInv, NEW r \in Entries, blockMe(r) PROVE KernelInv'
  <1>1. /\ pc[r] = "run" /\ status' = [status EXCEPT ![r] = 1]
        /\ dispatcher(ready_queues, status') /\ UNCHANGED <<table, zap_target, links, pc>>
    BY DEF blockMe, Running
  <1>2. r \in Live /\ r # init /\ pc[r] # "dead" BY <1>1, Alive
  <1>3. pc' = [pc EXCEPT ![r] = "run"] /\ zap_target' \in [Entries -> Pointers]
    BY <1>1 DEF KernelInv, TypeOK
  <1> QED BY <1>1, <1>2, <1>3, AsleepKeeps

LEMMA ZapKeeps == ASSUME KernelInv, NEW r \in Entries, NEW n, zap(r, n) PROVE KernelInv'
  <1>1. CASE Stop("error") BY <1>1, StopKeeps DEF Stops
  <1>2. CASE n # pid[r] /\ ~Stop("error")
    <2>1. PICK s \in Entries :
            /\ pc[r] = "run" /\ status' = [status EXCEPT ![r] = 1]
            /\ zap_target' = [zap_target EXCEPT ![r] = s]
            /\ dispatcher(ready_queues, status')
            /\ pc' = [pc EXCEPT ![r] = "zap"] /\ UNCHANGED <<table, links>>
      BY <1>2 DEF zap, Running
    <2>2. r \in Live /\ r # init /\ pc[r] # "dead" BY <2>1, Alive
    <2>3. zap_target' \in [Entries -> Pointers] BY <2>1 DEF KernelInv, TypeOK, Pointers
    <2> QED BY <2>1, <2>2, <2>3, AsleepKeeps
  <1> QED BY <1>1, <1>2 DEF zap

LEMMA UnblockKeeps ==
    ASSUME KernelInv, NEW r \in Entries, NEW n \in Pids, unblockProc(r, n)
    PROVE  KernelInv'
  <1>1. PICK s \in Entries :
          /\ pid[s] = n /\ status[s] = 1
          /\ \/ Stop("hung")
             \/ /\ status' = [status EXCEPT ![s] = 0]
                /\ ready_queues' = Appended(priority[s], s).rq
                /\ next' = Appended(priority[s], s).nx
                /\ dispatcher(ready_queues', status')
                /\ UNCHANGED <<table, zap_target, pc>>
    BY DEF unblockProc
  <1>2. CASE Stop("hung") BY <1>2, StopKeeps DEF Stops
  <1>3. CASE /\ status' = [status EXCEPT ![s] = 0]
             /\ ready_queues' = Appended(priority[s], s).rq
             /\ next' = Appended(priority[s], s).nx
             /\ dispatcher(ready_queues', status')
             /\ UNCHANGED <<table, zap_target, pc>>
    <2>1. UNCHANGED <<pid, priority, parent, children, next_pid>> BY <1>3 DEF table
    <2>2. TypeOK /\ init \in Entries BY EntriesType DEF KernelInv
    <2>3. s \in Live /\ s \in Used /\ s # init /\ pc[s] # "dead"
      BY <1>1 DEF KernelInv, StatusMatches, InitReady, Live, Used, Pids
    <2>4. priority[s] \in Queues /\ priority[s] # 6
      BY <2>2, <2>3 DEF KernelInv, InitReady, TypeOK
    <2>5. Used' = Used /\ UsedPointers' = UsedPointers /\ Live' = Live
      BY <1>3, <2>1 DEF Used, UsedPointers, Live
    <2>6. Linked(ready_queues', next', UsedPointers) /\ ready_queues'[6] = ready_queues[6]
      <3>1. Linked(ready_queues, next, UsedPointers) /\ s \in UsedPointers
        BY <2>3 DEF KernelInv, Pointed, UsedPointers
      <3> QED BY <1>3, <2>4, <3>1, AppendedTo
    <2>7. running_process' \in UsedPointers /\ machine' \in {"up"} \cup Stops
      BY <1>3, <2>2, <2>6, DispatcherRuns DEF KernelInv, Pointed, Linked, TypeOK
    <2>8. UsedPointers \subseteq Pointers BY DEF UsedPointers, Used, Pointers
    <2>9. status' \in [Entries -> {-1, 0, 1}]
      <3>1. status \in [Entries -> {-1, 0, 1}] BY <2>2 DEF TypeOK
      <3> QED BY <1>3, <3>1
    <2>10. TypeOK'
      <3>1. ready_queues' \in [Queues -> Pointers] /\ next' \in [Entries -> Pointers]
        BY <2>6, <2>8 DEF Linked
      <3> QED BY <1>3, <2>1, <2>2, <2>7, <2>8, <2>9, <3>1 DEF TypeOK
    <2>11. \A e \in Entries : status'[e] = IF e = s THEN 0 ELSE status[e]
      BY <1>3, <2>2 DEF TypeOK
    <2>12. Pointed' BY <2>5, <2>6, <2>7 DEF Pointed
    <2>13. StatusMatches' BY <1>1, <1>3, <2>1, <2>11 DEF KernelInv, StatusMatches
    <2>14. InitReady' BY <1>3, <2>1, <2>2, <2>3, <2>5, <2>6, <2>11 DEF KernelInv, InitReady
    <2>15. Named' BY <2>1, <2>5 DEF KernelInv, Named
    <2>16. Family' BY <2>1, <2>5, <2>11 DEF KernelInv, Family, ChildrenOf
    <2>17. NoLostJoin'
      <3> SUFFICES ASSUME NEW t \in Live, pc'[t] = "join", status'[t] = 1
                   PROVE  Terminated(t)' = {}
        BY <2>5 DEF NoLostJoin
      <3>1. t \in Entries /\ t # s /\ status[t] = 1 BY <2>11 DEF Live
      <3>2. Terminated(t) = {} BY <1>3, <3>1 DEF KernelInv, NoLostJoin
      <3>3. \A i \in 1..Len(children[t]) : children[t][i] \in Entries
        BY <2>2, <3>1 DEF TypeOK
      <3>4. \A e \in Entries : status'[e] = -1 => status[e] = -1 BY <2>11
      <3> QED BY <2>1, <3>2, <3>3, <3>4 DEF Terminated
    <2> QED BY <2>10, <2>12, <2>13, <2>14, <2>15, <2>16, <2>17 DEF KernelInv
  <1> QED BY <1>1, <1>2, <1>3

-----------------------------------------------------------------------------
(* The new process of spork and of init. *)
LEMMA NewProcessKeeps ==
    ASSUME KernelInv, NEW r \in Live, status[r] # -1, pc[r] # "join", NEW prio \in 1..5,
           FreeEntries # {}, NewProcess(r, prio),
           pc' \in [Entries -> {"start", "run", "join", "zap", "dispatch", "dead"}],
           pc'[FirstFree] = "start", pc'[init] = "dispatch",
           \A t \in Entries \ {init, FirstFree} : pc'[t] = pc[t]
    PROVE  KernelInv'
  <1> DEFINE s == FirstFree
             n == NewPid
             queue == Appended(prio, s)
  <1>1. TypeOK /\ r \in Entries /\ init \in Entries /\ next_pid >= 2
    BY EntriesType DEF KernelInv, Live, Named
  <1>2. s \in Entries /\ pid[s] = -1 BY <1>1, FirstFreeIsFree DEF FreeEntries
  <1>3. n \in Nat /\ n >= next_pid BY <1>1, NewPidIsNew
  <1>4. /\ pid' = [pid EXCEPT ![s] = n] /\ next_pid' = n + 1
        /\ priority' = [priority EXCEPT ![s] = prio]
        /\ status' = [status EXCEPT ![s] = 0]
        /\ parent' = [parent EXCEPT ![s] = r]
        /\ children' = [children EXCEPT ![r] = IF prio > priority[r] THEN Append(@, s)
                                               ELSE <<s>> \o children[r]]
        /\ ready_queues' = queue.rq /\ next' = [queue.nx EXCEPT ![s] = NULL]
        /\ \/ dispatcher(queue.rq, status')
           \/ UNCHANGED <<running_process, machine>>
        /\ UNCHANGED zap_target
    BY DEF NewProcess, AddChild
  <1> HIDE DEF s, n, queue
  <1>5. \A t \in Entries :
          /\ pid'[t] = (IF t = s THEN n ELSE pid[t])
          /\ priority'[t] = (IF t = s THEN prio ELSE priority[t])
          /\ status'[t] = (IF t = s THEN 0 ELSE status[t])
          /\ parent'[t] = (IF t = s THEN r ELSE parent[t])
    BY <1>1, <1>4 DEF TypeOK
  <1>6. r # s /\ s # init /\ s \notin Live /\ status[s] = -1
    BY <1>1, <1>2 DEF KernelInv, StatusMatches, InitReady, Live
  <1>7. Live' = Live \cup {s} /\ n # -1 BY <1>2, <1>3, <1>5 DEF Live
  <1>8. \A t \in Entries \ {s} : pc'[t] = pc[t] \/ (t = init /\ pc'[t] = "dispatch")
    BY DEF s
  <1>9. Used' = Used \cup {s}
    <2>1. pid[init] # -1 BY DEF KernelInv, InitReady
    <2> QED BY <1>2, <1>5, <1>7, <1>8, <2>1 DEF Used
  <1>10. UsedPointers \subseteq UsedPointers' /\ s \in UsedPointers' /\ NULL \in UsedPointers'
    BY <1>9 DEF UsedPointers
  <1>11. UsedPointers' \subseteq Pointers BY DEF UsedPointers, Used, Pointers
  <1>12. Linked(queue.rq, queue.nx, UsedPointers') /\ queue.rq[6] = ready_queues[6]
    <2>1. Linked(ready_queues, next, UsedPointers')
      BY <1>10 DEF KernelInv, Pointed, Linked
    <2>2. prio \in Queues /\ prio # 6 BY DEF Queues
    <2> QED BY <1>10, <2>1, <2>2, AppendedTo DEF queue
  <1>13. Pointed' /\ machine' \in {"up"} \cup Stops
    <2>1. Linked(ready_queues', next', UsedPointers') BY <1>4, <1>10, <1>12 DEF Linked
    <2>2. running_process \in UsedPointers' /\ machine \in {"up"} \cup Stops
      BY <1>1, <1>10 DEF KernelInv, Pointed, TypeOK
    <2>3. running_process' \in UsedPointers' /\ machine' \in {"up"} \cup Stops
      BY <1>4, <1>12, <2>2, DispatcherRuns DEF Linked
    <2> QED BY <2>1, <2>3 DEF Pointed
  <1>14. children[s] = <<>> /\ ChildrenOf(s) = {} /\ s \notin ToSet(children[r])
    <2>1. children[s] = <<>> BY <1>2, <1>6 DEF KernelInv, Family
    <2>2. ToSet(children[s]) = ChildrenOf(s) /\ ToSet(children[r]) = ChildrenOf(r)
      BY <1>1, <1>2 DEF KernelInv, Family
    <2>3. children[s] \in Seq(Entries) BY <1>1, <1>2 DEF TypeOK
    <2>4. ToSet(children[s]) = {} BY <2>1, <2>3, ToSetIs
    <2> QED BY <1>6, <2>1, <2>2, <2>4 DEF ChildrenOf
  <1>15. /\ children'[r] \in Seq(Entries) /\ IsInjective(children'[r])
         /\ ToSet(children'[r]) = ToSet(children[r]) \cup {s}
         /\ \A t \in Entries \ {r} : children'[t] = children[t]
         /\ children' \in [Entries -> Seq(Entries)]
    <2>1. children[r] \in Seq(Entries) /\ children \in [Entries -> Seq(Entries)]
      BY <1>1 DEF TypeOK
    <2>2. IsInjective(children[r]) BY <1>1 DEF KernelInv, Family
    <2>3. CASE prio > priority[r]
      <3>1. children' = [children EXCEPT ![r] = Append(children[r], s)] BY <1>4, <2>3, <2>1, <1>1
      <3> QED BY <1>1, <1>2, <1>14, <2>1, <2>2, <3>1, ChildAppended
    <2>4. CASE ~(prio > priority[r])
      <3>1. children' = [children EXCEPT ![r] = <<s>> \o children[r]] BY <1>4, <2>4
      <3> QED BY <1>1, <1>2, <1>14, <2>1, <2>2, <3>1, ChildInFront
    <2> QED BY <2>3, <2>4
  <1>16. TypeOK'
    <2>0. /\ pid \in [Entries -> Int] /\ parent \in [Entries -> Pointers]
          /\ priority \in [Entries -> Queues] /\ status \in [Entries -> {-1, 0, 1}]
          /\ r \in Pointers
      BY <1>1 DEF TypeOK, Pointers
    <2>5. prio \in Queues /\ n \in Int BY <1>3 DEF Queues
    <2>1. pid' \in [Entries -> Int] /\ parent' \in [Entries -> Pointers] BY <1>4, <2>0, <2>5
    <2>2. priority' \in [Entries -> Queues] /\ status' \in [Entries -> {-1, 0, 1}]
      BY <1>4, <2>0, <2>5
    <2>3. /\ ready_queues' \in [Queues -> Pointers] /\ next' \in [Entries -> Pointers]
          /\ running_process' \in Pointers
      BY <1>11, <1>13 DEF Pointed, Linked
    <2>4. next_pid' \in Nat /\ zap_target' \in [Entries -> Pointers]
      BY <1>1, <1>3, <1>4 DEF TypeOK
    <2> QED BY <1>13, <1>15, <2>1, <2>2, <2>3, <2>4 DEF TypeOK
  <1>17. StatusMatches'
    BY <1>2, <1>3, <1>5, <1>7, <1>8 DEF KernelInv, StatusMatches, InitReady, s
  <1>18. InitReady'
    <2>1. ready_queues'[6] = init BY <1>4, <1>12 DEF KernelInv, InitReady
    <2>2. /\ pid'[init] # -1 /\ status'[init] = 0 /\ priority'[init] = 6
          /\ \A t \in Used' \ {init} : priority'[t] # 6
      BY <1>1, <1>2, <1>5, <1>6, <1>9 DEF KernelInv, InitReady, Used
    <2> QED BY <2>1, <2>2 DEF InitReady
  <1>19. Named'
    <2>1. \A t \in Live : t \in Entries /\ t # s /\ pid'[t] = pid[t] /\ pid[t] \in Nat /\ pid[t] < next_pid
      BY <1>5, <1>6 DEF KernelInv, Named, Live
    <2>2. pid'[s] = n /\ next_pid' = n + 1 /\ next_pid \in Nat BY <1>1, <1>2, <1>4, <1>5 DEF TypeOK
    <2>3. next_pid' >= 2 /\ \A t \in Live' : pid'[t] \in Nat /\ pid'[t] < next_pid'
      BY <1>1, <1>3, <1>7, <2>1, <2>2
    <2>4. \A t, u \in Live : pid[t] = pid[u] => t = u BY DEF KernelInv, Named
    <2>5. \A t \in Live : pid'[t] # n BY <1>3, <2>1, <2>2
    <2>6. \A t, u \in Live' : pid'[t] = pid'[u] => t = u BY <1>7, <2>1, <2>2, <2>4, <2>5
    <2> QED BY <2>3, <2>6 DEF Named
  <1>20. Family'
    <2>1. \A t \in Entries : ChildrenOf(t)' = IF t = r THEN ChildrenOf(r) \cup {s} ELSE ChildrenOf(t)
      BY <1>2, <1>5, <1>6, <1>7 DEF ChildrenOf, Live
    <2>2. \A t \in Entries : ToSet(children'[t]) = ChildrenOf(t)' /\ IsInjective(children'[t])
      <3> TAKE t \in Entries
      <3>1. ToSet(children[t]) = ChildrenOf(t) /\ IsInjective(children[t])
        BY DEF KernelInv, Family
      <3>2. CASE t = r BY <1>15, <2>1, <3>1, <3>2
      <3>3. CASE t # r
        <4>1. children'[t] = children[t] BY <1>15, <3>3
        <4>2. ChildrenOf(t)' = ChildrenOf(t) BY <2>1, <3>3
        <4> QED BY <3>1, <4>1, <4>2
      <3> QED BY <3>2, <3>3
    <2>3. \A t \in Entries : children'[t] # <<>> => status'[t] # -1
      BY <1>5, <1>6, <1>15 DEF KernelInv, Family
    <2>4. \A t \in Live' \ {init} : parent'[t] \in Entries
      BY <1>1, <1>5, <1>7 DEF KernelInv, Family, Live
    <2> QED BY <2>2, <2>3, <2>4 DEF Family
  <1>21. NoLostJoin'
    <2> SUFFICES ASSUME NEW t \in Live', pc'[t] = "join", status'[t] = 1
                 PROVE  Terminated(t)' = {}
      BY DEF NoLostJoin
    <2>1. t \in Entries /\ t # s /\ t # init /\ t \in Live
      BY <1>7 DEF Live, s
    <2>2. pc[t] = "join" /\ status[t] = 1 /\ t # r BY <1>5, <2>1 DEF s
    <2>3. Terminated(t) = {} BY <2>1, <2>2 DEF KernelInv, NoLostJoin
    <2>4. \A i \in 1..Len(children[t]) : children[t][i] \in Entries
      BY <1>1, <2>1 DEF TypeOK
    <2>5. children'[t] = children[t] BY <1>15, <2>1, <2>2
    <2>6. \A e \in Entries : status'[e] = -1 => status[e] = -1 BY <1>5
    <2> QED BY <2>3, <2>4, <2>5, <2>6 DEF Terminated
  <1> QED BY <1>13, <1>16, <1>17, <1>18, <1>19, <1>20, <1>21 DEF KernelInv

LEMMA SporkKeeps ==
    ASSUME KernelInv, NEW r \in Entries, NEW prio \in Priorities, spork(r, prio)
    PROVE  KernelInv'
  <1>1. CASE Stop("hung") BY <1>1, StopKeeps DEF Stops
  <1>2. CASE NewProcess(r, prio) /\ pc' = [pc EXCEPT ![FirstFree] = "start"]
    <2>1. pc[r] = "run" /\ prio \in 1..5 /\ FreeEntries # {} BY DEF spork, Running
    <2>2. r \in Live /\ r # init /\ status[r] # -1 BY <2>1, Alive
    <2>3. TypeOK /\ init \in Entries BY EntriesType DEF KernelInv
    <2>4. FirstFree \in Entries /\ pid[FirstFree] = -1
      BY <2>1, <2>3, FirstFreeIsFree DEF FreeEntries
    <2>5. init # FirstFree /\ pc[init] = "dispatch"
      BY <2>2, <2>4 DEF KernelInv, InitReady, Live, Used
    <2>6. /\ pc' \in [Entries -> {"start", "run", "join", "zap", "dispatch", "dead"}]
          /\ pc'[FirstFree] = "start" /\ pc'[init] = "dispatch"
          /\ \A t \in Entries \ {init, FirstFree} : pc'[t] = pc[t]
      BY <1>2, <2>3, <2>4, <2>5 DEF TypeOK
    <2> QED BY <1>2, <2>1, <2>2, <2>6, NewProcessKeeps
  <1> QED BY <1>1, <1>2 DEF spork

LEMMA InitSporkKeeps == ASSUME KernelInv, InitSpork PROVE KernelInv'
  <1>1. /\ pc[init] = "start" /\ NewProcess(init, 3)
        /\ pc' = [pc EXCEPT ![init] = "dispatch", ![FirstFree] = "start"]
    BY DEF InitSpork
  <1>2. TypeOK /\ init \in Live /\ status[init] # -1 /\ init \in Entries /\ Used = {init}
    BY <1>1, EntriesType DEF KernelInv, InitReady, Live
  <1>3. 0 \in Entries /\ 0 # init BY TableAssumption DEF Entries, init
  <1>4. FreeEntries # {} BY <1>2, <1>3 DEF FreeEntries, Used
  <1>5. FirstFree \in Entries /\ FirstFree # init
    BY <1>2, <1>4, FirstFreeIsFree DEF FreeEntries, Live
  <1>6. /\ pc' \in [Entries -> {"start", "run", "join", "zap", "dispatch", "dead"}]
        /\ pc'[FirstFree] = "start" /\ pc'[init] = "dispatch"
        /\ \A t \in Entries \ {init, FirstFree} : pc'[t] = pc[t]
    BY <1>1, <1>2, <1>5 DEF TypeOK
  <1> QED BY <1>1, <1>2, <1>4, <1>6, NewProcessKeeps

-----------------------------------------------------------------------------
(* quit of a process without children: what it does to the status of all.  *)
LEMMA QuitStatus ==
    ASSUME KernelInv, NEW r \in Entries,
           status' = [s \in Entries |-> IF s \in Zappers(r) THEN 0 ELSE ParentWoken(r)[s]]
    PROVE  /\ \A s \in Zappers(r) : s \in Entries /\ s # r /\ status[s] = 1
           /\ status'[r] = -1
           /\ \A s \in Entries \ {r} :
                /\ status'[s] = status[s] \/ (status[s] = 1 /\ status'[s] = 0)
                /\ s = parent[r] => status'[s] # 1
           /\ status' \in [Entries -> {-1, 0, 1}]
  <1>1. \A s \in Entries : ParentWoken(r)[s] = IF s = r THEN -1
                              ELSE IF s = parent[r] /\ status[s] = 1 THEN 0 ELSE status[s]
    BY DEF ParentWoken
  <1>2. \A s \in Entries : status[s] \in {-1, 0, 1} BY DEF KernelInv, TypeOK
  <1>3. \A s \in Zappers(r) : s \in Entries /\ s # r /\ status[s] = 1
    BY <1>1, <1>2 DEF Zappers
  <1>4. \A s \in Entries : status'[s] = IF s \in Zappers(r) THEN 0 ELSE ParentWoken(r)[s]
    OBVIOUS
  <1>5. \A s \in Entries : ParentWoken(r)[s] \in {-1, 0, 1} BY <1>1, <1>2
  <1>6. status' \in [Entries -> {-1, 0, 1}] BY <1>5
  <1>7. status'[r] = -1 BY <1>1, <1>3, <1>4
  <1>8. \A s \in Entries \ {r} :
          /\ status'[s] = status[s] \/ (status[s] = 1 /\ status'[s] = 0)
          /\ s = parent[r] => status'[s] # 1
    BY <1>1, <1>3, <1>4
  <1> QED BY <1>3, <1>6, <1>7, <1>8

LEMMA QuitKeeps == ASSUME KernelInv, NEW r \in Entries, quit(r) PROVE KernelInv'
  <1>1. CASE Stop("error") BY <1>1, StopKeeps DEF Stops
  <1>2. CASE ~Stop("error")
    <2> DEFINE z == ZappersInFront(r)
               q == priority[r]
               queue == IF OnQueue(z.rq, z.nx, q, r) THEN Unlinked(z.rq, z.nx, q, r) ELSE z
    <2>1. /\ pc[r] = "run" /\ children[r] = <<>>
          /\ status' = [s \in Entries |-> IF s \in Zappers(r) THEN 0 ELSE ParentWoken(r)[s]]
          /\ zap_target' = [s \in Entries |-> IF s \in Zappers(r) THEN NULL ELSE zap_target[s]]
          /\ ready_queues' = queue.rq /\ next' = queue.nx
          /\ \/ machine' = "hung" /\ UNCHANGED running_process
             \/ dispatcher(queue.rq, status')
          /\ pc' = [pc EXCEPT ![r] = "dead"]
      BY <1>2 DEF quit, Running
    <2>2. UNCHANGED <<pid, priority, parent, children, next_pid>>
      BY <1>2 DEF quit, table
    <2> HIDE DEF z, q, queue
    <2>3. r \in Live /\ r # init /\ status[r] # -1 /\ pc[r] # "dead" BY <2>1, Alive
    <2>4. TypeOK /\ init \in Entries BY EntriesType DEF KernelInv
    <2>5. /\ \A s \in Zappers(r) : s \in Entries /\ s # r /\ status[s] = 1
          /\ status'[r] = -1
          /\ \A s \in Entries \ {r} :
               /\ status'[s] = status[s] \/ (status[s] = 1 /\ status'[s] = 0)
               /\ s = parent[r] => status'[s] # 1
          /\ status' \in [Entries -> {-1, 0, 1}]
      BY <2>1, QuitStatus
    <2>6. \A s \in Entries : pc'[s] = IF s = r THEN "dead" ELSE pc[s] BY <2>1, <2>4 DEF TypeOK
    <2>7. Live' = Live BY <2>2 DEF Live
    <2>8. Used' = Used /\ UsedPointers' = UsedPointers
      BY <2>2, <2>3, <2>6 DEF Used, UsedPointers, Live
    <2>9. Zappers(r) \subseteq Used \ {init}
      BY <2>5 DEF KernelInv, StatusMatches, InitReady, Used
    <2>10. Linked(z.rq, z.nx, UsedPointers) /\ z.rq[6] = ready_queues[6]
      <3>1. ZappersAt(r, 6) = {} BY <2>9 DEF KernelInv, InitReady, ZappersAt
      <3>2. Linked(ready_queues, next, UsedPointers) /\ Zappers(r) \subseteq UsedPointers
        BY <2>9 DEF KernelInv, Pointed, UsedPointers
      <3>3. priority \in [Entries -> Queues] BY <2>4 DEF TypeOK
      <3> QED BY <3>1, <3>2, <3>3, FrontZappers DEF z
    <2>11. Linked(queue.rq, queue.nx, UsedPointers) /\ queue.rq[6] = init
      <3>1. q \in Queues /\ q # 6
        BY <2>3, <2>4 DEF KernelInv, InitReady, TypeOK, Used, Live, q
      <3>2. NULL \in UsedPointers /\ ready_queues[6] = init
        BY DEF UsedPointers, KernelInv, InitReady
      <3>3. CASE OnQueue(z.rq, z.nx, q, r)
        <4>1. queue = Unlinked(z.rq, z.nx, q, r) BY <3>3 DEF queue
        <4>2. /\ Linked(Unlinked(z.rq, z.nx, q, r).rq, Unlinked(z.rq, z.nx, q, r).nx, UsedPointers)
              /\ Unlinked(z.rq, z.nx, q, r).rq[6] = z.rq[6]
          BY <2>10, <3>1, <3>2, UnlinkedFrom
        <4> QED BY <2>10, <3>2, <4>1, <4>2
      <3>4. CASE ~OnQueue(z.rq, z.nx, q, r)
        <4>1. queue = z BY <3>4 DEF queue
        <4> QED BY <2>10, <3>2, <4>1
      <3> QED BY <3>3, <3>4
    <2>12. running_process' \in UsedPointers /\ machine' \in {"up"} \cup Stops
      <3>1. running_process \in UsedPointers /\ machine \in {"up"} \cup Stops
        BY <2>4 DEF KernelInv, Pointed, TypeOK
      <3> QED BY <2>1, <2>11, <3>1, DispatcherRuns DEF Linked, Stops
    <2>13. Pointed' BY <2>1, <2>8, <2>11, <2>12 DEF Pointed
    <2>14. TypeOK'
      <3>1. UsedPointers \subseteq Pointers BY DEF UsedPointers, Used, Pointers
      <3>2. /\ ready_queues' \in [Queues -> Pointers] /\ next' \in [Entries -> Pointers]
            /\ running_process' \in Pointers
        BY <2>1, <2>11, <2>12, <3>1 DEF Linked
      <3>3. zap_target' \in [Entries -> Pointers] BY <2>1, <2>4 DEF TypeOK, Pointers
      <3> QED BY <2>1, <2>2, <2>4, <2>5, <2>12, <3>2, <3>3 DEF TypeOK
    <2>15. StatusMatches'
      BY <2>2, <2>3, <2>5, <2>6 DEF KernelInv, StatusMatches, Live
    <2>16. InitReady'
      <3>1. status[init] = 0 /\ status'[init] = 0
        BY <2>3, <2>4, <2>5 DEF KernelInv, InitReady
      <3> QED BY <2>1, <2>2, <2>3, <2>4, <2>6, <2>8, <2>11, <3>1 DEF KernelInv, InitReady
    <2>17. Named' BY <2>2, <2>7 DEF KernelInv, Named
    <2>18. Family'
      <3>1. \A s \in Entries : children'[s] # <<>> => status'[s] # -1
        BY <2>1, <2>2, <2>5 DEF KernelInv, Family
      <3> QED BY <2>2, <2>7, <3>1 DEF KernelInv, Family, ChildrenOf
    <2>19. NoLostJoin'
      <3> SUFFICES ASSUME NEW s \in Live, pc'[s] = "join", status'[s] = 1
                   PROVE  Terminated(s)' = {}
        BY <2>7 DEF NoLostJoin
      <3>1. s \in Entries /\ s # r /\ s # parent[r] /\ status[s] = 1 /\ pc[s] = "join"
        BY <2>5, <2>6 DEF Live
      <3>2. Terminated(s) = {} BY <3>1 DEF KernelInv, NoLostJoin
      <3>3. children[s] \in Seq(Entries) BY <2>4, <3>1 DEF TypeOK
      <3>4. ToSet(children[s]) = ChildrenOf(s) BY <3>1 DEF KernelInv, Family
      <3>5. \A i \in 1..Len(children[s]) : children[s][i] \in Entries \ {r}
        BY <3>1, <3>3, <3>4, ToSetIs DEF ChildrenOf
      <3>6. \A e \in Entries \ {r} : status'[e] = -1 => status[e] = -1 BY <2>5
      <3> QED BY <2>2, <3>2, <3>5, <3>6 DEF Terminated
    <2> QED BY <2>13, <2>14, <2>15, <2>16, <2>17, <2>18, <2>19 DEF KernelInv
  <1> QED BY <1>1, <1>2

-----------------------------------------------------------------------------
LEMMA KernelStepInv == KernelInv /\ [Next]_vars => KernelInv'
  <1> SUFFICES ASSUME KernelInv, [Next]_vars PROVE KernelInv' OBVIOUS
  <1>1. CASE Boot BY <1>1, DispatchKeeps DEF Boot
  <1>2. CASE InitSpork BY <1>2, InitSporkKeeps
  <1>3. CASE InitDispatch BY <1>3, DispatchKeeps DEF InitDispatch
  <1>4. ASSUME NEW r \in Entries, Proceed(r) PROVE KernelInv' BY <1>4, ProceedKeeps
  <1>5. ASSUME NEW r \in Entries, RunsOff(r) PROVE KernelInv'
    BY <1>5, StopKeeps DEF RunsOff, Stops
  <1>6. ASSUME NEW r \in Entries, join(r) PROVE KernelInv' BY <1>6, JoinKeeps
  <1>7. ASSUME NEW r \in Entries, quit(r) PROVE KernelInv' BY <1>7, QuitKeeps
  <1>8. ASSUME NEW r \in Entries, blockMe(r) PROVE KernelInv' BY <1>8, BlockKeeps
  <1>9. ASSUME NEW r \in Entries, tick(r) PROVE KernelInv' BY <1>9, DispatchKeeps DEF tick
  <1>10. ASSUME NEW r \in Entries, NEW prio \in Priorities, spork(r, prio) PROVE KernelInv'
    BY <1>10, SporkKeeps
  <1>11. ASSUME NEW r \in Entries, NEW n \in Pids \cup {next_pid}, zap(r, n) PROVE KernelInv'
    BY <1>11, ZapKeeps
  <1>12. ASSUME NEW r \in Entries, NEW n \in Pids, unblockProc(r, n) PROVE KernelInv'
    BY <1>12, UnblockKeeps
  <1>13. CASE UNCHANGED vars
    <2>1. UNCHANGED <<table, status, zap_target, links, pc, running_process, machine>>
      BY <1>13 DEF vars
    <2> QED BY <2>1, Redispatched DEF KernelInv, Pointed, TypeOK
  <1> QED BY <1>1, <1>2, <1>3, <1>4, <1>5, <1>6, <1>7, <1>8, <1>9, <1>10, <1>11, <1>12, <1>13
      DEF Next

LEMMA KernelInvariant == Spec => []KernelInv
  BY InitKernelInv, KernelStepInv, PTL DEF Spec

(* Every field of the process table keeps its type, and every pointer of   *)
(* the queues leads into the table: the entry spork finds is free, and it  *)
(* always finds a pid that is not skipped (phase1b.c, 164-194).            *)
THEOREM KernelTypeCorrect == Spec => []TypeOK
  <1>1. KernelInv => TypeOK BY DEF KernelInv
  <1> QED BY <1>1, KernelInvariant, PTL

(* The child lists and the parent pointers agree through spork, quit and   *)
(* the reuse of entries by join, and no two live processes share a pid     *)
(* (phase1b.c, 196-240, 317-339 and 358-403).                              *)
THEOREM FamilyTreeKept == Spec => []FamilyTree
  <1>1. KernelInv => FamilyTree
    <2> SUFFICES ASSUME KernelInv PROVE FamilyTree OBVIOUS
    <2>1. \A s \in Entries : /\ children[s] \in Seq(Entries) /\ IsInjective(children[s])
                             /\ ToSet(children[s]) = ChildrenOf(s)
      BY DEF KernelInv, TypeOK, Family
    <2>2. ASSUME NEW s \in Live, NEW i \in 1..Len(children[s])
          PROVE  /\ children[s][i] \in Live /\ parent[children[s][i]] = s
                 /\ \A j \in 1..Len(children[s]) : children[s][j] = children[s][i] => i = j
      <3>1. s \in Entries BY DEF Live
      <3>2. children[s][i] \in ChildrenOf(s) BY <2>1, <3>1, ToSetIs
      <3> QED BY <2>1, <3>1, <3>2, ToSetIs DEF ChildrenOf, IsInjective
    <2>3. ASSUME NEW s \in Entries, children[s] # <<>> PROVE s \in Live /\ status[s] # -1
      BY <2>3 DEF KernelInv, Family, StatusMatches, Live
    <2>4. ASSUME NEW s \in Live \ {init} PROVE Contains(children[parent[s]], s)
      <3>1. parent[s] \in Entries BY DEF KernelInv, Family
      <3>2. s \in ToSet(children[parent[s]]) BY <2>1, <3>1 DEF ChildrenOf
      <3>3. children[parent[s]] \in Seq(Entries) BY <2>1, <3>1
      <3> QED BY <3>2, <3>3, ToSetIs DEF Contains
    <2>5. \A s, t \in Live : pid[s] = pid[t] => s = t BY DEF KernelInv, Named
    <2> QED BY <2>2, <2>3, <2>4, <2>5 DEF FamilyTree
  <1> QED BY <1>1, KernelInvariant, PTL

(* A parent asleep in join has no child that has terminated: quit wakes    *)
(* the parent in the step that makes the child a terminated one            *)
(* (phase1b.c, 315-345 and 358-403).                                       *)
THEOREM JoinNeverLost == Spec => []NoLostJoin
  <1>1. KernelInv => NoLostJoin BY DEF KernelInv
  <1> QED BY <1>1, KernelInvariant, PTL

(* dispatcher always finds a process, so that its "no process ready" halt  *)
(* is never reached: init stays in front of queue 6, however spoiled the   *)
(* other queues are (phase1b.c, 492-514).                                  *)
THEOREM AlwaysSomeoneToRun == Spec => []SomeoneToRun
  <1>1. KernelInv => SomeoneToRun
    <2> SUFFICES ASSUME KernelInv PROVE 6 \in Heads(ready_queues, status)
      BY DEF SomeoneToRun
    <2>1. ready_queues[6] = init /\ status[init] = 0 /\ init # NULL
      BY EntriesType DEF KernelInv, InitReady
    <2> QED BY <2>1 DEF Heads, Queues
  <1> QED BY <1>1, KernelInvariant, PTL

-----------------------------------------------------------------------------
(* The walk along a queue.  Nth is a recursive function: that it exists    *)
(* needs an induction, and so does every fact about all of the walk.       *)
LEMMA AllOf ==
    ASSUME NEW S, 0 \in S, \A n \in Nat : n \in S => n + 1 \in S
    PROVE  Nat \subseteq S
  <1> SUFFICES ASSUME Nat \ S # {} PROVE FALSE OBVIOUS
  <1>1. PICK m \in Nat \ S : \A n \in Nat \ S : m <= n BY Least
  <1>2. m # 0 /\ m - 1 \in Nat BY <1>1
  <1>3. m - 1 \in S BY <1>1, <1>2
  <1>4. (m - 1) + 1 \in S BY <1>2, <1>3
  <1> QED BY <1>1, <1>4

Follow(nx, s) == IF s = NULL THEN NULL ELSE nx[s]
Walks(w, rq, nx, q) ==
    w[0] = rq[q] /\ \A n \in 1..MAXPROC : w[n] = Follow(nx, w[n - 1])

LEMMA NthWalks == \A rq, nx, q : Walks(Nth(rq, nx, q), rq, nx, q)
  <1> SUFFICES ASSUME NEW rq, NEW nx, NEW q PROVE Walks(Nth(rq, nx, q), rq, nx, q) OBVIOUS
  <1> DEFINE step(f, n) == IF n = 0 THEN rq[q] ELSE IF f[n - 1] = NULL THEN NULL ELSE nx[f[n - 1]]
             S == {m \in Nat : \E f : f = [n \in 0..m |-> step(f, n)]}
  <1>1. 0 \in S
    <2> DEFINE f == [n \in 0..0 |-> rq[q]]
    <2>1. \A n \in 0..0 : n = 0 OBVIOUS
    <2>2. f = [n \in 0..0 |-> step(f, n)] BY <2>1
    <2> QED BY <2>2
  <1>2. ASSUME NEW m \in Nat, m \in S PROVE m + 1 \in S
    <2>1. PICK f : f = [n \in 0..m |-> step(f, n)] BY <1>2
    <2> DEFINE g == [n \in 0..(m + 1) |-> IF n = m + 1 THEN step(f, m + 1) ELSE f[n]]
    <2>2. ASSUME NEW n \in 0..(m + 1) PROVE g[n] = step(g, n)
      <3>1. n # m + 1 => n \in 0..m BY <1>2
      <3>2. n # 0 => n - 1 \in 0..m /\ n - 1 \in 0..(m + 1) /\ n - 1 # m + 1 BY <1>2
      <3>3. n # 0 => g[n - 1] = f[n - 1] BY <3>2
      <3>4. step(g, n) = step(f, n) BY <3>3
      <3>5. n # m + 1 => f[n] = step(f, n) BY <2>1, <3>1
      <3> QED BY <3>4, <3>5
    <2>3. g = [n \in 0..(m + 1) |-> g[n]] OBVIOUS
    <2>4. g = [n \in 0..(m + 1) |-> step(g, n)]
      <3> HIDE DEF g
      <3> QED BY <2>2, <2>3, Zenon
    <2> HIDE DEF g, step
    <2>5. \E h : h = [n \in 0..(m + 1) |-> step(h, n)] BY <2>4
    <2> QED BY <1>2, <2>5
  <1>3. MAXPROC \in S
    <2> HIDE DEF S
    <2> QED BY <1>1, <1>2, AllOf, EntriesType
  <1>4. PICK f : f = [n \in 0..MAXPROC |-> step(f, n)] BY <1>3
  <1>5. Nth(rq, nx, q) = [n \in 0..MAXPROC |-> step(Nth(rq, nx, q), n)] BY <1>4 DEF Nth
  <1> DEFINE w == Nth(rq, nx, q)
  <1>6. w = [n \in 0..MAXPROC |-> step(w, n)] BY <1>5
  <1> HIDE DEF w
  <1>7. w[0] = rq[q] BY <1>6, EntriesType
  <1>8. ASSUME NEW n \in 1..MAXPROC PROVE w[n] = Follow(nx, w[n - 1])
    <2>1. n \in 0..MAXPROC /\ n # 0 BY EntriesType
    <2> QED BY <1>6, <2>1 DEF Follow
  <1> QED BY <1>7, <1>8 DEF Walks, w

LEMMA WalkIsNth ==
    ASSUME NEW w, NEW rq, NEW nx, NEW q, Walks(w, rq, nx, q)
    PROVE  \A n \in 0..MAXPROC : Nth(rq, nx, q)[n] = w[n]
  <1> DEFINE v == Nth(rq, nx, q)
             S == {n \in Nat : n <= MAXPROC => v[n] = w[n]}
  <1>1. Walks(v, rq, nx, q) BY NthWalks
  <1> HIDE DEF v
  <1>2. 0 \in S BY <1>1 DEF Walks
  <1>3. ASSUME NEW n \in Nat, n \in S PROVE n + 1 \in S
    <2>1. n + 1 <= MAXPROC => n + 1 \in 1..MAXPROC /\ (n + 1) - 1 = n /\ n <= MAXPROC
      BY EntriesType
    <2>2. n + 1 <= MAXPROC => v[n + 1] = w[n + 1] BY <1>1, <1>3, <2>1 DEF Walks
    <2> QED BY <2>2
  <1>4. Nat \subseteq S
    <2> HIDE DEF S
    <2> QED BY <1>2, <1>3, AllOf
  <1> QED BY <1>4, EntriesType DEF v

(* The walk stays where it ends, and visits pointers only. *)
LEMMA WalkEnds ==
    ASSUME NEW w, NEW rq, NEW nx, NEW q, Walks(w, rq, nx, q),
           NEW k \in 0..MAXPROC, w[k] = NULL
    PROVE  \A n \in k..MAXPROC : w[n] = NULL
  <1> DEFINE S == {n \in Nat : k <= n /\ n <= MAXPROC => w[n] = NULL}
  <1>1. 0 \in S BY EntriesType
  <1>2. ASSUME NEW n \in Nat, n \in S PROVE n + 1 \in S
    <2>1. n + 1 <= MAXPROC => n + 1 \in 1..MAXPROC /\ (n + 1) - 1 = n BY EntriesType
    <2>2. n + 1 <= MAXPROC => w[n + 1] = Follow(nx, w[n]) BY <2>1 DEF Walks
    <2>3. k <= n + 1 => k = n + 1 \/ k <= n BY EntriesType
    <2>4. n + 1 <= MAXPROC => n <= MAXPROC BY EntriesType
    <2>5. k <= n /\ n + 1 <= MAXPROC => w[n + 1] = NULL BY <1>2, <2>2, <2>4 DEF Follow
    <2> QED BY <2>3, <2>5
  <1>3. Nat \subseteq S
    <2> HIDE DEF S
    <2> QED BY <1>1, <1>2, AllOf
  <1> QED BY <1>3, EntriesType

LEMMA WalkIn ==
    ASSUME NEW w, NEW rq, NEW nx, NEW q \in Queues, Walks(w, rq, nx, q),
           Linked(rq, nx, Pointers)
    PROVE  \A n \in 0..MAXPROC : w[n] \in Pointers
  <1> DEFINE S == {n \in Nat : n <= MAXPROC => w[n] \in Pointers}
  <1>1. 0 \in S BY DEF Walks, Linked
  <1>2. ASSUME NEW n \in Nat, n \in S PROVE n + 1 \in S
    <2>1. n + 1 <= MAXPROC => n + 1 \in 1..MAXPROC /\ (n + 1) - 1 = n BY EntriesType
    <2>2. n + 1 <= MAXPROC => w[n + 1] = Follow(nx, w[n]) BY <2>1 DEF Walks
    <2>3. n + 1 <= MAXPROC => w[n] \in Pointers BY <1>2, EntriesType
    <2> QED BY <2>2, <2>3 DEF Follow, Linked, Pointers
  <1>3. Nat \subseteq S
    <2> HIDE DEF S
    <2> QED BY <1>1, <1>2, AllOf
  <1> QED BY <1>3, EntriesType

(* The ready queues are lists: each walk ends and no process is met twice. *)
Lists(rq, nx) ==
    /\ \A q \in Queues : ~Cyclic(rq, nx, q)
    /\ \A q, q2 \in Queues, n, n2 \in 0..MAXPROC :
         LET s == Nth(rq, nx, q)[n]
         IN  s # NULL /\ s = Nth(rq, nx, q2)[n2] => q = q2 /\ n = n2

(* The same of any functions v[q] that walk the queues. *)
Apart(v) ==
    /\ \A q \in Queues : v[q][MAXPROC] = NULL
    /\ \A q, q2 \in Queues, n, n2 \in 0..MAXPROC :
         v[q][n] # NULL /\ v[q][n] = v[q2][n2] => q = q2 /\ n = n2
AllWalks(v, rq, nx) == \A q \in Queues : Walks(v[q], rq, nx, q)
Holds(v, q, s) == \E n \in 0..MAXPROC : v[q][n] = s

LEMMA WalksOfAll ==
    ASSUME NEW rq, NEW nx
    PROVE  \E v : AllWalks(v, rq, nx)
  <1> DEFINE v == [q \in Queues |-> Nth(rq, nx, q)]
  <1>1. \A q \in Queues : v[q] = Nth(rq, nx, q) OBVIOUS
  <1> HIDE DEF v
  <1>2. AllWalks(v, rq, nx) BY <1>1, NthWalks DEF AllWalks
  <1> QED BY <1>2

LEMMA ListsAre ==
    ASSUME NEW rq, NEW nx, NEW v, AllWalks(v, rq, nx)
    PROVE  /\ Lists(rq, nx) <=> Apart(v)
           /\ \A q \in Queues : \A s : OnQueue(rq, nx, q, s) <=> Holds(v, q, s)
  <1>1. \A q \in Queues, n \in 0..MAXPROC : Nth(rq, nx, q)[n] = v[q][n]
    BY WalkIsNth DEF AllWalks
  <1>2. MAXPROC \in 0..MAXPROC BY EntriesType
  <1>3. (\A q \in Queues : ~Cyclic(rq, nx, q)) <=> \A q \in Queues : v[q][MAXPROC] = NULL
    BY <1>1, <1>2 DEF Cyclic
  <1>4. \A q, q2 \in Queues, n, n2 \in 0..MAXPROC :
          (LET s == Nth(rq, nx, q)[n]
           IN  s # NULL /\ s = Nth(rq, nx, q2)[n2] => q = q2 /\ n = n2)
          <=> (v[q][n] # NULL /\ v[q][n] = v[q2][n2] => q = q2 /\ n = n2)
    BY <1>1
  <1>5. Lists(rq, nx) <=> Apart(v) BY <1>3, <1>4 DEF Lists, Apart
  <1>6. \A q \in Queues : \A s : OnQueue(rq, nx, q, s) <=> Holds(v, q, s)
    BY <1>1 DEF OnQueue, Holds
  <1> QED BY <1>5, <1>6

(* A walk that meets everybody once leaves out s: it has room for it. *)
LEMMA Room ==
    ASSUME NEW v, Apart(v), NEW q \in Queues, \A n \in 0..MAXPROC : v[q][n] \in Pointers,
           NEW s \in Entries, ~Holds(v, q, s),
           NEW k \in 0..MAXPROC, \A n \in 0..k : v[q][n] # NULL
    PROVE  k + 1 < MAXPROC
  <1> DEFINE f == [n \in 0..k |-> v[q][n]]
  <1>1. k \in Nat /\ MAXPROC \in Nat /\ MAXPROC > 1 BY TableAssumption
  <1>2. \A n \in 0..k : n \in 0..MAXPROC BY <1>1
  <1>3. \A n \in 0..k : f[n] \in Entries \ {s} BY <1>2 DEF Holds, Pointers
  <1>4. \A a, b \in 0..k : f[a] = f[b] => a = b BY <1>2 DEF Apart
  <1>5. f \in [0..k -> Entries \ {s}] BY <1>3
  <1> HIDE DEF f
  <1>6. f \in Injection(0..k, Entries \ {s}) BY <1>4, <1>5 DEF Injection, IsInjective
  <1>7. IsFiniteSet(Entries) /\ Cardinality(Entries) = MAXPROC
    <2>1. IsFiniteSet(0..(MAXPROC - 1)) /\ Cardinality(0..(MAXPROC - 1)) = MAXPROC
      BY <1>1, FS_Interval
    <2> QED BY <2>1 DEF Entries
  <1>8. IsFiniteSet(Entries \ {s}) /\ Cardinality(Entries \ {s}) = MAXPROC - 1
    BY <1>7, FS_RemoveElement
  <1>9. Cardinality(0..k) <= Cardinality(Entries \ {s}) BY <1>6, <1>8, FS_Injection
  <1>10. Cardinality(0..k) = k + 1 BY <1>1, FS_Interval
  <1> QED BY <1>1, <1>8, <1>9, <1>10

(* The last process of a queue that is a list and not empty. *)
LEMMA LastOf ==
    ASSUME NEW rq, NEW nx, Linked(rq, nx, Pointers), NEW v, AllWalks(v, rq, nx), Apart(v),
           NEW q \in Queues, rq[q] # NULL
    PROVE  \E k \in 0..(MAXPROC - 1) :
             /\ v[q][k] = QueueLast(rq, nx, q) /\ v[q][k] \in Entries
             /\ \A n \in 0..k : v[q][n] # NULL
             /\ \A n \in 0..MAXPROC : n > k => v[q][n] = NULL
  <1> DEFINE w == v[q]
             S == {n \in 0..MAXPROC : w[n] = NULL}
  <1>1. Walks(w, rq, nx, q) BY DEF AllWalks
  <1>2. \A n \in 0..MAXPROC : w[n] = Nth(rq, nx, q)[n] BY <1>1, WalkIsNth
  <1>3. \A n \in 0..MAXPROC : w[n] \in Pointers BY <1>1, WalkIn
  <1>4. w[MAXPROC] = NULL /\ MAXPROC \in 0..MAXPROC BY EntriesType DEF Apart
  <1> HIDE DEF w
  <1>5. PICK m \in S : \A n \in S : m <= n
    <2>1. S \subseteq Nat /\ S # {} BY <1>4
    <2> QED BY <2>1, Least
  <1>6. m \in 0..MAXPROC /\ m # 0 /\ m - 1 \in 0..MAXPROC /\ m \in 1..MAXPROC
    <2>1. m # 0 BY <1>1 DEF Walks
    <2> QED BY <2>1, EntriesType
  <1>7. w[m - 1] \in Entries /\ nx[w[m - 1]] = NULL
    <2>1. w[m - 1] # NULL BY <1>5, <1>6
    <2>2. w[m] = Follow(nx, w[m - 1]) BY <1>1, <1>6 DEF Walks
    <2> QED BY <1>3, <1>5, <1>6, <2>1, <2>2 DEF Follow, Pointers
  <1> DEFINE last == QueueLast(rq, nx, q)
  <1>8. last \in Entries /\ nx[last] = NULL /\ \E n \in 0..MAXPROC : Nth(rq, nx, q)[n] = last
    BY <1>2, <1>6, <1>7 DEF QueueLast
  <1> HIDE DEF last
  <1>9. PICK k \in 0..MAXPROC : w[k] = last BY <1>2, <1>8
  <1>10. last # NULL BY <1>8, EntriesType
  <1>11. k # MAXPROC BY <1>4, <1>9, <1>10
  <1>12. k + 1 \in 1..MAXPROC /\ k + 1 \in 0..MAXPROC /\ (k + 1) - 1 = k
    BY <1>11, EntriesType
  <1>13. w[k + 1] = NULL
    <2>1. w[k + 1] = Follow(nx, w[k]) BY <1>1, <1>12 DEF Walks
    <2> QED BY <1>8, <1>9, <2>1 DEF Follow
  <1>14. \A n \in 0..MAXPROC : n > k => w[n] = NULL
    <2>1. \A n \in (k + 1)..MAXPROC : w[n] = NULL BY <1>1, <1>12, <1>13, WalkEnds
    <2> QED BY <2>1
  <1>15. ASSUME NEW n \in 0..k PROVE w[n] # NULL
    <2> SUFFICES ASSUME w[n] = NULL PROVE FALSE OBVIOUS
    <2>1. n \in 0..MAXPROC /\ k \in n..MAXPROC BY EntriesType
    <2>2. w[k] = NULL BY <1>1, <2>1, WalkEnds
    <2> QED BY <1>9, <1>10, <2>2
  <1>16. k \in 0..(MAXPROC - 1) BY <1>12, EntriesType
  <1> QED BY <1>8, <1>9, <1>14, <1>15, <1>16 DEF last, w

-----------------------------------------------------------------------------
(* A process put behind the last of a queue. *)
LEMMA AppendedLists ==
    ASSUME Linked(ready_queues, next, Pointers), Lists(ready_queues, next),
           NEW q \in Queues, NEW s \in Entries,
           \A p \in Queues : ~OnQueue(ready_queues, next, p, s),
           NEW rq, NEW nx,
           rq = Appended(q, s).rq, nx = [Appended(q, s).nx EXCEPT ![s] = NULL]
    PROVE  /\ Lists(rq, nx)
           /\ \A p \in Queues, e \in Entries :
                OnQueue(rq, nx, p, e) <=> OnQueue(ready_queues, next, p, e) \/ (p = q /\ e = s)
  <1>1. PICK v : AllWalks(v, ready_queues, next) BY WalksOfAll
  <1>2. Apart(v) BY <1>1, ListsAre
  <1>3. \A p \in Queues, n \in 0..MAXPROC : v[p][n] \in Pointers /\ v[p][n] # s
    BY <1>1, ListsAre, WalkIn DEF AllWalks, Holds
  <1>4. MAXPROC \in Nat /\ MAXPROC > 1 /\ s # NULL /\ NULL \notin Entries
    BY TableAssumption
  <1>5. \A p \in Queues : /\ v[p][0] = ready_queues[p]
                          /\ \A n \in 1..MAXPROC : v[p][n] = Follow(next, v[p][n - 1])
    BY <1>1 DEF AllWalks, Walks
  <1>6. \E at \in 0..(MAXPROC - 1) :
          /\ \A n \in 0..MAXPROC : n >= at => v[q][n] = NULL
          /\ \A p \in Queues : rq[p] = IF at = 0 /\ p = q THEN s ELSE ready_queues[p]
          /\ at # 0 => v[q][at - 1] \in Entries
          /\ \A e \in Entries : nx[e] = IF e = s THEN NULL
                                        ELSE IF at # 0 /\ e = v[q][at - 1] THEN s ELSE next[e]
    <2>1. CASE ready_queues[q] = NULL
      <3>1. rq = [ready_queues EXCEPT ![q] = s] /\ nx = [next EXCEPT ![s] = NULL]
        BY <2>1 DEF Appended
      <3>2. \A n \in 0..MAXPROC : v[q][n] = NULL
        <4>1. v[q][0] = NULL /\ Walks(v[q], ready_queues, next, q) /\ 0 \in 0..MAXPROC
          BY <1>1, <1>4, <1>5, <2>1 DEF AllWalks
        <4> QED BY <4>1, WalkEnds
      <3>3. \A p \in Queues : rq[p] = IF p = q THEN s ELSE ready_queues[p]
        BY <3>1 DEF Linked
      <3>4. \A e \in Entries : nx[e] = IF e = s THEN NULL ELSE next[e] BY <3>1 DEF Linked
      <3>5. 0 \in 0..(MAXPROC - 1) BY <1>4
      <3> QED BY <3>2, <3>3, <3>4, <3>5
    <2>2. CASE ready_queues[q] # NULL
      <3>1. PICK k \in 0..(MAXPROC - 1) :
              /\ v[q][k] = QueueLast(ready_queues, next, q) /\ v[q][k] \in Entries
              /\ \A n \in 0..k : v[q][n] # NULL
              /\ \A n \in 0..MAXPROC : n > k => v[q][n] = NULL
        BY <1>1, <1>2, <2>2, LastOf
      <3>2. rq = ready_queues /\ nx = [[next EXCEPT ![v[q][k]] = s] EXCEPT ![s] = NULL]
        BY <2>2, <3>1 DEF Appended
      <3>3. k + 1 < MAXPROC
        <4>1. k \in 0..MAXPROC BY <1>4
        <4>2. ~Holds(v, q, s) BY <1>3 DEF Holds
        <4> QED BY <1>2, <1>3, <3>1, <4>1, <4>2, Room
      <3>4. k + 1 \in 0..(MAXPROC - 1) /\ k + 1 # 0 /\ (k + 1) - 1 = k BY <1>4, <3>3
      <3>5. \A e \in Entries : nx[e] = IF e = s THEN NULL
                                       ELSE IF e = v[q][k] THEN s ELSE next[e]
        BY <3>1, <3>2 DEF Linked
      <3>6. \A n \in 0..MAXPROC : n >= k + 1 => v[q][n] = NULL BY <3>1
      <3>7. \A e \in Entries : nx[e] = IF e = s THEN NULL
                         ELSE IF k + 1 # 0 /\ e = v[q][(k + 1) - 1] THEN s ELSE next[e]
        BY <3>4, <3>5
      <3> QED BY <3>1, <3>2, <3>4, <3>6, <3>7
    <2> QED BY <2>1, <2>2
  <1>7. PICK at \in 0..(MAXPROC - 1) :
          /\ \A n \in 0..MAXPROC : n >= at => v[q][n] = NULL
          /\ \A p \in Queues : rq[p] = IF at = 0 /\ p = q THEN s ELSE ready_queues[p]
          /\ at # 0 => v[q][at - 1] \in Entries
          /\ \A e \in Entries : nx[e] = IF e = s THEN NULL
                                        ELSE IF at # 0 /\ e = v[q][at - 1] THEN s ELSE next[e]
    BY <1>6
  <1> DEFINE u == [p \in Queues |-> [n \in 0..MAXPROC |->
                     IF p = q /\ n = at THEN s ELSE v[p][n]]]
  <1>8. \A p \in Queues, n \in 0..MAXPROC : u[p][n] = IF p = q /\ n = at THEN s ELSE v[p][n]
    OBVIOUS
  <1> HIDE DEF u
  <1>9. \A n \in 1..MAXPROC : n \in 0..MAXPROC /\ n - 1 \in 0..MAXPROC BY <1>4
  <1>10. at \in 0..MAXPROC /\ (at # 0 => at - 1 \in 0..MAXPROC) /\ 0 \in 0..MAXPROC BY <1>4
  <1>11. ASSUME NEW p \in Queues, NEW n \in 1..MAXPROC
         PROVE  u[p][n] = Follow(nx, u[p][n - 1])
    <2>1. n \in 0..MAXPROC /\ n - 1 \in 0..MAXPROC BY <1>9
    <2>2. v[p][n] = Follow(next, v[p][n - 1]) BY <1>5
    <2>3. CASE p = q /\ n - 1 = at
      <3>1. u[p][n - 1] = s BY <1>8, <2>1, <2>3
      <3>2. Follow(nx, s) = NULL BY <1>4, <1>7 DEF Follow
      <3>3. n >= at /\ n # at BY <1>10, <2>3
      <3>4. u[p][n] = NULL BY <1>7, <1>8, <2>1, <2>3, <3>3
      <3> QED BY <3>1, <3>2, <3>4
    <2>4. CASE p = q /\ n = at
      <3>1. u[p][n] = s /\ n - 1 # at /\ at # 0 BY <1>8, <1>10, <2>1, <2>4
      <3>2. u[p][n - 1] = v[q][at - 1] BY <1>8, <2>1, <2>4, <3>1
      <3>3. v[q][at - 1] \in Entries /\ v[q][at - 1] # s BY <1>3, <1>7, <1>10, <3>1
      <3>4. nx[v[q][at - 1]] = s BY <1>7, <3>1, <3>3
      <3> QED BY <1>4, <3>1, <3>2, <3>3, <3>4 DEF Follow
    <2>5. CASE ~(p = q /\ n - 1 = at) /\ ~(p = q /\ n = at)
      <3>1. u[p][n] = v[p][n] /\ u[p][n - 1] = v[p][n - 1] BY <1>8, <2>1, <2>5
      <3> DEFINE e == v[p][n - 1]
      <3>2. CASE e = NULL BY <2>2, <3>1, <3>2 DEF Follow
      <3>3. CASE e # NULL
        <4>1. e \in Entries /\ e # s BY <1>3, <2>1, <3>3 DEF Pointers
        <4>2. at # 0 => e # v[q][at - 1]
          <5> SUFFICES ASSUME at # 0, e = v[q][at - 1] PROVE FALSE OBVIOUS
          <5>1. p = q /\ n - 1 = at - 1 BY <1>2, <1>10, <2>1, <3>3 DEF Apart
          <5> QED BY <1>10, <2>5, <5>1
        <4>3. nx[e] = next[e] BY <1>7, <4>1, <4>2
        <4> QED BY <2>2, <3>1, <3>3, <4>3 DEF Follow
      <3> QED BY <3>2, <3>3
    <2> QED BY <2>3, <2>4, <2>5
  <1>12. \A p \in Queues : u[p][0] = rq[p] BY <1>5, <1>7, <1>8, <1>10
  <1>13. AllWalks(u, rq, nx) BY <1>11, <1>12 DEF AllWalks, Walks
  <1>14. Apart(u)
    <2>1. \A p \in Queues : u[p][MAXPROC] = NULL BY <1>2, <1>4, <1>8 DEF Apart
    <2>2. ASSUME NEW p \in Queues, NEW p2 \in Queues, NEW n \in 0..MAXPROC, NEW n2 \in 0..MAXPROC,
                 u[p][n] # NULL, u[p][n] = u[p2][n2]
          PROVE  p = p2 /\ n = n2
      <3>1. CASE u[p][n] = s
        <4>1. v[p][n] # s /\ v[p2][n2] # s BY <1>3
        <4>2. p = q /\ n = at BY <1>8, <3>1, <4>1
        <4>3. p2 = q /\ n2 = at BY <1>8, <2>2, <3>1, <4>1
        <4> QED BY <4>2, <4>3
      <3>2. CASE u[p][n] # s
        <4>1. v[p][n] # NULL /\ v[p][n] = v[p2][n2] BY <1>8, <2>2, <3>2
        <4> QED BY <1>2, <4>1 DEF Apart
      <3> QED BY <3>1, <3>2
    <2> QED BY <2>1, <2>2 DEF Apart
  <1>15. Lists(rq, nx) BY <1>13, <1>14, ListsAre
  <1>16. ASSUME NEW p \in Queues, NEW e \in Entries
         PROVE  Holds(u, p, e) <=> Holds(v, p, e) \/ (p = q /\ e = s)
    <2>1. Holds(u, p, e) => Holds(v, p, e) \/ (p = q /\ e = s) BY <1>8 DEF Holds
    <2>2. p = q /\ e = s => Holds(u, p, e) BY <1>8, <1>10 DEF Holds
    <2>3. ASSUME Holds(v, p, e) PROVE Holds(u, p, e)
      <3>1. PICK n \in 0..MAXPROC : v[p][n] = e BY <2>3 DEF Holds
      <3>2. ~(p = q /\ n = at) BY <1>4, <1>7, <1>10, <3>1
      <3> QED BY <1>8, <3>1, <3>2 DEF Holds
    <2> QED BY <2>1, <2>2, <2>3
  <1>17. \A p \in Queues, e \in Entries :
           /\ OnQueue(rq, nx, p, e) <=> Holds(u, p, e)
           /\ OnQueue(ready_queues, next, p, e) <=> Holds(v, p, e)
    BY <1>1, <1>13, ListsAre
  <1> QED BY <1>15, <1>16, <1>17

(* A process taken out of the queue that holds it. *)
LEMMA UnlinkedLists ==
    ASSUME NEW rq0, NEW nx0, Linked(rq0, nx0, Pointers), Lists(rq0, nx0),
           NEW q \in Queues, NEW s \in Entries, OnQueue(rq0, nx0, q, s),
           NEW rq, NEW nx,
           rq = Unlinked(rq0, nx0, q, s).rq, nx = Unlinked(rq0, nx0, q, s).nx
    PROVE  /\ Lists(rq, nx)
           /\ \A p \in Queues, e \in Entries :
                OnQueue(rq, nx, p, e) <=> OnQueue(rq0, nx0, p, e) /\ e # s
  <1>1. PICK v : AllWalks(v, rq0, nx0) BY WalksOfAll
  <1>2. Apart(v) BY <1>1, ListsAre
  <1>3. \A p \in Queues, n \in 0..MAXPROC :
          v[p][n] \in Pointers /\ v[p][n] = Nth(rq0, nx0, p)[n]
    BY <1>1, WalkIn, WalkIsNth DEF AllWalks
  <1>4. MAXPROC \in Nat /\ MAXPROC > 1 /\ s # NULL /\ NULL \notin Entries
    BY TableAssumption
  <1>5. \A p \in Queues : /\ v[p][0] = rq0[p]
                          /\ \A n \in 1..MAXPROC : v[p][n] = Follow(nx0, v[p][n - 1])
    BY <1>1 DEF AllWalks, Walks
  <1>6. PICK at \in 0..MAXPROC : v[q][at] = s BY <1>1, ListsAre DEF Holds
  <1>7. \A p \in Queues, n \in 0..MAXPROC : v[p][n] = s => p = q /\ n = at
    BY <1>2, <1>4, <1>6 DEF Apart
  <1>8. at < MAXPROC /\ MAXPROC \in 0..MAXPROC /\ 0 \in 0..MAXPROC
    BY <1>2, <1>4, <1>6 DEF Apart
  <1>9. at + 1 \in 0..MAXPROC /\ v[q][at + 1] = nx0[s]
    <2>1. at + 1 \in 1..MAXPROC /\ (at + 1) - 1 = at /\ at + 1 \in 0..MAXPROC BY <1>8
    <2>2. v[q][at + 1] = Follow(nx0, v[q][at]) BY <1>5, <2>1
    <2> QED BY <1>4, <1>6, <2>1, <2>2 DEF Follow
  <1>10. at # 0 => at - 1 \in 0..MAXPROC /\ v[q][at - 1] \in Entries /\ v[q][at - 1] # s
    <2> SUFFICES ASSUME at # 0
                 PROVE  at - 1 \in 0..MAXPROC /\ v[q][at - 1] \in Entries /\ v[q][at - 1] # s
      OBVIOUS
    <2>1. at - 1 \in 0..MAXPROC /\ at - 1 # at /\ at \in 1..MAXPROC BY <1>8
    <2>2. v[q][at] = Follow(nx0, v[q][at - 1]) BY <1>5, <2>1
    <2>3. v[q][at - 1] # NULL BY <1>4, <1>6, <2>2 DEF Follow
    <2> QED BY <1>3, <1>7, <2>1, <2>3 DEF Pointers
  <1>11. /\ \A p \in Queues : rq[p] = IF at = 0 /\ p = q THEN nx0[s] ELSE rq0[p]
         /\ \A e \in Entries : nx[e] = IF e = s THEN NULL
                                       ELSE IF at # 0 /\ e = v[q][at - 1] THEN nx0[s] ELSE nx0[e]
    <2>1. CASE at = 0
      <3>1. rq0[q] = s BY <1>5, <1>6, <2>1
      <3>2. rq = [rq0 EXCEPT ![q] = nx0[s]] /\ nx = [nx0 EXCEPT ![s] = NULL]
        BY <3>1 DEF Unlinked
      <3> QED BY <2>1, <3>2 DEF Linked
    <2>2. CASE at # 0
      <3>1. rq0[q] # s BY <1>5, <1>7, <1>8, <2>2
      <3> DEFINE nth == Nth(rq0, nx0, q)
                 first(n) == nth[n] = s /\ \A k \in 0..(n - 1) : nth[k] # s
                 n0 == CHOOSE n \in 1..MAXPROC : first(n)
      <3>2. \A n \in 0..MAXPROC : nth[n] = v[q][n] BY <1>3
      <3> HIDE DEF nth
      <3>3. first(at)
        <4>1. \A k \in 0..(at - 1) : k \in 0..MAXPROC /\ k # at BY <1>8
        <4> QED BY <1>6, <1>7, <3>2, <4>1
      <3>4. at \in 1..MAXPROC BY <2>2, <1>8
      <3>5. \A n \in 1..MAXPROC : first(n) => n = at
        <4>1. \A n \in 1..MAXPROC : n \in 0..MAXPROC OBVIOUS
        <4> QED BY <1>7, <3>2, <4>1
      <3>6. n0 = at
        <4> HIDE DEF first
        <4> QED BY <3>3, <3>4, <3>5
      <3>7. rq = rq0 /\ nx = [nx0 EXCEPT ![nth[n0 - 1]] = nx0[s], ![s] = NULL]
        BY <3>1 DEF Unlinked, nth
      <3> HIDE DEF n0
      <3>8. nx = [nx0 EXCEPT ![v[q][at - 1]] = nx0[s], ![s] = NULL]
        BY <1>10, <2>2, <3>2, <3>6, <3>7
      <3> QED BY <1>10, <2>2, <3>7, <3>8 DEF Linked
    <2> QED BY <2>1, <2>2
  <1> DEFINE u == [p \in Queues |-> [n \in 0..MAXPROC |->
                     IF p # q \/ n < at THEN v[p][n]
                     ELSE IF n = MAXPROC THEN NULL ELSE v[q][n + 1]]]
  <1>12. \A p \in Queues, n \in 0..MAXPROC :
           u[p][n] = IF p # q \/ n < at THEN v[p][n]
                     ELSE IF n = MAXPROC THEN NULL ELSE v[q][n + 1]
    OBVIOUS
  <1> HIDE DEF u
  <1>13. ASSUME NEW p \in Queues, NEW n \in 1..MAXPROC
         PROVE  u[p][n] = Follow(nx, u[p][n - 1])
    <2>1. n \in 0..MAXPROC /\ n - 1 \in 0..MAXPROC /\ n - 1 # MAXPROC /\ (n - 1) + 1 = n
      BY <1>4
    <2>2. v[p][n] = Follow(nx0, v[p][n - 1]) BY <1>5
    <2>3. ASSUME NEW m \in 0..MAXPROC, v[p][m] # s, p = q => m # at - 1
          PROVE  Follow(nx, v[p][m]) = Follow(nx0, v[p][m])
      <3>1. CASE v[p][m] = NULL BY <3>1 DEF Follow
      <3>2. CASE v[p][m] # NULL
        <4>1. v[p][m] \in Entries BY <1>3, <3>2 DEF Pointers
        <4>2. at # 0 => v[p][m] # v[q][at - 1] BY <1>2, <1>10, <2>3, <3>2 DEF Apart
        <4>3. nx[v[p][m]] = nx0[v[p][m]] BY <1>11, <2>3, <4>1, <4>2
        <4> QED BY <3>2, <4>3 DEF Follow
      <3> QED BY <3>1, <3>2
    <2>4. CASE p # q
      <3>1. u[p][n] = v[p][n] /\ u[p][n - 1] = v[p][n - 1] BY <1>12, <2>1, <2>4
      <3>2. v[p][n - 1] # s BY <1>7, <2>1, <2>4
      <3> QED BY <2>1, <2>2, <2>3, <2>4, <3>1, <3>2
    <2>5. CASE p = q /\ n < at
      <3>1. n - 1 < at /\ n - 1 # at - 1 /\ n - 1 # at BY <2>1, <2>5
      <3>2. u[p][n] = v[p][n] /\ u[p][n - 1] = v[p][n - 1] BY <1>12, <2>1, <2>5, <3>1
      <3>3. v[p][n - 1] # s BY <1>7, <2>1, <3>1
      <3> QED BY <2>1, <2>2, <2>3, <3>1, <3>2, <3>3
    <2>6. CASE p = q /\ n = at
      <3>1. at # 0 /\ n - 1 < at /\ ~(n < at) /\ n # MAXPROC BY <1>8, <2>1, <2>6
      <3>2. u[p][n] = v[q][at + 1] /\ u[p][n - 1] = v[q][at - 1]
        BY <1>12, <2>1, <2>6, <3>1
      <3>3. nx[v[q][at - 1]] = nx0[s] /\ v[q][at - 1] # NULL
        BY <1>4, <1>10, <1>11, <3>1
      <3> QED BY <1>9, <3>2, <3>3 DEF Follow
    <2>7. CASE p = q /\ n > at
      <3>1. ~(n < at) /\ ~(n - 1 < at) /\ n # at /\ n # at - 1 BY <2>1, <2>7
      <3>2. u[p][n - 1] = v[q][n] BY <1>12, <2>1, <2>7, <3>1
      <3>3. v[q][n] # s BY <1>7, <2>1, <3>1
      <3>4. Follow(nx, v[q][n]) = Follow(nx0, v[q][n]) BY <2>1, <2>3, <2>7, <3>1, <3>3
      <3>5. CASE n = MAXPROC
        <4>1. u[p][n] = NULL /\ v[q][n] = NULL BY <1>2, <1>12, <2>1, <2>7, <3>1, <3>5 DEF Apart
        <4> QED BY <3>2, <4>1 DEF Follow
      <3>6. CASE n # MAXPROC
        <4>1. u[p][n] = v[q][n + 1] BY <1>12, <2>1, <2>7, <3>1, <3>6
        <4>2. n + 1 \in 1..MAXPROC /\ (n + 1) - 1 = n BY <1>4, <2>1, <3>6
        <4>3. v[q][n + 1] = Follow(nx0, v[q][n]) BY <1>5, <4>2
        <4> QED BY <3>2, <3>4, <4>1, <4>3
      <3> QED BY <3>5, <3>6
    <2>8. n < at \/ n = at \/ n > at BY <2>1
    <2> QED BY <2>4, <2>5, <2>6, <2>7, <2>8
  <1>14. ASSUME NEW p \in Queues PROVE u[p][0] = rq[p]
    <2>1. CASE p # q BY <1>5, <1>8, <1>11, <1>12, <2>1
    <2>2. CASE p = q /\ at # 0
      <3>1. 0 < at BY <2>2, <1>8
      <3> QED BY <1>5, <1>8, <1>11, <1>12, <2>2, <3>1
    <2>3. CASE p = q /\ at = 0
      <3>1. u[p][0] = v[q][0 + 1] BY <1>4, <1>8, <1>12, <2>3
      <3> QED BY <1>9, <1>11, <2>3, <3>1
    <2> QED BY <2>1, <2>2, <2>3
  <1>15. AllWalks(u, rq, nx) BY <1>13, <1>14 DEF AllWalks, Walks
  (* u[p][n] is v[p] at another place, never at that of s. *)
  <1> DEFINE place(p, n) == IF p # q \/ n < at THEN n ELSE n + 1
  <1>16. ASSUME NEW p \in Queues, NEW n \in 0..MAXPROC, u[p][n] # NULL
         PROVE  /\ place(p, n) \in 0..MAXPROC /\ u[p][n] = v[p][place(p, n)]
                /\ u[p][n] # s
    <2>1. CASE p # q \/ n < at
      <3>1. u[p][n] = v[p][n] BY <1>12, <2>1
      <3>2. ~(p = q /\ n = at) BY <2>1, <1>8
      <3> QED BY <1>7, <2>1, <3>1, <3>2
    <2>2. CASE p = q /\ ~(n < at)
      <3>1. u[p][n] = IF n = MAXPROC THEN NULL ELSE v[q][n + 1] BY <1>12, <2>2
      <3>2. n # MAXPROC /\ u[p][n] = v[q][n + 1] BY <1>16, <3>1
      <3>3. n + 1 \in 0..MAXPROC /\ n + 1 # at BY <2>2, <3>2, <1>8
      <3> QED BY <1>7, <2>2, <3>2, <3>3
    <2> QED BY <2>1, <2>2
  <1>17. Apart(u)
    <2>1. \A p \in Queues : u[p][MAXPROC] = NULL
      <3>1. ~(MAXPROC < at) BY <1>8
      <3> QED BY <1>2, <1>8, <1>12, <3>1 DEF Apart
    <2>2. ASSUME NEW p \in Queues, NEW p2 \in Queues, NEW n \in 0..MAXPROC, NEW n2 \in 0..MAXPROC,
                 u[p][n] # NULL, u[p][n] = u[p2][n2]
          PROVE  p = p2 /\ n = n2
      <3>1. /\ place(p, n) \in 0..MAXPROC /\ u[p][n] = v[p][place(p, n)]
            /\ place(p2, n2) \in 0..MAXPROC /\ u[p2][n2] = v[p2][place(p2, n2)]
        BY <1>16, <2>2
      <3>2. p = p2 /\ place(p, n) = place(p2, n2)
        <4>1. PICK m \in 0..MAXPROC : m = place(p, n) BY <3>1
        <4>2. PICK m2 \in 0..MAXPROC : m2 = place(p2, n2) BY <3>1
        <4> HIDE DEF place
        <4>3. v[p][m] # NULL /\ v[p][m] = v[p2][m2] BY <2>2, <3>1, <4>1, <4>2
        <4>4. p = p2 /\ m = m2 BY <1>2, <4>3 DEF Apart
        <4> QED BY <4>1, <4>2, <4>4
      <3> QED BY <3>2, <1>8
    <2> QED BY <2>1, <2>2 DEF Apart
  <1>18. Lists(rq, nx) BY <1>15, <1>17, ListsAre
  <1>19. ASSUME NEW p \in Queues, NEW e \in Entries
         PROVE  Holds(u, p, e) <=> Holds(v, p, e) /\ e # s
    <2>1. ASSUME Holds(u, p, e) PROVE Holds(v, p, e) /\ e # s
      <3>1. PICK n \in 0..MAXPROC : u[p][n] = e BY <2>1 DEF Holds
      <3>2. u[p][n] # NULL BY <1>4, <3>1
      <3>3. place(p, n) \in 0..MAXPROC /\ u[p][n] = v[p][place(p, n)] /\ u[p][n] # s
        BY <1>16, <3>2
      <3> HIDE DEF place
      <3> QED BY <3>1, <3>3 DEF Holds
    <2>2. ASSUME Holds(v, p, e), e # s PROVE Holds(u, p, e)
      <3>1. PICK n \in 0..MAXPROC : v[p][n] = e BY <2>2 DEF Holds
      <3>2. CASE p # q \/ n < at BY <1>12, <3>1, <3>2 DEF Holds
      <3>3. CASE p = q /\ ~(n < at)
        <4>1. n # at BY <1>6, <2>2, <3>1, <3>3
        <4>2. n - 1 \in 0..MAXPROC /\ ~(n - 1 < at) /\ n - 1 # MAXPROC /\ (n - 1) + 1 = n
          BY <1>8, <3>3, <4>1
        <4>3. u[p][n - 1] = v[q][n] BY <1>12, <3>3, <4>2
        <4> QED BY <3>1, <3>3, <4>2, <4>3 DEF Holds
      <3> QED BY <3>2, <3>3
    <2> QED BY <2>1, <2>2
  <1>20. \A p \in Queues, e \in Entries :
           /\ OnQueue(rq, nx, p, e) <=> Holds(u, p, e)
           /\ OnQueue(rq0, nx0, p, e) <=> Holds(v, p, e)
    BY <1>1, <1>15, ListsAre
  <1> QED BY <1>18, <1>19, <1>20

-----------------------------------------------------------------------------
(* The ready queues under each operation.  A process that has not          *)
(* terminated is on its queue, a terminated one on none.                   *)
InPlace(rq, nx, st, prio, s) ==
    IF st = -1 THEN \A q \in Queues : ~OnQueue(rq, nx, q, s)
    ELSE OnQueue(rq, nx, prio, s)
QueuesInOrder ==
    machine # "hung" =>
        /\ Lists(ready_queues, next)
        /\ \A s \in Entries : InPlace(ready_queues, next, status[s], priority[s], s)

LEMMA QueuesAre == KernelInv => (QueuesWellFormed <=> QueuesInOrder)
  <1> SUFFICES ASSUME KernelInv PROVE QueuesWellFormed <=> QueuesInOrder OBVIOUS
  <1>1. \A s \in Entries : status[s] # -1 => s \in Live
    BY DEF KernelInv, StatusMatches, Live
  <1>2. \A s \in Live : s \in Entries BY DEF Live
  <1>3. Lists(ready_queues, next) <=>
          /\ \A q \in Queues : ~Cyclic(ready_queues, next, q)
          /\ \A q, q2 \in Queues, n, n2 \in 0..MAXPROC :
               LET s == Nth(ready_queues, next, q)[n]
               IN  s # NULL /\ s = Nth(ready_queues, next, q2)[n2] => q = q2 /\ n = n2
    BY DEF Lists
  <1>4. (\A s \in Entries : InPlace(ready_queues, next, status[s], priority[s], s)) <=>
          /\ \A s \in Live : status[s] # -1 => OnQueue(ready_queues, next, priority[s], s)
          /\ \A s \in Entries : status[s] = -1 => ~OnSomeQueue(s)
    BY <1>1, <1>2 DEF InPlace, OnSomeQueue
  <1> QED BY <1>3, <1>4 DEF QueuesWellFormed, QueuesInOrder

(* Steps that leave the links alone, and terminate nobody. *)
LEMMA LinksUntouched ==
    ASSUME machine = "up", QueuesInOrder, UNCHANGED <<ready_queues, next, priority>>,
           \A s \in Entries : status'[s] = -1 <=> status[s] = -1
    PROVE  QueuesInOrder'
  <1>1. Lists(ready_queues', next') BY DEF QueuesInOrder
  <1>2. \A s \in Entries : InPlace(ready_queues', next', status'[s], priority'[s], s) BY DEF QueuesInOrder, InPlace
  <1> QED BY <1>1, <1>2 DEF QueuesInOrder

LEMMA OldQueuesLinked == KernelInv => Linked(ready_queues, next, Pointers)
  BY DEF KernelInv, TypeOK, Linked

LEMMA NewProcessQueued ==
    ASSUME KernelInv, machine = "up", QueuesInOrder, NEW r \in Live, NEW prio \in 1..5,
           FreeEntries # {}, NewProcess(r, prio)
    PROVE  QueuesInOrder'
  <1> DEFINE s == FirstFree
  <1>1. TypeOK /\ s \in Entries /\ pid[s] = -1
    BY FirstFreeIsFree DEF KernelInv, FreeEntries
  <1>2. status[s] = -1 BY <1>1 DEF KernelInv, StatusMatches
  <1>3. /\ priority' = [priority EXCEPT ![s] = prio] /\ status' = [status EXCEPT ![s] = 0]
        /\ ready_queues' = Appended(prio, s).rq
        /\ next' = [Appended(prio, s).nx EXCEPT ![s] = NULL]
    BY DEF NewProcess
  <1> HIDE DEF s
  <1>9. PICK rq, nx : rq = ready_queues' /\ nx = next' OBVIOUS
  <1>4. Lists(ready_queues, next) /\ \A e \in Entries : InPlace(ready_queues, next, status[e], priority[e], e)
    BY DEF QueuesInOrder
  <1>5. prio \in Queues /\ \A p \in Queues : ~OnQueue(ready_queues, next, p, s)
    BY <1>1, <1>2, <1>4 DEF Queues, InPlace
  <1>6. /\ Lists(rq, nx)
        /\ \A p \in Queues, e \in Entries :
             OnQueue(rq, nx, p, e) <=> OnQueue(ready_queues, next, p, e) \/ (p = prio /\ e = s)
    <2>1. rq = Appended(prio, s).rq /\ nx = [Appended(prio, s).nx EXCEPT ![s] = NULL]
      BY <1>3, <1>9
    <2>2. Linked(ready_queues, next, Pointers) BY OldQueuesLinked
    <2>3. Lists(ready_queues, next) /\ s \in Entries /\ prio \in Queues BY <1>1, <1>4, <1>5
    <2>4. \A p \in Queues : ~OnQueue(ready_queues, next, p, s) BY <1>5
    <2> QED BY <2>1, <2>2, <2>3, <2>4, AppendedLists
  <1>7. \A e \in Entries : /\ priority'[e] = IF e = s THEN prio ELSE priority[e]
                           /\ status'[e] = IF e = s THEN 0 ELSE status[e]
    BY <1>1, <1>3 DEF TypeOK
  <1>8. ASSUME NEW e \in Entries PROVE InPlace(ready_queues', next', status'[e], priority'[e], e)
    <2>1. CASE e = s
      <3>1. status'[e] = 0 /\ priority'[e] = prio BY <1>7, <2>1
      <3>2. OnQueue(rq, nx, prio, s) BY <1>1, <1>5, <1>6
      <3> QED BY <1>9, <2>1, <3>1, <3>2 DEF InPlace
    <2>2. CASE e # s
      <3>1. status'[e] = status[e] /\ priority'[e] = priority[e] /\ priority[e] \in Queues
        BY <1>1, <1>7, <2>2 DEF TypeOK
      <3>2. \A p \in Queues : OnQueue(rq, nx, p, e) <=> OnQueue(ready_queues, next, p, e)
        BY <1>6, <2>2
      <3> QED BY <1>4, <1>9, <3>1, <3>2 DEF InPlace
    <2> QED BY <2>1, <2>2
  <1> QED BY <1>6, <1>8, <1>9 DEF QueuesInOrder

LEMMA SporkQueued ==
    ASSUME KernelInv, QueuesInOrder, NEW r \in Entries, NEW prio \in Priorities, spork(r, prio)
    PROVE  QueuesInOrder'
  <1>1. machine = "up" /\ pc[r] = "run" /\ prio \in 1..5 /\ FreeEntries # {}
    BY DEF spork, Running
  <1>2. CASE Stop("hung") BY <1>2 DEF Stop, QueuesInOrder
  <1>3. CASE NewProcess(r, prio)
    <2>1. r \in Live BY <1>1, Alive
    <2> QED BY <1>1, <1>3, <2>1, NewProcessQueued
  <1> QED BY <1>2, <1>3 DEF spork

LEMMA InitSporkQueued == ASSUME KernelInv, QueuesInOrder, InitSpork PROVE QueuesInOrder'
  <1>1. pc[init] = "start" /\ NewProcess(init, 3) /\ machine = "up" BY DEF InitSpork
  <1>2. init \in Live /\ Used = {init}
    BY <1>1, EntriesType DEF KernelInv, InitReady, Live
  <1>3. 0 \in Entries /\ 0 # init BY TableAssumption DEF Entries, init
  <1>4. FreeEntries # {} BY <1>2, <1>3 DEF FreeEntries, Used
  <1>5. 3 \in 1..5 OBVIOUS
  <1> QED BY <1>1, <1>2, <1>4, <1>5, NewProcessQueued

(* The quit of a process that nobody zaps takes it off its queue. *)
LEMMA QuitQueued ==
    ASSUME KernelInv, QueuesInOrder, NEW r \in Entries, quit(r), ~QueuesAgain
    PROVE  QueuesInOrder'
  <1>1. machine = "up" /\ pc[r] = "run" BY DEF quit, Running
  <1>2. CASE Stop("error")
    <2>1. UNCHANGED <<ready_queues, next, priority, status>> BY <1>2 DEF Stop, table, links
    <2> QED BY <1>1, <2>1, LinksUntouched
  <1>3. CASE ~Stop("error")
    <2> DEFINE z == ZappersInFront(r)
               q == priority[r]
    <2>1. /\ status' = [s \in Entries |-> IF s \in Zappers(r) THEN 0 ELSE ParentWoken(r)[s]]
          /\ LET queue == IF OnQueue(z.rq, z.nx, q, r) THEN Unlinked(z.rq, z.nx, q, r) ELSE z
             IN  ready_queues' = queue.rq /\ next' = queue.nx
          /\ UNCHANGED priority
      BY <1>3 DEF quit, table
    <2> HIDE DEF z, q
    <2>2. status[r] # -1 /\ TypeOK BY <1>1, Alive DEF KernelInv
    <2>3. /\ status'[r] = -1
          /\ \A s \in Entries \ {r} : status'[s] = status[s] \/ (status[s] = 1 /\ status'[s] = 0)
      BY <2>1, QuitStatus
    <2>4. Zappers(r) = {} BY <2>2, <2>3 DEF QueuesAgain
    <2>5. Linked(ready_queues, next, Pointers) BY OldQueuesLinked
    <2>6. z.rq = ready_queues /\ z.nx = next
      <3>1. \A p : ZappersAt(r, p) = {} BY <2>4 DEF ZappersAt
      <3>2. z.rq = [p \in Queues |-> ready_queues[p]] BY <3>1 DEF z, ZappersInFront
      <3>3. z.nx = [s \in Entries |-> next[s]] BY <2>4 DEF z, ZappersInFront
      <3> QED BY <2>5, <3>2, <3>3 DEF Linked
    <2>7. /\ Lists(ready_queues, next)
          /\ \A s \in Entries : InPlace(ready_queues, next, status[s], priority[s], s)
      BY <1>1 DEF QueuesInOrder
    <2>8. q \in Queues /\ OnQueue(ready_queues, next, q, r)
      BY <2>2, <2>7 DEF InPlace, TypeOK, q
    <2>9. PICK rq, nx : rq = ready_queues' /\ nx = next' OBVIOUS
    <2>10. /\ rq = Unlinked(ready_queues, next, q, r).rq
           /\ nx = Unlinked(ready_queues, next, q, r).nx
      BY <2>1, <2>6, <2>8, <2>9
    <2>11. /\ Lists(rq, nx)
           /\ \A p \in Queues, e \in Entries :
                OnQueue(rq, nx, p, e) <=> OnQueue(ready_queues, next, p, e) /\ e # r
      BY <2>5, <2>7, <2>8, <2>10, UnlinkedLists
    <2>12. ASSUME NEW e \in Entries PROVE InPlace(rq, nx, status'[e], priority'[e], e)
      <3>1. CASE e = r BY <2>3, <2>11, <3>1 DEF InPlace
      <3>2. CASE e # r
        <4>1. (status'[e] = -1 <=> status[e] = -1) /\ priority'[e] = priority[e]
          BY <2>1, <2>3, <3>2
        <4>2. priority[e] \in Queues BY <2>2 DEF TypeOK
        <4>3. \A p \in Queues : OnQueue(rq, nx, p, e) <=> OnQueue(ready_queues, next, p, e)
          BY <2>11, <3>2
        <4> QED BY <2>7, <4>1, <4>2, <4>3 DEF InPlace
      <3> QED BY <3>1, <3>2
    <2> QED BY <2>9, <2>11, <2>12 DEF QueuesInOrder
  <1> QED BY <1>2, <1>3

LEMMA QueuesStep ==
    ASSUME KernelInv, Next, QueuesInOrder, ~QueuesAgain
    PROVE  QueuesInOrder'
  <1>0. machine = "up"
    BY DEF Next, Boot, InitSpork, InitDispatch, Proceed, RunsOff, join, quit, blockMe, tick,
           spork, zap, unblockProc, Running
  <1>1. status \in [Entries -> {-1, 0, 1}] BY DEF KernelInv, TypeOK
  <1>2. ASSUME UNCHANGED <<table, status, links>> PROVE QueuesInOrder'
    BY <1>0, <1>2, LinksUntouched DEF table, links
  <1>3. ASSUME NEW r \in Entries, pc[r] \in {"run", "join"}, status' = [status EXCEPT ![r] = 1],
               UNCHANGED <<table, links>>
        PROVE  QueuesInOrder'
    <2>1. status[r] # -1 BY <1>3, Alive
    <2>2. \A s \in Entries : status'[s] = -1 <=> status[s] = -1 BY <1>1, <1>3, <2>1
    <2> QED BY <1>0, <1>3, <2>2, LinksUntouched DEF table, links
  <1>4. CASE Boot BY <1>2, <1>4 DEF Boot
  <1>5. CASE InitSpork BY <1>5, InitSporkQueued
  <1>6. CASE InitDispatch BY <1>2, <1>6 DEF InitDispatch
  <1>7. ASSUME NEW r \in Entries, Proceed(r) PROVE QueuesInOrder' BY <1>2, <1>7 DEF Proceed
  <1>8. ASSUME NEW r \in Entries, RunsOff(r) PROVE QueuesInOrder'
    BY <1>2, <1>8 DEF RunsOff, Stop
  <1>9. ASSUME NEW r \in Entries, join(r) PROVE QueuesInOrder'
    <2>1. pc[r] \in {"run", "join"} /\ JoinLoop(r) BY <1>9 DEF join, Running
    <2>2. CASE UNCHANGED <<priority, status, links>>
      BY <1>0, <2>2, LinksUntouched DEF links
    <2>3. CASE status' = [status EXCEPT ![r] = 1] /\ UNCHANGED <<table, links>>
      BY <1>3, <2>1, <2>3
    <2> QED BY <2>1, <2>2, <2>3 DEF JoinLoop
  <1>10. ASSUME NEW r \in Entries, quit(r) PROVE QueuesInOrder' BY <1>10, QuitQueued
  <1>11. ASSUME NEW r \in Entries, blockMe(r) PROVE QueuesInOrder'
    BY <1>3, <1>11 DEF blockMe, Running
  <1>12. ASSUME NEW r \in Entries, tick(r) PROVE QueuesInOrder' BY <1>2, <1>12 DEF tick
  <1>13. ASSUME NEW r \in Entries, NEW prio \in Priorities, spork(r, prio)
         PROVE  QueuesInOrder'
    BY <1>13, SporkQueued
  <1>14. ASSUME NEW r \in Entries, NEW n \in Pids \cup {next_pid}, zap(r, n) PROVE QueuesInOrder'
    <2>1. CASE Stop("error") BY <1>2, <2>1 DEF Stop
    <2>2. CASE pc[r] = "run" /\ status' = [status EXCEPT ![r] = 1] /\ UNCHANGED <<table, links>>
      BY <1>3, <2>2
    <2> QED BY <1>14, <2>1, <2>2 DEF zap, Running
  <1>15. \A r \in Entries, n \in Pids : ~unblockProc(r, n) BY DEF QueuesAgain
  <1> QED BY <1>4, <1>5, <1>6, <1>7, <1>8, <1>9, <1>10, <1>11, <1>12, <1>13, <1>14, <1>15
      DEF Next

(* Only unblockProc and the quit of a zapped process spoil the ready       *)
(* queues: every other operation of the process layer keeps them lists     *)
(* that hold each process that has not terminated once, on the queue of    *)
(* its priority, and no other (phase1b.c, 238-251, 386-400 and 591-605).   *)
THEOREM QueuesKeptInOrder == Spec => QueuesKept
  <1>1. KernelInv /\ KernelInv' /\ [Next]_vars =>
          [QueuesWellFormed /\ ~QueuesAgain => QueuesWellFormed']_vars
    <2>1. (KernelInv => (QueuesWellFormed <=> QueuesInOrder))' BY QueuesAre, PTL
    <2> QED BY <2>1, QueuesAre, QueuesStep
  <1> QED BY <1>1, KernelInvariant, PTL DEF Spec, QueuesKept

-----------------------------------------------------------------------------
LEMMA HeadsAreNat == \A rq, st : Heads(rq, st) \subseteq Nat
  BY DEF Heads, Queues

(* Who is chosen when the machine stops because it switches to itself.     *)
LEMMA SwitchedToSelf ==
    ASSUME NEW rq, NEW st, dispatcher(rq, st), machine = "up",
           machine' = "switch to itself"
    PROVE  \E q \in Queues : rq[q] = running_process /\ st[running_process] # 1
  <1>1. CASE Heads(rq, st) = {} BY <1>1 DEF dispatcher
  <1>2. CASE Heads(rq, st) # {}
    <2>1. Heads(rq, st) \subseteq Nat BY HeadsAreNat
    <2>2. PICK q \in Heads(rq, st) : \A r \in Heads(rq, st) : q <= r BY <1>2, <2>1, Least
    <2>3. PICK c \in Heads(rq, st) : Chosen(rq, st) = rq[c] BY <2>2 DEF Chosen
    <2>4. contextSwitch(Chosen(rq, st)) BY <1>2 DEF dispatcher
    <2>5. rq[c] = running_process BY <2>3, <2>4 DEF contextSwitch
    <2> QED BY <2>5 DEF Heads
  <1> QED BY <1>1, <1>2

(* The head of a queue is on it, and so is the second one. *)
LEMMA HeadOnQueue ==
    ASSUME NEW rq, NEW nx, NEW q
    PROVE  /\ 0 \in 0..MAXPROC /\ Nth(rq, nx, q)[0] = rq[q] /\ OnQueue(rq, nx, q, rq[q])
           /\ rq[q] # NULL => 1 \in 0..MAXPROC /\ Nth(rq, nx, q)[1] = nx[rq[q]]
  <1>1. Walks(Nth(rq, nx, q), rq, nx, q) BY NthWalks
  <1>2. 0 \in 0..MAXPROC /\ 1 \in 0..MAXPROC /\ 1 \in 1..MAXPROC /\ 1 - 1 = 0
    BY TableAssumption
  <1>3. Nth(rq, nx, q)[0] = rq[q] BY <1>1 DEF Walks
  <1>4. Nth(rq, nx, q)[1] = Follow(nx, Nth(rq, nx, q)[0]) BY <1>1, <1>2 DEF Walks
  <1> QED BY <1>2, <1>3, <1>4 DEF OnQueue, Follow

(* A process that quits is in front of no queue when the next is chosen. *)
LEMMA QuitNotChosen ==
    ASSUME KernelInv, QueuesInOrder, NEW r \in Entries, pc[r] = "run", machine = "up",
           quit(r), NEW q \in Queues, children[r] = <<>>
    PROVE  LET z == ZappersInFront(r)
               at == priority[r]
               queue == IF OnQueue(z.rq, z.nx, at, r) THEN Unlinked(z.rq, z.nx, at, r) ELSE z
           IN  queue.rq[q] # r
  <1> DEFINE z == ZappersInFront(r)
             at == priority[r]
             queue == IF OnQueue(z.rq, z.nx, at, r) THEN Unlinked(z.rq, z.nx, at, r) ELSE z
  <1>1. status[r] # -1 /\ TypeOK BY Alive DEF KernelInv
  <1>2. Lists(ready_queues, next) /\ OnQueue(ready_queues, next, at, r) /\ at \in Queues
    BY <1>1 DEF QueuesInOrder, InPlace, TypeOK
  <1>3. r \notin Zappers(r) BY DEF Zappers, ParentWoken
  <1>4. \A p \in Queues : z.rq[p] = IF ZappersAt(r, p) = {} THEN ready_queues[p]
                                    ELSE Highest(ZappersAt(r, p))
    BY DEF ZappersInFront
  <1>5. z.nx[r] = next[r] BY <1>3 DEF ZappersInFront
  <1>6. \A p \in Queues : ZappersAt(r, p) # {} => Highest(ZappersAt(r, p)) # r
    <2> TAKE p \in Queues
    <2>1. ZappersAt(r, p) \subseteq Zappers(r) /\ ZappersAt(r, p) \subseteq Entries
      BY DEF ZappersAt, Zappers
    <2> QED BY <1>3, <2>1, HighestIn
  <1> HIDE DEF z, at
  <1>7. \A p \in Queues : z.rq[p] = r => p = at /\ ready_queues[at] = r
    <2> SUFFICES ASSUME NEW p \in Queues, z.rq[p] = r PROVE p = at /\ ready_queues[at] = r
      OBVIOUS
    <2>1. ready_queues[p] = r BY <1>4, <1>6
    <2>2. PICK n \in 0..MAXPROC : Nth(ready_queues, next, at)[n] = r BY <1>2 DEF OnQueue
    <2>3. Nth(ready_queues, next, p)[0] = r /\ 0 \in 0..MAXPROC BY <2>1, HeadOnQueue
    <2>4. r # NULL BY EntriesType
    <2>5. p = at BY <1>2, <2>2, <2>3, <2>4 DEF Lists
    <2> QED BY <2>1, <2>5
  <1>8. ready_queues[at] = r => next[r] # r
    <2> SUFFICES ASSUME ready_queues[at] = r, next[r] = r PROVE FALSE OBVIOUS
    <2>1. r # NULL BY EntriesType
    <2>2. /\ 0 \in 0..MAXPROC /\ 1 \in 0..MAXPROC
          /\ Nth(ready_queues, next, at)[0] = r /\ Nth(ready_queues, next, at)[1] = r
      BY <2>1, HeadOnQueue
    <2>3. 0 = 1 BY <1>2, <2>1, <2>2 DEF Lists
    <2> QED BY <2>3
  <1>9. z.rq \in [Queues -> {z.rq[p] : p \in Queues}] BY DEF z, ZappersInFront
  <1>10. CASE z.rq[at] = r
    <2>1. OnQueue(z.rq, z.nx, at, r) BY <1>10, HeadOnQueue
    <2>2. queue.rq = [z.rq EXCEPT ![at] = z.nx[r]] BY <1>10, <2>1 DEF Unlinked
    <2> HIDE DEF queue
    <2>3. queue.rq[q] = IF q = at THEN z.nx[r] ELSE z.rq[q] BY <1>9, <2>2
    <2>4. queue.rq[q] # r BY <1>2, <1>5, <1>7, <1>8, <1>10, <2>3
    <2> QED BY <2>4 DEF queue, z, at
  <1>11. CASE z.rq[at] # r
    <2>1. queue.rq = z.rq BY <1>11 DEF Unlinked
    <2> HIDE DEF queue
    <2>2. queue.rq[q] # r BY <1>2, <1>7, <1>11, <2>1
    <2> QED BY <2>2 DEF queue, z, at
  <1> QED BY <1>10, <1>11

LEMMA SelfAwake ==
    ASSUME KernelInv, KernelInv', Next, QueuesInOrder, running_process # NULL,
           machine' = "switch to itself"
    PROVE  status'[running_process] = 0
  <1>0. machine = "up"
    BY DEF Next, Boot, InitSpork, InitDispatch, Proceed, RunsOff, join, quit, blockMe, tick,
           spork, zap, unblockProc, Running
  <1> DEFINE r == running_process
  <1>1. r \in Entries /\ TypeOK /\ status'[r] \in {-1, 0, 1}
    BY DEF KernelInv, TypeOK, Pointers
  (* Steps that leave the links alone: the one chosen was on a queue. *)
  <1>2. ASSUME dispatcher(ready_queues, status') PROVE status'[r] # 1 /\ status[r] # -1
    <2>1. PICK q \in Queues : ready_queues[q] = r /\ status'[r] # 1
      BY <1>0, <1>2, SwitchedToSelf
    <2>2. OnQueue(ready_queues, next, q, r) BY <2>1, HeadOnQueue
    <2>3. InPlace(ready_queues, next, status[r], priority[r], r)
      BY <1>0, <1>1 DEF QueuesInOrder
    <2> QED BY <2>1, <2>2, <2>3 DEF InPlace
  <1>3. ASSUME dispatcher(ready_queues, status), UNCHANGED status PROVE status'[r] = 0
    <2>1. dispatcher(ready_queues, status') BY <1>3
    <2> QED BY <1>1, <1>2, <1>3, <2>1
  <1>4. ASSUME NEW s \in Entries, status' = [status EXCEPT ![s] = 1],
               dispatcher(ready_queues, status')
        PROVE  status'[r] = 0
    <2>1. status'[r] \in {status[r], 1} BY <1>1, <1>4 DEF TypeOK
    <2> QED BY <1>1, <1>2, <1>4, <2>1
  <1>5. ASSUME NEW why \in Stops, Stop(why), why # "switch to itself" PROVE FALSE
    BY <1>5 DEF Stop
  <1>6. CASE Boot BY <1>6 DEF Boot
  <1>7. CASE InitSpork
    <2>1. running_process = init BY <1>7 DEF InitSpork
    <2>2. status'[init] = 0 BY DEF KernelInv, InitReady
    <2> QED BY <2>1, <2>2
  <1>8. CASE InitDispatch BY <1>3, <1>8 DEF InitDispatch
  <1>9. ASSUME NEW p \in Entries, Proceed(p) PROVE FALSE BY <1>0, <1>9 DEF Proceed
  <1>10. ASSUME NEW p \in Entries, RunsOff(p) PROVE FALSE BY <1>10 DEF RunsOff, Stop
  <1>11. ASSUME NEW p \in Entries, join(p) PROVE status'[r] = 0
    BY <1>0, <1>4, <1>11 DEF join, JoinLoop
  <1>12. ASSUME NEW p \in Entries, quit(p) PROVE FALSE
    <2>1. p = r /\ pc[r] = "run" BY <1>12 DEF quit, Running
    <2>2. /\ children[r] = <<>>
          /\ LET z == ZappersInFront(r)
                 at == priority[r]
                 queue == IF OnQueue(z.rq, z.nx, at, r) THEN Unlinked(z.rq, z.nx, at, r) ELSE z
             IN  dispatcher(queue.rq, status')
      BY <1>12, <2>1 DEF quit, Stop
    <2> DEFINE z == ZappersInFront(r)
               at == priority[r]
               queue == IF OnQueue(z.rq, z.nx, at, r) THEN Unlinked(z.rq, z.nx, at, r) ELSE z
    <2>3. \A q \in Queues : queue.rq[q] # r
      BY <1>0, <1>1, <1>12, <2>1, <2>2, QuitNotChosen
    <2>4. PICK rq : rq = queue.rq OBVIOUS
    <2>5. dispatcher(rq, status') BY <2>2, <2>4
    <2> HIDE DEF queue, z, at
    <2>6. \E q \in Queues : rq[q] = r BY <1>0, <2>5, SwitchedToSelf
    <2> QED BY <2>3, <2>4, <2>6
  <1>13. ASSUME NEW p \in Entries, blockMe(p) PROVE status'[r] = 0 BY <1>4, <1>13 DEF blockMe
  <1>14. ASSUME NEW p \in Entries, tick(p) PROVE status'[r] = 0 BY <1>3, <1>14 DEF tick
  <1>15. ASSUME NEW p \in Entries, NEW prio \in Priorities, spork(p, prio)
         PROVE  status'[r] = 0
    <2>1. p = r /\ pc[r] = "run" /\ FreeEntries # {} BY <1>15 DEF spork, Running
    <2>2. NewProcess(r, prio) BY <1>15, <2>1 DEF spork, Stop
    <2>3. status[r] # -1 /\ r \in Live BY <1>1, <2>1, Alive
    <2>4. FirstFree # r BY <1>1, <2>1, <2>3, FirstFreeIsFree DEF FreeEntries, Live
    <2>5. status' = [status EXCEPT ![FirstFree] = 0] BY <2>2 DEF NewProcess
    <2>6. status'[r] = status[r] BY <1>1, <2>4, <2>5 DEF TypeOK
    <2>7. PICK rq : rq = Appended(prio, FirstFree).rq OBVIOUS
    <2>8. dispatcher(rq, status') BY <1>0, <2>2, <2>7 DEF NewProcess
    <2>9. status'[r] # 1 BY <1>0, <2>8, SwitchedToSelf
    <2> QED BY <1>1, <2>3, <2>6, <2>9
  <1>16. ASSUME NEW p \in Entries, NEW n \in Pids \cup {next_pid}, zap(p, n) PROVE status'[r] = 0
    BY <1>4, <1>16 DEF zap, Stop
  <1>17. ASSUME NEW p \in Entries, NEW n \in Pids, unblockProc(p, n) PROVE status'[r] = 0
    <2>1. p = r /\ pc[r] = "run" BY <1>17 DEF unblockProc, Running
    <2>2. PICK s \in Entries : /\ status' = [status EXCEPT ![s] = 0]
                               /\ dispatcher(ready_queues', status')
      BY <1>17 DEF unblockProc, Stop
    <2>3. status[r] # -1 BY <1>1, <2>1, Alive
    <2>4. status'[r] \in {status[r], 0} BY <1>1, <2>2 DEF TypeOK
    <2>5. PICK rq, st : rq = ready_queues' /\ st = status' OBVIOUS
    <2>6. dispatcher(rq, st) BY <2>2, <2>5
    <2>7. st[r] # 1 BY <1>0, <2>6, SwitchedToSelf
    <2> QED BY <1>1, <2>3, <2>4, <2>5, <2>7
  <1> QED BY <1>6, <1>7, <1>8, <1>9, <1>10, <1>11, <1>12, <1>13, <1>14, <1>15, <1>16, <1>17
      DEF Next

(* While the ready queues are in order the dispatcher never chooses the    *)
(* process that has just stopped or fallen asleep: the switch of a process *)
(* to itself, which halts the machine (phase1b.c, 521-526), only ever      *)
(* befalls one that could have gone on.                                    *)
THEOREM OnlyTheAwakeSwitchToThemselves == Spec => NoSwitchToSleeper
  <1>1. KernelInv /\ KernelInv' /\ [Next]_vars =>
          [QueuesWellFormed /\ running_process # NULL /\ machine' = "switch to itself"
             => status'[running_process] = 0]_vars
    BY QueuesAre, SelfAwake
  <1> QED BY <1>1, KernelInvariant, PTL DEF Spec, NoSwitchToSleeper

=============================================================================
