----------------------------- MODULE UserProofs -----------------------------
(***************************************************************************)
(* Proofs about user processes, for any suite of programs that are well    *)
(* formed.  Phases 3 and 4a run together here: what is proved of the clock *)
(* driver and of the terminals alone is carried over to the programs, and  *)
(* Terminate is shown to wait for a whole family.  For that it matters     *)
(* where a process is while it sleeps: whoever wakes it moves it past its  *)
(* instruction, which must not be a spawn that was never made.             *)
(***************************************************************************)
EXTENDS UserPrograms, ClockDriverProofs, TerminalProofs

SemPlaces == {"idle", "semp", "semv"}
UserTypeOK ==
    /\ test \in Tests
    /\ ip \in [Processes -> Nat \ {0}] /\ kids \in [Processes -> Seq(Processes)]
    /\ pc \in [Users -> SemPlaces]

(* A process that sleeps is at the instruction it sleeps in; at a terminal *)
(* one that was not refused.                                               *)
TermCalled(p) ==
    \/ Is(p, "termread") /\ TermArgsValid(Ins(p).unit, TRUE, Ins(p).size)
    \/ Is(p, "termwrite") /\ TermArgsValid(Ins(p).unit, TRUE, Len(Ins(p).chars))
Attached(p) ==
    /\ p \in asleep => Is(p, "sleep")
    /\ pc[p] # "idle" => Is(p, "semp") \/ Is(p, "semv")
    /\ phase[p] # "idle" => TermCalled(p)

(* Whoever p has spawned is still its child or has quit.                   *)
Followed(p, k) == Ended(k) \/ \E i \in DOMAIN kids[p] : kids[p][i] = k
SpawnAt(p, j) == j \in DOMAIN Code(p) /\ Code(p)[j].op = "spawn"
Spawned(p) == \A j \in Nat : SpawnAt(p, j) /\ j < ip[p] => Followed(p, Code(p)[j].kid)

FamilyInv ==
    \A p \in Processes : Spawned(p) /\ (Ended(p) => kids[p] = <<>>)
UserInv ==
    /\ UserTypeOK /\ ClockInv /\ TermInv
    /\ \A p \in Processes : Attached(p)
    /\ FamilyInv

-----------------------------------------------------------------------------
(* The programs. *)
LEMMA CodeIs ==
    ASSUME UserTypeOK
    PROVE  /\ Processes \subseteq Users /\ Processes \subseteq Sleepers
           /\ \A p \in Processes : /\ WellFormed(Code(p), Processes)
                                   /\ Len(Code(p)) \in Nat /\ DOMAIN Code(p) = 1..Len(Code(p))
                                   /\ ip[p] \in Nat \ {0}
  BY UserAssumption DEF UserTypeOK, Processes, Code, WellFormed

(* An instruction that is not the end of the code. *)
LEMMA InsIs ==
    ASSUME UserTypeOK, NEW p \in Processes, ~Is(p, "quit")
    PROVE  ip[p] \in DOMAIN Code(p) /\ Ins(p) = Code(p)[ip[p]] /\ ~Ended(p)
  <1>1. Len(Code(p)) \in Nat /\ DOMAIN Code(p) = 1..Len(Code(p)) /\ ip[p] \in Nat \ {0} BY CodeIs
  <1>2. ip[p] <= Len(Code(p))
    <2> SUFFICES ASSUME ~(ip[p] <= Len(Code(p))) PROVE FALSE OBVIOUS
    <2>1. Ins(p) = [op |-> "quit"] BY DEF Ins
    <2> QED BY <2>1 DEF Is
  <1> QED BY <1>1, <1>2 DEF Ins, Ended

(* The family of the processes after a step in which those in Q go on, all *)
(* of them past instructions that are neither a spawn nor the end.         *)
GoOn(Q) ==
    /\ test' = test
    /\ ip' = [p \in Processes |-> IF p \in Q THEN ip[p] + 1 ELSE ip[p]]
Goes(Q) ==
    /\ GoOn(Q)
    /\ \A q \in Q : q \in Processes /\ ~Is(q, "spawn") /\ ~Is(q, "quit")

LEMMA SameProgram ==
    ASSUME test' = test
    PROVE  /\ Processes' = Processes
           /\ \A p : Code(p)' = Code(p)
           /\ \A p, j : SpawnAt(p, j)' = SpawnAt(p, j)
  BY DEF Processes, Code, SpawnAt

(* Nobody comes back to life, and who goes on does not quit. *)
LEMMA GoOnEnds ==
    ASSUME UserTypeOK, NEW Q, GoOn(Q), \A q \in Q : q \in Processes /\ ~Is(q, "quit")
    PROVE  /\ ip' \in [Processes -> Nat \ {0}]
           /\ \A p \in Processes : Ended(p)' <=> Ended(p)
  <1>1. ip \in [Processes -> Nat \ {0}] /\ test' = test BY DEF UserTypeOK, GoOn
  <1>2. ip' \in [Processes -> Nat \ {0}] BY <1>1 DEF GoOn
  <1>3. ASSUME NEW p \in Processes PROVE Ended(p)' <=> Ended(p)
    <2>1. Len(Code(p)) \in Nat /\ Len(Code(p))' = Len(Code(p)) BY <1>1, CodeIs, SameProgram
    <2>2. CASE p \in Q
      <3>1. ip'[p] = ip[p] + 1 BY <2>2 DEF GoOn
      <3>2. ip[p] \in 1..Len(Code(p)) BY <2>2, InsIs, CodeIs
      <3> QED BY <1>1, <2>1, <3>1, <3>2 DEF Ended
    <2>3. CASE p \notin Q
      <3>1. ip'[p] = ip[p] BY <2>3 DEF GoOn
      <3> QED BY <2>1, <3>1 DEF Ended
    <2> QED BY <2>2, <2>3
  <1> QED BY <1>2, <1>3

(* Steps in which the children stay. *)
LEMMA GoesFamily ==
    ASSUME UserTypeOK, FamilyInv, NEW Q, Goes(Q), kids' = kids
    PROVE  FamilyInv'
  <1>1. test' = test /\ GoOn(Q) BY DEF Goes, GoOn
  <1>2. /\ ip' \in [Processes -> Nat \ {0}]
        /\ \A p \in Processes : Ended(p)' <=> Ended(p)
    BY <1>1, GoOnEnds DEF Goes
  <1>3. Processes' = Processes BY <1>1, SameProgram
  <1>4. ASSUME NEW p \in Processes PROVE Spawned(p)' /\ (Ended(p)' => kids'[p] = <<>>)
    <2>1. Spawned(p) /\ (Ended(p) => kids[p] = <<>>) BY DEF FamilyInv
    <2>2. ASSUME NEW j \in Nat, SpawnAt(p, j), j < ip'[p] PROVE Followed(p, Code(p)[j].kid)'
      <3>1. ip[p] \in Nat \ {0} BY CodeIs
      <3>2. j < ip[p]
        <4>1. CASE p \in Q
          <5>1. ip'[p] = ip[p] + 1 BY <1>1, <4>1 DEF GoOn
          <5>2. Ins(p) = Code(p)[ip[p]] /\ Ins(p).op # "spawn"
            BY <4>1, InsIs DEF Goes, Is
          <5>3. j # ip[p] BY <2>2, <5>2 DEF SpawnAt
          <5> QED BY <2>2, <3>1, <5>1, <5>3
        <4>2. CASE p \notin Q BY <1>1, <2>2, <4>2 DEF GoOn
        <4> QED BY <4>1, <4>2
      <3>3. Followed(p, Code(p)[j].kid) BY <2>1, <2>2, <3>2 DEF Spawned
      <3>4. Code(p)[j].kid \in Processes BY <2>2, CodeIs DEF WellFormed, SpawnAt
      <3> QED BY <1>1, <1>2, <3>3, <3>4, SameProgram DEF Followed
    <2>3. Spawned(p)' BY <1>1, <2>2, SameProgram DEF Spawned
    <2> QED BY <1>2, <2>1, <2>3
  <1> QED BY <1>3, <1>4 DEF FamilyInv
(* A child more. *)
LEMMA SpawnFamily ==
    ASSUME UserTypeOK, FamilyInv, NEW p \in Processes, sys_spawn(p)
    PROVE  FamilyInv' /\ GoOn({p}) /\ kids' \in [Processes -> Seq(Processes)]
  <1> PICK kid : kid = Ins(p).kid OBVIOUS
  <1>1. /\ GoOn({p}) /\ Ins(p).op = "spawn" /\ test' = test
        /\ kids' = [kids EXCEPT ![p] = <<kid>> \o kids[p]]
    BY DEF sys_spawn, Spork, Finish, FinishAll, GoOn, Is
  <1>2. ip[p] \in DOMAIN Code(p) /\ Ins(p) = Code(p)[ip[p]] /\ ~Ended(p)
    BY <1>1, InsIs DEF Is
  <1>3. kid \in Processes BY <1>1, <1>2, CodeIs DEF WellFormed
  <1>4. kids \in [Processes -> Seq(Processes)] /\ kids[p] \in Seq(Processes) BY DEF UserTypeOK
  <1>5. /\ <<kid>> \o kids[p] \in Seq(Processes)
        /\ (<<kid>> \o kids[p])[1] = kid /\ 1 \in DOMAIN (<<kid>> \o kids[p])
        /\ \A i \in DOMAIN kids[p] : /\ i + 1 \in DOMAIN (<<kid>> \o kids[p])
                                     /\ (<<kid>> \o kids[p])[i + 1] = kids[p][i]
    BY <1>3, <1>4
  <1>6. kids' \in [Processes -> Seq(Processes)] BY <1>1, <1>4, <1>5
  <1>7. /\ ip' \in [Processes -> Nat \ {0}]
        /\ \A q \in Processes : Ended(q)' <=> Ended(q)
    BY <1>1, GoOnEnds DEF Is
  <1>8. ASSUME NEW q \in Processes, NEW k \in Processes, Followed(q, k) PROVE Followed(q, k)'
    <2>1. CASE Ended(k) BY <1>7, <2>1 DEF Followed
    <2>2. CASE \E i \in DOMAIN kids[q] : kids[q][i] = k
      <3>1. CASE q = p BY <1>1, <1>4, <1>5, <2>2, <3>1 DEF Followed
      <3>2. CASE q # p BY <1>1, <1>4, <2>2, <3>2 DEF Followed
      <3> QED BY <3>1, <3>2
    <2> QED BY <1>8, <2>1, <2>2 DEF Followed
  <1>9. Followed(p, kid)' BY <1>1, <1>4, <1>5 DEF Followed
  <1>10. ASSUME NEW q \in Processes PROVE Spawned(q)' /\ (Ended(q)' => kids'[q] = <<>>)
    <2>1. Spawned(q) /\ (Ended(q) => kids[q] = <<>>) BY DEF FamilyInv
    <2>2. ASSUME NEW j \in Nat, NEW k, SpawnAt(q, j), j < ip'[q], k = Code(q)[j].kid
          PROVE  Followed(q, k)'
      <3>1. ip[q] \in Nat \ {0} BY CodeIs
      <3>2. k \in Processes BY <2>2, CodeIs DEF WellFormed, SpawnAt
      <3>3. CASE j < ip[q] BY <1>8, <2>1, <2>2, <3>2, <3>3 DEF Spawned
      <3>4. CASE ~(j < ip[q])
        <4>1. q = p /\ j = ip[p] BY <1>1, <2>2, <3>1, <3>4 DEF GoOn
        <4>2. Code(q)[j].kid = kid BY <1>2, <4>1
        <4> QED BY <1>9, <2>2, <4>1, <4>2
      <3> QED BY <3>3, <3>4
    <2>3. Spawned(q)' BY <1>1, <2>2, SameProgram DEF Spawned
    <2>4. Ended(q)' => kids'[q] = <<>>
      <3> SUFFICES ASSUME Ended(q)' PROVE kids'[q] = <<>> OBVIOUS
      <3>1. Ended(q) BY <1>7
      <3>2. q # p BY <1>2, <3>1
      <3> QED BY <1>1, <1>4, <2>1, <3>1, <3>2
    <2> QED BY <2>3, <2>4
  <1>11. Processes' = Processes BY <1>1, SameProgram
  <1> QED BY <1>1, <1>6, <1>10, <1>11 DEF FamilyInv

LEMMA Concatenated ==
    ASSUME NEW T, NEW a \in Seq(T), NEW b \in Seq(T)
    PROVE  /\ a \o b \in Seq(T) /\ Len(a \o b) = Len(a) + Len(b)
           /\ \A j \in 1..Len(a) : (a \o b)[j] = a[j]
           /\ \A j \in 1..Len(b) : (a \o b)[Len(a) + j] = b[j]
  OBVIOUS

(* A child that has quit is taken off the list, while the parent stays     *)
(* where it is or goes on.                                                 *)
LEMMA Removed ==
    ASSUME NEW T, NEW s \in Seq(T), NEW i \in DOMAIN s
    PROVE  /\ RemoveAt(s, i) \in Seq(T)
           /\ \A j \in DOMAIN s : j # i =>
                \E l \in DOMAIN RemoveAt(s, i) : RemoveAt(s, i)[l] = s[j]
  <1>1. Len(s) \in Nat /\ DOMAIN s = 1..Len(s) /\ i \in 1..Len(s) OBVIOUS
  <1>2. PICK a \in Seq(T) :
          /\ a = SubSeq(s, 1, i - 1)
          /\ Len(a) = i - 1 /\ \A j \in 1..(i - 1) : a[j] = s[j]
    <2>1. SubSeq(s, 1, i - 1) \in Seq(T) /\ Len(SubSeq(s, 1, i - 1)) = i - 1 BY <1>1
    <2>2. \A j \in 1..(i - 1) : SubSeq(s, 1, i - 1)[j] = s[j] BY <1>1
    <2> QED BY <2>1, <2>2
  <1>3. PICK b \in Seq(T) :
          /\ b = SubSeq(s, i + 1, Len(s))
          /\ Len(b) = Len(s) - i /\ \A j \in 1..(Len(s) - i) : b[j] = s[i + j]
    <2>1. SubSeq(s, i + 1, Len(s)) \in Seq(T) /\ Len(SubSeq(s, i + 1, Len(s))) = Len(s) - i BY <1>1
    <2>2. \A j \in 1..(Len(s) - i) : SubSeq(s, i + 1, Len(s))[j] = s[i + j] BY <1>1
    <2> QED BY <2>1, <2>2
  <1>4. /\ a \o b \in Seq(T) /\ Len(a \o b) = Len(a) + Len(b)
        /\ \A j \in 1..Len(a) : (a \o b)[j] = a[j]
        /\ \A j \in 1..Len(b) : (a \o b)[Len(a) + j] = b[j]
    BY Concatenated
  <1>5. RemoveAt(s, i) = a \o b BY <1>2, <1>3 DEF RemoveAt
  <1>6. Len(a \o b) = Len(s) - 1 BY <1>1, <1>2, <1>3, <1>4
  <1>7. ASSUME NEW j \in 1..Len(s), j # i PROVE \E l \in 1..(Len(s) - 1) : (a \o b)[l] = s[j]
    <2>1. CASE j < i
      <3>1. j \in 1..(Len(s) - 1) /\ j \in 1..(i - 1) BY <1>1, <2>1
      <3>2. (a \o b)[j] = s[j] BY <1>2, <1>4, <3>1
      <3> QED BY <3>1, <3>2
    <2>2. CASE j > i
      <3>1. j - 1 \in 1..(Len(s) - 1) /\ j - i \in 1..(Len(s) - i) BY <1>1, <2>2
      <3>2. Len(a) + (j - i) = j - 1 /\ i + (j - i) = j BY <1>1, <1>2
      <3>3. (a \o b)[Len(a) + (j - i)] = b[j - i] BY <1>3, <1>4, <3>1
      <3>4. b[j - i] = s[i + (j - i)] BY <1>3, <3>1
      <3> QED BY <3>1, <3>2, <3>3, <3>4
    <2>3. j < i \/ j > i BY <1>1, <1>7
    <2> QED BY <2>1, <2>2, <2>3
  <1>8. a \o b \in Seq(T) /\ DOMAIN (a \o b) = 1..(Len(s) - 1) BY <1>4, <1>6
  <1> QED BY <1>1, <1>5, <1>7, <1>8

LEMMA ReapFamily ==
    ASSUME UserTypeOK, FamilyInv, NEW p \in Processes, NEW kid \in Processes, Reap(p, kid),
           NEW Q, Goes(Q)
    PROVE  FamilyInv' /\ kids' \in [Processes -> Seq(Processes)]
  <1>1. PICK i \in DOMAIN kids[p] :
          NewestQuit(p, i) /\ kids' = [kids EXCEPT ![p] = RemoveAt(kids[p], i)]
    BY DEF Reap
  <1>2. kids \in [Processes -> Seq(Processes)] /\ kids[p] \in Seq(Processes) BY DEF UserTypeOK
  <1> DEFINE rest == RemoveAt(kids[p], i)
  <1>3. /\ rest \in Seq(Processes)
        /\ \A j \in DOMAIN kids[p] : j # i => \E l \in DOMAIN rest : rest[l] = kids[p][j]
    BY <1>2, Removed
  <1> HIDE DEF rest
  <1>4. /\ kids' \in [Processes -> Seq(Processes)] /\ kids'[p] = rest
        /\ \A q \in Processes : q # p => kids'[q] = kids[q]
    BY <1>1, <1>2, <1>3 DEF rest
  <1>5. test' = test /\ GoOn(Q) BY DEF Goes, GoOn
  <1>6. /\ ip' \in [Processes -> Nat \ {0}]
        /\ \A q \in Processes : Ended(q)' <=> Ended(q)
    BY <1>5, GoOnEnds DEF Goes
  <1>7. Ended(kids[p][i]) /\ kids[p][i] \in Processes BY <1>1, <1>2 DEF NewestQuit
  <1>8. kids[p] # <<>> BY <1>1, <1>2
  <1>9. ASSUME NEW q \in Processes, NEW k \in Processes, Followed(q, k) PROVE Followed(q, k)'
    <2>1. CASE Ended(k) BY <1>6, <2>1 DEF Followed
    <2>2. CASE ~Ended(k)
      <3>1. PICK j \in DOMAIN kids[q] : kids[q][j] = k BY <1>9, <2>2 DEF Followed
      <3>2. CASE q = p
        <4>1. j # i BY <1>7, <2>2, <3>1, <3>2
        <4> QED BY <1>3, <1>4, <3>1, <3>2, <4>1 DEF Followed
      <3>3. CASE q # p BY <1>4, <3>1, <3>3 DEF Followed
      <3> QED BY <3>2, <3>3
    <2> QED BY <2>1, <2>2
  <1>10. ASSUME NEW q \in Processes PROVE Spawned(q)' /\ (Ended(q)' => kids'[q] = <<>>)
    <2>1. Spawned(q) /\ (Ended(q) => kids[q] = <<>>) BY DEF FamilyInv
    <2>2. ASSUME NEW j \in Nat, NEW k, SpawnAt(q, j), j < ip'[q], k = Code(q)[j].kid
          PROVE  Followed(q, k)'
      <3>1. ip[q] \in Nat \ {0} BY CodeIs
      <3>2. k \in Processes BY <2>2, CodeIs DEF WellFormed, SpawnAt
      <3>3. j < ip[q]
        <4>1. CASE q \in Q
          <5>1. ip'[q] = ip[q] + 1 BY <1>5, <4>1 DEF GoOn
          <5>2. Ins(q) = Code(q)[ip[q]] /\ Ins(q).op # "spawn" BY <4>1, InsIs DEF Goes, Is
          <5>3. j # ip[q] BY <2>2, <5>2 DEF SpawnAt
          <5> QED BY <2>2, <3>1, <5>1, <5>3
        <4>2. CASE q \notin Q BY <1>5, <2>2, <4>2 DEF GoOn
        <4> QED BY <4>1, <4>2
      <3> QED BY <1>9, <2>1, <2>2, <3>2, <3>3 DEF Spawned
    <2>3. Spawned(q)' BY <1>5, <2>2, SameProgram DEF Spawned
    <2>4. Ended(q)' => kids'[q] = <<>> BY <1>4, <1>6, <1>8, <2>1
    <2> QED BY <2>3, <2>4
  <1>11. Processes' = Processes BY <1>5, SameProgram
  <1> QED BY <1>4, <1>10, <1>11 DEF FamilyInv

(* A process quits with no child left, past its last spawn. *)
LEMMA QuitFamily ==
    ASSUME UserTypeOK, FamilyInv, NEW p \in Processes, Is(p, "terminate"), kids[p] = <<>>, Quit(p)
    PROVE  FamilyInv' /\ ip' \in [Processes -> Nat \ {0}]
  <1>1. /\ ip' = [ip EXCEPT ![p] = Len(Code(p)) + 2] /\ test' = test /\ kids' = kids
    BY DEF Quit, familyVars
  <1>2. /\ ip[p] \in DOMAIN Code(p) /\ Ins(p) = Code(p)[ip[p]] /\ Code(p)[ip[p]].op = "terminate"
    BY InsIs DEF Is
  <1>3. ip \in [Processes -> Nat \ {0}] /\ Len(Code(p)) \in Nat BY CodeIs DEF UserTypeOK
  <1>4. ip' \in [Processes -> Nat \ {0}] /\ ip'[p] = Len(Code(p)) + 2 BY <1>1, <1>3
  <1>5. \A q \in Processes : q # p => ip'[q] = ip[q] BY <1>1, <1>3
  <1>6. \A q \in Processes : Ended(q) => Ended(q)'
    BY <1>1, <1>3, <1>4, <1>5, SameProgram DEF Ended
  <1>7. \A q \in Processes : q # p => (Ended(q)' <=> Ended(q))
    BY <1>1, <1>5, SameProgram DEF Ended
  <1>8. ASSUME NEW q \in Processes PROVE Spawned(q)' /\ (Ended(q)' => kids'[q] = <<>>)
    <2>1. Spawned(q) /\ (Ended(q) => kids[q] = <<>>) BY DEF FamilyInv
    <2>2. ASSUME NEW j \in Nat, NEW k, SpawnAt(q, j), j < ip'[q], k = Code(q)[j].kid
          PROVE  Followed(q, k)'
      <3>1. k \in Processes BY <2>2, CodeIs DEF WellFormed, SpawnAt
      <3>2. j < ip[q]
        <4>1. CASE q # p BY <1>5, <2>2, <4>1
        <4>2. CASE q = p
          <5>1. WellFormed(Code(p), Processes) BY CodeIs
          <5>2. ip[p] \notin 1..(j - 1) BY <1>2, <2>2, <4>2, <5>1 DEF WellFormed, SpawnAt
          <5>3. j # ip[p] BY <1>2, <2>2, <4>2 DEF SpawnAt
          <5> QED BY <1>3, <4>2, <5>2, <5>3
        <4> QED BY <4>1, <4>2
      <3>3. Followed(q, k) BY <2>1, <2>2, <3>2 DEF Spawned
      <3> QED BY <1>1, <1>6, <3>1, <3>3 DEF Followed
    <2>3. Spawned(q)' BY <1>1, <2>2, SameProgram DEF Spawned
    <2>4. Ended(q)' => kids'[q] = <<>> BY <1>1, <1>7, <2>1
    <2> QED BY <2>3, <2>4
  <1>9. Processes' = Processes BY <1>1, SameProgram
  <1> QED BY <1>4, <1>8, <1>9 DEF FamilyInv
-----------------------------------------------------------------------------
(* Where the sleepers are. *)

(* Who goes on sleeps nowhere, and who stays has not gone to sleep but in  *)
(* the instruction it is at.                                               *)
Settled(Q) ==
    /\ \A p \in Q : p \notin asleep' /\ pc'[p] = "idle" /\ phase'[p] = "idle"
    /\ \A p \in Processes : p \notin Q =>
         /\ p \in asleep' => p \in asleep \/ Is(p, "sleep")
         /\ pc'[p] # "idle" => pc[p] # "idle" \/ Is(p, "semp") \/ Is(p, "semv")
         /\ phase'[p] # "idle" => phase[p] # "idle" \/ TermCalled(p)

LEMMA IsKept ==
    ASSUME test' = test, NEW p \in Processes, ip'[p] = ip[p], NEW op
    PROVE  Is(p, op)' = Is(p, op) /\ TermCalled(p)' = TermCalled(p)
  <1>1. Ins(p)' = Ins(p) BY DEF Ins, Code
  <1> QED BY <1>1 DEF Is, TermCalled, TermArgsValid, Units

LEMMA GoOnAttached ==
    ASSUME \A p \in Processes : Attached(p), NEW Q, Q \subseteq Processes, GoOn(Q), Settled(Q)
    PROVE  \A p \in Processes' : Attached(p)'
  <1>1. test' = test BY DEF GoOn
  <1>2. ASSUME NEW p \in Processes PROVE Attached(p)'
    <2>1. CASE p \in Q BY <2>1 DEF Settled, Attached
    <2>2. CASE p \notin Q
      <3>1. ip'[p] = ip[p] BY <2>2 DEF GoOn
      <3>2. /\ Is(p, "sleep")' = Is(p, "sleep")
            /\ Is(p, "semp")' = Is(p, "semp") /\ Is(p, "semv")' = Is(p, "semv")
            /\ TermCalled(p)' = TermCalled(p)
        BY <1>1, <3>1, IsKept
      <3>3. /\ p \in asleep' => Is(p, "sleep")
            /\ pc'[p] # "idle" => Is(p, "semp") \/ Is(p, "semv")
            /\ phase'[p] # "idle" => TermCalled(p)
        BY <2>2 DEF Settled, Attached
      <3> QED BY <3>2, <3>3 DEF Attached
    <2> QED BY <2>1, <2>2
  <1> QED BY <1>1, <1>2, SameProgram

(* A process that calls something else than the layer it would sleep in.   *)
LEMMA Awake ==
    ASSUME NEW p \in Processes, Attached(p)
    PROVE  /\ ~Is(p, "sleep") => p \notin asleep
           /\ ~Is(p, "semp") /\ ~Is(p, "semv") => pc[p] = "idle"
           /\ ~TermCalled(p) => phase[p] = "idle"
           /\ ~Is(p, "termread") /\ ~Is(p, "termwrite") => phase[p] = "idle"
  BY DEF Attached, TermCalled

(* The calls on semaphores put nobody to sleep but the caller.             *)
LEMMA SemPlace ==
    ASSUME UserTypeOK, NEW p \in Users, NEW v, NEW s,
           S!sys_semcreate(p, v) \/ S!sys_semp(p, s) \/ S!sys_semv(p, s)
    PROVE  /\ pc' \in [Users -> SemPlaces]
           /\ \A q \in Users : q # p /\ pc'[q] # "idle" => pc[q] # "idle"
           /\ S!sys_semcreate(p, v) => pc'[p] = "idle"
  <1>1. pc \in [Users -> SemPlaces] BY DEF UserTypeOK
  <1>2. ASSUME NEW woken, NEW rc, S!Return(p, woken, rc)
        PROVE  /\ pc' \in [Users -> SemPlaces] /\ pc'[p] = "idle"
               /\ \A q \in Users : q # p /\ pc'[q] # "idle" => pc[q] # "idle"
    BY <1>1, <1>2 DEF S!Return, SemPlaces
  <1>3. ASSUME NEW op \in {"semp", "semv"}, S!Sleep(p, s, op)
        PROVE  /\ pc' \in [Users -> SemPlaces]
               /\ \A q \in Users : q # p /\ pc'[q] # "idle" => pc[q] # "idle"
    BY <1>1, <1>3 DEF S!Sleep, SemPlaces
  <1>4. S!sys_semcreate(p, v) => \E woken, rc : S!Return(p, woken, rc)
    BY DEF S!sys_semcreate, S!Create, S!Fail
  <1>5. S!sys_semp(p, s) => \/ \E woken, rc : S!Return(p, woken, rc)
                            \/ \E op \in {"semp", "semv"} : S!Sleep(p, s, op)
    BY DEF S!sys_semp, S!P, S!MboxRecv, S!Fail
  <1>6. S!sys_semv(p, s) => \/ \E woken, rc : S!Return(p, woken, rc)
                            \/ \E op \in {"semp", "semv"} : S!Sleep(p, s, op)
    BY DEF S!sys_semv, S!V, S!MboxSend, S!Fail
  <1> QED BY <1>2, <1>3, <1>4, <1>5, <1>6

(* The calls on terminals put nobody to sleep but the caller, and an       *)
(* interrupt nobody at all: who is in waitDevice was asleep.               *)
LEMMA TermPlace ==
    ASSUME TermTypeOK, NEW p \in Users, NEW u \in Units, NEW chars,
           sys_term_read(p, u) \/ sys_term_write(p, u, chars) \/ WriteChar(p, u) \/ WriteDone(p, u)
    PROVE  \A q \in Users : q # p /\ phase'[q] # "idle" => phase[q] # "idle"
  <1>1. phase \in [Users -> {"idle", "read", "lock", "output", "status"}] BY DEF TermTypeOK
  <1>2. CASE sys_term_read(p, u) BY <1>1, <1>2 DEF sys_term_read
  <1>3. CASE sys_term_write(p, u, chars) BY <1>1, <1>3 DEF sys_term_write
  <1>4. CASE WriteChar(p, u) BY <1>1, <1>4 DEF WriteChar
  <1>5. CASE WriteDone(p, u)
    <2>1. PICK rest : phase' = HandOn(p, rest) BY <1>5 DEF WriteDone
    <2>2. ASSUME NEW q \in Users, q # p, phase'[q] # "idle" PROVE phase[q] # "idle"
      <3>1. (phase'[q] = "output" /\ phase[q] = "lock") \/ phase'[q] = phase[q]
        BY <2>1, <2>2 DEF HandOn
      <3> QED BY <2>2, <3>1
    <2> QED BY <2>2
  <1> QED BY <1>2, <1>3, <1>4, <1>5

LEMMA InterruptPlace ==
    ASSUME TermInv, NEW u \in Units, Interrupt(u)
    PROVE  \A q \in Users : phase'[q] # "idle" => phase[q] # "idle"
  <1>1. TermTypeOK /\ DeviceQueue BY DEF TermInv
  <1>2. phase \in [Users -> {"idle", "read", "lock", "output", "status"}] BY <1>1 DEF TermTypeOK
  <1>3. ASSUME NEW c, Stored(u, c) PROVE phase' = phase BY <1>3 DEF Stored
  <1>4. CASE ToWriter(u)
    <2>1. waiters[u] \in Seq(Users \cup Drivers) BY <1>1 DEF TermTypeOK
    <2>2. waiters[u] # <<>> /\ Head(waiters[u]) \in Users BY <1>4, <2>1 DEF ToWriter
    <2>3. 1 \in 1..Len(waiters[u]) /\ Head(waiters[u]) = waiters[u][1] BY <2>1, <2>2
    <2>4. phase[Head(waiters[u])] = "status" BY <1>1, <2>2, <2>3 DEF DeviceQueue
    <2>5. phase' = [phase EXCEPT ![Head(waiters[u])] = "output"] BY <1>4 DEF ToWriter
    <2> QED BY <1>2, <2>2, <2>4, <2>5
  <1>5. ASSUME NEW c, ToDriver(u, c)
        PROVE  \A q \in Users : phase'[q] # "idle" => phase[q] # "idle"
    BY <1>2, <1>5, TermDriverIs DEF ToDriver, Added, ToReader, ToMailbox
  <1>6. \/ phase' = phase \/ ToWriter(u) \/ \E c : Stored(u, c) \/ ToDriver(u, c)
    BY <1>1, InterruptIs
  <1> QED BY <1>3, <1>4, <1>5, <1>6
-----------------------------------------------------------------------------
(* The steps. *)
LEMMA InvIs ==
    ASSUME UserInv
    PROVE  /\ UserTypeOK /\ ClockInv /\ TermInv /\ TermTypeOK /\ FamilyInv
           /\ \A p \in Processes : Attached(p)
           /\ Processes \subseteq Users /\ Processes \subseteq Sleepers
  BY CodeIs DEF UserInv, TermInv

(* What stays the same needs no proof.                                     *)
LEMMA ClockSame == ASSUME ClockInv, UNCHANGED clockVars PROVE ClockInv'
  BY ClockAnyInv
LEMMA TermSame == ASSUME TermInv, UNCHANGED termVars PROVE TermInv'
  BY TermAnyKept

(* A step that ends instructions, no spawn among them. *)
LEMMA GoesInv ==
    ASSUME UserInv, NEW Q, Goes(Q), Settled(Q), kids' = kids,
           pc' \in [Users -> SemPlaces], ClockInv', TermInv'
    PROVE  UserInv'
  <1>1. UserTypeOK /\ FamilyInv /\ \A p \in Processes : Attached(p) BY InvIs
  <1>2. GoOn(Q) /\ Q \subseteq Processes /\ test' = test BY DEF Goes, GoOn
  <1>3. FamilyInv' BY <1>1, GoesFamily
  <1>4. \A p \in Processes' : Attached(p)' BY <1>1, <1>2, GoOnAttached
  <1>5. ip' \in [Processes -> Nat \ {0}] BY <1>1, <1>2, GoOnEnds DEF Goes
  <1>6. UserTypeOK' BY <1>1, <1>2, <1>5, SameProgram DEF UserTypeOK
  <1> QED BY <1>3, <1>4, <1>6 DEF UserInv

LEMMA NobodyGoes ==
    ASSUME UserInv, UNCHANGED <<test, ip>>
    PROVE  Goes({})
  <1>1. ip \in [Processes -> Nat \ {0}] BY InvIs DEF UserTypeOK
  <1> QED BY <1>1 DEF Goes, GoOn

(* trampoline, Halt, and no step at all. *)
LEMMA RestInv ==
    ASSUME UserInv, UNCHANGED <<test, ip, kids, pc, asleep, phase>>, ClockInv', TermInv'
    PROVE  UserInv'
  <1>1. Goes({}) BY NobodyGoes
  <1>2. Settled({}) BY DEF Settled
  <1>3. pc' \in [Users -> SemPlaces] BY InvIs DEF UserTypeOK
  <1> QED BY <1>1, <1>2, <1>3, GoesInv

LEMMA HaltInv ==
    ASSUME UserInv, NEW p, Halt(p)
    PROVE  UserInv'
  <1>1. /\ UNCHANGED <<test, ip, kids, pc, asleep, phase>> /\ UNCHANGED termVars
        /\ UNCHANGED <<tickCount, clockMbox, driver, req, asleep, due>> /\ machine' = "stopped"
    BY DEF Halt, progVars, semVars, termVars
  <1>2. TermInv' BY <1>1, TermSame, InvIs
  <1>3. ClockInv BY InvIs
  <1>4. ClockInv'
    BY <1>1, <1>3 DEF ClockInv, ClockTypeOK, OneRequestEach, Counted, Stamped, Ranked,
         ClockNeverHalts, Places, RequestAt, Fits, Overslept, InHand, Scanning, Wrap
  <1> QED BY <1>1, <1>2, <1>4, RestInv

(* One process ends an instruction that nobody sleeps in. *)
LEMMA OneGoes ==
    ASSUME UserInv, NEW p \in Processes, GoOn({p}), UNCHANGED <<pc, asleep, phase>>,
           \A op \in {"sleep", "semp", "semv", "termread", "termwrite"} : ~Is(p, op)
    PROVE  Settled({p})
  <1>1. Attached(p) BY InvIs
  <1>2. p \notin asleep /\ pc[p] = "idle" /\ phase[p] = "idle" BY <1>1, Awake
  <1> QED BY <1>2 DEF Settled

(* Spawn, Wait and Terminate. *)
LEMMA SpawnInv ==
    ASSUME UserInv, NEW p \in Processes, sys_spawn(p), UNCHANGED <<pc, asleep, phase>>,
           ClockInv', TermInv'
    PROVE  UserInv'
  <1>1. UserTypeOK /\ FamilyInv /\ \A q \in Processes : Attached(q) BY InvIs
  <1>2. FamilyInv' /\ GoOn({p}) /\ kids' \in [Processes -> Seq(Processes)] BY <1>1, SpawnFamily
  <1>3. Is(p, "spawn") BY DEF sys_spawn
  <1>4. Settled({p}) BY <1>2, <1>3, OneGoes DEF Is
  <1>5. \A q \in Processes' : Attached(q)' BY <1>1, <1>2, <1>4, GoOnAttached
  <1>6. test' = test BY <1>2 DEF GoOn
  <1>7. ip' \in [Processes -> Nat \ {0}] BY <1>1, <1>2, <1>3, GoOnEnds DEF Is
  <1>8. UserTypeOK' BY <1>1, <1>2, <1>6, <1>7, SameProgram DEF UserTypeOK
  <1> QED BY <1>2, <1>5, <1>8 DEF UserInv

LEMMA ReapInv ==
    ASSUME UserInv, NEW p \in Processes, NEW kid \in Processes, Reap(p, kid),
           NEW Q, Goes(Q), Settled(Q), UNCHANGED <<pc, asleep, phase>>, ClockInv', TermInv'
    PROVE  UserInv'
  <1>1. UserTypeOK /\ FamilyInv /\ \A q \in Processes : Attached(q) BY InvIs
  <1>2. FamilyInv' /\ kids' \in [Processes -> Seq(Processes)] BY <1>1, ReapFamily
  <1>3. GoOn(Q) /\ Q \subseteq Processes /\ test' = test BY DEF Goes, GoOn
  <1>4. \A q \in Processes' : Attached(q)' BY <1>1, <1>3, GoOnAttached
  <1>5. ip' \in [Processes -> Nat \ {0}] BY <1>1, <1>3, GoOnEnds DEF Goes
  <1>6. UserTypeOK' BY <1>1, <1>2, <1>3, <1>5, SameProgram DEF UserTypeOK
  <1> QED BY <1>2, <1>4, <1>6 DEF UserInv

LEMMA WaitInv ==
    ASSUME UserInv, NEW p \in Processes, sys_wait(p), UNCHANGED <<pc, asleep, phase>>,
           ClockInv', TermInv'
    PROVE  UserInv'
  <1>1. Ins(p).op = "wait" BY DEF sys_wait, Is
  <1>2. GoOn({p}) BY DEF sys_wait, Finish, FinishAll, GoOn
  <1>3. Goes({p}) /\ Settled({p}) BY <1>1, <1>2, OneGoes DEF Goes, Is
  <1>4. CASE kids' = kids
    <2>1. pc' \in [Users -> SemPlaces] BY InvIs DEF UserTypeOK
    <2> QED BY <1>3, <1>4, <2>1, GoesInv
  <1>5. ASSUME NEW kid \in Processes, Reap(p, kid) PROVE UserInv' BY <1>3, <1>5, ReapInv
  <1>6. kids' = kids \/ \E kid \in Processes : Reap(p, kid) BY DEF sys_wait, familyVars
  <1> QED BY <1>4, <1>5, <1>6

LEMMA TerminateInv ==
    ASSUME UserInv, NEW p \in Processes, sys_terminate(p), UNCHANGED <<pc, asleep, phase>>,
           ClockInv', TermInv'
    PROVE  UserInv'
  <1>1. UserTypeOK /\ FamilyInv /\ \A q \in Processes : Attached(q) BY InvIs
  <1>2. Ins(p).op = "terminate" BY DEF sys_terminate, Is
  <1>3. ASSUME NEW kid \in Processes, Reap(p, kid), UNCHANGED <<test, ip>> PROVE UserInv'
    <2>1. Goes({}) BY <1>3, NobodyGoes
    <2>2. Settled({}) BY DEF Settled
    <2> QED BY <1>3, <2>1, <2>2, ReapInv
  <1>4. ASSUME kids[p] = <<>>, Quit(p) PROVE UserInv'
    <2>1. FamilyInv' /\ ip' \in [Processes -> Nat \ {0}] BY <1>1, <1>2, <1>4, QuitFamily DEF Is
    <2>2. /\ test' = test /\ kids' = kids
          /\ \A q \in Processes : q # p => ip'[q] = ip[q]
      BY <1>1, <1>4 DEF Quit, familyVars, UserTypeOK
    <2>3. ASSUME NEW q \in Processes PROVE Attached(q)'
      <3>1. CASE q = p
        <4>1. p \notin asleep /\ pc[p] = "idle" /\ phase[p] = "idle" BY <1>1, <1>2, Awake DEF Is
        <4> QED BY <3>1, <4>1 DEF Attached
      <3>2. CASE q # p
        <4>1. Attached(q) /\ ip'[q] = ip[q] BY <1>1, <2>2, <3>2
        <4>2. /\ Is(q, "sleep")' = Is(q, "sleep")
              /\ Is(q, "semp")' = Is(q, "semp") /\ Is(q, "semv")' = Is(q, "semv")
              /\ TermCalled(q)' = TermCalled(q)
          BY <2>2, <4>1, IsKept
        <4> QED BY <4>1, <4>2 DEF Attached
      <3> QED BY <3>1, <3>2
    <2>4. UserTypeOK' BY <1>1, <2>1, <2>2, SameProgram DEF UserTypeOK
    <2> QED BY <2>1, <2>2, <2>3, <2>4, SameProgram DEF UserInv
  <1> QED BY <1>3, <1>4 DEF sys_terminate

LEMMA FamilyCallInv ==
    ASSUME UserInv, NEW p \in Processes, FamilyCall(p)
    PROVE  UserInv'
  <1>1. UNCHANGED <<pc, asleep, phase>> /\ UNCHANGED clockVars /\ UNCHANGED termVars
    BY DEF FamilyCall, semVars, clockVars, termVars
  <1>2. ClockInv' /\ TermInv' BY <1>1, InvIs, ClockSame, TermSame
  <1>3. ASSUME Is(p, "external"), Finish(p, TRUE), UNCHANGED familyVars PROVE UserInv'
    <2>1. GoOn({p}) BY <1>3 DEF Finish, FinishAll, GoOn
    <2>2. Goes({p}) /\ Settled({p}) BY <1>1, <1>3, <2>1, OneGoes DEF Goes, Is
    <2>3. kids' = kids /\ pc' \in [Users -> SemPlaces] BY <1>1, <1>3, InvIs DEF UserTypeOK, familyVars
    <2> QED BY <1>2, <2>2, <2>3, GoesInv
  <1> QED BY <1>1, <1>2, <1>3, SpawnInv, WaitInv, TerminateInv DEF FamilyCall
(* The semaphores. *)
LEMMA SemCallInv ==
    ASSUME UserInv, NEW p \in Processes, SemCall(p)
    PROVE  UserInv'
  <1>1. UserTypeOK /\ p \in Users /\ Processes \subseteq Users /\ \A q \in Processes : Attached(q)
    BY InvIs
  <1>2. UNCHANGED <<kids, asleep, phase>> /\ UNCHANGED clockVars /\ UNCHANGED termVars
    BY DEF SemCall, familyVars, clockVars, termVars
  <1>3. ClockInv' /\ TermInv' BY <1>2, InvIs, ClockSame, TermSame
  <1>4. GoOn(SemReturned(p)) BY DEF SemCall, FinishAll, GoOn
  <1>5. PICK v, s :
          \/ Is(p, "semcreate") /\ S!sys_semcreate(p, v)
          \/ Is(p, "semp") /\ S!sys_semp(p, s)
          \/ Is(p, "semv") /\ S!sys_semv(p, s)
    BY DEF SemCall
  <1>6. /\ pc' \in [Users -> SemPlaces]
        /\ \A q \in Users : q # p /\ pc'[q] # "idle" => pc[q] # "idle"
        /\ S!sys_semcreate(p, v) => pc'[p] = "idle"
    BY <1>1, <1>5, SemPlace
  <1>7. ASSUME NEW q \in SemReturned(p)
        PROVE  /\ q \in Processes /\ Ins(q).op \in {"semcreate", "semp", "semv"}
               /\ q \notin asleep' /\ pc'[q] = "idle" /\ phase'[q] = "idle"
    <2>1. q \in Processes /\ pc'[q] = "idle" /\ (q = p \/ pc[q] # "idle") BY DEF SemReturned
    <2>2. Ins(q).op \in {"semcreate", "semp", "semv"} BY <1>1, <1>5, <2>1 DEF Attached, Is
    <2>3. q \notin asleep /\ phase[q] = "idle" BY <1>1, <2>1, <2>2, Awake DEF Is
    <2> QED BY <1>2, <2>1, <2>2, <2>3
  <1>8. ASSUME NEW q \in Processes, q \notin SemReturned(p), pc'[q] # "idle"
        PROVE  pc[q] # "idle" \/ Is(q, "semp") \/ Is(q, "semv")
    BY <1>1, <1>5, <1>6, <1>8
  <1>9. Goes(SemReturned(p)) BY <1>4, <1>7 DEF Goes, Is
  <1>10. Settled(SemReturned(p)) BY <1>2, <1>7, <1>8 DEF Settled
  <1> QED BY <1>2, <1>3, <1>6, <1>9, <1>10, GoesInv

(* Sleep, and the clock driver that wakes. *)
LEMMA SleepCallInv ==
    ASSUME UserInv, NEW p \in Processes, SleepCall(p)
    PROVE  UserInv'
  <1>1. UserTypeOK /\ ClockInv /\ TermInv /\ p \in Sleepers /\ \A q \in Processes : Attached(q)
    BY InvIs
  <1>2. Ins(p).op = "sleep" /\ sys_sleep(p, Ins(p).seconds) BY DEF SleepCall, Is
  <1>3. UNCHANGED <<kids, pc, phase>> /\ UNCHANGED termVars
    BY DEF SleepCall, familyVars, semVars, termVars
  <1>4. Ins(p).seconds \in Int
    <2>1. ip[p] \in DOMAIN Code(p) /\ Ins(p) = Code(p)[ip[p]] BY <1>1, <1>2, InsIs DEF Is
    <2> QED BY <1>1, <1>2, <2>1, CodeIs DEF WellFormed
  <1>5. ClockInv' BY <1>1, <1>2, <1>4, ClockAnyInv DEF ClockAnyNext
  <1>6. TermInv' BY <1>1, <1>3, TermSame
  <1>7. GoOn({p} \ asleep') BY DEF SleepCall, FinishAll, GoOn
  <1>8. \A q \in Processes : q # p /\ q \in asleep' => q \in asleep
    BY <1>2 DEF sys_sleep, clockVars
  <1>9. pc[p] = "idle" /\ phase[p] = "idle" BY <1>1, <1>2, Awake DEF Is
  <1>10. Goes({p} \ asleep') BY <1>2, <1>7 DEF Goes, Is
  <1>11. Settled({p} \ asleep')
    <2>1. Is(p, "sleep") BY <1>2 DEF Is
    <2> QED BY <1>3, <1>8, <1>9, <2>1 DEF Settled
  <1>12. pc' \in [Users -> SemPlaces] BY <1>1, <1>3 DEF UserTypeOK
  <1> QED BY <1>3, <1>5, <1>6, <1>10, <1>11, <1>12, GoesInv

LEMMA ClockStepUserInv ==
    ASSUME UserInv, ClockStep
    PROVE  UserInv'
  <1>1. UserTypeOK /\ ClockInv /\ TermInv /\ \A q \in Processes : Attached(q) BY InvIs
  <1>2. ClockAnyNext BY DEF ClockStep, ClockAnyNext
  <1>3. UNCHANGED <<kids, pc, phase>> /\ UNCHANGED termVars
    BY DEF ClockStep, familyVars, semVars, termVars
  <1>4. ClockInv' /\ TermInv' BY <1>1, <1>2, <1>3, ClockAnyInv, TermSame
  <1> PICK Q : Q = (asleep \ asleep') \cap Processes OBVIOUS
  <1>5. GoOn(Q) BY DEF ClockStep, FinishAll, GoOn
  <1>6. asleep' \subseteq asleep
    BY DEF ClockStep, Tick, DriverStep, NextRequest, WakeSleeper, PutBack
  <1>7. ASSUME NEW q \in Q
        PROVE  q \in Processes /\ Ins(q).op = "sleep" /\ pc[q] = "idle" /\ phase[q] = "idle"
    <2>1. q \in Processes /\ Ins(q).op = "sleep" BY <1>1 DEF Attached, Is
    <2> QED BY <1>1, <2>1, Awake DEF Is
  <1>8. Goes(Q) BY <1>5, <1>7 DEF Goes, Is
  <1>9. Settled(Q) BY <1>3, <1>6, <1>7 DEF Settled
  <1>10. pc' \in [Users -> SemPlaces] BY <1>1, <1>3 DEF UserTypeOK
  <1> QED BY <1>3, <1>4, <1>8, <1>9, <1>10, GoesInv

(* The terminals. *)
LEMMA TermReturns ==
    ASSUME UserInv, NEW Q, Q \subseteq Processes, GoOn(Q), UNCHANGED <<kids, pc, asleep>>,
           ClockInv', TermInv',
           \A q \in Q : phase'[q] = "idle" /\ Ins(q).op \in {"termread", "termwrite"},
           \A q \in Processes : q \notin Q /\ phase'[q] # "idle" => phase[q] # "idle" \/ TermCalled(q)
    PROVE  UserInv'
  <1>1. UserTypeOK /\ \A q \in Processes : Attached(q) BY InvIs
  <1>2. Goes(Q) BY DEF Goes, Is
  <1>3. \A q \in Q : q \notin asleep /\ pc[q] = "idle" BY <1>1, Awake DEF Is
  <1>4. Settled(Q) BY <1>3 DEF Settled
  <1>5. pc' \in [Users -> SemPlaces] BY <1>1 DEF UserTypeOK
  <1> QED BY <1>2, <1>4, <1>5, GoesInv

LEMMA TermCallInv ==
    ASSUME UserInv, NEW p \in Processes, TermCall(p)
    PROVE  UserInv'
  <1>1. /\ UserTypeOK /\ TermInv /\ TermTypeOK /\ p \in Users /\ Processes \subseteq Users
        /\ \A q \in Processes : Attached(q)
    BY InvIs
  <1> PICK u : u = Ins(p).unit OBVIOUS
  <1>2. UNCHANGED <<kids, pc, asleep>> /\ UNCHANGED clockVars
    BY DEF TermCall, familyVars, semVars, clockVars
  <1>3. ClockInv' BY <1>2, InvIs, ClockSame
  <1>4. Ins(p).op \in {"termread", "termwrite"} BY DEF TermCall, Is
  <1>5. ip[p] \in DOMAIN Code(p) /\ Ins(p) = Code(p)[ip[p]] BY <1>1, <1>4, InsIs DEF Is
  <1>6. ASSUME NEW chars \in Seq(ControlWord), TermCalled(p), u \in Units,
               FinishAll(TermReturned(p), TermExpected),
               \/ sys_term_read(p, u) \/ sys_term_write(p, u, chars)
               \/ WriteChar(p, u) \/ WriteDone(p, u)
        PROVE  UserInv'
    <2>1. TermAnyNext BY <1>1, <1>6 DEF TermAnyNext
    <2>2. TermInv' BY <1>1, <2>1, TermAnyKept
    <2>3. \A q \in Users : q # p /\ phase'[q] # "idle" => phase[q] # "idle" BY <1>1, <1>6, TermPlace
    <2>4. GoOn(TermReturned(p)) BY <1>6 DEF FinishAll, GoOn
    <2>5. ASSUME NEW q \in TermReturned(p)
          PROVE  q \in Processes /\ phase'[q] = "idle" /\ Ins(q).op \in {"termread", "termwrite"}
      BY <1>1, <1>4 DEF TermReturned, Attached, TermCalled, Is
    <2>6. \A q \in Processes : q \notin TermReturned(p) /\ phase'[q] # "idle" =>
            phase[q] # "idle" \/ TermCalled(q)
      BY <1>1, <1>6, <2>3
    <2>7. TermReturned(p) \subseteq Processes BY DEF TermReturned
    <2> QED BY <1>2, <1>3, <2>2, <2>4, <2>5, <2>6, <2>7, TermReturns
  <1>7. ASSUME NEW expected, Finish(p, expected), ~TermCalled(p), UNCHANGED termVars PROVE UserInv'
    <2>1. TermInv' /\ phase' = phase BY <1>1, <1>7, TermSame DEF termVars
    <2>2. GoOn({p}) BY <1>7 DEF Finish, FinishAll, GoOn
    <2>3. phase[p] = "idle" BY <1>1, <1>7, Awake
    <2> QED BY <1>2, <1>3, <1>4, <2>1, <2>2, <2>3, TermReturns
  <1>8. CASE Is(p, "termread") /\ TermArgsValid(u, TRUE, Ins(p).size)
             /\ sys_term_read(p, u) /\ FinishAll(TermReturned(p), TermExpected)
    <2>1. <<>> \in Seq(ControlWord) OBVIOUS
    <2>2. TermCalled(p) /\ u \in Units BY <1>8 DEF TermCalled, TermArgsValid
    <2> QED BY <1>6, <1>8, <2>1, <2>2
  <1>9. CASE /\ Is(p, "termwrite") /\ TermArgsValid(u, TRUE, Len(Ins(p).chars))
             /\ sys_term_write(p, u, Ins(p).chars) \/ WriteChar(p, u) \/ WriteDone(p, u)
             /\ FinishAll(TermReturned(p), TermExpected)
    <2>1. Ins(p).chars \in Seq(ControlWord) BY <1>1, <1>5, <1>9, CodeIs DEF WellFormed, Is
    <2>2. TermCalled(p) /\ u \in Units BY <1>9 DEF TermCalled, TermArgsValid
    <2> QED BY <1>6, <1>9, <2>1, <2>2
  <1>10. CASE /\ \/ Is(p, "termread") /\ ~TermArgsValid(u, TRUE, Ins(p).size)
                 \/ Is(p, "termwrite") /\ ~TermArgsValid(u, TRUE, Len(Ins(p).chars))
              /\ Finish(p, -1 \in Ins(p).want) /\ UNCHANGED termVars
    <2>1. ~TermCalled(p) BY <1>10 DEF TermCalled, Is
    <2> QED BY <1>7, <1>10, <2>1
  <1> QED BY <1>8, <1>9, <1>10 DEF TermCall

LEMMA TermInterruptInv ==
    ASSUME UserInv, TermInterrupt
    PROVE  UserInv'
  <1>1. TermInv /\ Processes \subseteq Users /\ \A q \in Processes : Attached(q) BY InvIs
  <1> PICK Q : Q = {q \in Processes : phase'[q] = "idle" /\ phase[q] # "idle"} OBVIOUS
  <1>2. PICK u \in Units : Interrupt(u) BY DEF TermInterrupt
  <1>3. UNCHANGED <<kids, pc, asleep>> /\ UNCHANGED clockVars
    BY DEF TermInterrupt, familyVars, semVars, clockVars
  <1>4. ClockInv' BY <1>3, InvIs, ClockSame
  <1>5. TermInv' BY <1>1, <1>2, TermAnyKept DEF TermAnyNext
  <1>6. GoOn(Q) BY DEF TermInterrupt, FinishAll, GoOn
  <1>7. \A q \in Users : phase'[q] # "idle" => phase[q] # "idle" BY <1>1, <1>2, InterruptPlace
  <1>8. \A q \in Q : phase'[q] = "idle" /\ Ins(q).op \in {"termread", "termwrite"}
    BY <1>1 DEF Attached, TermCalled, Is
  <1> QED BY <1>1, <1>3, <1>4, <1>5, <1>6, <1>7, <1>8, TermReturns

-----------------------------------------------------------------------------
LEMMA UserStepInv == UserInv /\ [UNext]_allVars => UserInv'
  <1> SUFFICES ASSUME UserInv, [UNext]_allVars PROVE UserInv' OBVIOUS
  <1>1. ASSUME NEW p \in Processes, UserStep(p) PROVE UserInv'
    <2>1. CASE trampoline(p)
      <3>1. /\ UNCHANGED <<test, ip, kids, pc, asleep, phase>>
            /\ UNCHANGED clockVars /\ UNCHANGED termVars
        BY <2>1 DEF trampoline, progVars, semVars, clockVars, termVars
      <3> QED BY <3>1, InvIs, ClockSame, TermSame, RestInv
    <2>2. CASE Halt(p) BY <2>2, HaltInv
    <2>3. CASE FamilyCall(p) BY <2>3, FamilyCallInv
    <2>4. CASE SemCall(p) BY <2>4, SemCallInv
    <2>5. CASE SleepCall(p) BY <2>5, SleepCallInv
    <2>6. CASE TermCall(p) BY <2>6, TermCallInv
    <2> QED BY <1>1, <2>1, <2>2, <2>3, <2>4, <2>5, <2>6 DEF UserStep
  <1>2. CASE ClockStep BY <1>2, ClockStepUserInv
  <1>3. CASE TermInterrupt BY <1>3, TermInterruptInv
  <1>4. CASE UNCHANGED allVars
    <2>1. /\ UNCHANGED <<test, ip, kids, pc, asleep, phase>>
          /\ UNCHANGED clockVars /\ UNCHANGED termVars
      BY <1>4 DEF allVars, progVars, semVars, clockVars, termVars
    <2> QED BY <2>1, InvIs, ClockSame, TermSame, RestInv
  <1> QED BY <1>1, <1>2, <1>3, <1>4 DEF UNext

LEMMA UserInitInv == UInit => UserInv
  <1> SUFFICES ASSUME UInit PROVE UserInv OBVIOUS
  <1>1. /\ test \in Tests /\ ip = [p \in Processes |-> 1] /\ kids = [p \in Processes |-> <<>>]
        /\ pc = [p \in Users |-> "idle"] /\ asleep = {} /\ phase = [p \in Users |-> "idle"]
    BY DEF UInit, ProgInit, S!Init, ClockInit, TermInit
  <1>2. ClockInv /\ TermInv BY ClockInitInv, TermInitInv DEF UInit
  <1>3. UserTypeOK
    <2>1. <<>> \in Seq(Processes) OBVIOUS
    <2> QED BY <1>1, <2>1 DEF UserTypeOK, SemPlaces
  <1>4. \A p \in Processes : Attached(p) BY <1>1, <1>3, CodeIs DEF Attached
  <1>5. ASSUME NEW p \in Processes PROVE Spawned(p) /\ (Ended(p) => kids[p] = <<>>)
    <2>1. DOMAIN Code(p) = 1..Len(Code(p)) /\ Len(Code(p)) \in Nat BY <1>3, CodeIs
    <2>2. \A j \in Nat : ~(SpawnAt(p, j) /\ j < ip[p]) BY <1>1, <2>1 DEF SpawnAt
    <2> QED BY <1>1, <2>2 DEF Spawned
  <1> QED BY <1>2, <1>3, <1>4, <1>5 DEF UserInv, FamilyInv

LEMMA UserInvAlways == USpec => []UserInv
  <1> QED BY UserInitInv, UserStepInv, PTL DEF USpec

-----------------------------------------------------------------------------
(* sys_terminate joins every child, and so, child by child, the family of  *)
(* a process has ended before it (phase3.c, sys_terminate): whatever the   *)
(* others do in between on semaphores, at terminals or in Sleep.           *)
THEOREM FamiliesEnd == USpec => []NoOrphans
  <1>1. UserInv => NoOrphans
    <2> SUFFICES ASSUME UserInv, NEW p \in Processes, Ended(p)
                 PROVE  kids[p] = <<>> /\ \A k \in Children(p) : Ended(k)
      BY DEF NoOrphans
    <2>1. UserTypeOK /\ FamilyInv BY InvIs
    <2>2. kids[p] = <<>> /\ Spawned(p) BY <2>1 DEF FamilyInv
    <2>3. ASSUME NEW k \in Children(p) PROVE Ended(k)
      <3>1. PICK i \in DOMAIN Code(p) : Code(p)[i].op = "spawn" /\ k = Code(p)[i].kid
        BY DEF Children
      <3>2. i \in Nat /\ i < ip[p] BY <2>1, CodeIs DEF Ended
      <3>3. Followed(p, k) BY <2>2, <3>1, <3>2 DEF Spawned, SpawnAt
      <3> QED BY <2>2, <3>3 DEF Followed
    <2> QED BY <2>2, <2>3
  <1> QED BY <1>1, UserInvAlways, PTL

(* The test programs drive phase 4a as its own specification allows: the   *)
(* requests of the clock driver match the sleepers one to one, unblockProc *)
(* finds its process blocked, and nobody oversleeps by more ticks than     *)
(* there are processes, with the semaphores and the terminals beside it    *)
(* (phase4a.c, 104-135).                                                   *)
THEOREM ClockKeptAmongOthers ==
    USpec => [](ClockTypeOK /\ OneRequestEach /\ ClockNeverHalts /\ OversleepBounded)
  <1>1. UserInv => ClockTypeOK /\ OneRequestEach /\ ClockNeverHalts /\ OversleepBounded
    BY InvIs, ClockInvShows DEF ClockInv
  <1> QED BY <1>1, UserInvAlways, PTL

(* Nor is a process of a program woken before the tick it asked for,       *)
(* whoever shares the processor with the driver (phase4a.c, 112-119, 131). *)
THEOREM NotEarlyAmongOthers == USpec => NeverEarly
  <1>1. ASSUME UserInv, [UNext]_allVars
        PROVE  [\A p \in asleep : p \notin asleep' /\ Fits(p) => tickCount >= due[p]]_clockVars
    <2>1. UserTypeOK /\ ClockInv /\ Processes \subseteq Sleepers BY <1>1, InvIs
    <2>2. ASSUME NEW p \in Processes, SleepCall(p) PROVE ClockAnyNext
      <3>1. Ins(p).op = "sleep" /\ sys_sleep(p, Ins(p).seconds) BY <2>2 DEF SleepCall, Is
      <3>2. ip[p] \in DOMAIN Code(p) /\ Ins(p) = Code(p)[ip[p]] BY <2>1, <3>1, InsIs DEF Is
      <3>3. Ins(p).seconds \in Int BY <2>1, <3>1, <3>2, CodeIs DEF WellFormed
      <3> QED BY <2>1, <3>1, <3>3 DEF ClockAnyNext
    <2>3. ASSUME ClockStep PROVE ClockAnyNext BY <2>3 DEF ClockStep, ClockAnyNext
    <2>4. ASSUME NEW p \in Processes, UserStep(p) PROVE asleep' = asleep \/ ClockAnyNext
      <3>1. CASE trampoline(p) BY <3>1 DEF trampoline, clockVars
      <3>2. CASE Halt(p) BY <3>2 DEF Halt
      <3>3. CASE FamilyCall(p) BY <3>3 DEF FamilyCall, clockVars
      <3>4. CASE SemCall(p) BY <3>4 DEF SemCall, clockVars
      <3>5. CASE SleepCall(p) BY <2>2, <3>5
      <3>6. CASE TermCall(p) BY <3>6 DEF TermCall, clockVars
      <3> QED BY <2>4, <3>1, <3>2, <3>3, <3>4, <3>5, <3>6 DEF UserStep
    <2>5. ASSUME TermInterrupt PROVE asleep' = asleep BY <2>5 DEF TermInterrupt, clockVars
    <2>6. ASSUME UNCHANGED allVars PROVE asleep' = asleep BY <2>6 DEF allVars, clockVars
    <2>7. asleep' = asleep \/ ClockAnyNext BY <1>1, <2>3, <2>4, <2>5, <2>6 DEF UNext
    <2>8. CASE ClockAnyNext BY <2>1, <2>8, NoneEarly
    <2>9. CASE asleep' = asleep BY <2>9
    <2> QED BY <2>7, <2>8, <2>9
  <1> QED BY <1>1, UserInvAlways, PTL DEF USpec, NeverEarly

(* A terminal keeps its promises to the programs: one writer at a time,    *)
(* the mutex handed on, no character in two lines, no line longer than     *)
(* MAXLINE, with spawn, the semaphores and Sleep beside it (phase4a.c,     *)
(* TermDriver, sys_term_read and sys_term_write).                          *)
THEOREM TerminalsKeptAmongOthers ==
    USpec => [](TermTypeOK /\ OneWriter /\ MutexHandedOn /\ CharsOnce /\ LineFits)
  <1>1. UserInv => TermTypeOK /\ OneWriter /\ MutexHandedOn /\ CharsOnce /\ LineFits
    BY InvIs, TermInvShows
  <1> QED BY <1>1, UserInvAlways, PTL

=============================================================================
