-------------------------- MODULE ClockDriverProofs --------------------------
(***************************************************************************)
(* Proofs about Sleep and the clock driver, for any set of sleepers that   *)
(* the mailbox has room for, any times and any width of an int.  A request *)
(* waits at a place, counted from the driver's hands (0): the sleepers are *)
(* as many as the requests, and how late a request is and its place        *)
(* together never exceed the number of processes.                          *)
(***************************************************************************)
EXTENDS ClockDriver, FiniteSetTheorems, SequenceTheorems, TLAPS

N == Cardinality(Sleepers)
InHand == IF driver = "held" THEN 1 ELSE 0
Scanning == IF driver = "scan" THEN 1 ELSE 0

Counted == Cardinality(asleep) = Len(clockMbox) + InHand
Stamped == \A i \in Places : RequestAt(i).wakeupTick = Wrap(due[RequestAt(i).pid])
Ranked  == \A i \in Places :
    Fits(RequestAt(i).pid) => Overslept(RequestAt(i).pid) + i <= N + Scanning

ClockInv == ClockTypeOK /\ OneRequestEach /\ Counted /\ Stamped /\ Ranked /\ ClockNeverHalts

-----------------------------------------------------------------------------
LEMMA Sizes ==
    /\ N \in Nat
    /\ \A A \in SUBSET Sleepers : IsFiniteSet(A) /\ Cardinality(A) \in Nat /\ Cardinality(A) <= N
  BY ClockAssumption, FS_Subset, FS_CardinalityType DEF N

LEMMA WrapInt == \A n \in Int : Wrap(n) \in Int
  <1>1. SUFFICES ASSUME NEW n \in Int, n > MaxInt PROVE Wrap(n) \in Int
    BY ClockAssumption DEF Wrap
  <1>2. MaxInt \in Nat BY ClockAssumption
  <1>3. (n + MaxInt + 1) % (2 * (MaxInt + 1)) \in Int
    <2>1. 2 * (MaxInt + 1) \in Nat \ {0} /\ n + MaxInt + 1 \in Int BY <1>2
    <2>2. \A a \in Int, b \in Nat \ {0} : a % b \in Int BY SMT
    <2> QED BY <2>1, <2>2
  <1> QED BY <1>1, <1>2, <1>3 DEF Wrap

LEMMA PlacesType ==
    ASSUME ClockTypeOK
    PROVE  /\ Len(clockMbox) \in Nat
           /\ \A i \in 1..Len(clockMbox) : clockMbox[i] \in Requests
           /\ \A i \in Places : i \in Nat /\ i <= Len(clockMbox) /\ RequestAt(i) \in Requests
  <1>1. Len(clockMbox) \in Nat /\ \A i \in 1..Len(clockMbox) : clockMbox[i] \in Requests
    BY LenProperties, ElementOfSeq DEF ClockTypeOK
  <1> QED BY <1>1 DEF ClockTypeOK, Places, RequestAt

(* The places of the requests after each action. *)
LEMMA SleepPlaces ==
    ASSUME ClockTypeOK, NEW r \in Requests, clockMbox' = Append(clockMbox, r),
           driver' = driver, req' = req
    PROVE  /\ Places' = Places \cup {Len(clockMbox) + 1}
           /\ Len(clockMbox') = Len(clockMbox) + 1
           /\ \A i \in Places : RequestAt(i)' = RequestAt(i) /\ i # Len(clockMbox) + 1
           /\ \A i \in Nat : i = Len(clockMbox) + 1 => RequestAt(i)' = r
  <1>1. clockMbox \in Seq(Requests) /\ Len(clockMbox) \in Nat
    BY PlacesType DEF ClockTypeOK
  <1>2. /\ Len(clockMbox') = Len(clockMbox) + 1
        /\ clockMbox'[Len(clockMbox) + 1] = r
        /\ \A i \in 1..Len(clockMbox) : clockMbox'[i] = clockMbox[i]
    BY <1>1, AppendProperties
  <1>3. Places' = Places \cup {Len(clockMbox) + 1}
    BY <1>1, <1>2 DEF Places
  <1>4. ASSUME NEW i \in Places PROVE RequestAt(i)' = RequestAt(i) /\ i # Len(clockMbox) + 1
    BY <1>1, <1>2 DEF Places, RequestAt
  <1>5. ASSUME NEW i \in Nat, i = Len(clockMbox) + 1 PROVE RequestAt(i)' = r
    BY <1>1, <1>2, <1>5 DEF RequestAt
  <1> QED BY <1>2, <1>3, <1>4, <1>5

LEMMA TakenPlaces ==
    ASSUME ClockTypeOK, driver = "scan", driver' = "held", clockMbox # <<>>,
           req' = Head(clockMbox), clockMbox' = Tail(clockMbox)
    PROVE  /\ Places = 1..Len(clockMbox)
           /\ Places' = 0..(Len(clockMbox) - 1)
           /\ Len(clockMbox') = Len(clockMbox) - 1
           /\ Len(clockMbox) \in Nat \ {0}
           /\ \A i \in Places' : i + 1 \in Places /\ RequestAt(i)' = RequestAt(i + 1)
           /\ \A i \in Places : i - 1 \in Places'
  <1>1. clockMbox \in Seq(Requests) /\ Len(clockMbox) \in Nat
    BY PlacesType DEF ClockTypeOK
  <1>2. /\ Len(clockMbox) \in Nat \ {0}
        /\ Head(clockMbox) = clockMbox[1]
        /\ Len(Tail(clockMbox)) = Len(clockMbox) - 1
        /\ \A i \in 1..Len(Tail(clockMbox)) : Tail(clockMbox)[i] = clockMbox[i + 1]
    BY <1>1, EmptySeq, HeadTailProperties
  <1>3. Places = 1..Len(clockMbox) /\ Places' = 0..(Len(clockMbox) - 1)
    BY <1>2 DEF Places
  <1>4. ASSUME NEW i \in Places' PROVE i + 1 \in Places /\ RequestAt(i)' = RequestAt(i + 1)
    <2>1. i \in Nat /\ i + 1 \in 1..Len(clockMbox) BY <1>2, <1>3
    <2>2. CASE i = 0 BY <1>2, <1>3, <2>1, <2>2 DEF RequestAt
    <2>3. CASE i # 0 BY <1>2, <1>3, <2>1, <2>3 DEF RequestAt
    <2> QED BY <2>2, <2>3
  <1> QED BY <1>2, <1>3, <1>4

LEMMA PutBackPlaces ==
    ASSUME ClockTypeOK, driver = "held", driver' = "wait", req' = req,
           clockMbox' = Append(clockMbox, req)
    PROVE  /\ Places = 0..Len(clockMbox) /\ Places' = 1..(Len(clockMbox) + 1)
           /\ Len(clockMbox') = Len(clockMbox) + 1
           /\ \A i \in 1..Len(clockMbox) : RequestAt(i)' = RequestAt(i)
           /\ RequestAt(0) = req
           /\ \A i \in Nat : i = Len(clockMbox) + 1 => RequestAt(i)' = req
  <1>1. clockMbox \in Seq(Requests) /\ Len(clockMbox) \in Nat /\ req \in Requests
    BY PlacesType DEF ClockTypeOK
  <1>2. /\ Len(clockMbox') = Len(clockMbox) + 1
        /\ clockMbox'[Len(clockMbox) + 1] = req
        /\ \A i \in 1..Len(clockMbox) : clockMbox'[i] = clockMbox[i]
    BY <1>1, AppendProperties
  <1>3. Places = 0..Len(clockMbox) /\ Places' = 1..(Len(clockMbox) + 1)
    BY <1>1, <1>2 DEF Places
  <1>4. ASSUME NEW i \in 1..Len(clockMbox) PROVE RequestAt(i)' = RequestAt(i)
    BY <1>1, <1>2 DEF RequestAt
  <1>5. ASSUME NEW i \in Nat, i = Len(clockMbox) + 1 PROVE RequestAt(i)' = req
    BY <1>1, <1>2, <1>5 DEF RequestAt
  <1> QED BY <1>2, <1>3, <1>4, <1>5 DEF RequestAt

-----------------------------------------------------------------------------
LEMMA ClockInitInv == ClockInit => ClockInv
  <1> SUFFICES ASSUME ClockInit PROVE ClockInv OBVIOUS
  <1>1. clockMbox = <<>> /\ driver = "wait" /\ asleep = {} /\ machine = "up"
    BY DEF ClockInit
  <1>2. Len(clockMbox) = 0 /\ Places = {} /\ InHand = 0
    BY <1>1 DEF Places, InHand
  <1>3. ClockTypeOK
    <2>1. <<>> \in Seq(Requests) BY SMT
    <2> QED BY <1>1, <2>1 DEF ClockInit, ClockTypeOK
  <1>4. OneRequestEach /\ Stamped /\ Ranked
    BY <1>1, <1>2 DEF OneRequestEach, Stamped, Ranked
  <1>5. Counted
    BY <1>1, <1>2, FS_EmptySet DEF Counted
  <1> QED BY <1>1, <1>3, <1>4, <1>5 DEF ClockInv, ClockNeverHalts

LEMMA SleepInv ==
    ASSUME ClockInv, NEW p \in Sleepers, NEW s \in Int, sys_sleep(p, s)
    PROVE  ClockInv'
  <1>1. CASE UNCHANGED clockVars
    BY <1>1 DEF clockVars, ClockInv, ClockTypeOK, OneRequestEach, Counted, Stamped, Ranked,
         ClockNeverHalts, Places, RequestAt, Fits, Overslept, InHand, Scanning
  <1>2. CASE ~UNCHANGED clockVars
    <2> DEFINE r == [pid |-> p, wakeupTick |-> Wrap(due'[p])]
    <2>1. /\ p \notin asleep /\ s >= 0
          /\ due' = [due EXCEPT ![p] = tickCount + s * TICKS_PER_SEC]
          /\ clockMbox' = Append(clockMbox, r)
          /\ asleep' = asleep \cup {p}
          /\ UNCHANGED <<tickCount, driver, req, machine>>
      BY <1>2 DEF sys_sleep
    <2>2. ClockTypeOK BY DEF ClockInv
    <2>3. /\ due'[p] \in Nat /\ due'[p] >= tickCount
          /\ due' \in [Sleepers -> Nat]
          /\ \A q \in Sleepers \ {p} : due'[q] = due[q]
      <3>1. s \in Nat /\ TICKS_PER_SEC \in Nat /\ tickCount \in Nat
        BY <2>1, <2>2, ClockAssumption DEF ClockTypeOK
      <3> DEFINE ticks == s * TICKS_PER_SEC
      <3>2. ticks \in Nat BY <3>1
      <3>3. due' = [due EXCEPT ![p] = tickCount + ticks] BY <2>1
      <3> HIDE DEF ticks
      <3>4. tickCount + ticks \in Nat /\ tickCount + ticks >= tickCount BY <3>1, <3>2
      <3>5. due \in [Sleepers -> Nat] BY <2>2 DEF ClockTypeOK
      <3> QED BY <3>3, <3>4, <3>5
    <2>4. r \in Requests BY <2>3, WrapInt DEF Requests
    <2> HIDE DEF r
    <2>5. /\ Places' = Places \cup {Len(clockMbox) + 1}
          /\ Len(clockMbox') = Len(clockMbox) + 1
          /\ \A i \in Places : RequestAt(i)' = RequestAt(i) /\ i # Len(clockMbox) + 1
          /\ \A i \in Nat : i = Len(clockMbox) + 1 => RequestAt(i)' = r
      BY <2>1, <2>2, <2>4, SleepPlaces
    <2>6. r.pid = p /\ r.wakeupTick = Wrap(due'[p]) BY DEF r
    <2>7. ClockTypeOK'
      <3>1. clockMbox' \in Seq(Requests) BY <2>1, <2>2, <2>4, AppendProperties DEF ClockTypeOK
      <3> QED BY <2>1, <2>2, <2>3, <3>1 DEF ClockTypeOK
    <2>8. Len(clockMbox) \in Nat /\ \A i \in Places : i \in Nat /\ RequestAt(i) \in Requests
      BY <2>2, PlacesType
    <2>9. \A i \in Places : RequestAt(i).pid \in asleep /\ RequestAt(i).pid \in Sleepers \ {p}
      BY <2>1, <2>2, <2>8 DEF ClockInv, OneRequestEach, ClockTypeOK, Requests
    <2>10. OneRequestEach'
      <3>1. \A i \in Places' : RequestAt(i)'.pid \in asleep'
        BY <2>1, <2>5, <2>6, <2>8, <2>9
      <3>2. \A i, j \in Places' : RequestAt(i)'.pid = RequestAt(j)'.pid => i = j
        BY <2>5, <2>6, <2>8, <2>9 DEF ClockInv, OneRequestEach
      <3>3. \A q \in asleep' : \E i \in Places' : RequestAt(i)'.pid = q
        <4>1. \A q \in asleep : \E i \in Places' : RequestAt(i)'.pid = q
          BY <2>5 DEF ClockInv, OneRequestEach
        <4>2. \E i \in Places' : RequestAt(i)'.pid = p
          BY <2>5, <2>6, <2>8
        <4> QED BY <2>1, <4>1, <4>2
      <3> QED BY <3>1, <3>2, <3>3 DEF OneRequestEach
    <2>11. Counted'
      <3>1. IsFiniteSet(asleep) /\ asleep \in SUBSET Sleepers BY <2>2, Sizes DEF ClockTypeOK
      <3>2. Cardinality(asleep') = Cardinality(asleep) + 1
        BY <2>1, <3>1, FS_AddElement
      <3>3. InHand \in Nat /\ InHand' = InHand BY <2>1 DEF InHand
      <3> QED BY <2>5, <2>8, <3>2, <3>3 DEF ClockInv, Counted
    <2>12. Stamped'
      <3>1. SUFFICES ASSUME NEW i \in Places'
                     PROVE  RequestAt(i)'.wakeupTick = Wrap(due'[RequestAt(i)'.pid])
        BY DEF Stamped, Wrap
      <3>2. CASE i \in Places
        BY <2>3, <2>5, <2>9, <3>2 DEF ClockInv, Stamped
      <3>3. CASE i \notin Places
        BY <2>5, <2>6, <2>8, <3>1, <3>3
      <3> QED BY <3>2, <3>3
    <2>13. Ranked'
      <3>1. /\ N \in Nat /\ Scanning' = Scanning /\ Scanning \in Nat /\ tickCount \in Nat
            /\ tickCount' = tickCount /\ due \in [Sleepers -> Nat] /\ N' = N
        BY <2>1, <2>2, Sizes DEF Scanning, ClockTypeOK, N
      <3>2. SUFFICES ASSUME NEW i \in Places', due'[RequestAt(i)'.pid] <= MaxInt
                     PROVE  tickCount - due'[RequestAt(i)'.pid] + i <= N + Scanning
        BY <3>1 DEF Ranked, Fits, Overslept
      <3>3. CASE i \in Places
        <4>1. due'[RequestAt(i)'.pid] = due[RequestAt(i).pid] BY <2>3, <2>5, <2>9, <3>3
        <4> QED BY <3>2, <3>3, <4>1 DEF ClockInv, Ranked, Fits, Overslept
      <3>4. CASE i \notin Places
        <4>1. i = Len(clockMbox) + 1 /\ RequestAt(i)'.pid = p BY <2>5, <2>6, <2>8, <3>4
        <4>2. Len(clockMbox) + 1 <= N
          <5>1. Cardinality(asleep') = Len(clockMbox) + 1 + InHand' /\ InHand' \in Nat
            BY <2>5, <2>11 DEF Counted, InHand
          <5>2. Cardinality(asleep') \in Nat /\ Cardinality(asleep') <= N
            BY <2>7, Sizes DEF ClockTypeOK
          <5> QED BY <2>8, <3>1, <5>1, <5>2
        <4> QED BY <2>3, <2>8, <3>1, <4>1, <4>2
      <3> QED BY <3>3, <3>4
    <2>14. ClockNeverHalts' BY <2>1 DEF ClockInv, ClockNeverHalts
    <2> QED BY <2>7, <2>10, <2>11, <2>12, <2>13, <2>14 DEF ClockInv
  <1> QED BY <1>1, <1>2

LEMMA TickInv == ASSUME ClockInv, Tick PROVE ClockInv'
  <1>1. /\ driver = "wait" /\ driver' = "scan" /\ tickCount' = tickCount + 1
        /\ UNCHANGED <<clockMbox, req, asleep, due, machine>>
    BY DEF Tick
  <1>2. ClockTypeOK /\ tickCount \in Nat BY DEF ClockInv, ClockTypeOK
  <1>3. Places' = Places /\ \A i \in Places : RequestAt(i)' = RequestAt(i)
    BY <1>1 DEF Places, RequestAt
  <1>4. ClockTypeOK' /\ ClockNeverHalts'
    BY <1>1, <1>2 DEF ClockInv, ClockTypeOK, ClockNeverHalts
  <1>5. OneRequestEach' /\ Stamped' /\ Counted'
    BY <1>1, <1>3 DEF ClockInv, OneRequestEach, Stamped, Counted, InHand, Wrap
  <1>6. Ranked'
    <2> Scanning' = 1 /\ N' = N BY <1>1 DEF Scanning, N
    <2>1. SUFFICES ASSUME NEW i \in Places', due'[RequestAt(i)'.pid] <= MaxInt
                   PROVE  tickCount' - due'[RequestAt(i)'.pid] + i <= N + 1
      BY DEF Ranked, Fits, Overslept
    <2>2. i \in Places /\ RequestAt(i)' = RequestAt(i) /\ RequestAt(i) \in Requests /\ i \in Nat
      BY <1>2, <1>3, PlacesType
    <2>3. tickCount - due[RequestAt(i).pid] + i <= N /\ due[RequestAt(i).pid] \in Nat /\ N \in Nat
      <3>1. due[RequestAt(i).pid] \in Nat BY <1>2, <2>2 DEF ClockTypeOK, Requests
      <3>2. Scanning = 0 BY <1>1 DEF Scanning
      <3> QED BY <1>1, <2>1, <2>2, <3>1, <3>2, Sizes DEF ClockInv, Ranked, Fits, Overslept
    <2> QED BY <1>1, <1>2, <2>2, <2>3
  <1> QED BY <1>4, <1>5, <1>6 DEF ClockInv

LEMMA NextRequestInv == ASSUME ClockInv, NextRequest PROVE ClockInv'
  <1>1. driver = "scan" /\ UNCHANGED <<tickCount, asleep, due, machine>> /\ ClockTypeOK
    BY DEF ClockInv, NextRequest
  <1>2. CASE clockMbox = <<>> /\ driver' = "wait" /\ UNCHANGED <<clockMbox, req>>
    <2>1. Len(clockMbox) = 0 /\ Places = {} /\ Places' = {} /\ InHand = 0 /\ InHand' = 0
      BY <1>1, <1>2 DEF Places, InHand
    <2>2. asleep = {} BY <2>1 DEF ClockInv, OneRequestEach
    <2>3. ClockTypeOK' BY <1>1, <1>2 DEF ClockTypeOK
    <2>4. OneRequestEach' /\ Stamped' /\ Ranked' BY <1>1, <2>1, <2>2 DEF OneRequestEach, Stamped, Ranked
    <2> QED BY <1>1, <1>2, <2>1, <2>3, <2>4 DEF ClockInv, Counted, ClockNeverHalts
  <1>3. CASE /\ clockMbox # <<>> /\ driver' = "held"
             /\ req' = Head(clockMbox) /\ clockMbox' = Tail(clockMbox)
    <2>1. /\ Places = 1..Len(clockMbox) /\ Places' = 0..(Len(clockMbox) - 1)
          /\ Len(clockMbox') = Len(clockMbox) - 1
          /\ Len(clockMbox) \in Nat \ {0}
          /\ \A i \in Places' : i + 1 \in Places /\ RequestAt(i)' = RequestAt(i + 1)
          /\ \A i \in Places : i - 1 \in Places'
      BY <1>1, <1>3, TakenPlaces
    <2>2. ClockTypeOK'
      <3>1. Head(clockMbox) \in Requests /\ Tail(clockMbox) \in Seq(Requests)
        BY <1>1, <1>3, HeadTailProperties DEF ClockTypeOK
      <3> QED BY <1>1, <1>3, <3>1 DEF ClockTypeOK
    <2>3. OneRequestEach'
      <3>1. \A i \in Places' : RequestAt(i)'.pid \in asleep'
        BY <1>1, <2>1 DEF ClockInv, OneRequestEach
      <3>2. ASSUME NEW i \in Places', NEW j \in Places', RequestAt(i)'.pid = RequestAt(j)'.pid
            PROVE  i = j
        <4>1. i + 1 = j + 1 BY <2>1, <3>2 DEF ClockInv, OneRequestEach
        <4> QED BY <2>1, <4>1
      <3>3. ASSUME NEW q \in asleep' PROVE \E i \in Places' : RequestAt(i)'.pid = q
        <4>1. PICK i \in Places : RequestAt(i).pid = q
          BY <1>1, <3>3 DEF ClockInv, OneRequestEach
        <4>2. i - 1 \in Places' /\ (i - 1) + 1 = i BY <2>1
        <4>3. \A j \in Places' : j + 1 = i => RequestAt(j)'.pid = q BY <2>1, <4>1
        <4> QED BY <4>2, <4>3
      <3> QED BY <3>1, <3>2, <3>3 DEF OneRequestEach
    <2>4. Counted'
      <3>1. InHand = 0 /\ InHand' = 1 BY <1>1, <1>3 DEF InHand
      <3> QED BY <1>1, <2>1, <3>1 DEF ClockInv, Counted
    <2>5. Stamped'
      BY <1>1, <2>1 DEF ClockInv, Stamped, Wrap
    <2>6. Ranked'
      <3>1. Scanning = 1 /\ Scanning' = 0 /\ N \in Nat BY <1>1, <1>3, Sizes DEF Scanning
      <3>2. SUFFICES ASSUME NEW i \in Places', due'[RequestAt(i)'.pid] <= MaxInt
                     PROVE  tickCount - due'[RequestAt(i)'.pid] + i <= N
        BY <1>1, <3>1 DEF Ranked, Fits, Overslept, N
      <3>3. i + 1 \in Places /\ RequestAt(i)' = RequestAt(i + 1) /\ i \in Nat BY <2>1
      <3>4. due[RequestAt(i + 1).pid] \in Nat /\ tickCount \in Nat
        BY <1>1, <3>3, PlacesType DEF ClockTypeOK, Requests
      <3>5. tickCount - due[RequestAt(i + 1).pid] + (i + 1) <= N + 1
        BY <1>1, <3>1, <3>2, <3>3 DEF ClockInv, Ranked, Fits, Overslept
      <3> QED BY <1>1, <3>1, <3>3, <3>4, <3>5
    <2> QED BY <1>1, <2>2, <2>3, <2>4, <2>5, <2>6 DEF ClockInv, ClockNeverHalts
  <1> QED BY <1>2, <1>3 DEF NextRequest

LEMMA WakeInv == ASSUME ClockInv, WakeSleeper PROVE ClockInv' /\ req.pid \in asleep
  <1>1. /\ driver = "held" /\ driver' = "scan" /\ asleep' = asleep \ {req.pid}
        /\ UNCHANGED <<tickCount, clockMbox, req, due>> /\ ClockTypeOK
        /\ machine = "up" /\ machine' = IF req.pid \in asleep THEN "up" ELSE "halted"
    BY DEF ClockInv, WakeSleeper
  <1>2. Len(clockMbox) \in Nat BY <1>1, PlacesType
  <1>3. /\ Places = 0..Len(clockMbox) /\ Places' = 1..Len(clockMbox)
        /\ Places' = Places \ {0} /\ 0 \in Places /\ RequestAt(0) = req
        /\ \A i \in Places : RequestAt(i)' = RequestAt(i)
    BY <1>1, <1>2 DEF Places, RequestAt
  <1>4. req.pid \in asleep BY <1>3 DEF ClockInv, OneRequestEach
  <1>5. ClockTypeOK' /\ ClockNeverHalts'
    BY <1>1, <1>4 DEF ClockTypeOK, ClockNeverHalts
  <1>6. OneRequestEach'
    <2>1. \A i \in Places' : RequestAt(i)'.pid \in asleep'
      BY <1>1, <1>3 DEF ClockInv, OneRequestEach
    <2>2. \A i, j \in Places' : RequestAt(i)'.pid = RequestAt(j)'.pid => i = j
      BY <1>3 DEF ClockInv, OneRequestEach
    <2>3. \A q \in asleep' : \E i \in Places' : RequestAt(i)'.pid = q
      BY <1>1, <1>3 DEF ClockInv, OneRequestEach
    <2> QED BY <2>1, <2>2, <2>3 DEF OneRequestEach
  <1>7. Counted'
    <2>1. IsFiniteSet(asleep) BY <1>1, Sizes DEF ClockTypeOK
    <2>2. Cardinality(asleep') = Cardinality(asleep) - 1 BY <1>1, <1>4, <2>1, FS_RemoveElement
    <2>3. InHand = 1 /\ InHand' = 0 BY <1>1 DEF InHand
    <2> QED BY <1>1, <1>2, <2>2, <2>3 DEF ClockInv, Counted
  <1>8. Stamped' BY <1>1, <1>3 DEF ClockInv, Stamped, Wrap
  <1>9. Ranked'
    <2>1. Scanning = 0 /\ Scanning' = 1 /\ N \in Nat /\ N' = N BY <1>1, Sizes DEF Scanning, N
    <2>2. SUFFICES ASSUME NEW i \in Places', due'[RequestAt(i)'.pid] <= MaxInt
                   PROVE  tickCount' - due'[RequestAt(i)'.pid] + i <= N + 1
      BY <2>1 DEF Ranked, Fits, Overslept
    <2>3. i \in Places /\ RequestAt(i)' = RequestAt(i) /\ i \in Nat BY <1>2, <1>3
    <2>4. due[RequestAt(i).pid] \in Nat /\ tickCount \in Nat
      BY <1>1, <2>3, PlacesType DEF ClockTypeOK, Requests
    <2>5. tickCount - due[RequestAt(i).pid] + i <= N
      BY <1>1, <2>1, <2>2, <2>3, <2>4 DEF ClockInv, Ranked, Fits, Overslept
    <2> QED BY <1>1, <2>1, <2>3, <2>4, <2>5
  <1> QED BY <1>4, <1>5, <1>6, <1>7, <1>8, <1>9 DEF ClockInv

LEMMA PutBackInv == ASSUME ClockInv, PutBack PROVE ClockInv'
  <1>1. /\ driver = "held" /\ driver' = "wait" /\ clockMbox' = Append(clockMbox, req)
        /\ UNCHANGED <<tickCount, req, asleep, due, machine>> /\ ClockTypeOK /\ ~Due(req)
    BY DEF ClockInv, PutBack
  <1>2. Len(clockMbox) \in Nat /\ req \in Requests BY <1>1, PlacesType DEF ClockTypeOK
  <1>3. /\ Places = 0..Len(clockMbox) /\ Places' = 1..(Len(clockMbox) + 1)
        /\ Len(clockMbox') = Len(clockMbox) + 1
        /\ \A i \in 1..Len(clockMbox) : RequestAt(i)' = RequestAt(i)
        /\ RequestAt(0) = req
        /\ \A i \in Nat : i = Len(clockMbox) + 1 => RequestAt(i)' = req
    BY <1>1, PutBackPlaces
  <1> DEFINE Was(i) == IF i = Len(clockMbox) + 1 THEN 0 ELSE i
  <1>4. \A i \in Places' : i \in Nat /\ Was(i) \in Places /\ RequestAt(i)' = RequestAt(Was(i))
    BY <1>2, <1>3
  <1>5. \A i \in Places : \E j \in Places' : Was(j) = i
    <2>1. ASSUME NEW i \in Places, i = 0 PROVE \E j \in Places' : Was(j) = i
      <3>1. Len(clockMbox) + 1 \in Places' BY <1>2, <1>3
      <3> QED BY <2>1, <3>1
    <2>2. ASSUME NEW i \in Places, i # 0 PROVE \E j \in Places' : Was(j) = i
      <3>1. i \in Places' /\ Was(i) = i BY <1>2, <1>3, <2>2
      <3> QED BY <3>1
    <2> QED BY <2>1, <2>2
  <1>6. \A i, j \in Places' : Was(i) = Was(j) => i = j
    BY <1>2, <1>3
  <1> HIDE DEF Was
  <1>7. ClockTypeOK' /\ ClockNeverHalts'
    <2>1. clockMbox' \in Seq(Requests) BY <1>1, <1>2, AppendProperties DEF ClockTypeOK
    <2> QED BY <1>1, <2>1 DEF ClockInv, ClockTypeOK, ClockNeverHalts
  <1>8. OneRequestEach'
    <2>1. \A i \in Places' : RequestAt(i)'.pid \in asleep'
      BY <1>1, <1>4 DEF ClockInv, OneRequestEach
    <2>2. \A i, j \in Places' : RequestAt(i)'.pid = RequestAt(j)'.pid => i = j
      BY <1>4, <1>6 DEF ClockInv, OneRequestEach
    <2>3. ASSUME NEW q \in asleep' PROVE \E j \in Places' : RequestAt(j)'.pid = q
      <3>1. PICK i \in Places : RequestAt(i).pid = q BY <1>1, <2>3 DEF ClockInv, OneRequestEach
      <3>2. PICK j \in Places' : Was(j) = i BY <1>5
      <3> QED BY <1>4, <3>1, <3>2
    <2> QED BY <2>1, <2>2, <2>3 DEF OneRequestEach
  <1>9. Counted'
    <2>1. InHand = 1 /\ InHand' = 0 BY <1>1 DEF InHand
    <2> QED BY <1>1, <1>2, <1>3, <2>1 DEF ClockInv, Counted
  <1>10. Stamped' BY <1>1, <1>4 DEF ClockInv, Stamped, Wrap
  <1>11. Ranked'
    <2>1. Scanning = 0 /\ Scanning' = 0 /\ N \in Nat /\ N' = N BY <1>1, Sizes DEF Scanning, N
    <2>2. SUFFICES ASSUME NEW i \in Places', due'[RequestAt(i)'.pid] <= MaxInt
                   PROVE  tickCount' - due'[RequestAt(i)'.pid] + i <= N
      BY <2>1 DEF Ranked, Fits, Overslept
    <2>3. Was(i) \in Places /\ RequestAt(i)' = RequestAt(Was(i)) /\ i \in Nat BY <1>4
    <2>4. due[RequestAt(Was(i)).pid] \in Nat /\ tickCount \in Nat
      BY <1>1, <2>3, PlacesType DEF ClockTypeOK, Requests
    <2>5. CASE i # Len(clockMbox) + 1
      <3>1. Was(i) = i BY <2>5 DEF Was
      <3>2. tickCount - due[RequestAt(i).pid] + i <= N
        BY <1>1, <2>1, <2>2, <2>3, <2>4, <3>1 DEF ClockInv, Ranked, Fits, Overslept
      <3> QED BY <1>1, <2>3, <3>1, <3>2
    <2>6. CASE i = Len(clockMbox) + 1
      <3>1. RequestAt(i)' = req /\ due[req.pid] \in Nat BY <1>2, <1>3, <2>3, <2>4, <2>6
      <3>2. req.wakeupTick = Wrap(due[req.pid]) BY <1>2, <1>3 DEF ClockInv, Stamped
      <3>3. due[req.pid] <= MaxInt BY <1>1, <2>2, <3>1
      <3>4. tickCount < due[req.pid] BY <1>1, <2>4, <3>1, <3>2, <3>3 DEF Due, Wrap
      <3>5. Len(clockMbox) + 1 <= N
        <4>1. Cardinality(asleep) = Len(clockMbox) + 1 BY <1>1 DEF ClockInv, Counted, InHand
        <4> QED BY <1>1, <4>1, Sizes DEF ClockTypeOK
      <3> QED BY <1>1, <1>2, <2>1, <2>4, <2>6, <3>1, <3>4, <3>5
    <2> QED BY <2>5, <2>6
  <1> QED BY <1>7, <1>8, <1>9, <1>10, <1>11 DEF ClockInv

(* Processes that ask for any time, be it in Seconds or not. *)
ClockAnyNext == Tick \/ DriverStep \/ \E p \in Sleepers, s \in Int : sys_sleep(p, s)

LEMMA ClockAnyInv == ClockInv /\ [ClockAnyNext]_clockVars => ClockInv'
  <1> SUFFICES ASSUME ClockInv, [ClockAnyNext]_clockVars PROVE ClockInv' OBVIOUS
  <1>1. CASE Tick BY <1>1, TickInv
  <1>2. CASE NextRequest BY <1>2, NextRequestInv
  <1>3. CASE WakeSleeper BY <1>3, WakeInv
  <1>4. CASE PutBack BY <1>4, PutBackInv
  <1>5. ASSUME NEW p \in Sleepers, NEW s \in Int, sys_sleep(p, s) PROVE ClockInv'
    BY <1>5, SleepInv
  <1>6. CASE UNCHANGED clockVars
    BY <1>6 DEF clockVars, ClockInv, ClockTypeOK, OneRequestEach, Counted, Stamped, Ranked,
         ClockNeverHalts, Places, RequestAt, Fits, Overslept, InHand, Scanning, Wrap
  <1> QED BY <1>1, <1>2, <1>3, <1>4, <1>5, <1>6 DEF ClockAnyNext, DriverStep

LEMMA ClockStepInv == ClockInv /\ [ClockNext]_clockVars => ClockInv'
  <1>1. ClockNext => ClockAnyNext BY ClockAssumption DEF ClockNext, ClockAnyNext
  <1> QED BY <1>1, ClockAnyInv

(* The invariant gives the properties, and a step from it wakes nobody too *)
(* early.                                                                  *)
LEMMA ClockInvShows == ClockInv => OneRequestEach /\ ClockNeverHalts /\ OversleepBounded
  <1>1. ClockInv => OversleepBounded
    <2> SUFFICES ASSUME ClockInv, NEW p \in asleep, Fits(p)
                 PROVE  Overslept(p) <= Cardinality(Sleepers)
      BY DEF OversleepBounded
    <2>1. PICK i \in Places : RequestAt(i).pid = p BY DEF ClockInv, OneRequestEach
    <2>2. ClockTypeOK /\ N \in Nat BY Sizes DEF ClockInv
    <2>3. i \in Nat /\ (i = 0 => driver = "held") BY <2>2, PlacesType DEF Places
    <2>4. tickCount - due[p] + i <= N + Scanning BY <2>1 DEF ClockInv, Ranked, Overslept
    <2>5. tickCount \in Nat /\ due[p] \in Nat BY <2>2 DEF ClockTypeOK
    <2>6. driver = "held" => Scanning = 0 BY DEF Scanning
    <2>7. Scanning \in {0, 1} BY DEF Scanning
    <2> QED BY <2>2, <2>3, <2>4, <2>5, <2>6, <2>7 DEF Overslept, N
  <1> QED BY <1>1 DEF ClockInv

LEMMA NoneEarly ==
    ASSUME ClockInv, [ClockAnyNext]_clockVars
    PROVE  [\A p \in asleep : p \notin asleep' /\ Fits(p) => tickCount >= due[p]]_clockVars
  <1> SUFFICES ASSUME NEW p \in asleep, p \notin asleep', Fits(p) PROVE tickCount >= due[p]
    OBVIOUS
  <1>1. WakeSleeper
    BY DEF ClockAnyNext, DriverStep, Tick, NextRequest, PutBack, sys_sleep, clockVars
  <1>2. driver = "held" /\ asleep' = asleep \ {req.pid} /\ Due(req)
    BY <1>1 DEF WakeSleeper
  <1>3. p = req.pid BY <1>2
  <1>4. ClockTypeOK /\ Stamped BY DEF ClockInv
  <1>5. 0 \in Places /\ RequestAt(0) = req BY <1>2, <1>4, PlacesType DEF Places, RequestAt
  <1>6. req.wakeupTick = Wrap(due[p]) BY <1>3, <1>4, <1>5 DEF Stamped
  <1>7. tickCount \in Nat /\ due[p] \in Nat BY <1>4 DEF ClockTypeOK
  <1> QED BY <1>2, <1>6, <1>7 DEF Due, Wrap, Fits

(* Sleep and its driver keep the types of their state (phase4a.c, 104-135). *)
THEOREM ClockTypeCorrect == ClockSpec => []ClockTypeOK
  <1>1. ClockInv => ClockTypeOK BY DEF ClockInv
  <1> QED BY <1>1, ClockInitInv, ClockStepInv, PTL DEF ClockSpec

(* At all times the processes asleep are exactly those with a request, one *)
(* each: MboxCondRecv and MboxSend of ClockDriver lose no sleeper, and     *)
(* wake none twice (phase4a.c, 104-135).                                   *)
THEOREM RequestsMatchSleepers == ClockSpec => []OneRequestEach
  <1>1. ClockInv => OneRequestEach BY DEF ClockInv
  <1> QED BY <1>1, ClockInitInv, ClockStepInv, PTL DEF ClockSpec

(* unblockProc of the driver never finds its process not blocked, which    *)
(* would stop the machine (phase4a.c, 119).                                *)
THEOREM DriverNeverHalts == ClockSpec => []ClockNeverHalts
  <1>1. ClockInv => ClockNeverHalts BY DEF ClockInv
  <1> QED BY <1>1, ClockInitInv, ClockStepInv, PTL DEF ClockSpec

(* A process that asked for a time an int can hold oversleeps by at most   *)
(* as many ticks as there are processes, although the driver stops at the  *)
(* first request that is not due (phase4a.c, 110-117).                     *)
THEOREM OversleepIsBounded == ClockSpec => []OversleepBounded
  <1> QED BY ClockInvShows, ClockInitInv, ClockStepInv, PTL DEF ClockSpec

(* No process that asked for a time an int can hold is woken before it     *)
(* (phase4a.c, 112-119, 131).                                              *)
THEOREM WokenNeverEarly == ClockSpec => NeverEarly
  <1>1. ClockNext => ClockAnyNext BY ClockAssumption DEF ClockNext, ClockAnyNext
  <1> QED BY <1>1, NoneEarly, ClockInitInv, ClockStepInv, PTL DEF ClockSpec, NeverEarly
=============================================================================
