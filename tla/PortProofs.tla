----------------------------- MODULE PortProofs -----------------------------
(***************************************************************************)
(* A port loses, repeats and reorders no message, for any senders,         *)
(* receivers and messages; and the lists of threads/list.h behave as the   *)
(* sequences of the models, wherever their elements are in memory.         *)
(***************************************************************************)
EXTENDS ListMemory, SequenceTheorems, FiniteSetTheorems, WellFoundedInduction, TLAPS

USE PortAssumption

\* An element of a sequence.
LEMMA ElementType ==
  ASSUME NEW S, NEW list \in Seq(S), NEW k \in 1 .. Len(list)
  PROVE  list[k] \in S
  OBVIOUS

\* Appending keeps the type of a sequence.
LEMMA AppendType ==
  ASSUME NEW S, NEW list \in Seq(S), NEW x \in S
  PROVE  Append(list, x) \in Seq(S)
  OBVIOUS

\* Initialization.
LEMMA InitInv == Init => PortInv
<1> SUFFICES ASSUME Init PROVE PortInv
  OBVIOUS
<1> USE DEF Init, PL!Init
<1>1. TypeOK
  BY DEF TypeOK, Places
<1>2. HolderIsInside
  BY DEF HolderIsInside
<1>3. NothingLost
  BY DEF NothingLost
<1>4. TestStillHolds /\ WaiterHasUnit /\ OwnSems
  BY DEF TestStillHolds, WaiterHasUnit, OwnSems
<1> QED BY <1>1, <1>2, <1>3, <1>4 DEF PortInv

\* Steps that leave the semaphores of Wait alone, of a thread that does not go to
\* "wait": what they must show.
LEMMA QuietStep ==
  ASSUME PortInv, NEW t \in Threads, NEW place \in Places \ {"wait"},
         Goto(t, place), UNCHANGED <<sems, semList, mySem>>,
         holder' \in Threads \cup {NULL}, access' \in BOOLEAN, buffer' \in Messages,
         msg' \in [Senders -> Messages], sent' \in Seq(Messages),
         received' \in Seq(Messages)
  PROVE  /\ TypeOK' /\ WaiterHasUnit' /\ OwnSems'
         /\ pc'[t] = place /\ \A u \in Threads \ {t} : pc'[u] = pc[u]
<1>1. TypeOK /\ WaiterHasUnit /\ OwnSems
  BY DEF PortInv
<1>2. /\ pc' \in [Threads -> Places] /\ pc'[t] = place
      /\ \A u \in Threads \ {t} : pc'[u] = pc[u]
  BY <1>1 DEF TypeOK, Goto
<1>3. TypeOK'
  BY <1>1, <1>2 DEF TypeOK
<1>4. WaiterHasUnit' /\ OwnSems'
  BY <1>1, <1>2, SMTT(60) DEF WaiterHasUnit, OwnSems
<1> QED BY <1>2, <1>3, <1>4

\* A call of Send or Receive.
LEMMA CallStep ==
  ASSUME PortInv, NEW t \in Threads, NEW m \in Messages,
         CallSend(t, m) \/ CallReceive(t)
  PROVE  PortInv'
<1>1. TypeOK /\ HolderIsInside /\ TestStillHolds /\ NothingLost
  BY DEF PortInv
<1>2. /\ pc[t] = "idle" /\ Goto(t, "acquire") /\ "acquire" \in Places \ {"wait"}
      /\ UNCHANGED <<holder, access, buffer, sems, semList, mySem, sent, received>>
      /\ msg' \in [Senders -> Messages]
  BY <1>1, ZenonT(60) DEF CallSend, CallReceive, Places, TypeOK
<1>3. /\ TypeOK' /\ WaiterHasUnit' /\ OwnSems'
      /\ pc'[t] = "acquire" /\ \A u \in Threads \ {t} : pc'[u] = pc[u]
  BY <1>1, <1>2, QuietStep, Zenon DEF TypeOK
<1>4. HolderIsInside' /\ TestStillHolds' /\ NothingLost'
  BY <1>1, <1>2, <1>3 DEF HolderIsInside, TestStillHolds, MustWait, NothingLost
<1> QED BY <1>3, <1>4 DEF PortInv

\* Taking the lock and testing the loop condition.
LEMMA AcquireStep ==
  ASSUME PortInv, NEW t \in Threads, Acquire(t)
  PROVE  PortInv'
<1>1. TypeOK /\ HolderIsInside /\ TestStillHolds /\ NothingLost
  BY DEF PortInv
<1>2. /\ pc[t] = "acquire" /\ Goto(t, "test") /\ "test" \in Places \ {"wait"}
      /\ holder = NULL /\ holder' = t
      /\ UNCHANGED <<access, buffer, sems, semList, mySem, msg, sent, received>>
  BY DEF Acquire, PL!Acquire, Places
<1>3. /\ TypeOK' /\ WaiterHasUnit' /\ OwnSems'
      /\ pc'[t] = "test" /\ \A u \in Threads \ {t} : pc'[u] = pc[u]
  BY <1>1, <1>2, QuietStep, Zenon DEF TypeOK
<1>4. HolderIsInside' /\ TestStillHolds' /\ NothingLost'
  BY <1>1, <1>2, <1>3, Zenon DEF HolderIsInside, TestStillHolds, MustWait, NothingLost
<1> QED BY <1>3, <1>4 DEF PortInv

\* The loop condition is false: the thread keeps the lock.
LEMMA ProceedStep ==
  ASSUME PortInv, NEW t \in Threads, Proceed(t)
  PROVE  PortInv'
<1>1. TypeOK /\ HolderIsInside /\ TestStillHolds /\ NothingLost
  BY DEF PortInv
<1>2. /\ pc[t] = "test" /\ ~MustWait(t)
      /\ Goto(t, "move") /\ "move" \in Places \ {"wait"}
      /\ UNCHANGED <<holder, access, buffer, sems, semList, mySem, msg, sent, received>>
  BY DEF Proceed, Places
<1>3. /\ TypeOK' /\ WaiterHasUnit' /\ OwnSems'
      /\ pc'[t] = "move" /\ \A u \in Threads \ {t} : pc'[u] = pc[u]
  BY <1>1, <1>2, QuietStep, Zenon DEF TypeOK
<1>4. HolderIsInside' /\ TestStillHolds' /\ NothingLost'
  BY <1>1, <1>2, <1>3 DEF HolderIsInside, TestStillHolds, MustWait, NothingLost
<1> QED BY <1>3, <1>4 DEF PortInv

\* The step into and out of the buffer: the only thread past its test is the
\* holder, so nobody else's test is overtaken.
LEMMA MoveStep ==
  ASSUME PortInv, NEW t \in Threads, Put(t) \/ Get(t)
  PROVE  PortInv'
<1>1. TypeOK /\ HolderIsInside /\ TestStillHolds /\ NothingLost
  BY DEF PortInv
<1>2. /\ pc[t] = "move" /\ Goto(t, "signal") /\ "signal" \in Places \ {"wait"}
      /\ UNCHANGED <<holder, sems, semList, mySem, msg>>
  BY DEF Put, Get, Places
<1>3. /\ access' \in BOOLEAN /\ buffer' \in Messages
      /\ sent' \in Seq(Messages) /\ received' \in Seq(Messages)
  <2>1. CASE Put(t)
    <3>1. access' = FALSE /\ msg[t] \in Messages
      BY <1>1, <2>1 DEF Put, TypeOK
    <3>2. buffer' = msg[t] /\ sent' = Append(sent, msg[t]) /\ received' = received
      BY <2>1 DEF Put
    <3>3. sent \in Seq(Messages) /\ received \in Seq(Messages)
      BY <1>1 DEF TypeOK
    <3> QED BY <3>1, <3>2, <3>3, AppendType, Zenon
  <2>2. CASE Get(t)
    <3>1. access' = TRUE /\ buffer' = buffer
      BY <2>2 DEF Get
    <3>2. received' = Append(received, buffer) /\ sent' = sent
      BY <2>2 DEF Get
    <3>3. sent \in Seq(Messages) /\ received \in Seq(Messages) /\ buffer \in Messages
      BY <1>1 DEF TypeOK
    <3> QED BY <3>1, <3>2, <3>3, AppendType
  <2> QED BY <2>1, <2>2
<1>4. /\ TypeOK' /\ WaiterHasUnit' /\ OwnSems'
      /\ pc'[t] = "signal" /\ \A u \in Threads \ {t} : pc'[u] = pc[u]
  BY <1>1, <1>2, <1>3, QuietStep, Zenon DEF TypeOK
<1>5. HolderIsInside'
  BY <1>1, <1>2, <1>4 DEF HolderIsInside
<1>6. \A u \in Threads : pc'[u] # "move"
  BY <1>1, <1>2, <1>4 DEF HolderIsInside
<1>7. TestStillHolds'
  BY <1>6 DEF TestStillHolds
<1>8. NothingLost'
  <2>1. CASE Put(t)
    <3>1. access /\ sent = received
      BY <1>1, <1>2, <2>1 DEF Put, TestStillHolds, MustWait, NothingLost, TypeOK
    <3>2. sent' = Append(received, buffer') /\ received' = received /\ ~access'
      BY <2>1, <3>1 DEF Put
    <3> QED BY <1>1, <1>3, <3>2 DEF NothingLost, TypeOK
  <2>2. CASE Get(t)
    <3>1. ~access
      BY <1>1, <1>2, <2>2 DEF Get, TestStillHolds, MustWait
    <3>2. sent = received \o <<buffer>>
      BY <1>1, <3>1 DEF NothingLost
    <3>3. received' = Append(received, buffer) /\ access' /\ sent' = sent
      BY <2>2 DEF Get
    <3> QED BY <1>1, <1>3, <3>2, <3>3 DEF NothingLost, TypeOK
  <2> QED BY <2>1, <2>2
<1> QED BY <1>4, <1>5, <1>7, <1>8 DEF PortInv

\* Release, by the thread that holds the lock.
LEMMA ReleaseStep ==
  ASSUME PortInv, NEW t \in Threads, Release(t)
  PROVE  PortInv'
<1>1. TypeOK /\ HolderIsInside /\ TestStillHolds /\ NothingLost
  BY DEF PortInv
<1>2. /\ pc[t] = "release" /\ Goto(t, "idle") /\ "idle" \in Places \ {"wait"}
      /\ holder = t /\ holder' = NULL
      /\ UNCHANGED <<access, buffer, sems, semList, mySem, msg, sent, received>>
  BY DEF Release, PL!Release, Places
<1>3. /\ TypeOK' /\ WaiterHasUnit' /\ OwnSems'
      /\ pc'[t] = "idle" /\ \A u \in Threads \ {t} : pc'[u] = pc[u]
  BY <1>1, <1>2, QuietStep, Zenon DEF TypeOK
<1>4. HolderIsInside' /\ TestStillHolds' /\ NothingLost'
  BY <1>1, <1>2, <1>3 DEF HolderIsInside, TestStillHolds, MustWait, NothingLost
<1> QED BY <1>3, <1>4 DEF PortInv

\* P in Wait takes the unit of the thread's own semaphore.
LEMMA WaitPStep ==
  ASSUME PortInv, NEW t \in Threads, WaitP(t)
  PROVE  PortInv'
<1>1. /\ TypeOK /\ HolderIsInside /\ TestStillHolds /\ NothingLost
      /\ WaiterHasUnit /\ OwnSems
  BY DEF PortInv
<1>2. /\ pc[t] = "wait" /\ pc' = [pc EXCEPT ![t] = "acquire"]
      /\ sems' = [sems EXCEPT ![mySem[t]] = @ - 1]
      /\ UNCHANGED <<holder, access, buffer, semList, mySem, msg, sent, received>>
  BY DEF WaitP, Goto
<1>3. mySem[t] \in 1 .. Len(sems) /\ sems[mySem[t]] \in Nat /\ sems[mySem[t]] > 0
  BY <1>1, <1>2, SMTT(60) DEF WaiterHasUnit, TypeOK
<1>4. /\ sems' \in Seq(Nat) /\ Len(sems') = Len(sems)
      /\ \A k \in 1 .. Len(sems) : k # mySem[t] => sems'[k] = sems[k]
  BY <1>1, <1>2, <1>3, SMTT(60) DEF TypeOK
<1>5. /\ pc' \in [Threads -> Places] /\ pc'[t] = "acquire"
      /\ \A u \in Threads \ {t} : pc'[u] = pc[u]
  BY <1>1, <1>2 DEF TypeOK, Places
<1>6. TypeOK'
  BY <1>1, <1>2, <1>4, <1>5, SMTT(60) DEF TypeOK
<1>7. HolderIsInside' /\ TestStillHolds' /\ NothingLost'
  BY <1>1, <1>2, <1>5 DEF HolderIsInside, TestStillHolds, MustWait, NothingLost
<1>8. OwnSems'
  BY <1>1, <1>2, <1>5 DEF OwnSems
<1>9. WaiterHasUnit'
  <2> SUFFICES ASSUME NEW u \in Threads, pc'[u] = "wait"
               PROVE  mySem[u] \in 1 .. Len(sems') /\ sems'[mySem[u]] > 0
    BY <1>2 DEF WaiterHasUnit
  <2>1. u # t /\ pc[u] = "wait"
    BY <1>5
  <2>2. mySem[u] # mySem[t]
    BY <1>1, <1>2, <2>1 DEF OwnSems
  <2> QED BY <1>1, <1>4, <2>1, <2>2 DEF WaiterHasUnit
<1> QED BY <1>6, <1>7, <1>8, <1>9 DEF PortInv

\* Signal only adds a unit to a semaphore.
LEMMA SignalStep ==
  ASSUME PortInv, NEW t \in Threads, Signal(t)
  PROVE  PortInv'
<1>1. /\ TypeOK /\ HolderIsInside /\ TestStillHolds /\ NothingLost
      /\ WaiterHasUnit /\ OwnSems
  BY DEF PortInv
<1>2. /\ pc[t] = "signal" /\ pc' = [pc EXCEPT ![t] = "release"]
      /\ UNCHANGED <<holder, access, buffer, mySem, msg, sent, received>>
  BY DEF Signal, Goto
<1>3. /\ pc' \in [Threads -> Places] /\ pc'[t] = "release"
      /\ \A u \in Threads \ {t} : pc'[u] = pc[u]
  BY <1>1, <1>2 DEF TypeOK, Places
<1>4. /\ sems' \in Seq(Nat) /\ Len(sems') = Len(sems)
      /\ \A k \in 1 .. Len(sems) : sems'[k] >= sems[k]
      /\ semList' \in [{"pcondS", "pcondR"} -> Seq(1 .. Len(sems))]
  <2> DEFINE list == semList[Signals(t)]
  <2>1. Signals(t) \in {"pcondS", "pcondR"} /\ list \in Seq(1 .. Len(sems))
    BY <1>1 DEF Signals, TypeOK
  <2>2. CASE list = <<>>
    BY <1>1, <2>2, SMTT(60) DEF Signal, TypeOK
  <2>3. CASE list # <<>>
    <3>1. Head(list) \in 1 .. Len(sems) /\ Tail(list) \in Seq(1 .. Len(sems))
      <4> HIDE DEF list
      <4> QED BY <2>1, <2>3, HeadTailProperties
    <3>2. /\ semList' = [semList EXCEPT ![Signals(t)] = Tail(list)]
          /\ sems' = [sems EXCEPT ![Head(list)] = sems[Head(list)] + 1]
      BY <2>3 DEF Signal
    <3> HIDE DEF list
    <3>3. semList' \in [{"pcondS", "pcondR"} -> Seq(1 .. Len(sems))]
      BY <1>1, <2>1, <3>1, <3>2, SMTT(60) DEF TypeOK
    <3>4. sems \in Seq(Nat) /\ sems[Head(list)] \in Nat
      <4>1. sems \in Seq(Nat)
        BY <1>1 DEF TypeOK
      <4> QED BY <3>1, <4>1, ElementType
    <3>5. sems' \in Seq(Nat) /\ Len(sems') = Len(sems)
      BY <3>1, <3>2, <3>4, SMTT(60)
    <3>6. ASSUME NEW k \in 1 .. Len(sems)
          PROVE  sems'[k] >= sems[k]
      <4>1. sems[k] \in Nat
        BY <3>4, ElementType
      <4>2. CASE k = Head(list)
        <5>1. sems'[k] = sems[k] + 1
          BY <3>2, <3>4, <4>2
        <5> QED BY <4>1, <5>1
      <4>3. CASE k # Head(list)
        <5>1. sems'[k] = sems[k]
          BY <3>2, <3>4, <4>3
        <5> QED BY <4>1, <5>1
      <4> QED BY <4>2, <4>3
    <3> QED BY <3>3, <3>5, <3>6
  <2> QED BY <2>2, <2>3
<1>5. TypeOK'
  BY <1>1, <1>2, <1>3, <1>4 DEF TypeOK
<1>6. HolderIsInside' /\ TestStillHolds' /\ NothingLost' /\ OwnSems'
  BY <1>1, <1>2, <1>3
     DEF HolderIsInside, TestStillHolds, MustWait, NothingLost, OwnSems
<1>7. WaiterHasUnit'
  <2> SUFFICES ASSUME NEW u \in Threads, pc'[u] = "wait"
               PROVE  mySem[u] \in 1 .. Len(sems') /\ sems'[mySem[u]] > 0
    BY <1>2 DEF WaiterHasUnit
  <2>1. mySem[u] \in 1 .. Len(sems) /\ sems[mySem[u]] > 0
    BY <1>1, <1>3 DEF WaiterHasUnit
  <2>2. sems[mySem[u]] \in Nat /\ sems'[mySem[u]] \in Nat
    <3>1. sems \in Seq(Nat)
      BY <1>1 DEF TypeOK
    <3> QED BY <1>4, <2>1, <3>1, ElementType, Zenon
  <2> QED BY <1>4, <2>1, <2>2
<1> QED BY <1>5, <1>6, <1>7 DEF PortInv

\* Wait creates a semaphore nobody else waits on.
LEMMA WaitStep ==
  ASSUME PortInv, NEW t \in Threads, Wait(t)
  PROVE  PortInv'
<1> DEFINE n == Len(sems) + 1
<1>1. /\ TypeOK /\ HolderIsInside /\ TestStillHolds /\ NothingLost
      /\ WaiterHasUnit /\ OwnSems
  BY DEF PortInv
<1>2. /\ pc[t] = "test" /\ pc' = [pc EXCEPT ![t] = "wait"]
      /\ holder = t /\ holder' = NULL
      /\ sems' = Append(sems, 1) /\ mySem' = [mySem EXCEPT ![t] = n]
      /\ semList' = [semList EXCEPT ![WaitsOn(t)] = Append(semList[WaitsOn(t)], n)]
      /\ UNCHANGED <<access, buffer, msg, sent, received>>
  BY DEF Wait, Goto, PL!Release
<1>3. /\ pc' \in [Threads -> Places] /\ pc'[t] = "wait"
      /\ \A u \in Threads \ {t} : pc'[u] = pc[u]
  BY <1>1, <1>2 DEF TypeOK, Places
<1>4. /\ sems' \in Seq(Nat) /\ Len(sems') = n /\ n \in Nat /\ sems'[n] = 1
      /\ \A k \in 1 .. Len(sems) : sems'[k] = sems[k]
  BY <1>1, <1>2 DEF TypeOK
<1>5. /\ mySem' \in [Threads -> 0 .. n] /\ mySem'[t] = n
      /\ \A u \in Threads \ {t} : mySem'[u] = mySem[u] /\ mySem[u] # n
  BY <1>1, <1>2, <1>4 DEF TypeOK
<1>6. semList' \in [{"pcondS", "pcondR"} -> Seq(1 .. n)]
  <2>1. \A c \in {"pcondS", "pcondR"} : semList[c] \in Seq(1 .. n)
    <3> SUFFICES ASSUME NEW c \in {"pcondS", "pcondR"} PROVE semList[c] \in Seq(1 .. n)
      OBVIOUS
    <3>1. semList[c] \in Seq(1 .. Len(sems)) /\ Len(sems) \in Nat
      BY <1>1 DEF TypeOK
    <3>2. \A i \in 1 .. Len(semList[c]) : semList[c][i] \in 1 .. n
      BY <3>1
    <3> QED BY <3>1, <3>2
  <2>2. WaitsOn(t) \in {"pcondS", "pcondR"} /\ n \in 1 .. n
    BY <1>4 DEF WaitsOn
  <2>3. Append(semList[WaitsOn(t)], n) \in Seq(1 .. n)
    BY <2>1, <2>2
  <2> HIDE DEF n
  <2> QED BY <1>1, <1>2, <2>1, <2>2, <2>3 DEF TypeOK
<1> HIDE DEF n
<1>7. TypeOK'
  BY <1>1, <1>2, <1>3, <1>4, <1>5, <1>6, SMTT(60) DEF TypeOK
<1>8. HolderIsInside' /\ TestStillHolds' /\ NothingLost'
  BY <1>1, <1>2, <1>3 DEF HolderIsInside, TestStillHolds, MustWait, NothingLost
<1>9. OwnSems'
  BY <1>1, <1>3, <1>5 DEF OwnSems
<1>10. WaiterHasUnit'
  <2> SUFFICES ASSUME NEW u \in Threads, pc'[u] = "wait"
               PROVE  mySem'[u] \in 1 .. Len(sems') /\ sems'[mySem'[u]] > 0
    BY DEF WaiterHasUnit
  <2>1. CASE u = t
    BY <1>4, <1>5, <2>1 DEF n
  <2>2. CASE u # t
    <3>1. mySem[u] \in 1 .. Len(sems) /\ sems[mySem[u]] > 0 /\ mySem'[u] = mySem[u]
      BY <1>1, <1>3, <1>5, <2>2 DEF WaiterHasUnit
    <3> QED BY <1>1, <1>4, <3>1, SMTT(60) DEF n, TypeOK
  <2> QED BY <2>1, <2>2
<1> QED BY <1>7, <1>8, <1>9, <1>10 DEF PortInv

\* Every step preserves the invariant.
LEMMA NextInv == PortInv /\ [Next]_vars => PortInv'
<1> SUFFICES ASSUME PortInv, [Next]_vars PROVE PortInv'
  OBVIOUS
<1>1. CASE UNCHANGED vars
  BY <1>1 DEF vars, PortInv, TypeOK, HolderIsInside, TestStillHolds, MustWait,
              NothingLost, WaiterHasUnit, OwnSems
<1>2. ASSUME NEW t \in Threads, NEW m \in Messages, CallSend(t, m) \/ CallReceive(t)
      PROVE  PortInv'
  BY <1>2, CallStep
<1>3. \E m : m \in Messages
  BY DEF PortInv, TypeOK
<1>4. ASSUME NEW t \in Threads, CallReceive(t)
      PROVE  PortInv'
  BY <1>2, <1>3, <1>4
<1>5. ASSUME NEW t \in Threads, Acquire(t) \/ Proceed(t) \/ Release(t)
      PROVE  PortInv'
  BY <1>5, AcquireStep, ProceedStep, ReleaseStep
<1>6. ASSUME NEW t \in Threads, Wait(t) \/ WaitP(t) \/ Signal(t)
      PROVE  PortInv'
  BY <1>6, WaitStep, WaitPStep, SignalStep
<1>7. ASSUME NEW t \in Threads, Put(t) \/ Get(t)
      PROVE  PortInv'
  BY <1>7, MoveStep
<1> QED
  BY <1>1, <1>2, <1>4, <1>5, <1>6, <1>7 DEF Next

-----------------------------------------------------------------------------
\* The invariant of the port.
THEOREM PortIsInvariant == Spec => []PortInv
  BY InitInv, NextInv, PTL DEF Spec

\* The port delivers what is sent, once and in order.
THEOREM PortDelivers == Spec => []NothingLost
<1>1. PortInv => NothingLost
  BY DEF PortInv
<1> QED BY <1>1, PortIsInvariant, PTL

\* Exactly the thread inside Send or Receive holds the lock: the ASSERTs hold.
THEOREM PortHolderIsInside == Spec => []HolderIsInside
<1>1. PortInv => HolderIsInside
  BY DEF PortInv
<1> QED BY <1>1, PortIsInvariant, PTL

\* The P in Wait finds a unit: Wait does not sleep.
THEOREM WaitDoesNotSleep == Spec => []WaiterHasUnit
<1>1. PortInv => WaiterHasUnit
  BY DEF PortInv
<1> QED BY <1>1, PortIsInvariant, PTL

-----------------------------------------------------------------------------
(* Lists in memory *)

\* The list with these elements at the places p, n of them.
Header(p, n, elements) ==
  [first |-> IF 0 < n THEN p[1] ELSE 0, last |-> IF n = 0 THEN 0 ELSE p[n],
   elements |-> elements]

\* Element number i of a list that has the items of s at the places p, n of each.
Element(p, s, n, i) ==
  [item |-> s[i], key |-> s[i].left, next |-> IF i < n THEN p[i + 1] ELSE 0]

\* l has the pointers first and last of such a list, its elements, and no others.
HasHeader(l, p, n) == l = Header(p, n, l.elements)
HasElements(f, p, s, n) ==
  /\ f = [a \in {p[i] : i \in 1 .. n} |-> f[a]]
  /\ \A i \in 1 .. n : f[p[i]] = Element(p, s, n, i)
IsMemory(l, p, s, n) == HasHeader(l, p, n) /\ HasElements(l.elements, p, s, n)

\* A function on 1 .. n is a sequence.
LEMMA FunctionIsSequence ==
  ASSUME NEW n \in Nat, NEW S, NEW f \in [1 .. n -> S]
  PROVE  f \in Seq(S) /\ Len(f) = n
  OBVIOUS

\* The places of a layout are addresses, all different.
LEMMA LayoutParts ==
  ASSUME NEW n \in Nat, NEW p \in Layouts(n)
  PROVE  /\ p \in [1 .. n -> 1 .. MaxLength + 1] /\ Len(p) = n
         /\ \A i, j \in 1 .. n : p[i] = p[j] => i = j
         /\ \A i \in 1 .. n : p[i] \in Nat /\ p[i] # 0
<1>1. p \in [1 .. n -> 1 .. MaxLength + 1] /\ NoDuplicates(p)
  BY DEF Layouts
<1>2. p \in Seq(1 .. MaxLength + 1) /\ Len(p) = n
  BY <1>1, FunctionIsSequence, Zenon
<1>3. \A i, j \in 1 .. n : p[i] = p[j] => i = j
  BY <1>1, <1>2 DEF NoDuplicates
<1>4. \A i \in 1 .. n : p[i] \in Nat /\ p[i] # 0
  BY <1>1, ListMemoryAssumption
<1> QED BY <1>1, <1>2, <1>3, <1>4

\* A list in memory has its parts.
LEMMA MemoryParts ==
  ASSUME NEW n \in Nat, NEW p \in Layouts(n), NEW s \in [1 .. n -> ListItems]
  PROVE  IsMemory(InMemory(p, s), p, s, n)
<1>1. Len(s) = n
  OBVIOUS
<1>2. \A i, j \in 1 .. n : p[i] = p[j] => i = j
  BY LayoutParts
<1> DEFINE Nx(i) == IF i < n THEN p[i + 1] ELSE 0
           Index(a) == CHOOSE i \in 1 .. n : p[i] = a
           E == [a \in {p[i] : i \in 1 .. n} |->
                   [item |-> s[Index(a)], key |-> s[Index(a)].left, next |-> Nx(Index(a))]]
<1>3. InMemory(p, s) = [first |-> Nx(0), last |-> IF n = 0 THEN 0 ELSE p[n], elements |-> E]
  BY <1>1, SMTT(20) DEF InMemory
<1>4. \A i \in 1 .. n : Index(p[i]) = i
  BY <1>2
<1>5. ASSUME NEW i \in 1 .. n PROVE E[p[i]] = Element(p, s, n, i)
  <2>1. E[p[i]] = [item |-> s[Index(p[i])], key |-> s[Index(p[i])].left, next |-> Nx(Index(p[i]))]
    BY Zenon
  <2> HIDE DEF E, Index
  <2> QED BY <1>4, <2>1 DEF Element
<1>6. E = [a \in {p[i] : i \in 1 .. n} |-> E[a]]
  OBVIOUS
<1>7. Nx(0) = IF 0 < n THEN p[1] ELSE 0
  OBVIOUS
<1>8. InMemory(p, s).elements = E
  BY <1>3
<1> HIDE DEF E
<1> QED BY <1>3, <1>5, <1>6, <1>7, <1>8 DEF IsMemory, HasHeader, HasElements, Header

\* The parts determine the list.
LEMMA PartsAreMemory ==
  ASSUME NEW n \in Nat, NEW p \in Layouts(n), NEW s \in [1 .. n -> ListItems],
         NEW l, IsMemory(l, p, s, n)
  PROVE  l = InMemory(p, s)
<1>1. IsMemory(InMemory(p, s), p, s, n)
  BY MemoryParts
<1>2. PICK m : m = InMemory(p, s)
  OBVIOUS
<1>3. IsMemory(m, p, s, n)
  BY <1>1, <1>2
<1>4. PICK f, g : f = l.elements /\ g = m.elements
  OBVIOUS
<1>5. HasElements(f, p, s, n) /\ HasElements(g, p, s, n)
  BY <1>3, <1>4, Zenon DEF IsMemory
<1>6. \A i \in 1 .. n : f[p[i]] = Element(p, s, n, i) /\ g[p[i]] = Element(p, s, n, i)
  BY <1>5 DEF HasElements
<1>7. \A a \in {p[i] : i \in 1 .. n} : f[a] = g[a]
  BY <1>6
<1>8. f = g
  BY <1>5, <1>7 DEF HasElements
<1>9. l = Header(p, n, f) /\ m = Header(p, n, g)
  BY <1>3, <1>4, Zenon DEF IsMemory, HasHeader
<1> QED BY <1>2, <1>8, <1>9

\* What the elements and pointers of a list in memory are.
LEMMA MemoryFacts ==
  ASSUME NEW n \in Nat, NEW p \in Layouts(n), NEW s \in [1 .. n -> ListItems],
         NEW l, IsMemory(l, p, s, n)
  PROVE  /\ l.first = IF 0 < n THEN p[1] ELSE 0
         /\ l.last = IF n = 0 THEN 0 ELSE p[n]
         /\ DOMAIN l.elements = {p[i] : i \in 1 .. n}
         /\ \A i \in 1 .. n : /\ l.elements[p[i]] = Element(p, s, n, i)
                              /\ l.elements[p[i]].item = s[i]
                              /\ l.elements[p[i]].key = s[i].left
                              /\ l.elements[p[i]].next = IF i < n THEN p[i + 1] ELSE 0
<1>1. PICK f : f = l.elements
  OBVIOUS
<1>2. l = Header(p, n, f) /\ HasElements(f, p, s, n)
  BY <1>1, Zenon DEF IsMemory, HasHeader
<1>3. l.first = (IF 0 < n THEN p[1] ELSE 0) /\ l.last = IF n = 0 THEN 0 ELSE p[n]
  BY <1>2 DEF Header
<1>4. DOMAIN f = {p[i] : i \in 1 .. n}
  BY <1>2 DEF HasElements
<1>5. \A i \in 1 .. n : f[p[i]] = Element(p, s, n, i)
  BY <1>2 DEF HasElements
<1>6. \A i \in 1 .. n : /\ Element(p, s, n, i).item = s[i]
                        /\ Element(p, s, n, i).key = s[i].left
                        /\ Element(p, s, n, i).next = IF i < n THEN p[i + 1] ELSE 0
  BY DEF Element
<1>7. \A i \in 1 .. n : /\ f[p[i]].item = s[i] /\ f[p[i]].key = s[i].left
                        /\ f[p[i]].next = IF i < n THEN p[i + 1] ELSE 0
  BY <1>5, <1>6
<1> QED BY <1>1, <1>3, <1>4, <1>5, <1>7

\* The walk along a list that holds n items: after k steps it is at element k + 1.
LEMMA PointerWalks ==
  ASSUME NEW n \in Nat, NEW p \in Layouts(n), NEW s \in [1 .. n -> ListItems],
         NEW l, IsMemory(l, p, s, n), NEW k \in 0 .. n
  PROVE  List!Pointer(l, k) = IF k < n THEN p[k + 1] ELSE 0
<1> DEFINE Walk(f) ==
      [m \in 0 .. k |-> IF m = 0 THEN l.first
                       ELSE IF f[m - 1] = 0 THEN 0 ELSE l.elements[f[m - 1]].next]
    w == CHOOSE f : f = Walk(f)
    At(m) == IF m < n THEN p[m + 1] ELSE 0
    g == [m \in 0 .. k |-> At(m)]
<1>1. List!Pointer(l, k) = w[k]
  BY DEF List!Pointer
<1>2. /\ l.first = At(0)
      /\ \A m \in 1 .. k : At(m - 1) # 0 /\ l.elements[At(m - 1)].next = At(m)
  <2>1. l.first = At(0)
    BY MemoryFacts
  <2>2. ASSUME NEW m \in 1 .. k PROVE At(m - 1) # 0 /\ l.elements[At(m - 1)].next = At(m)
    <3>1. m \in 1 .. n /\ At(m - 1) = p[m] /\ At(m) = IF m < n THEN p[m + 1] ELSE 0
      OBVIOUS
    <3>2. p[m] # 0 /\ l.elements[p[m]].next = IF m < n THEN p[m + 1] ELSE 0
      <4>1. p[m] # 0
        BY <3>1, LayoutParts
      <4>2. \A i \in 1 .. n : l.elements[p[i]].next = IF i < n THEN p[i + 1] ELSE 0
        BY MemoryFacts
      <4> QED BY <3>1, <4>1, <4>2, Zenon
    <3> QED BY <3>1, <3>2, Zenon
  <2> QED BY <2>1, <2>2
<1> HIDE DEF At
<1>3. g = Walk(g)
  BY <1>2
<1>4. w = Walk(w)
  <2> HIDE DEF Walk, g
  <2> QED BY <1>3
<1> HIDE DEF w
<1>5. w[0] = At(0) /\ \A m \in 1 .. k : w[m - 1] = At(m - 1) => w[m] = At(m)
  <2>1. \A m \in 0 .. k : w[m] = Walk(w)[m]
    BY <1>4, Zenon
  <2> QED BY <1>2, <2>1
<1> DEFINE Wrong == {m \in 0 .. k : w[m] # At(m)}
<1>6. CASE Wrong = {}
  BY <1>1, <1>6 DEF At
<1>7. CASE Wrong # {}
  <2>1. Wrong \subseteq Nat
    OBVIOUS
  <2>2. PICK m \in Wrong : \A j \in Wrong : ~ (<<j, m>> \in OpToRel(<, Nat))
    <3> HIDE DEF Wrong
    <3> QED BY <1>7, <2>1, NatLessThanWellFounded, WFMin, Zenon
  <2>3. \A j \in Wrong : ~ (j < m)
    BY <2>1, <2>2, Zenon DEF OpToRel
  <2>4. m \in 1 .. k /\ w[m] # At(m)
    BY <1>5
  <2>5. m - 1 \notin Wrong /\ m - 1 \in 0 .. k
    BY <2>3, <2>4
  <2> QED BY <1>5, <2>4, <2>5
<1> QED BY <1>6, <1>7

\* The number of elements of a set is what LinkedList takes it for.
LEMMA SameCardinality == \A S : List!Cardinality(S) = Cardinality(S)
  BY Zenon DEF Cardinality, List!Cardinality

\* A list in memory has as many elements as it holds items, and there is room for one.
LEMMA AddressIsNew ==
  ASSUME NEW n \in Nat, NEW p \in Layouts(n), NEW s \in [1 .. n -> ListItems],
         NEW l, IsMemory(l, p, s, n)
  PROVE  /\ List!Cardinality(DOMAIN l.elements) = n
         /\ List!Address(l) \in 1 .. n + 1
         /\ \A i \in 1 .. n : List!Address(l) # p[i]
<1> DEFINE D == {p[i] : i \in 1 .. n}
<1>1. DOMAIN l.elements = D
  BY MemoryFacts
<1>2. p \in [1 .. n -> 1 .. MaxLength + 1] /\ \A i, j \in 1 .. n : p[i] = p[j] => i = j
  BY LayoutParts, Zenon
<1>3. p \in Bijection(1 .. n, D)
  <2>1. p \in [1 .. n -> D] /\ \A a \in D : \E i \in 1 .. n : p[i] = a
    BY <1>2
  <2> HIDE DEF D
  <2> QED BY <1>2, <2>1 DEF IsInjective, Bijection, Injection, Surjection
<1> HIDE DEF D
<1>4. ExistsBijection(1 .. n, D)
  BY <1>3, Zenon DEF ExistsBijection
<1>5. Cardinality(D) = n /\ IsFiniteSet(D)
  BY <1>4, FS_CountingElements, FS_NatBijection, Zenon
<1>6. \E a \in 1 .. n + 1 : a \notin D
  <2> SUFFICES ASSUME 1 .. n + 1 \subseteq D PROVE FALSE
    BY Zenon
  <2>1. Cardinality(1 .. n + 1) <= Cardinality(D)
    BY <1>5, FS_Subset, Zenon
  <2>2. Cardinality(1 .. n + 1) = n + 1
    BY FS_Interval
  <2> QED BY <1>5, <2>1, <2>2
<1>7. List!Address(l) = CHOOSE a \in 1 .. n + 1 : a \notin D
  BY <1>1, <1>5, SameCardinality DEF List!Address
<1>8. List!Address(l) \in 1 .. n + 1 /\ List!Address(l) \notin D
  BY <1>6, <1>7, Zenon
<1> QED BY <1>1, <1>5, <1>8, SameCardinality, ZenonT(60) DEF D

\* From first the pointers lead through the items, in order, to last.
LEMMA WalkIsSequence ==
  ASSUME NEW n \in Nat, NEW p \in Layouts(n), NEW s \in [1 .. n -> ListItems],
         NEW l, IsMemory(l, p, s, n)
  PROVE  List!WellFormed(l) /\ List!Apply(l) = s
<1>1. List!Cardinality(DOMAIN l.elements) = n
  BY AddressIsNew, Zenon
<1>2. \A k \in 0 .. n : List!Pointer(l, k) = IF k < n THEN p[k + 1] ELSE 0
  BY PointerWalks, Zenon
<1>3. l.last = IF n = 0 THEN 0 ELSE p[n]
  BY MemoryFacts
<1>4. \A i \in 1 .. n : p[i] # 0
  BY LayoutParts, Zenon
<1>5. List!WellFormed(l)
  <2>1. List!Pointer(l, n) = 0
    BY <1>2
  <2>2. ASSUME n # 0 PROVE List!Pointer(l, n - 1) = l.last /\ l.last # 0
    <3>1. n - 1 \in 0 .. n /\ n - 1 < n /\ n - 1 + 1 = n /\ n \in 1 .. n
      BY <2>2
    <3> QED BY <1>2, <1>3, <1>4, <2>2, <3>1
  <2>3. n = 0 => l.last = 0
    BY <1>3
  <2> QED BY <1>1, <2>1, <2>2, <2>3 DEF List!WellFormed
<1>6. List!Apply(l) = s
  <2> DEFINE steps == {k \in 0 .. n : List!Pointer(l, k) # 0}
  <2>1. List!Apply(l) = [k \in {m + 1 : m \in steps} |-> l.elements[List!Pointer(l, k - 1)].item]
    BY <1>1 DEF List!Apply
  <2>2. \A k \in 0 .. n : List!Pointer(l, k) # 0 <=> k < n
    BY <1>2, <1>4
  <2>3. {m + 1 : m \in steps} = 1 .. n
    <3>1. \A m \in steps : m + 1 \in 1 .. n
      BY <2>2
    <3>2. \A i \in 1 .. n : i - 1 \in steps /\ i = i - 1 + 1
      BY <2>2
    <3> HIDE DEF steps
    <3> QED BY <3>1, <3>2
  <2>4. \A k \in 1 .. n : l.elements[List!Pointer(l, k - 1)].item = s[k]
    <3> SUFFICES ASSUME NEW k \in 1 .. n PROVE l.elements[List!Pointer(l, k - 1)].item = s[k]
      OBVIOUS
    <3>1. List!Pointer(l, k - 1) = p[k]
      BY <1>2, SMTT(60)
    <3>2. l.elements[p[k]].item = s[k]
      BY MemoryFacts
    <3> QED BY <3>1, <3>2, Zenon
  <2>5. s = [k \in 1 .. n |-> s[k]]
    OBVIOUS
  <2> HIDE DEF steps
  <2> QED BY <2>1, <2>3, <2>4, <2>5
<1> QED BY <1>5, <1>6

\* The sequence of n elements with x put behind the first k.
PutIn(s, n, k, x) ==
  [i \in 1 .. n + 1 |-> IF i <= k THEN s[i] ELSE IF i = k + 1 THEN x ELSE s[i - 1]]

\* The list in memory with the element e, at address a, put behind the first k.
Linked(l, p, n, k, a, e) ==
  [first    |-> IF k = 0 THEN a ELSE l.first,
   last     |-> IF k = n THEN a ELSE l.last,
   elements |-> [b \in DOMAIN l.elements \cup {a} |->
                   IF b = a
                   THEN [item |-> e, key |-> e.left, next |-> IF k < n THEN p[k + 1] ELSE 0]
                   ELSE IF 0 < k /\ b = p[k] THEN [l.elements[b] EXCEPT !.next = a]
                   ELSE l.elements[b]]]

\* A place that is not used can be put in a layout anywhere.
LEMMA PutLayout ==
  ASSUME NEW n \in 0 .. MaxLength, NEW p \in Layouts(n), NEW k \in 0 .. n,
         NEW a \in 1 .. n + 1, \A i \in 1 .. n : a # p[i]
  PROVE  PutIn(p, n, k, a) \in Layouts(n + 1)
<1>1. n \in Nat /\ n + 1 \in Nat /\ a \in 1 .. MaxLength + 1
  BY ListMemoryAssumption
<1>2. p \in [1 .. n -> 1 .. MaxLength + 1] /\ \A i, j \in 1 .. n : p[i] = p[j] => i = j
  BY <1>1, LayoutParts, Zenon
<1>3. PICK S : S = 1 .. MaxLength + 1
  OBVIOUS
<1>4. p \in [1 .. n -> S] /\ a \in S
  BY <1>1, <1>2, <1>3, Zenon
<1> DEFINE q == PutIn(p, n, k, a)
<1>5. \A i \in 1 .. n + 1 :
        q[i] = IF i <= k THEN p[i] ELSE IF i = k + 1 THEN a ELSE p[i - 1]
  BY DEF PutIn
<1>6. q \in [1 .. n + 1 -> S]
  BY <1>1, <1>4 DEF PutIn
<1>7. Len(q) = n + 1
  BY <1>1, <1>6, FunctionIsSequence, Zenon
<1> HIDE DEF q
<1>8. \A i, j \in 1 .. n + 1 : q[i] = q[j] => i = j
  BY <1>1, <1>2, <1>5, SMTT(60)
<1> QED BY <1>3, <1>6, <1>7, <1>8 DEF Layouts, NoDuplicates, q

\* The list with an element put in holds the sequence with it put in.
LEMMA LinkedIsMemory ==
  ASSUME NEW n \in Nat, NEW p \in Layouts(n), NEW s \in [1 .. n -> ListItems],
         NEW l, IsMemory(l, p, s, n), NEW k \in 0 .. n,
         NEW a, \A i \in 1 .. n : a # p[i], NEW e
  PROVE  IsMemory(Linked(l, p, n, k, a, e), PutIn(p, n, k, a), PutIn(s, n, k, e), n + 1)
<1> DEFINE q == PutIn(p, n, k, a)
           t == PutIn(s, n, k, e)
<1>1. \A i \in 1 .. n + 1 :
        /\ q[i] = IF i <= k THEN p[i] ELSE IF i = k + 1 THEN a ELSE p[i - 1]
        /\ t[i] = IF i <= k THEN s[i] ELSE IF i = k + 1 THEN e ELSE s[i - 1]
  BY DEF PutIn
<1> HIDE DEF q, t
<1> DEFINE f == l.elements
           first == l.first
           last == l.last
           New == [item |-> e, key |-> e.left, next |-> IF k < n THEN p[k + 1] ELSE 0]
           g == [b \in DOMAIN f \cup {a} |->
                   IF b = a THEN New
                   ELSE IF 0 < k /\ b = p[k] THEN [f[b] EXCEPT !.next = a]
                   ELSE f[b]]
<1>2. /\ DOMAIN f = {p[i] : i \in 1 .. n}
      /\ first = (IF 0 < n THEN p[1] ELSE 0) /\ last = (IF n = 0 THEN 0 ELSE p[n])
  BY MemoryFacts
<1>3. \A i \in 1 .. n : f[p[i]] = Element(p, s, n, i)
  BY MemoryFacts
<1>4. Linked(l, p, n, k, a, e) = [first |-> IF k = 0 THEN a ELSE first,
                                  last |-> IF k = n THEN a ELSE last, elements |-> g]
  BY Zenon DEF Linked
<1> HIDE DEF f, first, last
<1>5. (IF k = 0 THEN a ELSE first) = IF 0 < n + 1 THEN q[1] ELSE 0
  BY <1>1, <1>2, SMTT(60)
<1>6. (IF k = n THEN a ELSE last) = IF n + 1 = 0 THEN 0 ELSE q[n + 1]
  BY <1>1, <1>2
<1>7. DOMAIN f \cup {a} = {q[i] : i \in 1 .. n + 1}
  <2>1. \A i \in 1 .. n + 1 : q[i] \in DOMAIN f \cup {a}
    BY <1>1, <1>2, SMTT(60)
  <2>2. \A i \in 1 .. n : p[i] = q[IF i <= k THEN i ELSE i + 1]
    BY <1>1
  <2>3. a = q[k + 1] /\ k + 1 \in 1 .. n + 1
    BY <1>1
  <2>4. \A i \in 1 .. n : (IF i <= k THEN i ELSE i + 1) \in 1 .. n + 1
    OBVIOUS
  <2> QED BY <1>2, <2>1, <2>2, <2>3, <2>4, SMTT(60)
<1>8. ASSUME NEW i \in 1 .. n + 1 PROVE g[q[i]] = Element(q, t, n + 1, i)
  <2>1. CASE i = k + 1
    <3>1. q[i] = a /\ g[q[i]] = New /\ t[i] = e
      BY <1>1, <2>1, SMTT(60)
    <3>2. (IF k < n THEN p[k + 1] ELSE 0) = IF i < n + 1 THEN q[i + 1] ELSE 0
      BY <1>1, <2>1
    <3> QED BY <3>1, <3>2 DEF Element
  <2>2. CASE i < k
    <3>1. q[i] = p[i] /\ i \in 1 .. n /\ t[i] = s[i] /\ q[i + 1] = p[i + 1] /\ i < n /\ i < n + 1
      BY <1>1, <2>2, SMTT(60)
    <3>2. p[i] # a /\ p[i] # p[k] /\ p[i] \in DOMAIN f
      BY <1>2, <2>2, <3>1, LayoutParts, SMTT(60)
    <3>3. g[q[i]] = Element(p, s, n, i)
      BY <1>3, <3>1, <3>2
    <3> QED BY <3>1, <3>3 DEF Element
  <2>3. CASE i = k
    <3>1. q[i] = p[i] /\ i \in 1 .. n /\ t[i] = s[i] /\ q[i + 1] = a /\ i < n + 1 /\ 0 < k
      BY <1>1, <2>3
    <3>2. p[i] # a /\ p[i] \in DOMAIN f
      BY <1>2, <3>1
    <3>3. g[q[i]] = [Element(p, s, n, i) EXCEPT !.next = a]
      BY <1>3, <2>3, <3>1, <3>2, SMTT(60)
    <3> QED BY <3>1, <3>3 DEF Element
  <2>4. CASE i > k + 1
    <3>1. /\ q[i] = p[i - 1] /\ i - 1 \in 1 .. n /\ t[i] = s[i - 1]
          /\ i < n + 1 => q[i + 1] = p[i] /\ i - 1 < n
          /\ ~ (i < n + 1) => ~ (i - 1 < n)
      BY <1>1, <2>4, SMTT(60)
    <3>2. p[i - 1] # a /\ (0 < k => p[i - 1] # p[k]) /\ p[i - 1] \in DOMAIN f
      BY <1>2, <2>4, <3>1, LayoutParts, SMTT(60)
    <3>3. g[q[i]] = Element(p, s, n, i - 1)
      BY <1>3, <3>1, <3>2
    <3>4. i - 1 + 1 = i
      OBVIOUS
    <3> QED BY <3>1, <3>3, <3>4, SMTT(60) DEF Element
  <2> QED BY <2>1, <2>2, <2>3, <2>4, SMTT(60)
<1>9. g = [b \in {q[i] : i \in 1 .. n + 1} |-> g[b]]
  BY <1>7
<1> HIDE DEF g
<1>10. HasElements(g, q, t, n + 1)
  BY <1>8, <1>9, Zenon DEF HasElements
<1>11. PICK m : m = Linked(l, p, n, k, a, e)
  BY SMTT(60)
<1>12. m = Header(q, n + 1, g) /\ m.elements = g
  BY <1>4, <1>5, <1>6, <1>11 DEF Header
<1> QED BY <1>10, <1>11, <1>12, Zenon DEF IsMemory, HasHeader, q, t

\* Functions with the same values are the same.
LEMMA SameFunction ==
  ASSUME NEW D, NEW F, NEW G, F = [b \in D |-> F[b]], G = [b \in D |-> G[b]],
         \A b \in D : F[b] = G[b]
  PROVE  F = G
<1>1. [b \in D |-> F[b]] = [b \in D |-> G[b]]
  OBVIOUS
<1> QED BY <1>1, Zenon

\* A list with these fields.
Fields(first, last, elements) == [first |-> first, last |-> last, elements |-> elements]

\* The assignment of v to the field next of the element at z.
SetNext(l, z, v) == [l EXCEPT !.elements[z].next = v]
NextSet(elements, z, v) == [elements EXCEPT ![z].next = v]

\* Assignments to the fields of a list.
LEMMA FieldsAre ==
  ASSUME NEW x, NEW y, NEW g, NEW m, m = Fields(x, y, g)
  PROVE  m.first = x /\ m.last = y /\ m.elements = g
  BY DEF Fields
LEMMA AssignFirst ==
  ASSUME NEW x, NEW y, NEW g, NEW m, m = Fields(x, y, g), NEW v
  PROVE  [m EXCEPT !.first = v] = Fields(v, y, g)
  BY DEF Fields
LEMMA AssignLast ==
  ASSUME NEW x, NEW y, NEW g, NEW m, m = Fields(x, y, g), NEW v
  PROVE  [m EXCEPT !.last = v] = Fields(x, v, g)
  BY DEF Fields
LEMMA AssignNext ==
  ASSUME NEW x, NEW y, NEW g, NEW m, m = Fields(x, y, g), NEW z, NEW v
  PROVE  SetNext(m, z, v) = Fields(x, y, NextSet(g, z, v))
<1>1. [m EXCEPT !.elements = NextSet(g, z, v)] = Fields(x, y, NextSet(g, z, v))
  BY DEF Fields
<1>2. SetNext(m, z, v) = [m EXCEPT !.elements = NextSet(g, z, v)]
  BY FieldsAre DEF SetNext, NextSet
<1> QED BY <1>1, <1>2, Zenon

\* What the assignments of Append, Prepend and SortedInsert make of a list.
LEMMA OperationsLink ==
  ASSUME NEW n \in Nat, NEW p \in Layouts(n), NEW s \in [1 .. n -> ListItems],
         NEW l, IsMemory(l, p, s, n), NEW e,
         NEW a, a = List!Address(l), NEW m, m = List!ListElement(l, e, e.left)
  PROVE  /\ List!InFront(m, a) = Linked(l, p, n, 0, a, e)
         /\ List!AtEnd(m, a) = Linked(l, p, n, n, a, e)
         /\ \A k \in 1 .. n - 1 : List!Behind(m, a, p[k]) = Linked(l, p, n, k, a, e)
<1> DEFINE f == l.elements
           first == l.first
           last == l.last
           New == [item |-> e, key |-> e.left, next |-> 0]
           g == [b \in DOMAIN f \cup {a} |-> IF b = a THEN New ELSE f[b]]
<1>1. /\ DOMAIN f = {p[i] : i \in 1 .. n}
      /\ first = (IF 0 < n THEN p[1] ELSE 0) /\ last = (IF n = 0 THEN 0 ELSE p[n])
  BY MemoryFacts
<1>2. \A i \in 1 .. n : a # p[i] /\ p[i] # 0
  BY AddressIsNew, LayoutParts, SMTT(60)
<1>3. \A i \in 1 .. n :
        f[p[i]] = Element(p, s, n, i) /\ f[p[i]].next = IF i < n THEN p[i + 1] ELSE 0
  BY MemoryFacts
<1>4. m = Fields(first, last, g)
  <2>1. l = [first |-> first, last |-> last, elements |-> f]
    BY DEF IsMemory, HasHeader, Header
  <2>2. m = [l EXCEPT !.elements = g]
    BY Zenon DEF List!ListElement
  <2> HIDE DEF f, first, last, g
  <2> QED BY <2>1, <2>2 DEF Fields
<1> DEFINE h(k) ==
      [b \in DOMAIN f \cup {a} |->
         IF b = a
         THEN [item |-> e, key |-> e.left, next |-> IF k < n THEN p[k + 1] ELSE 0]
         ELSE IF 0 < k /\ b = p[k] THEN [f[b] EXCEPT !.next = a]
         ELSE f[b]]
<1>5. \A k \in 0 .. n : Linked(l, p, n, k, a, e) =
        Fields(IF k = 0 THEN a ELSE first, IF k = n THEN a ELSE last, h(k))
  BY Zenon DEF Linked, Fields
<1> HIDE DEF f, first, last
<1>6. g[a] = New /\ a \notin DOMAIN f /\ \A b \in DOMAIN f : g[b] = f[b]
  BY <1>1, <1>2, SMTT(60)
<1>7. List!IsEmpty(m) <=> n = 0
  BY <1>1, <1>2, <1>4, FieldsAre DEF List!IsEmpty
<1>8. n = 0 => h(0) = g
  BY <1>1
<1>9. ASSUME 0 < n PROVE [g EXCEPT ![a].next = first] = h(0)
  <2>1. PICK G : G = [g EXCEPT ![a].next = first]
    BY Zenon
  <2>2. G = [b \in DOMAIN f \cup {a} |-> G[b]] /\ h(0) = [b \in DOMAIN f \cup {a} |-> h(0)[b]]
    BY <2>1, Zenon
  <2>3. \A b \in DOMAIN f : G[b] = f[b] /\ h(0)[b] = f[b]
    BY <1>6, <2>1
  <2>4. G[a] = [New EXCEPT !.next = first]
    BY <2>1
  <2>5. h(0)[a] = [item |-> e, key |-> e.left, next |-> first]
    BY <1>1, <1>9
  <2>6. [New EXCEPT !.next = first] = [item |-> e, key |-> e.left, next |-> first]
    OBVIOUS
  <2> HIDE DEF h, New
  <2> QED BY <2>1, <2>2, <2>3, <2>4, <2>5, <2>6, Zenon
<1>10. ASSUME 0 < n PROVE [g EXCEPT ![last].next = a] = h(n)
  <2>1. PICK G : G = [g EXCEPT ![last].next = a]
    BY Zenon
  <2>2. G = [b \in DOMAIN f \cup {a} |-> G[b]] /\ h(n) = [b \in DOMAIN f \cup {a} |-> h(n)[b]]
    BY <2>1, Zenon
  <2>3. last = p[n] /\ p[n] \in DOMAIN f /\ p[n] # a
    BY <1>1, <1>2, <1>10
  <2>4. \A b \in DOMAIN f \ {p[n]} : G[b] = f[b] /\ h(n)[b] = f[b]
    BY <1>6, <2>1, <2>3
  <2>5. G[a] = New /\ h(n)[a] = New
    BY <1>6, <2>1, <2>3
  <2>6. G[p[n]] = [f[p[n]] EXCEPT !.next = a] /\ h(n)[p[n]] = [f[p[n]] EXCEPT !.next = a]
    BY <1>6, <1>10, <2>1, <2>3, Zenon
  <2> HIDE DEF h, New
  <2>7. \A b \in DOMAIN f \cup {a} : G[b] = h(n)[b]
    BY <2>4, <2>5, <2>6, Zenon
  <2> QED BY <2>1, <2>2, <2>7, SameFunction, Zenon
<1>11. ASSUME NEW k \in 1 .. n - 1
       PROVE  [[g EXCEPT ![a].next = g[p[k]].next] EXCEPT ![p[k]].next = a] = h(k)
  <2>1. k \in 1 .. n /\ k < n /\ 0 < k
    BY SMTT(60)
  <2>2. p[k] \in DOMAIN f /\ p[k] # a /\ f[p[k]].next = p[k + 1]
    BY <1>1, <1>2, <1>3, <2>1, Zenon
  <2>3. PICK G : G = [[g EXCEPT ![a].next = g[p[k]].next] EXCEPT ![p[k]].next = a]
    OBVIOUS
  <2>4. G = [b \in DOMAIN f \cup {a} |-> G[b]] /\ h(k) = [b \in DOMAIN f \cup {a} |-> h(k)[b]]
    <3>1. PICK G1 : G1 = [g EXCEPT ![a].next = g[p[k]].next]
      OBVIOUS
    <3>2. DOMAIN G1 = DOMAIN f \cup {a} /\ G = [G1 EXCEPT ![p[k]].next = a]
      BY <2>3, <3>1
    <3>3. G = [b \in DOMAIN f \cup {a} |-> G[b]]
      BY <3>2
    <3> QED BY <3>3
  <2>5. \A b \in DOMAIN f \ {p[k]} : G[b] = f[b] /\ h(k)[b] = f[b]
    BY <1>6, <2>2, <2>3, Zenon
  <2>6. G[a] = [New EXCEPT !.next = p[k + 1]]
    BY <1>6, <2>2, <2>3
  <2>7. h(k)[a] = [item |-> e, key |-> e.left, next |-> p[k + 1]]
    BY <2>1
  <2>8. [New EXCEPT !.next = p[k + 1]] = [item |-> e, key |-> e.left, next |-> p[k + 1]]
    OBVIOUS
  <2>9. G[p[k]] = [f[p[k]] EXCEPT !.next = a] /\ h(k)[p[k]] = [f[p[k]] EXCEPT !.next = a]
    BY <1>6, <2>1, <2>2, <2>3, Zenon
  <2> HIDE DEF h, New
  <2>10. \A b \in DOMAIN f \cup {a} : G[b] = h(k)[b]
    BY <2>5, <2>6, <2>7, <2>8, <2>9, Zenon
  <2> QED BY <2>3, <2>4, <2>10, SameFunction, Zenon
<1> HIDE DEF g, h
<1>0. m.first = first /\ m.last = last /\ m.elements = g
  BY <1>4, FieldsAre
<1>15. ASSUME n = 0
       PROVE  [m EXCEPT !.first = a, !.last = a] = Fields(a, a, g)
  <2>1. PICK u : u = [m EXCEPT !.first = a]
    BY Zenon
  <2>2. u = Fields(a, last, g)
    BY <1>4, <2>1, AssignFirst
  <2>3. [u EXCEPT !.last = a] = Fields(a, a, g)
    BY <2>2, AssignLast
  <2> QED BY <2>1, <2>3
<1>12. List!InFront(m, a) = Linked(l, p, n, 0, a, e)
  <2>1. CASE n = 0
    <3>1. List!InFront(m, a) = Fields(a, a, g)
      BY <1>7, <1>15, <2>1, Zenon DEF List!InFront
    <3> QED BY <1>5, <1>8, <2>1, <3>1
  <2>2. CASE n # 0
    <3>1. PICK u : u = SetNext(m, a, first)
      OBVIOUS
    <3>2. NextSet(g, a, first) = h(0)
      BY <1>9, <2>2, SMTT(60) DEF NextSet
    <3>3. u = Fields(first, last, h(0))
      BY <1>4, <3>1, <3>2, AssignNext, SMTT(60)
    <3>4. List!InFront(m, a) = [u EXCEPT !.first = a]
      BY <1>0, <1>7, <2>2, <3>1 DEF List!InFront, SetNext
    <3>5. [u EXCEPT !.first = a] = Fields(a, last, h(0))
      BY <3>3, AssignFirst
    <3>6. Linked(l, p, n, 0, a, e) = Fields(a, last, h(0))
      BY <1>5, <2>2
    <3> QED BY <3>4, <3>5, <3>6, Zenon
  <2> QED BY <2>1, <2>2
<1>13. List!AtEnd(m, a) = Linked(l, p, n, n, a, e)
  <2>1. CASE n = 0
    <3>1. List!AtEnd(m, a) = Fields(a, a, g)
      BY <1>7, <1>15, <2>1, Zenon DEF List!AtEnd
    <3> QED BY <1>5, <1>8, <2>1, <3>1
  <2>2. CASE n # 0
    <3>1. PICK u : u = SetNext(m, last, a)
      OBVIOUS
    <3>2. NextSet(g, last, a) = h(n)
      BY <1>10, <2>2 DEF NextSet
    <3>3. u = Fields(first, last, h(n))
      BY <1>4, <3>1, <3>2, AssignNext, SMTT(60)
    <3>4. List!AtEnd(m, a) = [u EXCEPT !.last = a]
      BY <1>0, <1>7, <2>2, <3>1 DEF List!AtEnd, SetNext
    <3>5. [u EXCEPT !.last = a] = Fields(first, a, h(n))
      BY <3>3, AssignLast
    <3>6. Linked(l, p, n, n, a, e) = Fields(first, a, h(n))
      BY <1>5, <2>2
    <3> QED BY <3>4, <3>5, <3>6, Zenon
  <2> QED BY <2>1, <2>2
<1>14. ASSUME NEW k \in 1 .. n - 1
       PROVE  List!Behind(m, a, p[k]) = Linked(l, p, n, k, a, e)
  <2>1. PICK v, G : v = g[p[k]].next /\ G = NextSet(g, a, v)
    OBVIOUS
  <2>2. PICK u : u = SetNext(m, a, v)
    BY SMTT(60)
  <2>3. u = Fields(first, last, G)
    BY <1>4, <2>1, <2>2, AssignNext, SMTT(60)
  <2>4. List!Behind(m, a, p[k]) = SetNext(u, p[k], a)
    BY <1>0, <2>1, <2>2 DEF List!Behind, SetNext
  <2>5. NextSet(G, p[k], a) = h(k)
    BY <1>11, <2>1, Zenon DEF NextSet
  <2>6. SetNext(u, p[k], a) = Fields(first, last, h(k))
    BY <2>3, <2>5, AssignNext
  <2>7. k \in 0 .. n /\ k # 0 /\ k # n
    OBVIOUS
  <2>8. Linked(l, p, n, k, a, e) = Fields(first, last, h(k))
    BY <1>5, <2>7, Zenon
  <2> QED BY <2>4, <2>6, <2>8, ZenonT(60)
<1> QED BY <1>12, <1>13, <1>14, SMTT(60)

\* There is a place before the first element with a bigger key.
LEMMA PlaceExists ==
  ASSUME NEW S, \A x \in S : x.left \in Int, NEW s \in Seq(S), NEW e \in S
  PROVE  \E k \in 0 .. Len(s) : /\ \A n \in 1 .. k : s[n].left <= e.left
                                /\ k < Len(s) => e.left < s[k + 1].left
<1>0. PICK m \in Nat : m = Len(s) /\ \A n \in 1 .. m : s[n].left \in Int
  OBVIOUS
<1> DEFINE Ends == {k \in 0 .. m : k = m \/ e.left < s[k + 1].left}
<1>1. Ends # {} /\ Ends \subseteq Nat
  <2>1. m \in Ends
    OBVIOUS
  <2>2. \A k \in Ends : k \in Nat
    OBVIOUS
  <2> HIDE DEF Ends
  <2> QED BY <2>1, <2>2
<1>2. PICK k \in Ends : \A n \in Ends : ~ (<<n, k>> \in OpToRel(<, Nat))
  <2> HIDE DEF Ends
  <2> QED BY <1>1, NatLessThanWellFounded, WFMin, Zenon
<1>3. \A n \in Ends : ~ (n < k)
  BY <1>1, <1>2, Zenon DEF OpToRel
<1>4. k \in 0 .. m /\ (k < m => e.left < s[k + 1].left)
  OBVIOUS
<1>5. ASSUME NEW n \in 1 .. k PROVE s[n].left <= e.left
  <2>1. n - 1 \in 0 .. m /\ n - 1 < k /\ n \in 1 .. m /\ n - 1 # m /\ (n - 1) + 1 = n
    BY <1>4
  <2>2. n - 1 \notin Ends
    BY <1>3, <2>1, Zenon
  <2>3. ~ (e.left < s[n].left)
    BY <2>1, <2>2, SMTT(60)
  <2> QED BY <1>0, <2>1, <2>3, SMTT(60)
<1> QED BY <1>0, <1>4, <1>5

\* What they do to the sequence.
LEMMA SequencesPut ==
  ASSUME NEW n \in Nat, NEW s \in [1 .. n -> ListItems], NEW e \in ListItems
  PROVE  /\ Append(s, e) = PutIn(s, n, n, e)
         /\ <<e>> \o s = PutIn(s, n, 0, e)
         /\ \E k \in 0 .. n : /\ SortedInsert(s, e) = PutIn(s, n, k, e)
                              /\ \A i \in 1 .. k : s[i].left <= e.left
                              /\ k < n => e.left < s[k + 1].left
<1>1. s \in Seq(ListItems) /\ Len(s) = n
  BY FunctionIsSequence, Zenon
<1>2. Append(s, e) = PutIn(s, n, n, e)
  <2>1. PICK r : r = Append(s, e)
    BY Zenon
  <2>2. r \in Seq(ListItems) /\ Len(r) = n + 1 /\ \A i \in 1 .. n + 1 : r[i] = IF i <= n THEN s[i] ELSE e
    BY <1>1, <2>1
  <2>3. \A i \in 1 .. n + 1 : r[i] = PutIn(s, n, n, e)[i]
    BY <2>2 DEF PutIn
  <2>4. r = [i \in 1 .. n + 1 |-> r[i]]
    BY <2>2
  <2>5. PICK q : q = PutIn(s, n, n, e)
    OBVIOUS
  <2>6. q = [i \in 1 .. n + 1 |-> q[i]]
    BY <2>5 DEF PutIn
  <2>7. \A i \in 1 .. n + 1 : r[i] = q[i]
    BY <2>3, <2>5, Zenon
  <2>8. r = q
    <3>1. PICK D : D = 1 .. n + 1
      OBVIOUS
    <3>2. r = [i \in D |-> r[i]] /\ q = [i \in D |-> q[i]] /\ \A i \in D : r[i] = q[i]
      BY <2>4, <2>6, <2>7, <3>1, Zenon
    <3> QED BY <3>2, SameFunction
  <2> QED BY <2>1, <2>5, <2>8, Zenon
<1>3. <<e>> \o s = PutIn(s, n, 0, e)
  <2>1. PICK r : r = <<e>> \o s
    BY Zenon
  <2>2. r \in Seq(ListItems) /\ Len(r) = n + 1 /\ \A i \in 1 .. n + 1 : r[i] = IF i = 1 THEN e ELSE s[i - 1]
    BY <1>1, <2>1
  <2>3. \A i \in 1 .. n + 1 : r[i] = PutIn(s, n, 0, e)[i]
    BY <2>2 DEF PutIn
  <2>4. r = [i \in 1 .. n + 1 |-> r[i]]
    BY <2>2
  <2>5. PICK q : q = PutIn(s, n, 0, e)
    OBVIOUS
  <2>6. q = [i \in 1 .. n + 1 |-> q[i]]
    BY <2>5 DEF PutIn
  <2>7. \A i \in 1 .. n + 1 : r[i] = q[i]
    BY <2>3, <2>5, ZenonT(60)
  <2>8. r = q
    <3>1. PICK D : D = 1 .. n + 1
      OBVIOUS
    <3>2. r = [i \in D |-> r[i]] /\ q = [i \in D |-> q[i]] /\ \A i \in D : r[i] = q[i]
      BY <2>4, <2>6, <2>7, <3>1, Zenon
    <3> QED BY <3>2, SameFunction
  <2> QED BY <2>1, <2>5, <2>8, Zenon
<1>4. \A x \in ListItems : x.left \in Int
  BY ListMemoryAssumption
<1> DEFINE Here(k) == /\ \A i \in 1 .. k : s[i].left <= e.left
                      /\ k < n => e.left < s[k + 1].left
           c == CHOOSE k \in 0 .. n : Here(k)
<1>5. PICK k \in 0 .. n : k = c /\ Here(k)
  <2>1. \E k \in 0 .. n : Here(k)
    BY <1>1, <1>4, PlaceExists, Zenon
  <2> HIDE DEF Here
  <2> QED BY <2>1
<1>6. SortedInsert(s, e) = SubSeq(s, 1, k) \o <<e>> \o SubSeq(s, k + 1, n)
  BY <1>1, <1>5, Zenon DEF SortedInsert
<1>7. Here(k)
  BY <1>5, Zenon
<1> HIDE DEF c
<1>8. SubSeq(s, 1, k) \o <<e>> \o SubSeq(s, k + 1, n) = PutIn(s, n, k, e)
  <2>1. PICK u, v, m : u = SubSeq(s, 1, k) /\ v = SubSeq(s, k + 1, n) /\ m = n - k
    OBVIOUS
  <2>2. u \in Seq(ListItems) /\ Len(u) = k /\ \A i \in 1 .. k : u[i] = s[i]
    BY <1>1, <2>1
  <2>3. v \in Seq(ListItems) /\ Len(v) = m /\ \A i \in 1 .. m : v[i] = s[k + i]
    BY <1>1, <2>1
  <2>4. PICK d \in Seq(ListItems) : /\ d = u \o <<e>> /\ Len(d) = k + 1
                                    /\ d[k + 1] = e /\ \A i \in 1 .. k : d[i] = s[i]
    <3>1. /\ u \o <<e>> \in Seq(ListItems) /\ Len(u \o <<e>>) = k + 1
          /\ (u \o <<e>>)[k + 1] = e /\ \A i \in 1 .. k : (u \o <<e>>)[i] = s[i]
      BY <2>2
    <3> QED BY <3>1, Zenon
  <2>5. PICK r \in Seq(ListItems) :
          /\ r = d \o v /\ Len(r) = Len(d) + Len(v)
          /\ \A i \in 1 .. Len(d) + Len(v) : r[i] = IF i <= Len(d) THEN d[i] ELSE v[i - Len(d)]
    <3>1. /\ d \o v \in Seq(ListItems) /\ Len(d \o v) = Len(d) + Len(v)
          /\ \A i \in 1 .. Len(d) + Len(v) :
               (d \o v)[i] = IF i <= Len(d) THEN d[i] ELSE v[i - Len(d)]
      BY <2>3, ConcatProperties, SMTT(60)
    <3> QED BY <3>1, Zenon
  <2>6. Len(r) = n + 1 /\ Len(d) + Len(v) = n + 1
    BY <2>1, <2>3, <2>4, <2>5, SMTT(60)
  <2>7. ASSUME NEW i \in 1 .. n + 1 PROVE r[i] = PutIn(s, n, k, e)[i]
    <3>1. r[i] = IF i <= k + 1 THEN d[i] ELSE v[i - (k + 1)]
      BY <2>4, <2>5, <2>6, SMTT(60)
    <3>2. CASE i <= k
      <4>1. i \in 1 .. k /\ i <= k + 1
        BY <3>2
      <4> QED BY <2>4, <3>1, <3>2, <4>1, SMTT(60) DEF PutIn
    <3>3. CASE i = k + 1
      BY <2>4, <3>1, <3>3, SMTT(60) DEF PutIn
    <3>4. CASE i > k + 1
      <4>1. i - (k + 1) \in 1 .. m /\ k + (i - (k + 1)) = i - 1
        BY <2>1, <3>4
      <4>2. r[i] = s[i - 1]
        <5>1. ~ (i <= k + 1)
          BY <3>4
        <5>2. r[i] = v[i - (k + 1)]
          BY <3>1, <5>1, Zenon
        <5>3. v[i - (k + 1)] = s[k + (i - (k + 1))]
          BY <2>3, <4>1, Zenon
        <5> QED BY <4>1, <5>2, <5>3, Zenon
      <4> QED BY <3>4, <4>2 DEF PutIn
    <3> QED BY <3>2, <3>3, <3>4, SMTT(60)
  <2>8. r = [i \in 1 .. n + 1 |-> r[i]]
    BY <2>6
  <2>9. PICK q : q = PutIn(s, n, k, e)
    OBVIOUS
  <2>10. q = [i \in 1 .. n + 1 |-> q[i]]
    BY <2>9 DEF PutIn
  <2>11. \A i \in 1 .. n + 1 : r[i] = q[i]
    BY <2>7, <2>9, Zenon
  <2>12. r = PutIn(s, n, k, e)
    <3>1. PICK D : D = 1 .. n + 1
      OBVIOUS
    <3>2. r = [i \in D |-> r[i]] /\ q = [i \in D |-> q[i]] /\ \A i \in D : r[i] = q[i]
      BY <2>8, <2>10, <2>11, <3>1, Zenon
    <3> QED BY <2>9, <3>2, SameFunction
  <2> QED BY <2>1, <2>4, <2>5, <2>12, Zenon
<1> QED BY <1>2, <1>3, <1>6, <1>7, <1>8, Zenon

\* A list with the parts of one in memory holds its sequence.
LEMMA MemoryHolds ==
  ASSUME NEW n \in Nat, NEW p \in Layouts(n), NEW s \in [1 .. n -> ListItems],
         NEW l, IsMemory(l, p, s, n)
  PROVE  Holds(l, s)
<1>1. l = InMemory(p, s)
  BY PartsAreMemory, Zenon
<1>2. Len(s) = n
  BY FunctionIsSequence, Zenon
<1> QED BY <1>1, <1>2, Zenon DEF Holds

\* So does one with an element put in.
LEMMA LinkedHolds ==
  ASSUME NEW n \in 0 .. MaxLength, NEW p \in Layouts(n), NEW s \in [1 .. n -> ListItems],
         NEW l, IsMemory(l, p, s, n), NEW e \in ListItems, NEW k \in 0 .. n
  PROVE  Holds(Linked(l, p, n, k, List!Address(l), e), PutIn(s, n, k, e))
<1>1. n \in Nat /\ n + 1 \in Nat
  BY ListMemoryAssumption
<1>2. PICK a \in 1 .. n + 1 : a = List!Address(l) /\ \A i \in 1 .. n : a # p[i]
  BY <1>1, AddressIsNew
<1>3. PutIn(p, n, k, a) \in Layouts(n + 1)
  BY <1>2, PutLayout, Zenon
<1>4. PutIn(s, n, k, e) \in [1 .. n + 1 -> ListItems]
  BY <1>1 DEF PutIn
<1>5. IsMemory(Linked(l, p, n, k, a, e), PutIn(p, n, k, a), PutIn(s, n, k, e), n + 1)
  BY <1>1, <1>2, LinkedIsMemory, Zenon
<1> QED BY <1>1, <1>2, <1>3, <1>4, <1>5, MemoryHolds, Zenon

\* The loop of SortedInsert stops where the sequence has the element put in.
LEMMA SortedInsertLinks ==
  ASSUME NEW n \in Nat, NEW p \in Layouts(n), NEW s \in [1 .. n -> ListItems],
         NEW l, IsMemory(l, p, s, n), NEW e \in ListItems, NEW c \in 0 .. n,
         \A i \in 1 .. c : s[i].left <= e.left, c < n => e.left < s[c + 1].left
  PROVE  List!SortedInsert(l, e, e.left) = Linked(l, p, n, c, List!Address(l), e)
<1>1. PICK a, m : a = List!Address(l) /\ m = List!ListElement(l, e, e.left)
  OBVIOUS
<1>2. e.left \in Int /\ \A i \in 1 .. n : s[i].left \in Int
  BY ListMemoryAssumption, SMTT(60)
<1>3. /\ List!InFront(m, a) = Linked(l, p, n, 0, a, e)
      /\ List!AtEnd(m, a) = Linked(l, p, n, n, a, e)
      /\ \A k \in 1 .. n - 1 : List!Behind(m, a, p[k]) = Linked(l, p, n, k, a, e)
  BY <1>1, OperationsLink, SMTT(60)
<1>4. /\ l.first = IF 0 < n THEN p[1] ELSE 0
      /\ \A i \in 1 .. n : /\ l.elements[p[i]].key = s[i].left
                           /\ l.elements[p[i]].next = IF i < n THEN p[i + 1] ELSE 0
  BY MemoryFacts
<1>5. \A i \in 1 .. n : p[i] # 0
  BY LayoutParts, Zenon
<1>6. List!IsEmpty(l) <=> n = 0
  BY <1>4, <1>5 DEF List!IsEmpty
<1>7. List!Cardinality(DOMAIN l.elements) = n
  BY AddressIsNew, ZenonT(60)
<1> DEFINE First(k) == /\ List!Stops(l, e.left, k)
                       /\ \A i \in 0 .. k - 1 : ~List!Stops(l, e.left, i)
           d == CHOOSE k \in 0 .. n - 1 : First(k)
<1>8. List!SortedInsert(l, e, e.left) =
        IF List!IsEmpty(l) \/ e.left < l.elements[l.first].key THEN List!InFront(m, a)
        ELSE IF l.elements[List!Pointer(l, d)].next = 0 THEN List!AtEnd(m, a)
        ELSE List!Behind(m, a, List!Pointer(l, d))
  <2> DEFINE j == CHOOSE k \in 0 .. List!Cardinality(DOMAIN l.elements) - 1 : First(k)
  <2>1. List!SortedInsert(l, e, e.left) =
          IF List!IsEmpty(l) \/ e.left < l.elements[l.first].key
          THEN List!InFront(List!ListElement(l, e, e.left), List!Address(l))
          ELSE IF l.elements[List!Pointer(l, j)].next = 0
          THEN List!AtEnd(List!ListElement(l, e, e.left), List!Address(l))
          ELSE List!Behind(List!ListElement(l, e, e.left), List!Address(l), List!Pointer(l, j))
    BY Zenon DEF List!SortedInsert
  <2>2. j = d
    BY <1>7
  <2> HIDE DEF j, d
  <2> QED BY <1>1, <2>1, <2>2, Zenon
<1>9. CASE c = 0
  <2>1. n # 0 => e.left < l.elements[l.first].key
    BY <1>4, <1>9, SMTT(60)
  <2> HIDE DEF d
  <2> QED BY <1>1, <1>3, <1>6, <1>8, <1>9, <2>1, ZenonT(60)
<1>10. CASE c # 0
  <2>1. n # 0 /\ 0 < n /\ c \in 1 .. n /\ 1 \in 1 .. n /\ c - 1 \in 0 .. n - 1
    BY <1>10, SMTT(60)
  <2>2. ~ (e.left < l.elements[l.first].key)
    <3>1. s[1].left <= e.left
      BY <1>10
    <3> QED BY <1>2, <1>4, <2>1, <3>1, SMTT(60)
  <2>3. ASSUME NEW k \in 0 .. n - 1
        PROVE  /\ List!Pointer(l, k) = p[k + 1]
               /\ List!Stops(l, e.left, k) <=> (k + 1 = n \/ e.left < s[k + 2].left)
    <3>1. k \in 0 .. n /\ k < n /\ k + 1 \in 1 .. n /\ k + 1 + 1 = k + 2
      OBVIOUS
    <3>2. List!Pointer(l, k) = p[k + 1]
      <4>1. List!Pointer(l, k) = IF k < n THEN p[k + 1] ELSE 0
        BY <3>1, PointerWalks, Zenon
      <4> QED BY <3>1, <4>1, Zenon
    <3>3. l.elements[List!Pointer(l, k)].next = IF k + 1 < n THEN p[k + 2] ELSE 0
      BY <1>4, <3>1, <3>2, SMTT(60)
    <3>4. CASE k + 1 = n
      <4>1. l.elements[List!Pointer(l, k)].next = 0
        BY <3>3, <3>4
      <4>2. List!Stops(l, e.left, k)
        BY <4>1, Zenon DEF List!Stops
      <4> QED BY <3>2, <3>4, <4>2, SMTT(60)
    <3>5. CASE k + 1 # n
      <4>1. k + 2 \in 1 .. n /\ k + 1 < n
        BY <3>1, <3>5, SMTT(60)
      <4>2. p[k + 2] # 0 /\ l.elements[p[k + 2]].key = s[k + 2].left
        BY <1>4, <1>5, <4>1, SMTT(60)
      <4>3. l.elements[List!Pointer(l, k)].next = p[k + 2]
        BY <3>3, <4>1, SMTT(60)
      <4>4. List!Stops(l, e.left, k) <=> e.left < s[k + 2].left
        BY <4>2, <4>3 DEF List!Stops
      <4> QED BY <3>2, <3>5, <4>4, SMTT(60)
    <3> QED BY <3>2, <3>4, <3>5
  <2>4. First(c - 1)
    <3>1. List!Stops(l, e.left, c - 1)
      BY <2>1, <2>3
    <3>2. ASSUME NEW i \in 0 .. c - 1 - 1 PROVE ~List!Stops(l, e.left, i)
      <4>1. i \in 0 .. n - 1 /\ i + 1 # n /\ i + 2 \in 1 .. c /\ i + 2 \in 1 .. n
        BY <2>1
      <4>2. ~ (e.left < s[i + 2].left)
        BY <1>2, <4>1, SMTT(60)
      <4> QED BY <2>3, <4>1, <4>2, Zenon
    <3> QED BY <3>1, <3>2, SMTT(60)
  <2>5. \A k \in 0 .. n - 1 : First(k) => k = c - 1
    <3> SUFFICES ASSUME NEW k \in 0 .. n - 1, First(k), k # c - 1 PROVE FALSE
      OBVIOUS
    <3>1. k < c - 1 => k \in 0 .. c - 1 - 1
      BY <2>1
    <3>2. ~ (k < c - 1) => c - 1 \in 0 .. k - 1
      BY <2>1
    <3> QED BY <2>4, <3>1, <3>2, SMTT(60)
  <2>6. d = c - 1
    <3> HIDE DEF First
    <3> QED BY <2>1, <2>4, <2>5
  <2>7. List!Pointer(l, d) = p[c]
    <3>1. c - 1 + 1 = c
      OBVIOUS
    <3> QED BY <2>1, <2>3, <2>6, <3>1, Zenon
  <2> HIDE DEF d
  <2>8. CASE c = n
    <3>1. l.elements[p[c]].next = 0
      BY <1>4, <2>1, <2>8
    <3> QED BY <1>1, <1>3, <1>6, <1>8, <2>1, <2>2, <2>7, <2>8, <3>1, ZenonT(60)
  <2>9. CASE c # n
    <3>1. c \in 1 .. n - 1 /\ c + 1 \in 1 .. n /\ c < n
      BY <2>1, <2>9, SMTT(60)
    <3>2. l.elements[p[c]].next # 0
      BY <1>4, <1>5, <2>1, <3>1, SMTT(60)
    <3> QED BY <1>1, <1>3, <1>6, <1>8, <2>1, <2>2, <2>7, <3>1, <3>2, ZenonT(60)
  <2> QED BY <2>8, <2>9
<1> QED BY <1>9, <1>10

\* What SortedRemove makes of a list that is not empty.
LEMMA RemoveHolds ==
  ASSUME NEW n \in Nat, n > 0, NEW p \in Layouts(n), NEW s \in [1 .. n -> ListItems],
         NEW l, IsMemory(l, p, s, n)
  PROVE  Holds(List!SortedRemove(l), Tail(s))
<1>1. n - 1 \in Nat /\ 1 \in 1 .. n /\ n \in 1 .. n
  OBVIOUS
<1>2. /\ p \in [1 .. n -> 1 .. MaxLength + 1]
      /\ \A i, j \in 1 .. n : p[i] = p[j] => i = j
      /\ \A i \in 1 .. n : p[i] # 0
  BY LayoutParts
<1>3. PICK S : S = 1 .. MaxLength + 1
  OBVIOUS
<1> DEFINE q == [i \in 1 .. n - 1 |-> p[i + 1]]
           t == [i \in 1 .. n - 1 |-> s[i + 1]]
<1>4. Tail(s) = t
  <2>1. s \in Seq(ListItems) /\ Len(s) = n
    BY FunctionIsSequence, Zenon
  <2>2. s # <<>>
    BY <2>1
  <2>3. Tail(s) \in Seq(ListItems) /\ Len(Tail(s)) = n - 1 /\ \A i \in 1 .. n - 1 : Tail(s)[i] = s[i + 1]
    BY <2>1, <2>2
  <2>4. Tail(s) = [i \in 1 .. n - 1 |-> Tail(s)[i]]
    <3>1. PICK r, m : r = Tail(s) /\ m = n - 1
      BY Zenon
    <3>2. r \in Seq(ListItems) /\ Len(r) = m /\ m \in Nat
      BY <1>1, <2>3, <3>1, Zenon
    <3>3. r = [i \in 1 .. m |-> r[i]]
      BY <3>2
    <3> QED BY <3>1, <3>3, Zenon
  <2> QED BY <2>3, <2>4
<1>5. q \in [1 .. n - 1 -> S] /\ t \in [1 .. n - 1 -> ListItems]
  BY <1>2, <1>3
<1>6. \A i \in 1 .. n - 1 : q[i] = p[i + 1] /\ t[i] = s[i + 1] /\ i + 1 \in 1 .. n
  OBVIOUS
<1> HIDE DEF q, t
<1>7. q \in Layouts(n - 1)
  <2>1. Len(q) = n - 1
    BY <1>1, <1>5, FunctionIsSequence, Zenon
  <2>2. \A i, j \in 1 .. n - 1 : q[i] = q[j] => i = j
    BY <1>2, <1>6, SMTT(60)
  <2> QED BY <1>3, <1>5, <2>1, <2>2, SMTT(60) DEF Layouts, NoDuplicates
<1> DEFINE f == l.elements
           g == [b \in DOMAIN f \ {p[1]} |-> f[b]]
<1>8. /\ l.first = p[1] /\ l.last = p[n]
      /\ DOMAIN f = {p[i] : i \in 1 .. n}
      /\ \A i \in 1 .. n : /\ f[p[i]] = Element(p, s, n, i)
                           /\ f[p[i]].next = IF i < n THEN p[i + 1] ELSE 0
  BY MemoryFacts, SMTT(60)
<1>9. List!SortedRemove(l) = [first |-> IF p[1] = p[n] THEN 0 ELSE f[p[1]].next,
                              last |-> IF p[1] = p[n] THEN 0 ELSE p[n], elements |-> g]
  BY <1>8, SMTT(60) DEF List!SortedRemove
<1> HIDE DEF f
<1>10. DOMAIN f \ {p[1]} = {q[i] : i \in 1 .. n - 1}
  <2>1. \A i \in 1 .. n - 1 : q[i] \in DOMAIN f \ {p[1]}
    <3> SUFFICES ASSUME NEW i \in 1 .. n - 1 PROVE q[i] \in DOMAIN f \ {p[1]}
      OBVIOUS
    <3>1. i + 1 # 1 /\ i + 1 \in 1 .. n /\ q[i] = p[i + 1]
      BY <1>6
    <3>2. p[i + 1] # p[1]
      BY <1>1, <1>2, <3>1, ZenonT(60)
    <3>3. p[i + 1] \in DOMAIN f
      BY <1>8, <3>1, SMTT(60)
    <3> QED BY <3>1, <3>2, <3>3, SMTT(60)
  <2>2. ASSUME NEW b \in DOMAIN f \ {p[1]} PROVE \E i \in 1 .. n - 1 : q[i] = b
    <3>1. PICK i \in 1 .. n : b = p[i]
      BY <1>8
    <3>2. i # 1
      BY <3>1
    <3>3. i - 1 \in 1 .. n - 1 /\ i - 1 + 1 = i
      BY <3>2
    <3> QED BY <1>6, <3>1, <3>3, SMTT(60)
  <2> QED BY <2>1, <2>2, SMTT(60)
<1>11. HasElements(g, q, t, n - 1)
  <2>1. g = [b \in {q[i] : i \in 1 .. n - 1} |-> g[b]]
    BY <1>10, SMTT(60)
  <2>2. ASSUME NEW i \in 1 .. n - 1 PROVE g[q[i]] = Element(q, t, n - 1, i)
    <3>1. q[i] = p[i + 1] /\ t[i] = s[i + 1] /\ i + 1 \in 1 .. n
      BY <1>6
    <3>2. q[i] \in DOMAIN f \ {p[1]}
      BY <1>10, SMTT(60)
    <3>3. g[q[i]] = Element(p, s, n, i + 1)
      BY <1>8, <3>1, <3>2, SMTT(60)
    <3>4. (IF i + 1 < n THEN p[i + 1 + 1] ELSE 0) = IF i < n - 1 THEN q[i + 1] ELSE 0
      BY <1>6
    <3> QED BY <3>1, <3>3, <3>4, SMTT(60) DEF Element
  <2> HIDE DEF g
  <2> QED BY <2>1, <2>2, Zenon DEF HasElements
<1> HIDE DEF g
<1>12. List!SortedRemove(l) = Header(q, n - 1, g)
  <2>1. CASE n = 1
    <3>1. p[1] = p[n] /\ n - 1 = 0
      BY <2>1, SMTT(60)
    <3> QED BY <1>9, <3>1 DEF Header
  <2>2. CASE n # 1
    <3>1. p[1] # p[n]
      BY <1>1, <1>2, <2>2, SMTT(60)
    <3>2. f[p[1]].next = q[1] /\ p[n] = q[n - 1]
      BY <1>1, <1>6, <1>8, <2>2
    <3>3. 0 < n - 1 /\ n - 1 # 0
      BY <2>2
    <3> QED BY <1>9, <3>1, <3>2, <3>3, SMTT(60) DEF Header
  <2> QED BY <2>1, <2>2, SMTT(60)
<1>13. PICK m : m = List!SortedRemove(l)
  OBVIOUS
<1>14. m.elements = g
  BY <1>12, <1>13 DEF Header
<1>15. IsMemory(m, q, t, n - 1)
  BY <1>11, <1>12, <1>13, <1>14, Zenon DEF IsMemory, HasHeader
<1> QED BY <1>1, <1>4, <1>5, <1>7, <1>13, <1>15, MemoryHolds, ZenonT(60)

\* The lists of a Condition, and every other List of threads/list.h, behave as sequences,
\* for any items, keys, lengths and places in memory.
THEOREM ListsAreSequences == ListIsSequence
<1>1. Init => \A c \in DOMAIN semList : Holds(List!EmptyList, semList[c])
  <2> SUFFICES Holds(List!EmptyList, <<>>)
    BY DEF Init
  <2>1. <<>> \in Layouts(0) /\ <<>> \in [1 .. 0 -> ListItems]
    BY DEF Layouts, NoDuplicates
  <2>2. IsMemory(List!EmptyList, <<>>, <<>>, 0)
    BY DEF IsMemory, HasHeader, HasElements, Header, List!EmptyList
  <2> QED BY <2>1, <2>2, MemoryHolds, Zenon
<1>2. ASSUME NEW n \in 0 .. MaxLength, NEW p \in Layouts(n), NEW s \in [1 .. n -> ListItems],
             NEW l, l = InMemory(p, s)
      PROVE  /\ List!WellFormed(l) /\ List!Apply(l) = s
             /\ n > 0 => Holds(List!SortedRemove(l), Tail(s))
             /\ \A e \in ListItems :
                  /\ Holds(List!SortedInsert(l, e, e.left), SortedInsert(s, e))
                  /\ e.left = 0 => /\ Holds(List!Append(l, e), Append(s, e))
                                   /\ Holds(List!Prepend(l, e), <<e>> \o s)
  <2>1. n \in Nat
    BY ListMemoryAssumption
  <2>2. IsMemory(l, p, s, n)
    BY <1>2, <2>1, MemoryParts, Zenon
  <2>3. List!WellFormed(l) /\ List!Apply(l) = s
    BY <2>1, <2>2, WalkIsSequence, Zenon
  <2>4. n > 0 => Holds(List!SortedRemove(l), Tail(s))
    BY <2>1, <2>2, RemoveHolds, Zenon
  <2>5. ASSUME NEW e \in ListItems
        PROVE  Holds(List!SortedInsert(l, e, e.left), SortedInsert(s, e))
    <3>1. PICK k \in 0 .. n : /\ SortedInsert(s, e) = PutIn(s, n, k, e)
                              /\ \A i \in 1 .. k : s[i].left <= e.left
                              /\ k < n => e.left < s[k + 1].left
      BY <2>1, SequencesPut, Zenon
    <3>2. List!SortedInsert(l, e, e.left) = Linked(l, p, n, k, List!Address(l), e)
      BY <2>1, <2>2, <3>1, SortedInsertLinks
    <3>3. Holds(Linked(l, p, n, k, List!Address(l), e), PutIn(s, n, k, e))
      BY <2>2, LinkedHolds, Zenon
    <3> QED BY <3>1, <3>2, <3>3, Zenon
  <2>6. ASSUME NEW e \in ListItems, e.left = 0
        PROVE  Holds(List!Append(l, e), Append(s, e)) /\ Holds(List!Prepend(l, e), <<e>> \o s)
    <3>1. PICK a, m : a = List!Address(l) /\ m = List!ListElement(l, e, e.left)
      OBVIOUS
    <3>2. /\ List!InFront(m, a) = Linked(l, p, n, 0, a, e)
          /\ List!AtEnd(m, a) = Linked(l, p, n, n, a, e)
      BY <2>1, <2>2, <3>1, OperationsLink, SMTT(60)
    <3>3. List!Append(l, e) = List!AtEnd(m, a) /\ List!Prepend(l, e) = List!InFront(m, a)
      BY <2>6, <3>1, SMTT(60) DEF List!Append, List!Prepend
    <3>4. Append(s, e) = PutIn(s, n, n, e) /\ <<e>> \o s = PutIn(s, n, 0, e)
      BY <2>1, SequencesPut, SMTT(60)
    <3>5. 0 \in 0 .. n /\ n \in 0 .. n
      BY <2>1
    <3>6. /\ Holds(Linked(l, p, n, n, List!Address(l), e), PutIn(s, n, n, e))
          /\ Holds(Linked(l, p, n, 0, List!Address(l), e), PutIn(s, n, 0, e))
      BY <2>2, <3>5, LinkedHolds, Zenon
    <3> QED BY <3>1, <3>2, <3>3, <3>4, <3>6, Zenon
  <2> QED BY <2>3, <2>4, <2>5, <2>6, Zenon
<1> QED BY <1>1, <1>2, Zenon DEF ListIsSequence
==============================================================================
