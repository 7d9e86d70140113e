---------------------------- MODULE ThreadsProofs ----------------------------
(***************************************************************************)
(* Proofs about the scheduler and the semaphores (Kernel) and about the    *)
(* locks that are built on them (Lock).                                    *)
(***************************************************************************)
EXTENDS Lock, SequenceTheorems, FiniteSetTheorems, WellFoundedInduction, TLAPS

-----------------------------------------------------------------------------
(* What Append and Remove do to the items of a list *)

\* Append adds its argument and nothing else.
LEMMA MembersOfAppend ==
  ASSUME NEW S, NEW list \in Seq(S), NEW x \in S
  PROVE  /\ Append(list, x) \in Seq(S)
         /\ Append(list, x) # <<>>
         /\ Members(Append(list, x)) = Members(list) \cup {x}
  BY AppendProperties DEF Members

\* Appending an item that is not there keeps a list free of duplicates.
LEMMA AppendNoDuplicates ==
  ASSUME NEW S, NEW list \in Seq(S), NEW x \in S,
         NoDuplicates(list), x \notin Members(list)
  PROVE  NoDuplicates(Append(list, x))
  BY AppendProperties DEF Members, NoDuplicates

\* Remove takes the head out of a list without duplicates, and only the head.
LEMMA MembersOfTail ==
  ASSUME NEW S, NEW list \in Seq(S), list # <<>>, NoDuplicates(list)
  PROVE  /\ Head(list) \in Members(list)
         /\ Head(list) \in S
         /\ Tail(list) \in Seq(S)
         /\ Members(Tail(list)) = Members(list) \ {Head(list)}
         /\ NoDuplicates(Tail(list))
<1>1. /\ Len(list) \in Nat \ {0}
      /\ Head(list) = list[1]
      /\ Head(list) \in S
      /\ Tail(list) \in Seq(S)
      /\ Len(Tail(list)) = Len(list) - 1
      /\ \A i \in 1 .. Len(list) - 1 : Tail(list)[i] = list[i + 1]
  BY HeadTailProperties, EmptySeq
<1>2. Head(list) \in Members(list)
  BY <1>1 DEF Members
<1>3. ASSUME NEW x \in Members(Tail(list))
      PROVE  x \in Members(list) \ {Head(list)}
  BY <1>1 DEF Members, NoDuplicates
<1>4. ASSUME NEW x \in Members(list), x # Head(list)
      PROVE  x \in Members(Tail(list))
  <2>1. PICK i \in 1 .. Len(list) : x = list[i]
    BY DEF Members
  <2>2. i - 1 \in 1 .. Len(list) - 1 /\ Tail(list)[i - 1] = list[i]
    BY <1>1, <1>4, <2>1
  <2> QED
    BY <1>1, <2>1, <2>2, Zenon DEF Members
<1>5. NoDuplicates(Tail(list))
  BY <1>1 DEF NoDuplicates
<1> QED
  BY <1>1, <1>2, <1>3, <1>4, <1>5

\* A list is empty exactly when it has no items.
LEMMA EmptyIffNoMembers ==
  ASSUME NEW S, NEW list \in Seq(S)
  PROVE  list = <<>> <=> Members(list) = {}
<1>1. ASSUME list # <<>> PROVE Members(list) # {}
  BY <1>1, EmptySeq DEF Members
<1>2. ASSUME list = <<>> PROVE Members(list) = {}
  BY <1>2, EmptySeq DEF Members
<1> QED
  BY <1>1, <1>2

-----------------------------------------------------------------------------
(* Kernel *)

USE SchedulerAssumption, KernelAssumption

-----------------------------------------------------------------------------
(* The ready lists *)

\* FindNextToRun's scan ends at a list that is not empty, and all lists of
\* higher priority are empty.
LEMMA NextPriorityIsHighest ==
  ASSUME ~NoneReady
  PROVE  /\ NextPriority \in Priorities
         /\ readyListP[NextPriority] # <<>>
         /\ \A q \in Priorities : q > NextPriority => readyListP[q] = <<>>
<1> DEFINE Distances == {d \in Priorities : readyListP[MaxPriority - 1 - d] # <<>>}
<1>1. PICK p \in Priorities : readyListP[p] # <<>>
  BY DEF NoneReady
<1>2. MaxPriority - 1 - p \in Distances
  BY <1>1 DEF Priorities
<1>3. Distances # {} /\ Distances \subseteq Nat
  <2>1. \A d \in Distances : d \in Nat
    BY DEF Priorities
  <2> HIDE DEF Distances
  <2> QED BY <1>2, <2>1
<1>4. PICK d \in Distances : \A e \in Distances : ~ (<<e, d>> \in OpToRel(<, Nat))
  <2> HIDE DEF Distances
  <2> QED BY <1>3, NatLessThanWellFounded, WFMin, Zenon
<1>5. \A e \in Distances : ~ (e < d)
  BY <1>3, <1>4, Zenon DEF OpToRel
<1>6. MaxPriority - 1 - d \in Priorities /\ readyListP[MaxPriority - 1 - d] # <<>>
  BY DEF Priorities
<1>7. ASSUME NEW q \in Priorities, q > MaxPriority - 1 - d
      PROVE  readyListP[q] = <<>>
  <2>1. MaxPriority - 1 - (MaxPriority - 1 - q) = q
    BY DEF Priorities
  <2>2. MaxPriority - 1 - q \in Priorities /\ MaxPriority - 1 - q < d
    BY <1>7 DEF Priorities
  <2> QED BY <1>5, <2>1, <2>2
<1> QED
  BY <1>6, <1>7 DEF NextPriority

\* Remove takes exactly the chosen thread out of the ready lists.
LEMMA NextThread ==
  ASSUME TypeOK, ReadyIsListed, ~NoneReady
  PROVE  /\ FindNextToRun \in Threads
         /\ status[FindNextToRun] = "READY"
         /\ priority[FindNextToRun] = NextPriority
         /\ WithoutNext \in [Priorities -> Seq(Threads)]
         /\ \A t \in Threads, p \in Priorities :
              t \in Members(WithoutNext[p]) <=>
                status[t] = "READY" /\ priority[t] = p /\ t # FindNextToRun
         /\ \A p \in Priorities : NoDuplicates(WithoutNext[p])
<1> DEFINE n == NextPriority
           list == readyListP[n]
<1>1. n \in Priorities /\ list # <<>> /\ list \in Seq(Threads) /\ NoDuplicates(list)
  BY NextPriorityIsHighest DEF TypeOK, ReadyIsListed
<1>2. /\ Head(list) \in Members(list)
      /\ Head(list) \in Threads
      /\ Tail(list) \in Seq(Threads)
      /\ Members(Tail(list)) = Members(list) \ {Head(list)}
      /\ NoDuplicates(Tail(list))
  <2> HIDE DEF list
  <2> QED BY <1>1, MembersOfTail
<1>3. status[Head(list)] = "READY" /\ priority[Head(list)] = n
  BY <1>1, <1>2 DEF ReadyIsListed
<1>4. /\ WithoutNext \in [Priorities -> Seq(Threads)]
      /\ WithoutNext[n] = Tail(list)
      /\ \A p \in Priorities \ {n} : WithoutNext[p] = readyListP[p]
  BY <1>1, <1>2 DEF WithoutNext, TypeOK
<1>5. ASSUME NEW p \in Priorities PROVE NoDuplicates(WithoutNext[p])
  <2>1. CASE p = n
    BY <1>2, <1>4, <2>1, Zenon
  <2>2. CASE p # n
    BY <1>4, <2>2 DEF ReadyIsListed
  <2> QED BY <2>1, <2>2
<1>6. ASSUME NEW t \in Threads, NEW p \in Priorities
      PROVE  t \in Members(WithoutNext[p]) <=>
               status[t] = "READY" /\ priority[t] = p /\ t # Head(list)
  <2>1. t \in Members(readyListP[p]) <=> status[t] = "READY" /\ priority[t] = p
    BY DEF ReadyIsListed
  <2>2. CASE p = n
    BY <1>2, <1>4, <2>1, <2>2, Zenon
  <2>3. CASE p # n
    BY <1>3, <1>4, <2>1, <2>3
  <2> QED BY <2>2, <2>3
<1> QED
  BY <1>2, <1>3, <1>4, <1>5, <1>6 DEF FindNextToRun

\* ReadyToRun adds a thread that is in no list to the list of its priority.
LEMMA AppendedThread ==
  ASSUME NEW lists \in [Priorities -> Seq(Threads)], NEW t \in Threads,
         priority[t] \in Priorities,
         t \notin Members(lists[priority[t]]),
         \A p \in Priorities : NoDuplicates(lists[p])
  PROVE  /\ Appended(lists, t) \in [Priorities -> Seq(Threads)]
         /\ \A p \in Priorities : NoDuplicates(Appended(lists, t)[p])
         /\ \A u \in Threads, p \in Priorities :
              u \in Members(Appended(lists, t)[p]) <=>
                u \in Members(lists[p]) \/ (u = t /\ p = priority[t])
<1> DEFINE q == priority[t]
<1>1. lists[q] \in Seq(Threads) /\ NoDuplicates(lists[q])
  OBVIOUS
<1>2. /\ Append(lists[q], t) \in Seq(Threads)
      /\ Members(Append(lists[q], t)) = Members(lists[q]) \cup {t}
      /\ NoDuplicates(Append(lists[q], t))
  BY <1>1, MembersOfAppend, AppendNoDuplicates
<1>3. /\ Appended(lists, t)[q] = Append(lists[q], t)
      /\ \A p \in Priorities \ {q} : Appended(lists, t)[p] = lists[p]
      /\ Appended(lists, t) \in [Priorities -> Seq(Threads)]
  BY <1>2 DEF Appended
<1> QED
  BY <1>2, <1>3, Zenon

-----------------------------------------------------------------------------
(* Each action preserves KernelInv *)

\* Fork puts a thread that was in no list on the list of its priority.
LEMMA ForkStep ==
  ASSUME KernelInv, NEW t \in Threads, NEW p \in Priorities, Fork(t, p)
  PROVE  KernelInv'
<1> USE DEF Fork, Running, semVars
<1>1. /\ TypeOK /\ ReadyIsListed /\ BlockedIsQueued
      /\ NoLostWakeup /\ DestroyedIsFinished
  BY DEF KernelInv
<1>2. /\ readyListP[p] \in Seq(Threads) /\ NoDuplicates(readyListP[p])
      /\ t \notin Members(readyListP[p])
  BY <1>1 DEF TypeOK, ReadyIsListed
<1>3. /\ Append(readyListP[p], t) \in Seq(Threads)
      /\ Members(Append(readyListP[p], t)) = Members(readyListP[p]) \cup {t}
      /\ NoDuplicates(Append(readyListP[p], t))
  BY <1>2, MembersOfAppend, AppendNoDuplicates
<1>4. TypeOK'
  BY <1>1, <1>3 DEF TypeOK, ThreadStatus
<1>5. ReadyIsListed'
  <2>1. ASSUME NEW u \in Threads, NEW q \in Priorities
        PROVE  u \in Members(readyListP'[q]) <=>
                 status'[u] = "READY" /\ priority'[u] = q
    <3>1. u \in Members(readyListP[q]) <=> status[u] = "READY" /\ priority[u] = q
      BY <1>1 DEF ReadyIsListed
    <3>2. CASE q = p
      BY <1>1, <1>3, <3>1, <3>2 DEF TypeOK
    <3>3. CASE q # p
      BY <1>1, <3>1, <3>3 DEF TypeOK
    <3> QED BY <3>2, <3>3
  <2>2. ASSUME NEW q \in Priorities PROVE NoDuplicates(readyListP'[q])
    <3>1. CASE q = p
      BY <1>1, <1>3, <3>1 DEF TypeOK
    <3>2. CASE q # p
      BY <1>1, <3>2 DEF TypeOK, ReadyIsListed
    <3> QED BY <3>1, <3>2
  <2> QED BY <2>1, <2>2 DEF ReadyIsListed
<1>6. BlockedIsQueued'
  BY <1>1 DEF TypeOK, BlockedIsQueued
<1>7. NoLostWakeup'
  BY <1>1, Zenon DEF NoLostWakeup, Woken
<1>8. DestroyedIsFinished'
  BY <1>1 DEF TypeOK, DestroyedIsFinished, Finished
<1> QED
  BY <1>4, <1>5, <1>6, <1>7, <1>8 DEF KernelInv

\* Run keeps the types of the variables it assigns.
LEMMA RunType ==
  ASSUME TypeOK, NEW next \in Threads, Run(next)
  PROVE  /\ currentThread' \in Threads
         /\ threadToBeDestroyed' \in Threads \cup {NULL}
         /\ fresh' \in SUBSET Threads
         /\ destroyed' \in SUBSET Threads
  BY DEF TypeOK, Run

\* Run deletes a thread that has finished and is not the one switched to.
LEMMA RunDestroysFinished ==
  ASSUME TypeOK, DestroyedIsFinished, NEW next \in Threads,
         status[next] = "READY", Run(next), UNCHANGED inP,
         status' \in [Threads -> ThreadStatus],
         \A t \in Threads : Finished(t) => status'[t] = "BLOCKED"
  PROVE  DestroyedIsFinished'
<1>1. \A t \in destroyed' : Finished(t) /\ t # next /\ t # threadToBeDestroyed'
  BY DEF TypeOK, DestroyedIsFinished, Finished, Run
<1>2. threadToBeDestroyed' # NULL => Finished(threadToBeDestroyed')
  BY DEF TypeOK, DestroyedIsFinished, Run
<1>3. destroyed' \subseteq Threads /\ threadToBeDestroyed' \in Threads \cup {NULL}
  BY DEF TypeOK, Run
<1>4. \A t \in Threads : Finished(t) => Finished(t)'
  BY DEF Finished
<1> QED
  BY <1>1, <1>2, <1>3, <1>4 DEF DestroyedIsFinished, Run

\* Yield exchanges the running thread and the first of the ready ones.
LEMMA YieldStep ==
  ASSUME KernelInv, Yield
  PROVE  KernelInv'
<1> DEFINE cur == currentThread
           next == FindNextToRun
<1>1. /\ TypeOK /\ ReadyIsListed /\ BlockedIsQueued
      /\ NoLostWakeup /\ DestroyedIsFinished
  BY DEF KernelInv
<1>2. /\ Running /\ ~NoneReady /\ Run(next)
      /\ status' = [status EXCEPT ![cur] = "READY", ![next] = "RUNNING"]
      /\ readyListP' = Appended(WithoutNext, cur)
      /\ UNCHANGED <<priority, value, queue, inP, pending, mode>>
  BY DEF Yield, semVars
<1>3. cur \in Threads /\ status[cur] = "RUNNING" /\ priority[cur] \in Priorities
  BY <1>1, <1>2 DEF TypeOK, Running
<1>4. /\ next \in Threads
      /\ status[next] = "READY"
      /\ WithoutNext \in [Priorities -> Seq(Threads)]
      /\ \A t \in Threads, p \in Priorities :
           t \in Members(WithoutNext[p]) <=>
             status[t] = "READY" /\ priority[t] = p /\ t # next
      /\ \A p \in Priorities : NoDuplicates(WithoutNext[p])
  BY <1>1, <1>2, NextThread
<1>5. cur \notin Members(WithoutNext[priority[cur]])
  BY <1>3, <1>4
<1>6. /\ readyListP' \in [Priorities -> Seq(Threads)]
      /\ \A p \in Priorities : NoDuplicates(readyListP'[p])
      /\ \A u \in Threads, p \in Priorities :
           u \in Members(readyListP'[p]) <=>
             u \in Members(WithoutNext[p]) \/ (u = cur /\ p = priority[cur])
  <2>1. readyListP' = Appended(WithoutNext, cur)
    BY <1>2
  <2>2. /\ WithoutNext \in [Priorities -> Seq(Threads)]
        /\ \A p \in Priorities : NoDuplicates(WithoutNext[p])
    BY <1>4
  <2> HIDE DEF cur, next
  <2>3. /\ Appended(WithoutNext, cur) \in [Priorities -> Seq(Threads)]
        /\ \A p \in Priorities : NoDuplicates(Appended(WithoutNext, cur)[p])
        /\ \A u \in Threads, p \in Priorities :
             u \in Members(Appended(WithoutNext, cur)[p]) <=>
               u \in Members(WithoutNext[p]) \/ (u = cur /\ p = priority[cur])
    BY <1>3, <1>5, <2>2, AppendedThread, Zenon
  <2> QED BY <2>1, <2>3
<1> HIDE DEF cur, next
<1>7. /\ status' \in [Threads -> ThreadStatus]
      /\ next # cur /\ status'[cur] = "READY" /\ status'[next] = "RUNNING"
      /\ \A t \in Threads \ {cur, next} : status'[t] = status[t]
  <2>1. status \in [Threads -> ThreadStatus]
    BY <1>1 DEF TypeOK
  <2>2. next # cur
    BY <1>3, <1>4, Zenon
  <2> QED BY <1>2, <1>3, <1>4, <2>1, <2>2 DEF ThreadStatus
<1>8. TypeOK'
  BY <1>1, <1>2, <1>4, <1>6, <1>7, RunType, Zenon DEF TypeOK
<1>9. ReadyIsListed'
  <2>1. ASSUME NEW u \in Threads, NEW p \in Priorities
        PROVE  u \in Members(readyListP'[p]) <=>
                 status'[u] = "READY" /\ priority'[u] = p
    <3>1. CASE u = cur
      BY <1>2, <1>3, <1>4, <1>6, <1>7, <3>1
    <3>2. CASE u = next
      BY <1>2, <1>3, <1>4, <1>6, <1>7, <3>2, Zenon
    <3>3. CASE u \notin {cur, next}
      BY <1>2, <1>3, <1>4, <1>6, <1>7, <3>3
    <3> QED BY <3>1, <3>2, <3>3, SMTT(60)
  <2> QED BY <1>6, <2>1 DEF ReadyIsListed
<1>10. BlockedIsQueued'
  <2>1. \A t \in Threads : status'[t] = "BLOCKED" <=> status[t] = "BLOCKED"
    BY <1>3, <1>4, <1>7, SMTT(60)
  <2> QED BY <1>1, <1>2, <2>1, Zenon DEF BlockedIsQueued
<1>11. NoLostWakeup'
  BY <1>1, <1>2 DEF NoLostWakeup, Woken
<1>12. DestroyedIsFinished'
  <2>1. \A t \in Threads : Finished(t) => status'[t] = "BLOCKED"
    BY <1>3, <1>4, <1>7, Zenon DEF Finished
  <2> QED BY <1>1, <1>2, <1>4, <1>7, <2>1, RunDestroysFinished, Zenon
<1> QED
  BY <1>8, <1>9, <1>10, <1>11, <1>12 DEF KernelInv

\* The end of Sleep takes the first ready thread off its list.
LEMMA DispatchStep ==
  ASSUME KernelInv, Dispatch
  PROVE  KernelInv'
<1> DEFINE next == FindNextToRun
<1>1. /\ TypeOK /\ ReadyIsListed /\ BlockedIsQueued
      /\ NoLostWakeup /\ DestroyedIsFinished
  BY DEF KernelInv
<1>2. /\ ~NoneReady /\ Run(next)
      /\ status' = [status EXCEPT ![next] = "RUNNING"]
      /\ readyListP' = WithoutNext
      /\ UNCHANGED <<priority, value, queue, inP, pending, mode>>
  BY DEF Dispatch, semVars
<1>3. /\ next \in Threads
      /\ status[next] = "READY"
      /\ readyListP' \in [Priorities -> Seq(Threads)]
      /\ \A t \in Threads, p \in Priorities :
           t \in Members(readyListP'[p]) <=>
             status[t] = "READY" /\ priority[t] = p /\ t # next
      /\ \A p \in Priorities : NoDuplicates(readyListP'[p])
  BY <1>1, <1>2, NextThread
<1>4. /\ status' \in [Threads -> ThreadStatus]
      /\ status'[next] = "RUNNING"
      /\ \A t \in Threads \ {next} : status'[t] = status[t]
  BY <1>1, <1>2, <1>3, SMTT(30) DEF TypeOK, ThreadStatus
<1>5. TypeOK'
  BY <1>1, <1>2, <1>3, <1>4, RunType, Zenon DEF TypeOK
<1>6. ReadyIsListed'
  <2> HIDE DEF next
  <2> QED BY <1>2, <1>3, <1>4 DEF ReadyIsListed
<1>7. BlockedIsQueued'
  <2>1. \A t \in Threads : status'[t] = "BLOCKED" <=> status[t] = "BLOCKED"
    BY <1>3, <1>4
  <2> QED BY <1>1, <1>2, <2>1 DEF BlockedIsQueued
<1>8. NoLostWakeup'
  BY <1>1, <1>2 DEF NoLostWakeup, Woken
<1>9. DestroyedIsFinished'
  <2>1. \A t \in Threads : Finished(t) => status'[t] = "BLOCKED"
    BY <1>3, <1>4 DEF Finished
  <2> QED BY <1>1, <1>2, <1>3, <1>4, <2>1, RunDestroysFinished, Zenon
<1> QED
  BY <1>5, <1>6, <1>7, <1>8, <1>9 DEF KernelInv

\* Enqueueing in P's loop: the caller was in no queue, and the value is 0.
LEMMA BlockStep ==
  ASSUME KernelInv, NEW s \in Sems, status[currentThread] = "RUNNING",
         inP[currentThread] \in {NULL, s}, Block(s),
         UNCHANGED <<readyListP, priority, currentThread, threadToBeDestroyed,
                     fresh, destroyed, pending, mode>>
  PROVE  KernelInv'
<1> DEFINE cur == currentThread
<1> USE DEF Block
<1>1. /\ TypeOK /\ ReadyIsListed /\ BlockedIsQueued
      /\ NoLostWakeup /\ DestroyedIsFinished
  BY DEF KernelInv
<1>2. /\ queue[s] \in Seq(Threads) /\ NoDuplicates(queue[s])
      /\ cur \in Threads
      /\ \A r \in Sems : cur \notin Members(queue[r])
  BY <1>1 DEF TypeOK, BlockedIsQueued
<1>3. /\ Append(queue[s], cur) \in Seq(Threads)
      /\ Members(Append(queue[s], cur)) = Members(queue[s]) \cup {cur}
      /\ NoDuplicates(Append(queue[s], cur))
  BY <1>2, MembersOfAppend, AppendNoDuplicates
<1>4. /\ queue' \in [Sems -> Seq(Threads)]
      /\ queue'[s] = Append(queue[s], cur)
      /\ \A r \in Sems \ {s} : queue'[r] = queue[r]
  BY <1>1, <1>3 DEF TypeOK
<1>5. /\ status' \in [Threads -> ThreadStatus] /\ inP' \in [Threads -> Sems \cup {NULL}]
      /\ status'[cur] = "BLOCKED" /\ inP'[cur] = s
      /\ \A t \in Threads \ {cur} : status'[t] = status[t] /\ inP'[t] = inP[t]
  BY <1>1, <1>2, Zenon DEF TypeOK, ThreadStatus
<1>6. TypeOK'
  BY <1>1, <1>4, <1>5, Zenon DEF TypeOK
<1>7. ReadyIsListed'
  <2>1. \A t \in Threads : status'[t] = "READY" <=> status[t] = "READY"
    BY <1>2, <1>5
  <2> QED BY <1>1, <2>1 DEF ReadyIsListed
<1>8. BlockedIsQueued'
  <2>1. ASSUME NEW t \in Threads, NEW r \in Sems
        PROVE  t \in Members(queue'[r]) <=> status'[t] = "BLOCKED" /\ inP'[t] = r
    <3>1. t \in Members(queue[r]) <=> status[t] = "BLOCKED" /\ inP[t] = r
      BY <1>1, Zenon DEF BlockedIsQueued
    <3>2. CASE t = cur /\ r = s
      BY <1>3, <1>4, <1>5, <3>2, Zenon
    <3>3. CASE t = cur /\ r # s
      BY <1>2, <1>4, <1>5, <3>3, Zenon
    <3>4. CASE t # cur
      BY <1>3, <1>4, <1>5, <3>1, <3>4, Zenon
    <3> QED BY <3>2, <3>3, <3>4, Zenon
  <2>2. ASSUME NEW r \in Sems PROVE NoDuplicates(queue'[r])
    <3>1. CASE r = s
      BY <1>3, <1>4, <3>1, Zenon
    <3>2. CASE r # s
      BY <1>1, <1>4, <3>2 DEF BlockedIsQueued
    <3> QED BY <3>1, <3>2
  <2> QED BY <2>1, <2>2, Zenon DEF BlockedIsQueued
<1>9. NoLostWakeup'
  <2>1. ASSUME NEW r \in Sems, queue'[r] # <<>>
        PROVE  value'[r] <= Cardinality(Woken(r)')
    <3>1. CASE r = s
      <4>1. IsFiniteSet(Woken(r)')
        BY FS_Subset DEF Woken
      <4>2. Cardinality(Woken(r)') \in Nat
        BY <4>1, FS_CardinalityType
      <4> QED BY <3>1, <4>2
    <3>2. CASE r # s
      <4>1. Woken(r)' = Woken(r)
        BY <1>4, <1>5, <3>2 DEF Woken
      <4>2. value[r] <= Cardinality(Woken(r))
        BY <1>1, <1>4, <2>1, <3>2, Zenon DEF NoLostWakeup
      <4> QED BY <4>1, <4>2, Zenon
    <3> QED BY <3>1, <3>2
  <2> QED BY <2>1 DEF NoLostWakeup
<1>10. DestroyedIsFinished'
  BY <1>1, <1>5 DEF TypeOK, DestroyedIsFinished, Finished
<1> QED
  BY <1>6, <1>7, <1>8, <1>9, <1>10 DEF KernelInv

\* Leaving P's loop takes one unit; a caller that had been woken gives up its
\* claim to one.
LEMMA TakeStep ==
  ASSUME KernelInv, NEW s \in Sems, status[currentThread] = "RUNNING",
         inP[currentThread] \in {NULL, s}, Take(s),
         UNCHANGED <<readyListP, priority, currentThread, threadToBeDestroyed,
                     fresh, destroyed, pending, mode>>
  PROVE  KernelInv'
<1> DEFINE cur == currentThread
<1> USE DEF Take
<1>1. /\ TypeOK /\ ReadyIsListed /\ BlockedIsQueued
      /\ NoLostWakeup /\ DestroyedIsFinished
  BY DEF KernelInv
<1>2. cur \in Threads /\ \A r \in Sems : cur \notin Members(queue[r])
  BY <1>1 DEF TypeOK, BlockedIsQueued
<1>3. /\ inP' \in [Threads -> Sems \cup {NULL}]
      /\ inP'[cur] = NULL
      /\ \A t \in Threads \ {cur} : inP'[t] = inP[t]
  BY <1>1, <1>2 DEF TypeOK
<1>4. /\ value[s] \in Nat /\ value \in [Sems -> Nat]
      /\ value' \in [Sems -> Nat]
      /\ value'[s] = value[s] - 1
      /\ \A r \in Sems \ {s} : value'[r] = value[r]
  BY <1>1 DEF TypeOK
<1>5. TypeOK'
  BY <1>1, <1>3, <1>4, Zenon DEF TypeOK
<1>6. ReadyIsListed'
  BY <1>1, Zenon DEF ReadyIsListed
<1>7. BlockedIsQueued'
  BY <1>1, <1>2, <1>3, Zenon DEF BlockedIsQueued
<1>8. NoLostWakeup'
  <2>1. ASSUME NEW r \in Sems, queue'[r] # <<>>
        PROVE  value'[r] <= Cardinality(Woken(r)')
    <3>1. /\ value[r] <= Cardinality(Woken(r)) /\ IsFiniteSet(Woken(r))
          /\ value[r] \in Nat /\ Cardinality(Woken(r)) \in Nat
      BY <1>1, <1>4, <2>1, FS_Subset, FS_CardinalityType, Zenon DEF NoLostWakeup, Woken
    <3>2. CASE r = s /\ inP[cur] = s
      <4>1. Woken(r)' = Woken(r) \ {cur} /\ cur \in Woken(r)
        BY <1>2, <1>3, <3>2, Zenon DEF Woken
      <4>2. Cardinality(Woken(r)') = Cardinality(Woken(r)) - 1
        BY <3>1, <4>1, FS_RemoveElement, ZenonT(60)
      <4> QED BY <1>4, <3>1, <3>2, <4>2
    <3>3. CASE r # s \/ inP[cur] = NULL
      <4>1. Woken(r)' = Woken(r)
        BY <1>2, <1>3, <3>3 DEF Woken
      <4>2. value'[r] <= value[r]
        BY <1>4
      <4>3. value'[r] \in Nat
        BY <1>4
      <4> QED BY <3>1, <4>1, <4>2, <4>3
    <3> QED BY <3>2, <3>3, Zenon
  <2> QED BY <2>1 DEF NoLostWakeup
<1>9. DestroyedIsFinished'
  BY <1>1, <1>3 DEF TypeOK, DestroyedIsFinished, Finished
<1> QED
  BY <1>5, <1>6, <1>7, <1>8, <1>9 DEF KernelInv

\* V adds a unit and, if there is a waiter, a thread that will come for it.
LEMMA IncrementStep ==
  ASSUME KernelInv, NEW s \in Sems, Increment(s),
         UNCHANGED <<priority, currentThread, threadToBeDestroyed, fresh,
                     destroyed, inP>>,
         pending' \in [Sems -> Nat], mode' \in {"System", "Idle", "Halted"}
  PROVE  KernelInv'
<1>1. /\ TypeOK /\ ReadyIsListed /\ BlockedIsQueued
      /\ NoLostWakeup /\ DestroyedIsFinished
  BY DEF KernelInv
<1>2. /\ value \in [Sems -> Nat] /\ value' \in [Sems -> Nat]
      /\ value'[s] = value[s] + 1
      /\ \A r \in Sems \ {s} : value'[r] = value[r]
  BY <1>1, SMTT(60) DEF TypeOK, Increment
<1>3. CASE queue[s] = <<>>
  <2>1. UNCHANGED <<queue, status, readyListP>>
    BY <1>3 DEF Increment
  <2>2. TypeOK'
    BY <1>1, <1>2, <2>1, Zenon DEF TypeOK
  <2>3. ReadyIsListed' /\ BlockedIsQueued'
    BY <1>1, <2>1, Zenon DEF ReadyIsListed, BlockedIsQueued
  <2>4. NoLostWakeup'
    BY <1>1, <1>2, <1>3, <2>1, Zenon DEF NoLostWakeup, Woken
  <2>5. DestroyedIsFinished'
    BY <1>1, <2>1 DEF DestroyedIsFinished, Finished
  <2> QED BY <2>2, <2>3, <2>4, <2>5 DEF KernelInv
<1>4. CASE queue[s] # <<>>
  <2> DEFINE head == Head(queue[s])
  <2>1. /\ queue' = [queue EXCEPT ![s] = Tail(@)]
        /\ status' = [status EXCEPT ![head] = "READY"]
        /\ readyListP' = Appended(readyListP, head)
    BY <1>4 DEF Increment, ReadyToRun
  <2>2. queue[s] \in Seq(Threads) /\ NoDuplicates(queue[s])
    BY <1>1 DEF TypeOK, BlockedIsQueued
  <2>3. /\ head \in Members(queue[s]) /\ head \in Threads
        /\ Tail(queue[s]) \in Seq(Threads)
        /\ Members(Tail(queue[s])) = Members(queue[s]) \ {head}
        /\ NoDuplicates(Tail(queue[s]))
    BY <1>4, <2>2, MembersOfTail, Zenon
  <2> HIDE DEF head
  <2>4. status[head] = "BLOCKED" /\ inP[head] = s
    BY <1>1, <2>3 DEF BlockedIsQueued
  <2>5. /\ queue' \in [Sems -> Seq(Threads)]
        /\ queue'[s] = Tail(queue[s])
        /\ \A r \in Sems \ {s} : queue'[r] = queue[r]
    BY <1>1, <2>1, <2>3 DEF TypeOK
  <2>6. /\ status' \in [Threads -> ThreadStatus]
        /\ status'[head] = "READY"
        /\ \A t \in Threads \ {head} : status'[t] = status[t]
    BY <1>1, <2>1, <2>3, Zenon DEF TypeOK, ThreadStatus
  <2>7. /\ priority[head] \in Priorities
        /\ head \notin Members(readyListP[priority[head]])
        /\ readyListP \in [Priorities -> Seq(Threads)]
        /\ \A p \in Priorities : NoDuplicates(readyListP[p])
    BY <1>1, <2>3, <2>4, SMTT(30) DEF TypeOK, ReadyIsListed
  <2>8. /\ readyListP' \in [Priorities -> Seq(Threads)]
        /\ \A p \in Priorities : NoDuplicates(readyListP'[p])
        /\ \A u \in Threads, p \in Priorities :
             u \in Members(readyListP'[p]) <=>
               u \in Members(readyListP[p]) \/ (u = head /\ p = priority[head])
    <3>1. /\ Appended(readyListP, head) \in [Priorities -> Seq(Threads)]
          /\ \A p \in Priorities : NoDuplicates(Appended(readyListP, head)[p])
          /\ \A u \in Threads, p \in Priorities :
               u \in Members(Appended(readyListP, head)[p]) <=>
                 u \in Members(readyListP[p]) \/ (u = head /\ p = priority[head])
      BY <2>3, <2>7, AppendedThread, ZenonT(60)
    <3> QED BY <2>1, <3>1
  <2>9. TypeOK'
    BY <1>1, <1>2, <2>5, <2>6, <2>8, Zenon DEF TypeOK
  <2>10. ReadyIsListed'
    <3>1. ASSUME NEW u \in Threads, NEW p \in Priorities
          PROVE  u \in Members(readyListP'[p]) <=>
                   status'[u] = "READY" /\ priority'[u] = p
      <4>1. u \in Members(readyListP[p]) <=> status[u] = "READY" /\ priority[u] = p
        BY <1>1 DEF ReadyIsListed
      <4> QED BY <2>4, <2>6, <2>8, <4>1, SMTT(60)
    <3> QED BY <2>8, <3>1, SMTT(60) DEF ReadyIsListed
  <2>11. BlockedIsQueued'
    <3>1. ASSUME NEW t \in Threads, NEW r \in Sems
          PROVE  t \in Members(queue'[r]) <=> status'[t] = "BLOCKED" /\ inP'[t] = r
      <4>1. t \in Members(queue[r]) <=> status[t] = "BLOCKED" /\ inP[t] = r
        BY <1>1, Zenon DEF BlockedIsQueued
      <4>2. CASE r = s
        BY <2>3, <2>5, <2>6, <4>1, <4>2, Zenon
      <4>3. CASE r # s
        BY <2>4, <2>5, <2>6, <4>1, <4>3
      <4> QED BY <4>2, <4>3, Zenon
    <3>2. ASSUME NEW r \in Sems PROVE NoDuplicates(queue'[r])
      <4>1. CASE r = s
        BY <2>3, <2>5, <4>1, Zenon
      <4>2. CASE r # s
        BY <1>1, <2>5, <4>2, SMTT(60) DEF BlockedIsQueued
      <4> QED BY <4>1, <4>2
    <3> QED BY <3>1, <3>2 DEF BlockedIsQueued
  <2>12. NoLostWakeup'
    <3>1. ASSUME NEW r \in Sems, queue'[r] # <<>>
          PROVE  value'[r] <= Cardinality(Woken(r)')
      <4>1. queue[r] # <<>>
        BY <1>4, <2>5, <3>1, Zenon
      <4>2. /\ value[r] <= Cardinality(Woken(r)) /\ IsFiniteSet(Woken(r))
            /\ value[r] \in Nat /\ Cardinality(Woken(r)) \in Nat
        BY <1>1, <1>2, <4>1, FS_Subset, FS_CardinalityType, Zenon DEF NoLostWakeup, Woken
      <4>3. CASE r = s
        <5>1. Woken(r)' = Woken(r) \cup {head} /\ head \notin Woken(r)
          BY <2>3, <2>4, <2>5, <4>3, Zenon DEF Woken
        <5>2. Cardinality(Woken(r)') = Cardinality(Woken(r)) + 1
          BY <4>2, <5>1, FS_AddElement, Zenon
        <5> QED BY <1>2, <4>2, <4>3, <5>2, SMTT(30)
      <4>4. CASE r # s
        <5>1. Woken(r)' = Woken(r)
          BY <2>5, <4>4, Zenon DEF Woken
        <5> QED BY <1>2, <4>2, <4>4, <5>1
      <4> QED BY <4>3, <4>4
    <3> QED BY <3>1 DEF NoLostWakeup
  <2>13. DestroyedIsFinished'
    <3>1. \A t \in Threads : Finished(t) => Finished(t)'
      BY <2>4, <2>6, Zenon DEF Finished
    <3> QED BY <1>1, <3>1, Zenon DEF TypeOK, DestroyedIsFinished
  <2> QED BY <2>9, <2>10, <2>11, <2>12, <2>13, SMTT(60) DEF KernelInv
<1> QED
  BY <1>3, <1>4

\* A thread that finishes is on no list, and no P is waiting for it.
LEMMA FinishStep ==
  ASSUME KernelInv, Finish
  PROVE  KernelInv'
<1> DEFINE cur == currentThread
<1> USE DEF Finish, Running, semVars
<1>1. /\ TypeOK /\ ReadyIsListed /\ BlockedIsQueued
      /\ NoLostWakeup /\ DestroyedIsFinished
  BY DEF KernelInv
<1>2. /\ status' \in [Threads -> ThreadStatus]
      /\ cur \in Threads /\ status[cur] = "RUNNING" /\ inP[cur] = NULL
      /\ status'[cur] = "BLOCKED"
      /\ \A t \in Threads \ {cur} : status'[t] = status[t]
  BY <1>1, Zenon DEF TypeOK, ThreadStatus
<1>3. TypeOK'
  BY <1>1, <1>2, Zenon DEF TypeOK
<1>4. ReadyIsListed'
  <2>1. \A t \in Threads : status'[t] = "READY" <=> status[t] = "READY"
    BY <1>2, Zenon
  <2> QED BY <1>1, <2>1, Zenon DEF ReadyIsListed
<1>5. BlockedIsQueued'
  BY <1>1, <1>2 DEF BlockedIsQueued
<1>6. NoLostWakeup'
  BY <1>1, Zenon DEF NoLostWakeup, Woken
<1>7. DestroyedIsFinished'
  BY <1>1, <1>2 DEF TypeOK, DestroyedIsFinished, Finished
<1> QED
  BY <1>3, <1>4, <1>5, <1>6, <1>7, SMTT(60) DEF KernelInv

\* Steps that leave the scheduler and the semaphores alone.
LEMMA FrameStep ==
  ASSUME KernelInv, UNCHANGED <<schedVars, semVars>>,
         pending' \in [Sems -> Nat], mode' \in {"System", "Idle", "Halted"}
  PROVE  KernelInv'
<1> USE DEF schedVars, semVars
<1>1. /\ TypeOK /\ ReadyIsListed /\ BlockedIsQueued
      /\ NoLostWakeup /\ DestroyedIsFinished
  BY DEF KernelInv
<1>2. TypeOK'
  BY <1>1, Zenon DEF TypeOK
<1>3. ReadyIsListed' /\ BlockedIsQueued'
  BY <1>1, ZenonT(60) DEF ReadyIsListed, BlockedIsQueued
<1>4. NoLostWakeup'
  BY <1>1 DEF NoLostWakeup, Woken
<1>5. DestroyedIsFinished'
  BY <1>1 DEF DestroyedIsFinished, Finished
<1> QED
  BY <1>2, <1>3, <1>4, <1>5 DEF KernelInv

-----------------------------------------------------------------------------
\* Initialize establishes the invariant.
LEMMA InitInv == Init => KernelInv
<1> SUFFICES ASSUME Init PROVE KernelInv
  OBVIOUS
<1> USE DEF Init, SchedInit
<1>1. 0 \in Priorities
  BY DEF Priorities
<1>2. TypeOK
  BY <1>1 DEF TypeOK, ThreadStatus
<1>3. Members(<<>>) = {} /\ NoDuplicates(<<>>)
  BY DEF Members, NoDuplicates
<1>4. ReadyIsListed
  BY <1>3 DEF ReadyIsListed
<1>5. BlockedIsQueued
  BY <1>3 DEF BlockedIsQueued
<1>6. NoLostWakeup
  BY DEF NoLostWakeup
<1>7. DestroyedIsFinished
  BY DEF DestroyedIsFinished
<1> QED
  BY <1>2, <1>4, <1>5, <1>6, <1>7 DEF KernelInv

\* Every operation and every interrupt preserves the invariant.
LEMMA NextInv == KernelInv /\ [Next]_vars => KernelInv'
<1> SUFFICES ASSUME KernelInv, [Next]_vars PROVE KernelInv'
  OBVIOUS
<1>1. /\ pending \in [Sems -> Nat]
      /\ mode \in {"System", "Idle", "Halted"}
      /\ currentThread \in Threads
      /\ status[currentThread] \in ThreadStatus
  BY DEF KernelInv, TypeOK
<1>2. ASSUME NEW t \in Threads, NEW p \in Priorities, Fork(t, p)
      PROVE  KernelInv'
  BY <1>2, ForkStep
<1>3. CASE Yield
  BY <1>3, YieldStep, Zenon
<1>4. ASSUME NEW s \in Sems, P(s) \/ Retry(s)
      PROVE  KernelInv'
  <2>1. /\ status[currentThread] = "RUNNING"
        /\ inP[currentThread] \in {NULL, s}
        /\ Block(s) \/ Take(s)
        /\ UNCHANGED <<readyListP, priority, currentThread, threadToBeDestroyed,
                       fresh, destroyed, pending, mode>>
    BY <1>4 DEF P, Retry, Running
  <2> QED BY <2>1, BlockStep, TakeStep, ZenonT(60)
<1>5. ASSUME NEW s \in Sems, V(s) PROVE KernelInv'
  <2>1. /\ Increment(s)
        /\ UNCHANGED <<priority, currentThread, threadToBeDestroyed, fresh,
                       destroyed, inP>>
        /\ pending' \in [Sems -> Nat] /\ mode' \in {"System", "Idle", "Halted"}
    BY <1>1, <1>5, Zenon DEF V
  <2> QED BY <2>1, IncrementStep
<1>6. ASSUME NEW s \in Sems, Interrupt(s) PROVE KernelInv'
  <2>1. /\ Increment(s)
        /\ UNCHANGED <<priority, currentThread, threadToBeDestroyed, fresh,
                       destroyed, inP>>
        /\ pending' \in [Sems -> Nat] /\ mode' \in {"System", "Idle", "Halted"}
    BY <1>1, <1>6, SMTT(30) DEF Interrupt
  <2> QED BY <2>1, IncrementStep
<1>7. ASSUME NEW s \in Sems, Schedule(s) PROVE KernelInv'
  BY <1>1, <1>7, FrameStep, SMTT(30) DEF Schedule
<1>8. CASE Finish
  BY <1>8, FinishStep
<1>9. CASE Dispatch
  BY <1>9, DispatchStep
<1>10. CASE IdleReturn
  BY <1>1, <1>10, FrameStep DEF IdleReturn
<1>11. CASE Halt
  BY <1>1, <1>11, FrameStep DEF Halt
<1>12. CASE UNCHANGED vars
  BY <1>1, <1>12, FrameStep DEF vars
<1> QED
  BY <1>2, <1>3, <1>4, <1>5, <1>6, <1>7, <1>8, <1>9, <1>10, <1>11, <1>12, Zenon DEF Next

\* The invariant holds for every set of threads, of priorities and of
\* semaphores, and every initial value.
THEOREM KernelIsInvariant == Spec => []KernelInv
  BY InitInv, NextInv, PTL DEF Spec

\* Type correctness of the thread system.
THEOREM TypeCorrect == Spec => []TypeOK
<1>1. KernelInv => TypeOK
  BY DEF KernelInv
<1> QED BY <1>1, KernelIsInvariant, PTL

\* No thread is lost from or duplicated in the ready lists.
THEOREM ReadyThreadsAreListed == Spec => []ReadyIsListed
<1>1. KernelInv => ReadyIsListed
  BY DEF KernelInv
<1> QED BY <1>1, KernelIsInvariant, PTL

\* Every thread blocked in P is in the queue of its semaphore and in no other.
THEOREM BlockedThreadsAreQueued == Spec => []BlockedIsQueued
<1>1. KernelInv => BlockedIsQueued
  BY DEF KernelInv
<1> QED BY <1>1, KernelIsInvariant, PTL

\* P and V lose no wakeup, whoever calls V and whoever takes the unit first.
THEOREM NoWakeupIsLost == Spec => []NoLostWakeup
<1>1. KernelInv => NoLostWakeup
  BY DEF KernelInv
<1> QED BY <1>1, KernelIsInvariant, PTL

\* Run deletes finished threads only, once, and never the one it runs on.
THEOREM OnlyFinishedIsDestroyed == Spec => []DestroyedIsFinished
<1>1. KernelInv => DestroyedIsFinished
  BY Zenon DEF KernelInv
<1> QED BY <1>1, KernelIsInvariant, PTL

\* No list of the kernel holds a deleted thread.
THEOREM NoListHoldsDestroyed == Spec => []DestroyedIsUnreachable
<1>1. KernelInv => DestroyedIsUnreachable
  <2> SUFFICES ASSUME KernelInv, NEW t \in destroyed
               PROVE  /\ \A p \in Priorities : t \notin Members(readyListP[p])
                      /\ \A s \in Sems : t \notin Members(queue[s])
    BY DEF DestroyedIsUnreachable
  <2>1. t \in Threads /\ status[t] = "BLOCKED" /\ inP[t] = NULL
    BY Zenon DEF KernelInv, TypeOK, DestroyedIsFinished, Finished
  <2>2. \A p \in Priorities : t \notin Members(readyListP[p])
    BY <2>1, Zenon DEF KernelInv, ReadyIsListed
  <2>3. \A s \in Sems : t \notin Members(queue[s])
    BY <2>1, Zenon DEF KernelInv, BlockedIsQueued
  <2> QED BY <2>2, <2>3, Zenon
<1> QED BY <1>1, KernelIsInvariant, PTL

\* The switches of Yield and Dispatch leave no thread of higher priority ready.
LEMMA SwitchToHighest ==
  ASSUME KernelInv, ~NoneReady, currentThread' = FindNextToRun,
         \A t \in Threads \ {currentThread} :
           status'[t] = "READY" => status[t] = "READY"
  PROVE  \A t \in Threads \ {currentThread} :
           status'[t] = "READY" => priority[t] <= priority[currentThread']
<1>1. TypeOK /\ ReadyIsListed
  BY Zenon DEF KernelInv
<1>2. /\ priority[currentThread'] = NextPriority
      /\ NextPriority \in Priorities
      /\ \A q \in Priorities : q > NextPriority => readyListP[q] = <<>>
  BY <1>1, NextThread, NextPriorityIsHighest, Zenon
<1>3. SUFFICES ASSUME NEW t \in Threads, status[t] = "READY"
               PROVE  priority[t] <= NextPriority
  BY <1>2, Zenon
<1>4. priority[t] \in Priorities /\ t \in Members(readyListP[priority[t]])
  BY <1>1, <1>3, SMTT(60) DEF TypeOK, ReadyIsListed
<1>5. readyListP[priority[t]] # <<>>
  BY <1>4 DEF Members
<1> QED
  BY <1>2, <1>4, <1>5 DEF Priorities

\* The CPU goes to a thread of the highest priority that is ready, the one that
\* yields excepted, for any number of priorities.
THEOREM SwitchesToHighest == Spec => HighestRuns
<1> DEFINE A == currentThread' # currentThread =>
                  \A t \in Threads \ {currentThread} :
                    status'[t] = "READY" => priority[t] <= priority[currentThread']
<1>1. KernelInv /\ [Next]_vars => [A]_vars
  <2> SUFFICES ASSUME KernelInv, Next, currentThread' # currentThread
               PROVE  \A t \in Threads \ {currentThread} :
                        status'[t] = "READY" => priority[t] <= priority[currentThread']
    BY Zenon DEF vars
  <2>1. Yield \/ Dispatch
    BY Zenon DEF Next, Fork, P, Retry, V, Schedule, Interrupt, Finish, IdleReturn,
           Halt, schedVars
  <2>2. TypeOK /\ ReadyIsListed
    BY DEF KernelInv
  <2>3. ~NoneReady /\ currentThread' = FindNextToRun
    BY <2>1, Zenon DEF Yield, Dispatch, Run
  <2>4. FindNextToRun \in Threads /\ status \in [Threads -> ThreadStatus]
    BY <2>2, <2>3, NextThread, Zenon DEF TypeOK
  <2>5. \A t \in Threads \ {currentThread} :
          status'[t] = "READY" => status[t] = "READY"
    BY <2>1, <2>4 DEF Yield, Dispatch
  <2> QED BY <2>3, <2>5, SwitchToHighest, Zenon
<1>2. HighestRuns <=> [][A]_vars
  BY DEF HighestRuns
<1> QED
  BY <1>1, <1>2, KernelIsInvariant, PTL DEF Spec

-----------------------------------------------------------------------------
(* Types alone, for the modules in which ReadyIsListed does not hold *)

\* The ready lists FindNextToRun leaves and the thread it returns are typed.
LEMMA NextThreadType ==
  ASSUME TypeOK, ~NoneReady
  PROVE  /\ FindNextToRun \in Threads
         /\ WithoutNext \in [Priorities -> Seq(Threads)]
<1> DEFINE n == NextPriority
<1>1. n \in Priorities /\ readyListP[n] # <<>> /\ readyListP[n] \in Seq(Threads)
  BY NextPriorityIsHighest, Zenon DEF TypeOK
<1>2. Head(readyListP[n]) \in Threads /\ Tail(readyListP[n]) \in Seq(Threads)
  BY <1>1, HeadTailProperties, Zenon
<1> HIDE DEF n
<1> QED
  BY <1>1, <1>2, Zenon DEF FindNextToRun, WithoutNext, TypeOK, n

\* V keeps the types, whoever calls it.
LEMMA IncrementType ==
  ASSUME TypeOK, NEW s \in Sems, Increment(s)
  PROVE  /\ value' \in [Sems -> Nat]
         /\ queue' \in [Sems -> Seq(Threads)]
         /\ status' \in [Threads -> ThreadStatus]
         /\ readyListP' \in [Priorities -> Seq(Threads)]
<1>1. value' \in [Sems -> Nat]
  BY SMTT(60) DEF Increment, TypeOK
<1>2. CASE queue[s] = <<>>
  BY <1>1, <1>2, Zenon DEF Increment, TypeOK
<1>3. CASE queue[s] # <<>>
  <2> DEFINE head == Head(queue[s])
  <2>1. /\ queue' = [queue EXCEPT ![s] = Tail(@)]
        /\ status' = [status EXCEPT ![head] = "READY"]
        /\ readyListP' = [readyListP EXCEPT ![priority[head]] = Append(@, head)]
    BY <1>3, Zenon DEF Increment, ReadyToRun, Appended
  <2>2. queue[s] \in Seq(Threads)
    BY Zenon DEF TypeOK
  <2>3. head \in Threads /\ Tail(queue[s]) \in Seq(Threads)
    BY <1>3, <2>2, HeadTailProperties, Zenon
  <2> HIDE DEF head
  <2> QED BY <1>1, <2>1, <2>3, SMTT(30) DEF TypeOK, ThreadStatus
<1> QED BY <1>2, <1>3, Zenon

\* Every step of the kernel keeps the types, whatever the ready lists hold.
LEMMA TypeStep == TypeOK /\ [Next]_vars => TypeOK'
<1> SUFFICES ASSUME TypeOK, [Next]_vars PROVE TypeOK'
  OBVIOUS
<1> USE DEF TypeOK, semVars, schedVars
<1>1. ASSUME NEW t \in Threads, NEW p \in Priorities, Fork(t, p) PROVE TypeOK'
  BY <1>1, SMTT(30) DEF Fork, ThreadStatus
<1>2. CASE Yield
  <2>1. ~NoneReady /\ Run(FindNextToRun)
    BY <1>2, Zenon DEF Yield
  <2>2. FindNextToRun \in Threads /\ WithoutNext \in [Priorities -> Seq(Threads)]
    BY <2>1, NextThreadType, Zenon
  <2>3. readyListP' \in [Priorities -> Seq(Threads)]
    BY <1>2, <2>2, SMTT(30) DEF Yield, Appended
  <2>4. status' \in [Threads -> ThreadStatus]
    BY <1>2, <2>2, Zenon DEF Yield, ThreadStatus
  <2> QED BY <1>2, <2>1, <2>2, <2>3, <2>4, RunType, Zenon DEF Yield
<1>3. CASE Dispatch
  <2>1. ~NoneReady /\ Run(FindNextToRun)
    BY <1>3, Zenon DEF Dispatch
  <2>2. FindNextToRun \in Threads /\ WithoutNext \in [Priorities -> Seq(Threads)]
    BY <2>1, NextThreadType
  <2>3. status' \in [Threads -> ThreadStatus]
    BY <1>3, <2>2, Zenon DEF Dispatch, ThreadStatus
  <2> QED BY <1>3, <2>1, <2>2, <2>3, RunType, Zenon DEF Dispatch
<1>4. ASSUME NEW s \in Sems, P(s) \/ Retry(s) PROVE TypeOK'
  <2>1. CASE Block(s)
    BY <1>4, <2>1, SMTT(30) DEF P, Retry, Block, ThreadStatus
  <2>2. CASE Take(s)
    BY <1>4, <2>2, SMTT(30) DEF P, Retry, Take
  <2> QED BY <1>4, <2>1, <2>2, Zenon DEF P, Retry
<1>5. ASSUME NEW s \in Sems, V(s) PROVE TypeOK'
  <2>1. Increment(s)
    BY <1>5 DEF V
  <2> QED BY <1>5, <2>1, IncrementType, Zenon DEF V
<1>6. ASSUME NEW s \in Sems, Interrupt(s) PROVE TypeOK'
  <2>1. Increment(s)
    BY <1>6 DEF Interrupt
  <2>2. mode' \in {"System", "Idle", "Halted"} /\ pending' \in [Sems -> Nat]
    BY <1>6, SMTT(30) DEF Interrupt
  <2> QED BY <1>6, <2>1, <2>2, IncrementType, Zenon DEF Interrupt
<1>7. ASSUME NEW s \in Sems, Schedule(s) PROVE TypeOK'
  BY <1>7, SMTT(30) DEF Schedule
<1>8. CASE Finish
  BY <1>8 DEF Finish, ThreadStatus
<1>9. CASE IdleReturn \/ Halt
  BY <1>9, Zenon DEF IdleReturn, Halt
<1>10. CASE UNCHANGED vars
  BY <1>10, Zenon DEF vars
<1> QED
  BY <1>1, <1>2, <1>3, <1>4, <1>5, <1>6, <1>7, <1>8, <1>9, <1>10, Zenon DEF Next

-----------------------------------------------------------------------------
(* Lock *)

USE SchedulerAssumption, KernelAssumption, LockAssumption

-----------------------------------------------------------------------------
\* Taking an item out of a list leaves a list.
LEMMA WithoutType ==
  ASSUME NEW S, NEW list \in Seq(S), NEW x
  PROVE  Without(list, x) \in Seq(S)
<1>1. CASE x \notin Members(list)
  BY <1>1 DEF Without
<1>2. CASE x \in Members(list)
  <2> DEFINE k == CHOOSE k \in 1 .. Len(list) : list[k] = x
  <2>1. k \in 1 .. Len(list)
    BY <1>2, Zenon DEF Members
  <2> HIDE DEF k
  <2>2. SubSeq(list, 1, k - 1) \in Seq(S) /\ SubSeq(list, k + 1, Len(list)) \in Seq(S)
    BY <2>1, SubSeqProperties, SMTT(30)
  <2>3. SubSeq(list, 1, k - 1) \o SubSeq(list, k + 1, Len(list)) \in Seq(S)
    BY <2>2, ConcatProperties, Zenon
  <2> QED BY <1>2, <2>3, Zenon DEF Without, k
<1> QED BY <1>1, <1>2

\* ChangeQueuePriority keeps the ready lists typed, whatever it loses.
LEMMA ChangeQueuePriorityType ==
  ASSUME TypeOK, NEW th \in Threads, NEW p \in Priorities,
         readyListP[priority[th]] # <<>>
  PROVE  ChangeQueuePriority(th, p) \in [Priorities -> Seq(Threads)]
<1> DEFINE i == priority[th]
<1>1. /\ i \in Priorities /\ readyListP \in [Priorities -> Seq(Threads)]
      /\ readyListP[i] \in Seq(Threads)
  BY DEF TypeOK
<1>2. Tail(readyListP[i]) \in Seq(Threads)
  BY <1>1, HeadTailProperties, Zenon
<1>3. Without(Tail(readyListP[i]), th) \in Seq(Threads)
  BY <1>2, WithoutType, Zenon
<1>4. \A list \in Seq(Threads) : <<th>> \o list \in Seq(Threads)
  <2>1. <<th>> \in Seq(Threads)
    OBVIOUS
  <2> QED BY <2>1, ConcatProperties
<1> DEFINE w == Without(Tail(readyListP[i]), th)
<1> HIDE DEF w
<1>5. ChangeQueuePriority(th, p) =
        [readyListP EXCEPT ![i] = w,
           ![p] = IF th \in Members(readyListP[i]) THEN <<th>> \o @ ELSE @]
  BY DEF ChangeQueuePriority, w
<1>6. w \in Seq(Threads)
  BY <1>3 DEF w
<1> HIDE DEF i
<1>7. [readyListP EXCEPT ![i] = w] \in [Priorities -> Seq(Threads)]
  BY <1>1, <1>6, Zenon
<1> QED
  BY <1>1, <1>4, <1>5, <1>6, <1>7, SMTT(30)

-----------------------------------------------------------------------------
(* Each step preserves LockInv *)

\* Steps that touch neither the lock's semaphore nor a thread's place.
LEMMA LockFrameStep ==
  ASSUME LockInv, TypeOK', UNCHANGED <<inP, pc, thname>>, crashed' \in BOOLEAN,
         value'[sem] = value[sem]
  PROVE  LockInv' /\ Region' = Region
<1>1. Region' = Region
  BY Zenon DEF Region
<1> QED
  BY <1>1, Zenon DEF LockInv, LockTypeOK, MutualExclusion, ThnameIsHolder,
              SemCountsRegion, WaitersArePlaced

\* Steps that move the current thread without bringing it into the region or
\* out of it: it may change its place, or start or end a P.
LEMMA MoveStep ==
  ASSUME LockInv, TypeOK', NEW place \in Places, NEW s \in Sems \cup {NULL},
         pc' = [pc EXCEPT ![currentThread] = place],
         inP' = [inP EXCEPT ![currentThread] = s],
         UNCHANGED <<thname, crashed>>, value'[sem] = value[sem],
         place = "in" <=> pc[currentThread] = "in",
         (currentThread \in Region) <=>
           (place = "in" \/ (place = "own" /\ s = NULL)),
         s = sem => place = "own",
         s = semInvP => place = "donate",
         s \notin {NULL, sem, semInvP} => place \in {"out", "in"}
  PROVE  LockInv' /\ Region' = Region
<1>1. /\ TypeOK /\ LockTypeOK /\ MutualExclusion /\ ThnameIsHolder
      /\ SemCountsRegion /\ WaitersArePlaced
  BY Zenon DEF LockInv
<1>2. /\ currentThread \in Threads
      /\ pc' \in [Threads -> Places]
      /\ pc'[currentThread] = place /\ inP'[currentThread] = s
      /\ \A t \in Threads \ {currentThread} : pc'[t] = pc[t] /\ inP'[t] = inP[t]
  BY <1>1, SMTT(30) DEF TypeOK, LockTypeOK
<1>3. Region' = Region
  <2>1. \A t \in Threads : t \in Region' <=> t \in Region
    BY <1>2, Zenon DEF Region
  <2> QED BY <2>1, Zenon DEF Region
<1>4. LockTypeOK' /\ MutualExclusion' /\ SemCountsRegion'
  BY <1>1, <1>2, <1>3, Zenon DEF LockTypeOK, MutualExclusion, SemCountsRegion
<1>5. ThnameIsHolder'
  BY <1>1, <1>2, ZenonT(60) DEF ThnameIsHolder
<1>6. WaitersArePlaced'
  BY <1>1, <1>2, SMTT(30) DEF WaitersArePlaced
<1> QED
  BY <1>3, <1>4, <1>5, <1>6, Zenon DEF LockInv

\* The end of sem->P(): the region was empty and now holds the current thread.
LEMMA EnterRegionStep ==
  ASSUME LockInv, TypeOK', value[sem] > 0, value'[sem] = value[sem] - 1,
         pc' = [pc EXCEPT ![currentThread] = "own"],
         inP' = [inP EXCEPT ![currentThread] = NULL],
         UNCHANGED <<thname, crashed>>
  PROVE  LockInv' /\ Region = {} /\ Region' = {currentThread}
<1>1. /\ TypeOK /\ LockTypeOK /\ MutualExclusion /\ ThnameIsHolder
      /\ SemCountsRegion /\ WaitersArePlaced
  BY Zenon DEF LockInv
<1>2. Region = {} /\ value[sem] = 1
  BY <1>1, SMTT(30) DEF SemCountsRegion
<1>3. /\ currentThread \in Threads
      /\ pc' \in [Threads -> Places]
      /\ pc'[currentThread] = "own" /\ inP'[currentThread] = NULL
      /\ \A t \in Threads \ {currentThread} : pc'[t] = pc[t] /\ inP'[t] = inP[t]
  BY <1>1, ZenonT(60) DEF TypeOK, LockTypeOK, Places
<1>4. Region' = {currentThread}
  <2>1. \A t \in Threads : t \in Region' <=> t = currentThread
    BY <1>2, <1>3, SMTT(60) DEF Region
  <2> QED BY <1>3, <2>1 DEF Region
<1>5. LockTypeOK' /\ MutualExclusion' /\ SemCountsRegion'
  BY <1>1, <1>2, <1>3, <1>4 DEF LockTypeOK, MutualExclusion, SemCountsRegion
<1>6. ThnameIsHolder'
  <2>1. pc[currentThread] # "in"
    BY <1>2, <1>3, Zenon DEF Region
  <2> QED BY <1>1, <1>3, <2>1, Zenon DEF ThnameIsHolder
<1>7. WaitersArePlaced'
  BY <1>1, <1>3 DEF WaitersArePlaced
<1> QED
  BY <1>2, <1>4, <1>5, <1>6, <1>7, Zenon DEF LockInv

\* A thread in the region is alone there, and thname names no other thread.
LEMMA AloneInRegion ==
  ASSUME LockInv, NEW t \in Region
  PROVE  Region = {t} /\ value[sem] = 0 /\ thname \in {t, NULL}
<1>1. Region = {t} /\ value[sem] = 0
  BY Zenon DEF LockInv, MutualExclusion, SemCountsRegion
<1>2. thname # NULL => thname \in Region
  BY DEF LockInv, LockTypeOK, ThnameIsHolder, Region
<1> QED
  BY <1>1, <1>2, Zenon

\* The new holder writes its name down.
LEMMA OwnStep ==
  ASSUME LockInv, Own
  PROVE  LockInv' /\ Region' = Region
<1>1. /\ TypeOK /\ LockTypeOK /\ MutualExclusion /\ ThnameIsHolder
      /\ SemCountsRegion /\ WaitersArePlaced
  BY Zenon DEF LockInv
<1>2. /\ currentThread \in Threads /\ pc[currentThread] = "own"
      /\ inP[currentThread] = NULL /\ currentThread \in Region
      /\ thname' = currentThread /\ UNCHANGED <<vars, crashed>>
      /\ pc' = [pc EXCEPT ![currentThread] = "in"]
  BY <1>1, Zenon DEF Own, Running, Region, Goto, TypeOK
<1>3. /\ pc' \in [Threads -> Places] /\ pc'[currentThread] = "in"
      /\ \A t \in Threads \ {currentThread} : pc'[t] = pc[t]
  BY <1>1, <1>2, Zenon DEF LockTypeOK, Places
<1>4. UNCHANGED <<inP, value, currentThread>> /\ TypeOK'
  BY <1>1, <1>2, TypeStep, Zenon DEF vars, schedVars, semVars
<1>5. Region' = Region
  <2>1. \A t \in Threads : t \in Region' <=> t \in Region
    BY <1>2, <1>3, <1>4, Zenon DEF Region
  <2> QED BY <2>1, Zenon DEF Region
<1>6. LockTypeOK' /\ MutualExclusion' /\ SemCountsRegion'
  BY <1>1, <1>2, <1>3, <1>4, <1>5, Zenon DEF LockTypeOK, MutualExclusion, SemCountsRegion
<1>7. ThnameIsHolder'
  <2>1. \A t \in Threads \ {currentThread} : pc[t] # "in"
    BY <1>2, AloneInRegion, Zenon DEF Region
  <2> QED BY <1>2, <1>3, <2>1, Zenon DEF ThnameIsHolder
<1>8. WaitersArePlaced'
  BY <1>1, <1>2, <1>3, <1>4, SMTT(30) DEF WaitersArePlaced
<1> QED
  BY <1>4, <1>5, <1>6, <1>7, <1>8, Zenon DEF LockInv

\* Release empties the region and raises the semaphore.
LEMMA ReleaseStep ==
  ASSUME LockInv, Release
  PROVE  LockInv' /\ Region = {currentThread} /\ Region' = {}
<1>1. /\ TypeOK /\ LockTypeOK /\ MutualExclusion /\ ThnameIsHolder
      /\ SemCountsRegion /\ WaitersArePlaced
  BY DEF LockInv
<1>2. /\ currentThread \in Threads /\ pc[currentThread] = "in"
      /\ V(sem) /\ Running
      /\ thname' = NULL /\ UNCHANGED <<inP, currentThread, crashed>>
      /\ pc' = [pc EXCEPT ![currentThread] = "out"]
      /\ value' = [value EXCEPT ![sem] = @ + 1]
  BY <1>1, Zenon DEF Release, Goto, TypeOK, V, Increment
<1>3. /\ pc' \in [Threads -> Places] /\ pc'[currentThread] = "out"
      /\ \A t \in Threads \ {currentThread} : pc'[t] = pc[t]
      /\ inP[currentThread] = NULL
  BY <1>1, <1>2, Zenon DEF LockTypeOK, Places, Running
<1>4. TypeOK'
  BY <1>1, <1>2, TypeStep, Zenon DEF Next
<1>5. Region = {currentThread} /\ value[sem] = 0
  BY <1>2, AloneInRegion, Zenon DEF Region
<1>6. Region' = {} /\ value'[sem] = 1
  <2>1. \A t \in Threads : t \notin Region'
    <3> SUFFICES ASSUME NEW t \in Threads PROVE t \notin Region'
      OBVIOUS
    <3>1. CASE t = currentThread
      BY <1>3, <3>1 DEF Region
    <3>2. CASE t # currentThread
      <4>1. t \notin Region /\ pc'[t] = pc[t] /\ inP'[t] = inP[t]
        BY <1>2, <1>3, <1>5, <3>2, ZenonT(60)
      <4> QED BY <4>1, Zenon DEF Region
    <3> QED BY <3>1, <3>2
  <2> QED BY <1>1, <1>2, <1>5, <2>1, SMTT(30) DEF Region, TypeOK
<1>7. LockTypeOK' /\ MutualExclusion' /\ SemCountsRegion'
  BY <1>1, <1>2, <1>3, <1>6, SMTT(60) DEF LockTypeOK, MutualExclusion, SemCountsRegion
<1>8. ThnameIsHolder'
  <2>1. \A t \in Threads : pc'[t] # "in"
    BY <1>6 DEF Region
  <2> QED BY <1>2, <2>1 DEF ThnameIsHolder
<1>9. WaitersArePlaced'
  BY <1>1, <1>2, <1>3, Zenon DEF WaitersArePlaced
<1> QED
  BY <1>4, <1>5, <1>6, <1>7, <1>8, <1>9, Zenon DEF LockInv

\* What a step may do to the region: nothing, or what one Acquire or one Release
\* of the abstract lock does.
RegionStep ==
  \/ Region' = Region
  \/ Region = {} /\ \E t \in Threads : Region' = {t}
  \/ Region' = {} /\ \E t \in Threads : Region = {t}

\* P of a semaphore from its call, or from its return from Sleep: the effect on
\* the value and on the thread.
LEMMA PEffect ==
  ASSUME TypeOK, NEW s \in Sems, P(s) \/ Retry(s)
  PROVE  \/ /\ inP' = [inP EXCEPT ![currentThread] = s]
            /\ value' = value
         \/ /\ inP' = [inP EXCEPT ![currentThread] = NULL]
            /\ value[s] > 0
            /\ value' = [value EXCEPT ![s] = @ - 1]
  BY Zenon DEF P, Retry, Block, Take

\* P or a retry inside P, of any semaphore, by a thread that is at the place from
\* which it calls it.
LEMMA PStep ==
  ASSUME LockInv, NEW s \in Sems, P(s) \/ Retry(s), NEW place \in Places,
         pc' = [pc EXCEPT ![currentThread] = place],
         UNCHANGED <<thname, crashed>>,
         currentThread \in Region => pc[currentThread] = "in",
         pc[currentThread] = "in" <=> place = "in",
         s = sem => place = "own",
         s = semInvP => place = "donate",
         s \notin {sem, semInvP} => place \in {"out", "in"}
  PROVE  LockInv' /\ RegionStep
<1>1. TypeOK /\ LockTypeOK
  BY Zenon DEF LockInv
<1>2. TypeOK' /\ currentThread \in Threads
  BY <1>1, TypeStep, Zenon DEF Next, TypeOK
<1>3. currentThread \in Region <=> pc[currentThread] = "in"
  BY <1>2, Zenon DEF Region
<1>4. CASE inP' = [inP EXCEPT ![currentThread] = s] /\ value' = value
  <2>1. (currentThread \in Region) <=> (place = "in" \/ (place = "own" /\ s = NULL))
    BY <1>3, Zenon
  <2> QED BY <1>2, <1>4, <2>1, MoveStep, Zenon DEF RegionStep
<1>5. CASE /\ inP' = [inP EXCEPT ![currentThread] = NULL]
           /\ value[s] > 0
           /\ value' = [value EXCEPT ![s] = @ - 1]
  <2>1. CASE s = sem
    <3>1. value'[sem] = value[sem] - 1 /\ place = "own" /\ value[sem] > 0
      BY <1>1, <1>5, <2>1, Zenon DEF TypeOK
    <3>2. LockInv' /\ Region = {} /\ Region' = {currentThread}
      BY <1>2, <1>5, <3>1, EnterRegionStep, Zenon
    <3> QED BY <1>2, <3>2, Zenon DEF RegionStep
  <2>2. CASE s # sem
    <3>1. value'[sem] = value[sem] /\ place # "own"
      BY <1>1, <1>5, <2>2, Zenon DEF TypeOK
    <3>2. (currentThread \in Region) <=>
            (place = "in" \/ (place = "own" /\ NULL = NULL))
      BY <1>3, <3>1, Zenon
    <3>3. NULL \notin {sem, semInvP}
      BY Zenon
    <3>4. LockInv' /\ Region' = Region
      BY <1>2, <1>5, <3>1, <3>2, <3>3, MoveStep, ZenonT(60)
    <3> QED BY <3>4, Zenon DEF RegionStep
  <2> QED BY <2>1, <2>2, Zenon
<1> QED
  BY <1>1, <1>4, <1>5, PEffect, Zenon

\* The steps of Other: those of threads outside Acquire, of the scheduler and of
\* the devices.
LEMMA OtherStep ==
  ASSUME LockInv, Other
  PROVE  LockInv' /\ RegionStep
<1>1. TypeOK /\ LockTypeOK /\ WaitersArePlaced
  BY Zenon DEF LockInv
<1>2. TypeOK' /\ currentThread \in Threads /\ crashed' \in BOOLEAN
  BY <1>1, TypeStep, Zenon DEF Other, Next, TypeOK, LockTypeOK
<1>3. /\ pc' = pc /\ UNCHANGED <<thname, crashed>>
      /\ pc' = [pc EXCEPT ![currentThread] = pc[currentThread]]
      /\ pc[currentThread] \in Places
  BY <1>1, <1>2 DEF Other, LockTypeOK
<1>4. ASSUME NEW s \in Sems \ {sem, semInvP}, P(s),
             pc[currentThread] \in {"out", "in"}
      PROVE  LockInv' /\ RegionStep
  BY <1>2, <1>3, <1>4, PStep, Zenon DEF Region
<1>5. ASSUME NEW s \in Sems, Retry(s)
      PROVE  LockInv' /\ RegionStep
  <2>1. inP[currentThread] = s /\ s # NULL
    BY <1>5, Zenon DEF Retry
  <2>2. /\ s = sem => pc[currentThread] = "own"
        /\ s = semInvP => pc[currentThread] = "donate"
        /\ s \notin {sem, semInvP} => pc[currentThread] \in {"out", "in"}
    BY <1>1, <1>2, <2>1, Zenon DEF WaitersArePlaced
  <2>3. currentThread \in Region => pc[currentThread] = "in"
    BY <2>1, Zenon DEF Region
  <2> QED BY <1>3, <1>5, <2>2, <2>3, PStep, Zenon
<1>6. ASSUME NEW s \in Sems \ {sem, semInvP}, V(s) \/ Interrupt(s) \/ Schedule(s)
      PROVE  LockInv' /\ RegionStep
  <2>1. UNCHANGED inP /\ value'[sem] = value[sem]
    BY <1>1, <1>6, Zenon DEF V, Interrupt, Schedule, Increment, semVars, TypeOK
  <2> QED BY <1>2, <1>3, <2>1, LockFrameStep, Zenon DEF RegionStep
<1>7. CASE \/ \E t \in Threads, p \in Priorities : Fork(t, p)
           \/ Finish \/ Yield \/ Dispatch \/ IdleReturn \/ Halt
  <2>1. UNCHANGED <<inP, value>>
    BY <1>7, Zenon DEF Fork, Finish, Yield, Dispatch, IdleReturn, Halt, semVars
  <2> QED BY <1>2, <1>3, <2>1, LockFrameStep, Zenon DEF RegionStep
<1> QED
  BY <1>4, <1>5, <1>6, <1>7 DEF Other

\* The donation, done or skipped, only moves the thread on inside Acquire.
LEMMA DonationStep ==
  ASSUME LockInv, Donate \/ SkipDonation
  PROVE  LockInv' /\ RegionStep
<1>1. TypeOK /\ LockTypeOK
  BY Zenon DEF LockInv
<1>2. /\ currentThread \in Threads /\ inP[currentThread] = NULL
      /\ pc[currentThread] = "donate" /\ currentThread \notin Region
      /\ pc' = [pc EXCEPT ![currentThread] = "invV"]
      /\ UNCHANGED <<semVars, thname, crashed>>
  BY <1>1, Zenon DEF Donate, SkipDonation, Running, Goto, Region, TypeOK, vars
<1>3. /\ inP' = [inP EXCEPT ![currentThread] = NULL]
      /\ value'[sem] = value[sem]
  BY <1>1, <1>2, Zenon DEF semVars, TypeOK
<1>4. TypeOK'
  <2>1. CASE Donate
    <3>1. /\ thname \in Threads /\ priority[currentThread] \in Priorities
          /\ readyListP[priority[thname]] # <<>>
      BY <1>1, <1>2, <2>1, Zenon DEF Donate, Inversion, LockTypeOK, TypeOK
    <3>2. readyListP' \in [Priorities -> Seq(Threads)]
      BY <1>1, <2>1, <3>1, ChangeQueuePriorityType, Zenon DEF Donate
    <3>3. priority' \in [Threads -> Priorities]
      BY <1>1, <2>1, <3>1, Zenon DEF Donate, TypeOK
    <3> QED BY <1>1, <2>1, <3>2, <3>3, Zenon DEF Donate, TypeOK, semVars
  <2>2. CASE SkipDonation
    BY <1>1, <2>2, TypeStep, Zenon DEF SkipDonation
  <2> QED BY <2>1, <2>2, Zenon
<1>5. "invV" \in Places /\ NULL \notin {sem, semInvP}
  BY Zenon DEF Places
<1>6. LockInv' /\ Region' = Region
  BY <1>2, <1>3, <1>4, <1>5, MoveStep, Zenon
<1> QED
  BY <1>6 DEF RegionStep

\* So does the V that ends it.
LEMMA EndDonationStep ==
  ASSUME LockInv, EndDonation
  PROVE  LockInv' /\ RegionStep
<1>1. TypeOK /\ LockTypeOK
  BY DEF LockInv
<1>2. /\ currentThread \in Threads /\ inP[currentThread] = NULL
      /\ pc[currentThread] = "invV" /\ currentThread \notin Region
      /\ pc' = [pc EXCEPT ![currentThread] = "semP"]
      /\ V(semInvP) /\ UNCHANGED <<inP, thname, crashed>>
  BY <1>1, Zenon DEF EndDonation, V, Running, Goto, Region, TypeOK
<1>3. /\ inP' = [inP EXCEPT ![currentThread] = NULL]
      /\ value'[sem] = value[sem]
  BY <1>1, <1>2, Zenon DEF V, Increment, TypeOK
<1>4. TypeOK'
  BY <1>1, <1>2, TypeStep, Zenon DEF Next
<1>5. "semP" \in Places /\ NULL \notin {sem, semInvP}
  BY Zenon DEF Places
<1>6. LockInv' /\ Region' = Region
  BY <1>2, <1>3, <1>4, <1>5, MoveStep, Zenon
<1> QED
  BY <1>6 DEF RegionStep

\* The two calls of P in Acquire.
LEMMA AcquireStep ==
  ASSUME LockInv, Acquire \/ Enter
  PROVE  LockInv' /\ RegionStep
<1>1. CASE Acquire
  <2>1. /\ P(semInvP) /\ pc' = [pc EXCEPT ![currentThread] = "donate"]
        /\ pc[currentThread] = "out" /\ UNCHANGED <<thname, crashed>>
    BY <1>1 DEF Acquire, Goto
  <2>2. currentThread \notin Region /\ "donate" \in Places
    BY <2>1 DEF Region, Places
  <2> QED BY <2>1, <2>2, PStep, Zenon
<1>2. CASE Enter
  <2>1. /\ P(sem) /\ pc' = [pc EXCEPT ![currentThread] = "own"]
        /\ pc[currentThread] = "semP" /\ UNCHANGED <<thname, crashed>>
    BY <1>2, SMTT(60) DEF Enter, Goto
  <2>2. currentThread \notin Region /\ "own" \in Places
    BY <2>1 DEF Region, Places
  <2> QED BY <2>1, <2>2, PStep, Zenon
<1> QED
  BY <1>1, <1>2

\* Every step preserves the invariant, and does to the region what the abstract
\* lock allows.
LEMMA LockNextInv == LockInv /\ [LockNext]_lockVars => LockInv' /\ RegionStep
<1> SUFFICES ASSUME LockInv, [LockNext]_lockVars PROVE LockInv' /\ RegionStep
  OBVIOUS
<1>1. TypeOK /\ LockTypeOK
  BY DEF LockInv
<1>2. CASE Acquire \/ Enter
  BY <1>2, AcquireStep, Zenon
<1>3. CASE Donate \/ SkipDonation
  BY <1>3, DonationStep, Zenon
<1>4. CASE EndDonation
  BY <1>4, EndDonationStep, Zenon
<1>5. CASE Own
  BY <1>5, OwnStep, Zenon DEF RegionStep
<1>6. CASE Release
  BY <1>1, <1>6, ReleaseStep, Zenon DEF RegionStep, TypeOK
<1>7. CASE Other
  BY <1>7, OtherStep
<1>8. CASE DonateCrash \/ UNCHANGED lockVars
  <2>1. /\ UNCHANGED <<vars, pc, thname>> /\ crashed' \in BOOLEAN
    BY <1>1, <1>8, Zenon DEF DonateCrash, lockVars, LockTypeOK
  <2>2. TypeOK' /\ UNCHANGED <<inP, value>>
    BY <1>1, <2>1, TypeStep DEF vars, semVars
  <2> QED BY <2>1, <2>2, LockFrameStep, Zenon DEF RegionStep
<1> QED
  BY <1>2, <1>3, <1>4, <1>5, <1>6, <1>7, <1>8, SMTT(30) DEF LockNext

\* The constructor makes the lock free.
LEMMA LockInitInv == LockInit => LockInv /\ Region = {}
<1> SUFFICES ASSUME LockInit PROVE LockInv /\ Region = {}
  OBVIOUS
<1>1. TypeOK
  BY InitInv, Zenon DEF LockInit, KernelInv
<1>2. \A t \in Threads : pc[t] = "out" /\ inP[t] = NULL
  BY Zenon DEF LockInit, Init
<1>3. Region = {}
  BY <1>2, Zenon DEF Region
<1>4. LockTypeOK /\ MutualExclusion /\ ThnameIsHolder /\ WaitersArePlaced
  BY <1>2, <1>3, Zenon DEF LockInit, LockTypeOK, MutualExclusion, ThnameIsHolder,
                    WaitersArePlaced, Places
<1>5. SemCountsRegion
  BY <1>3 DEF SemCountsRegion, LockInit, Init
<1> QED
  BY <1>1, <1>3, <1>4, <1>5, SMTT(60) DEF LockInv

-----------------------------------------------------------------------------
\* The value of sem and the threads in the region add up to one, for ever.
THEOREM LockIsInvariant == LockSpec => []LockInv
  BY LockInitInv, LockNextInv, PTL DEF LockSpec

\* Acquire and Release give mutual exclusion, for any number of threads and
\* priorities, also when priorities are donated.
THEOREM LockExcludes == LockSpec => []MutualExclusion
<1>1. LockInv => MutualExclusion
  BY Zenon DEF LockInv
<1> QED BY <1>1, LockIsInvariant, PTL

\* thname names exactly the thread whose Acquire has returned: the ASSERT in
\* Release never fails for it.
THEOREM LockKnowsItsHolder == LockSpec => []ThnameIsHolder
<1>1. LockInv => ThnameIsHolder
  BY DEF LockInv
<1> QED BY <1>1, LockIsInvariant, PTL

\* Lock implements the abstract lock.
THEOREM LockImplementsAbstractLock == LockSpec => ImplementsLock
<1>1. Region = {} => Holder = NULL
  BY DEF Holder
<1>2. ASSUME NEW t \in Threads, Region = {t} PROVE Holder = t
  BY <1>2, Zenon DEF Holder
<1>3. LockInit => AL!Init
  BY <1>1, LockInitInv, Zenon DEF AL!Init
<1>4. LockInv /\ [LockNext]_lockVars => [AL!Next]_Holder
  <2> SUFFICES ASSUME RegionStep PROVE [AL!Next]_Holder
    BY LockNextInv, Zenon
  <2>1. CASE Region' = Region
    BY <2>1 DEF Holder
  <2>2. ASSUME NEW t \in Threads, Region = {}, Region' = {t}
        PROVE  AL!Next
    <3>1. Holder = NULL /\ Holder' = t
      BY <2>2 DEF Holder
    <3> QED BY <3>1 DEF AL!Next, AL!Acquire
  <2>3. ASSUME NEW t \in Threads, Region' = {}, Region = {t}
        PROVE  AL!Next
    <3>1. Holder = t /\ Holder' = NULL
      BY <2>3 DEF Holder
    <3> QED BY <3>1 DEF AL!Next, AL!Release
  <2> QED BY <2>1, <2>2, <2>3, Zenon DEF RegionStep
<1> QED
  BY <1>3, <1>4, LockIsInvariant, PTL DEF LockSpec, ImplementsLock, AL!Spec

\* Without different priorities there is no donation, and every step of a lock's
\* user is a step of Kernel: its theorems hold of the whole.
THEOREM LockImplementsKernel == MaxPriority = 1 => (LockSpec => ImplementsKernel)
<1> SUFFICES ASSUME MaxPriority = 1 PROVE LockSpec => ImplementsKernel
  OBVIOUS
<1>1. LockInit => Init
  BY DEF LockInit
<1>2. LockInv /\ [LockNext]_lockVars => [Next]_vars
  <2> SUFFICES ASSUME LockInv, LockNext PROVE [Next]_vars
    BY Zenon DEF lockVars
  <2>1. ~Donate
    <3>1. \A t \in Threads : priority[t] = 0
      BY SMTT(30) DEF LockInv, TypeOK, Priorities
    <3> QED BY <3>1, SMTT(30) DEF Donate, Inversion, LockInv, LockTypeOK, TypeOK
  <2>2. CASE Acquire \/ EndDonation \/ Enter \/ Release
    BY <2>2, Zenon DEF Acquire, EndDonation, Enter, Release, Next
  <2>3. CASE DonateCrash \/ SkipDonation \/ Own
    BY <2>3, Zenon DEF DonateCrash, SkipDonation, Own
  <2>4. CASE Other
    BY <2>4 DEF Other, Next
  <2> QED BY <2>1, <2>2, <2>3, <2>4, Zenon DEF LockNext
<1> QED
  BY <1>1, <1>2, LockIsInvariant, PTL DEF LockSpec, ImplementsKernel, Spec
==============================================================================
